--------------------------- MODULE ControlAnswers ---------------------------
(***************************************************************************)
(* The control pipe as the service it is to its host: ControlPipe with a   *)
(* history variable for the answer the driver has decided on, and the      *)
(* settings of the device, which is its record without the stall bits of   *)
(* endpoint 0.                                                             *)
(***************************************************************************)
EXTENDS ControlPipe

VARIABLE answer     \* the answer to the last request, if its transfer is clean

Settings(d) == [d EXCEPT !.stalled = @ \ EP0]

\* The operation that carries the data or the acknowledgement.
Gives(ops_) == \E i \in DOMAIN ops_ : ops_[i].op # "stall"
AnswerLength(r, ops_) ==
  IF ~Gives(ops_) \/ ops_[1].op = "stall" THEN 0
  ELSE IF ops_[1].op = "burst" THEN BurstLength(r.length, ops_[1].len) ELSE ops_[1].len

AnswerOf(r, h) ==
  [executed |-> TRUE,
   granted  |-> Gives(h.ops),
   refused  |-> h.device.stalled \cap EP0 # {} \/ \E i \in DOMAIN h.ops : h.ops[i].op = "stall",
   length   |-> AnswerLength(r, h.ops),
   goesOn   |-> Len(h.ops) > 1]

\* A request with too much data is refused by SetupToken_Handler and does not
\* reach its handler.
Outcome(r, s) == IF TooLong(r) THEN Reply(s, <<Stall>>) ELSE Handle(r, s, 0)
Answer(r, s) == AnswerOf(r, Outcome(r, s))
After(r, s) == Settings(Outcome(r, s).device)

Detached(s) == [s EXCEPT !.usbAddress = 0]

Pipe == INSTANCE ControlService
          WITH orderly <- clean, settings <- Settings(device),
               Fresh <- PowerOnDevice, Restarted <- AfterBusReset
-----------------------------------------------------------------------------
\* The steps at which the driver decides: main.c:84 calls the handler,
\* MAINLOOP.c:224 refuses.
Decides == \/ mpc = "request" /\ mpc' # "request"
           \/ mpc = "ack" /\ mpc' # "ack" /\ TooLong(sent[serving])

Records == CASE clean' = 0 \/ Len(sent') > Len(sent) -> answer' = Pipe!NoAnswer
             [] clean' = 1 /\ Len(sent') = Len(sent) /\ Decides
                  -> answer' = Answer(sent[serving], Settings(device))
             [] OTHER -> UNCHANGED answer

AnswersInit == Init /\ answer = Pipe!NoAnswer
AnswersNext == Next /\ Records
answersVars == <<vars, answer>>

AnswersSpec == AnswersInit /\ [][AnswersNext]_answersVars

\* Main loop and usb_isr together serve clean transfers one at a time, each
\* executed once and answered with what its handler has for it, although the
\* host may give up, reset and suspend at any point and the two share their
\* state; and whatever it does, the device is set by whole requests only.
RefinesControlService == Pipe!Service
=============================================================================
