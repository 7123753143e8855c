---------------------------- MODULE LedFunction ----------------------------
(***************************************************************************)
(* Isr_Ep01Done: a host program sends a packet to endpoint 1, the device   *)
(* counts, and answers with the counter on endpoint 2 (ISR.c, Unit1.cpp).  *)
(* The handler clears the interrupt of endpoint 1 first, reads the endpoint*)
(* twice, answers, and clears the interrupt once more; the chip and the    *)
(* host go on between any two of these steps.  The counter is a bit field  *)
(* of the device state which the trace of Isr_Ep00RxDone increments too.   *)
(***************************************************************************)
EXTENDS Integers

CONSTANTS
  Modulo,        \* bound: values of the 8-bit counter (256 in the code)
  ErrorCode      \* 0xcc

ASSUME LedAssumption ==
  Modulo \in Nat \ {0} /\ ErrorCode \in 0..Modulo - 1

VARIABLES
  host,          \* "idle" or "waiting" for the answer
  sent,          \* the last request of the host
  ep01, ep02,    \* the FIFOs of the two endpoints
  pending,       \* interrupts of endpoints that the chip reports
  isr,           \* where usb_isr is
  seen,          \* the endpoints of the interrupt register it has read
  bbuf,          \* first byte of the buffer of Isr_Ep01Done
  counter,       \* FOUR_RESERVED_BITS
  RESET_BITS,
  looping,       \* 1 until main leaves its loop
  overtaken      \* 1 once a packet has come before the second clear

vars == <<host, sent, ep01, ep02, pending, isr, seen, bbuf, counter,
          RESET_BITS, looping, overtaken>>

\* The first byte of a packet: 0xaa, 0x55, 0x99 and any other; a packet of no
\* bytes has none.
Requests == {"add", "clear", "reset", "unknown"}
Packets == Requests \cup {"no byte"}
Values == 0..Modulo - 1
Empty == -1

TypeOK ==
  /\ host \in {"idle", "waiting"} /\ sent \in Packets \cup {"none"}
  /\ ep01 \in Packets \cup {"empty"} /\ ep02 \in Values \cup {Empty}
  /\ pending \subseteq {"EP01", "EP02"} /\ seen \subseteq {"EP01", "EP02"}
  /\ isr \in {"out", "clear", "read", "bulk", "decide", "write", "again", "ep02"}
  /\ bbuf \in Requests
  /\ counter \in Values
  /\ RESET_BITS \in {0, 1} /\ looping \in {0, 1} /\ overtaken \in {0, 1}

Init ==
  /\ host = "idle" /\ sent = "none"
  /\ ep01 = "empty" /\ ep02 = Empty
  /\ pending = {} /\ seen = {} /\ isr = "out"
  /\ bbuf \in Requests
  /\ counter = 0 /\ RESET_BITS = 0 /\ looping = 1 /\ overtaken = 0

\* WritePort1: the host sends eight bytes, or another program something else,
\* as soon as it has its answer.
WritePort1 ==
  /\ host = "idle" /\ ep01 = "empty"
  /\ ep01' \in Packets
  /\ sent' = ep01'
  /\ host' = "waiting"
  /\ pending' = pending \cup {"EP01"}
  /\ UNCHANGED <<ep02, isr, seen, bbuf, counter, RESET_BITS, looping, overtaken>>

\* ReadPort2 has returned the answer.
ReadPort2 ==
  /\ host = "waiting" /\ ep02 # Empty
  /\ ep02' = Empty
  /\ host' = "idle"
  /\ pending' = pending \cup {"EP02"}
  /\ UNCHANGED <<sent, ep01, isr, seen, bbuf, counter, RESET_BITS, looping, overtaken>>

\* usb_isr reads the interrupt register and goes through the endpoints.
Enter ==
  /\ isr = "out" /\ looping = 1 /\ pending # {}
  /\ seen' = pending
  /\ isr' = IF "EP01" \in pending THEN "clear" ELSE "ep02"
  /\ UNCHANGED <<host, sent, ep01, ep02, pending, bbuf, counter, RESET_BITS,
                 looping, overtaken>>

\* Isr_Ep01Done: the status of endpoint 1 is read, which clears its interrupt.
ClearInterrupt ==
  /\ isr = "clear"
  /\ pending' = pending \ {"EP01"}
  /\ isr' = "read"
  /\ UNCHANGED <<host, sent, ep01, ep02, seen, bbuf, counter, RESET_BITS,
                 looping, overtaken>>

\* The first byte, if there is one, else what the stack held.
FirstByte(packet) == IF packet \in Requests THEN {packet} ELSE Requests

\* Hal4D13_ReadEndpoint(EPINDEX4EP01, bbuf, 8): it frees the endpoint.
ReadEndpoint ==
  /\ isr = "read"
  /\ bbuf' \in FirstByte(ep01)
  /\ ep01' = "empty"
  /\ isr' = "bulk"
  /\ UNCHANGED <<host, sent, ep02, pending, seen, counter, RESET_BITS,
                 looping, overtaken>>

\* Hal4D13_ReadBulkEndpoint(EPINDEX4EP01, bbuf, 1): an empty endpoint gives a
\* length of 0 and leaves the byte alone, a new packet would replace it.
ReadBulkEndpoint ==
  /\ isr = "bulk"
  /\ bbuf' = IF ep01 \in Requests THEN ep01 ELSE bbuf
  /\ ep01' = "empty"
  /\ isr' = "decide"
  /\ UNCHANGED <<host, sent, ep02, pending, seen, counter, RESET_BITS,
                 looping, overtaken>>

Count_WrongKeeps(request) ==
  CASE request = "add" -> (counter + 1) % Modulo
    [] request = "clear" -> 0
    [] OTHER -> counter

\* What the request makes of the counter.
Count(request) ==
  CASE request = "add" -> (counter + 1) % Modulo
    [] request = "clear" -> 0
    [] request = "reset" -> counter
    [] OTHER -> ErrorCode

Decide ==
  /\ isr = "decide"
  /\ counter' = Count(bbuf)
  /\ RESET_BITS' = IF bbuf = "reset" THEN 1 ELSE RESET_BITS
  /\ isr' = "write"
  /\ UNCHANGED <<host, sent, ep01, ep02, pending, seen, bbuf, looping, overtaken>>

\* Hal4D13_WriteEndpoint(EPINDEX4EP02, bbuf, 8).
WriteEndpoint ==
  /\ isr = "write"
  /\ ep02' = counter
  /\ isr' = "again"
  /\ UNCHANGED <<host, sent, ep01, pending, seen, bbuf, counter, RESET_BITS,
                 looping, overtaken>>

AfterEp01 == IF "EP02" \in seen THEN "ep02" ELSE "out"

ClearAgain_WrongAnswer ==
  /\ isr = "again"
  /\ pending' = pending \ {"EP01"}
  /\ ep02' = Empty
  /\ overtaken' = IF ep01 # "empty" THEN 1 ELSE overtaken
  /\ isr' = AfterEp01
  /\ UNCHANGED <<host, sent, ep01, seen, bbuf, counter, RESET_BITS, looping>>

\* The interrupt of endpoint 1 is cleared once more, with that of any packet
\* the host has sent since it read the answer.
ClearAgain ==
  /\ isr = "again"
  /\ pending' = pending \ {"EP01"}
  /\ overtaken' = IF ep01 # "empty" THEN 1 ELSE overtaken
  /\ isr' = AfterEp01
  /\ UNCHANGED <<host, sent, ep01, ep02, seen, bbuf, counter, RESET_BITS, looping>>

Isr_Ep02Done_WrongClearsBoth ==
  /\ isr = "ep02"
  /\ pending' = {}
  /\ isr' = "out"
  /\ UNCHANGED <<host, sent, ep01, ep02, seen, bbuf, counter, RESET_BITS,
                 looping, overtaken>>

Isr_Ep02Done ==
  /\ isr = "ep02"
  /\ pending' = pending \ {"EP02"}
  /\ isr' = "out"
  /\ UNCHANGED <<host, sent, ep01, ep02, seen, bbuf, counter, RESET_BITS,
                 looping, overtaken>>

\* Isr_Ep00RxDone: the argument of its trace is FOUR_RESERVED_BITS++.
Trace ==
  /\ isr = "out" /\ looping = 1
  /\ counter' = (counter + 1) % Modulo
  /\ UNCHANGED <<host, sent, ep01, ep02, pending, isr, seen, bbuf, RESET_BITS,
                 looping, overtaken>>

\* main sees RESET_BITS, disables interrupts and returns.
Leave ==
  /\ isr = "out" /\ looping = 1 /\ RESET_BITS = 1
  /\ looping' = 0
  /\ UNCHANGED <<host, sent, ep01, ep02, pending, isr, seen, bbuf, counter,
                 RESET_BITS, overtaken>>

Isr_Ep01Done == \/ ClearInterrupt \/ ReadEndpoint \/ ReadBulkEndpoint
                \/ Decide \/ WriteEndpoint \/ ClearAgain

Next == \/ WritePort1 \/ ReadPort2 \/ Enter \/ Isr_Ep01Done \/ Isr_Ep02Done
        \/ Trace \/ Leave

Spec == Init /\ [][Next]_vars

\* The processor enters and runs usb_isr, main looks at RESET_BITS, the host
\* polls endpoint 2.
Fairness == /\ WF_vars(Enter) /\ WF_vars(Isr_Ep01Done) /\ WF_vars(Isr_Ep02Done)
            /\ WF_vars(Leave) /\ WF_vars(ReadPort2)
FairSpec == Spec /\ Fairness
-----------------------------------------------------------------------------
(* Properties *)

\* A request is outstanding until the handler has decided; then the answer is
\* as good as given.
request == IF host = "waiting" /\ ep02 = Empty /\ isr # "write" THEN sent ELSE "none"
answer == IF isr = "write" THEN counter ELSE ep02

LED == INSTANCE LedService WITH count <- counter

\* The handler's steps, with the chip and the host going on in between, give
\* one answer to every request, and it is the counter after that request.
RefinesLedService == LED!Service

\* A request the host has sent is answered, with or without an interrupt of the
\* control pipe or of endpoint 2 in between, unless it came before usb_isr had
\* finished with the one before.
EveryRequestAnswered ==
  host = "waiting" /\ RESET_BITS = 0 ~> host = "idle" \/ overtaken = 1

\* The host can lose its request only by overtaking the second clear of
\* the interrupt in Isr_Ep01Done: in no other order of the steps of the handler,
\* the chip and the host is a packet left in the endpoint without an interrupt.
DeafOnlyWhenOvertaken ==
  isr = "out" /\ ep01 # "empty" /\ overtaken = 0 => "EP01" \in pending
=============================================================================
