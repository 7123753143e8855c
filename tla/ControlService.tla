--------------------------- MODULE ControlService ---------------------------
(***************************************************************************)
(* What the default control pipe promises a host that keeps its order, that*)
(* is, sends a request when the one before it is over or the device has    *)
(* been left alone for a while.  A transfer is a transaction: its request  *)
(* is executed once, as it was sent and on the settings its predecessors   *)
(* have left; the host gets the answer to this request in full or a stall  *)
(* for it, and a transfer that ends well has been executed before.         *)
(*                                                                         *)
(* A host out of order may see anything, but the settings of the device    *)
(* still change only by executing one of its requests or by a bus reset.   *)
(***************************************************************************)
EXTENDS Integers, Sequences

CONSTANTS
  Requests,        \* the requests of a host, with fields dir and length
  Fresh,           \* the settings the device starts with
  After(_, _),     \* the settings after a request was executed on others
  Answer(_, _),    \* what it is answered then, see NoAnswer
  Detached(_),     \* the settings while the bus is being reset
  Restarted(_)     \* the settings the device restarts with

VARIABLES
  sent,         \* the requests of the host so far
  stage, got,   \* the stage of the transfer under way, bytes moved in its data stage
  orderly,      \* 1 while the host keeps its order
  settings,     \* what the device has been set to
  answer        \* the answer to the last request

serviceVars == <<sent, stage, got, orderly, settings, answer>>

\* An answer: whether there is one, whether it holds data or an acknowledgement
\* (granted) or a stall (refused), the length of the data, and whether the
\* device goes on with it when the host is done.
NoAnswer == [executed |-> FALSE, granted |-> FALSE, refused |-> FALSE, length |-> 0,
             goesOn |-> FALSE]

Last == sent[Len(sent)]
FirstStage(r) == IF r.length = 0 THEN "statusIn"
                 ELSE IF r.dir = "in" THEN "dataIn" ELSE "dataOut"

ServiceInit == /\ sent = << >> /\ stage = "idle" /\ got = 0 /\ orderly = 1
               /\ settings = Fresh /\ answer = NoAnswer
-----------------------------------------------------------------------------
\* The host's turn: the transfer before is over.
InTurn == stage = "idle" /\ orderly = 1 /\ ~answer.goesOn

\* Out of turn the host may have waited long enough, or not.
Ask(r) == /\ sent' = Append(sent, r)
          /\ stage' = FirstStage(r) /\ got' = 0
          /\ answer' = NoAnswer
          /\ orderly' \in {0, 1} /\ (InTurn => orderly' = 1)
          /\ UNCHANGED settings

\* Once in a transfer; before its data are complete only to refuse it.
Execute == /\ orderly = 1 /\ stage # "idle" /\ ~answer.executed
           /\ answer' = Answer(Last, settings)
           /\ settings' = After(Last, settings)
           /\ stage = "dataOut" => answer'.refused
           /\ UNCHANGED <<sent, stage, got, orderly>>

\* A packet from the host.
Give == /\ orderly = 1 /\ stage = "dataOut" /\ ~answer.executed
        /\ got' \in got..Last.length
        /\ stage' = IF got' = Last.length THEN "statusIn" ELSE "dataOut"
        /\ UNCHANGED <<sent, orderly, settings, answer>>

\* A packet of the answer: part of it, or the end.
Receive == /\ orderly = 1 /\ stage = "dataIn" /\ answer.granted
           /\ got' \in got..answer.length
           /\ stage' \in {"dataIn", "statusOut"}
           /\ stage' = "statusOut" => got' = answer.length
           /\ UNCHANGED <<sent, orderly, settings, answer>>

Conclude == /\ orderly = 1 /\ stage \in {"statusIn", "statusOut"} /\ answer.granted
            /\ stage' = "idle"
            /\ UNCHANGED <<sent, got, orderly, settings, answer>>

Refuse == /\ orderly = 1 /\ stage # "idle" /\ answer.refused
          /\ stage' = "idle"
          /\ UNCHANGED <<sent, got, orderly, settings, answer>>

BusReset == /\ orderly' = 0 /\ stage' = "idle" /\ got' = 0
            /\ settings' = Detached(settings) /\ answer' = NoAnswer
            /\ UNCHANGED sent

\* Without order the stages mean nothing, and a request may be executed late,
\* more than once or not at all, but no other than those that were sent.
Disorder == /\ orderly = 0
            /\ stage' \in {"idle", "dataIn", "dataOut", "statusIn", "statusOut"}
            /\ got' \in Nat
            /\ settings' \in {settings, Restarted(settings)}
                                \cup {After(sent[i], settings) : i \in 1..Len(sent)}
            /\ UNCHANGED <<sent, orderly, answer>>

ServiceNext == \/ \E r \in Requests : Ask(r)
               \/ Execute \/ Give \/ Receive \/ Conclude \/ Refuse
               \/ BusReset \/ Disorder

Service == ServiceInit /\ [][ServiceNext]_serviceVars
=============================================================================
