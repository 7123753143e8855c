---------------------------- MODULE LedService -----------------------------
(***************************************************************************)
(* What the counter behind endpoints 1 and 2 promises its host program:    *)
(* every request gets one answer, the value of the counter after it.       *)
(***************************************************************************)
EXTENDS Integers

CONSTANTS
  Modulo,        \* values of the counter (256 in the code)
  ErrorCode      \* what the counter is set to by an unknown request

VARIABLES count, request, answer

serviceVars == <<count, request, answer>>

Values == 0..Modulo - 1
Requests == {"add", "clear", "reset", "unknown"}
Packets == Requests \cup {"no byte"}
None == -1     \* no answer is ready

\* A packet without a byte is taken for any request.
Meanings(packet) == IF packet \in Requests THEN {packet} ELSE Requests

After(r, n) == CASE r = "add" -> (n + 1) % Modulo
                 [] r = "clear" -> 0
                 [] r = "reset" -> n
                 [] OTHER -> ErrorCode

ServiceInit == count \in Values /\ request = "none" /\ answer = None

Ask == /\ request = "none" /\ answer = None
       /\ request' \in Packets
       /\ UNCHANGED <<count, answer>>

\* The counter takes the request and the answer is its new value.
Reply == /\ request # "none"
         /\ \E r \in Meanings(request) : count' = After(r, count)
         /\ answer' = count'
         /\ request' = "none"

Receive == answer # None /\ answer' = None /\ UNCHANGED <<count, request>>

\* The trace of the control pipe counts in the same variable.
Traced == count' = (count + 1) % Modulo /\ UNCHANGED <<request, answer>>

ServiceNext == Ask \/ Reply \/ Receive \/ Traced
Service == ServiceInit /\ [][ServiceNext]_serviceVars
=============================================================================
