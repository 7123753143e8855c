---------------------------- MODULE ControlRead ----------------------------
(***************************************************************************)
(* What the data stage of a control read promises its host, whatever the   *)
(* packet size and the interrupts in between: the host receives exactly    *)
(* `due` bytes, in order and never more, and only then takes the transfer  *)
(* for finished.                                                           *)
(***************************************************************************)
EXTENDS Integers

VARIABLES
  due,         \* bytes the transfer is about, fixed at its start
  received,    \* bytes the host has received
  finished     \* the host has everything and goes on to the status stage

vars == <<due, received, finished>>

Init == /\ due \in Nat
        /\ received = 0
        /\ finished = FALSE

\* One packet of n bytes reaches the host, which may see that it is the last.
Deliver == /\ ~finished
           /\ \E n \in 0..(due - received) : received' = received + n
           /\ finished' \in BOOLEAN
           /\ finished' => received' = due
           /\ UNCHANGED due

Next == Deliver

Spec == Init /\ [][Next]_vars
=============================================================================
