----------------------------- MODULE UsbDevice -----------------------------
(***************************************************************************)
(* The device states a host may rely on while it enumerates and configures *)
(* a device: a bus address is assigned in the default state, a             *)
(* configuration is selected once there is an address, and a bus reset     *)
(* takes the device back.  The address and the configuration are non-zero  *)
(* exactly in the states that have one.                                    *)
(***************************************************************************)
EXTENDS Integers

VARIABLES
  state,           \* "default", "address" or "configured"
  address,         \* bus address the device answers to, 0 when it has none
  configuration    \* selected configuration, 0 when there is none

vars == <<state, address, configuration>>

Init == state = "default" /\ address = 0 /\ configuration = 0

Reset == /\ state' = "default"
         /\ address' = 0
         /\ configuration' = 0

AssignAddress == /\ state \in {"default", "address"}
                 /\ state' = "address"
                 /\ address' \in 1..127
                 /\ configuration' = 0

Configure == /\ state \in {"address", "configured"}
             /\ state' = "configured"
             /\ configuration' \in 1..255
             /\ UNCHANGED address

Unconfigure == /\ state \in {"address", "configured"}
               /\ state' = "address"
               /\ configuration' = 0
               /\ UNCHANGED address

Next == Reset \/ AssignAddress \/ Configure \/ Unconfigure

Spec == Init /\ [][Next]_vars
=============================================================================
