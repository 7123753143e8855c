---------------------------- MODULE ControlXfer ----------------------------
(***************************************************************************)
(* The bookkeeping of a control transfer on endpoint 0 that the main loop  *)
(* (CHAP_9.c) and the interrupt service routine (ISR.c) share: the states  *)
(* of the default control pipe and the splitting of a data stage into      *)
(* packets.  CONTROL_XFER.wLength is the number of bytes agreed for the    *)
(* transfer and CONTROL_XFER.wCount the number already written to the      *)
(* endpoint FIFO.                                                          *)
(*                                                                         *)
(* An operator whose name ends in _Wrong... is what a plausible slip in    *)
(* the code would make of the definition after it; no specification uses   *)
(* it.  It is there so that every property can be seen to fail.            *)
(***************************************************************************)
EXTENDS Integers

CONSTANT EP0_PACKET_SIZE      \* size of the endpoint 0 FIFOs, 64 on the chip

ASSUME PacketSizeAssumption == EP0_PACKET_SIZE \in Nat \ {0}

\* The states USBFSM4DCP_* that the driver assigns to bD13flags.bits.DCP_state.
DCPStates == {"IDLE", "DATAIN", "DATAOUT", "REQUESTPROC", "HANDSHAKE",
              "SETUPPROC", "STALL"}

BurstLength_WrongUnclipped(asked, available) == asked

\* Chap9_BurstTransmitEP0 clips the length the host asked for to the length
\* of the descriptor.
BurstLength(asked, available) == IF asked > available THEN available ELSE asked

NextPacket_WrongFull(left) == EP0_PACKET_SIZE

\* The packet written when `left` bytes of the data stage remain: a full one
\* when they fill it, else all that is left, which may be nothing at all.
NextPacket(left) == IF left >= EP0_PACKET_SIZE THEN EP0_PACKET_SIZE ELSE left

StateAfterPacket_WrongStrict(left) ==
  IF left > EP0_PACKET_SIZE THEN "DATAIN" ELSE "HANDSHAKE"

StateAfterPacket_WrongIdle(left) ==
  IF left >= EP0_PACKET_SIZE THEN "DATAIN" ELSE "IDLE"

\* The state after that packet: only a full packet keeps the data stage open.
StateAfterPacket(left) == IF left >= EP0_PACKET_SIZE THEN "DATAIN" ELSE "HANDSHAKE"
=============================================================================
