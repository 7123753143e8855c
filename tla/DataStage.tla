----------------------------- MODULE DataStage -----------------------------
(***************************************************************************)
(* One control read (GET_DESCRIPTOR) from the moment its request is handed *)
(* to Chap9_BurstTransmitEP0 until the status stage is acknowledged.  The  *)
(* handler writes the first packet; each packet the host takes raises the  *)
(* endpoint 0 IN interrupt, whose handler Isr_Ep00TxDone writes the next.  *)
(* The host stops at a short packet or when it has what it asked for, and  *)
(* sends the zero length OUT packet that Isr_Ep00RxDone takes as the       *)
(* handshake, possibly before the interrupt of its last IN is handled; the *)
(* dispatcher then runs the OUT handler first (ISR.c:68-71).               *)
(***************************************************************************)
EXTENDS ControlXfer

CONSTANT MaxLength            \* bound of the lengths tried

ASSUME MaxLengthAssumption == MaxLength \in Nat

VARIABLES
  asked,       \* wLength of the request
  available,   \* sizeof the descriptor
  DCP_state,   \* bD13flags.bits.DCP_state
  wLength,     \* ControlData.wLength
  wCount,      \* ControlData.wCount
  inFifo,      \* the EP0 IN FIFO is "empty" or holds a "valid" packet ...
  inLen,       \* ... of this many bytes
  irqs,        \* endpoint interrupts pending in the interrupt register
  received,    \* bytes the host has received
  hostStage    \* stage of the transfer the host is in

vars == <<asked, available, DCP_state, wLength, wCount,
          inFifo, inLen, irqs, received, hostStage>>

\* What the host can expect of the transfer.
Due == IF asked <= available THEN asked ELSE available

TypeOK == /\ asked \in Nat /\ available \in Nat
          /\ DCP_state \in DCPStates
          /\ wLength \in Nat /\ wCount \in Nat
          /\ inFifo \in {"empty", "valid"} /\ inLen \in 0..EP0_PACKET_SIZE
          /\ irqs \subseteq {"EP0IN", "EP0OUT"}
          /\ received \in Nat
          /\ hostStage \in {"data", "status", "done"}

\* SetupToken_Handler has stored the request and its length.
Init == /\ asked \in 0..MaxLength
        /\ available \in 0..MaxLength
        /\ DCP_state = "REQUESTPROC"
        /\ wLength = asked
        /\ wCount = 0
        /\ inFifo = "empty" /\ inLen = 0
        /\ irqs = {}
        /\ received = 0
        /\ hostStage = "data"

\* Hal4D13_WriteEndpoint on the control IN endpoint: fill and validate.
WriteEndpoint(n) == /\ inFifo' = "valid"
                    /\ inLen' = n

\* Chap9_BurstTransmitEP0, run by the main loop with interrupts masked.
BurstTransmitEP0 ==
  /\ DCP_state = "REQUESTPROC"
  /\ wLength' = BurstLength(wLength, available)
  /\ wCount' = NextPacket(wLength')
  /\ WriteEndpoint(NextPacket(wLength'))
  /\ DCP_state' = StateAfterPacket(wLength')
  /\ UNCHANGED <<asked, available, irqs, received, hostStage>>

\* Isr_Ep00TxDone: clear the interrupt; in the data stage send what is left,
\* a zero length packet when that is nothing.
Isr_Ep00TxDone ==
  /\ "EP0IN" \in irqs
  /\ DCP_state # "REQUESTPROC"
  /\ irqs' = irqs \ {"EP0IN"}
  /\ IF DCP_state = "DATAIN"
     THEN LET left == wLength - wCount
          IN /\ WriteEndpoint(NextPacket(left))
             /\ wCount' = wCount + NextPacket(left)
             /\ DCP_state' = StateAfterPacket(left)
     ELSE UNCHANGED <<inFifo, inLen, wCount, DCP_state>>
  /\ UNCHANGED <<asked, available, wLength, received, hostStage>>

\* Isr_Ep00RxDone on the host's zero length status packet: the handshake of a
\* transfer that waits for one, an error when the pipe is idle.
Isr_Ep00RxDone ==
  /\ "EP0OUT" \in irqs
  /\ irqs' = irqs \ {"EP0OUT"}
  /\ DCP_state' = CASE DCP_state = "HANDSHAKE" -> "IDLE"
                    [] DCP_state = "IDLE" -> "STALL"
                    [] OTHER -> DCP_state
  /\ UNCHANGED <<asked, available, wLength, wCount, inFifo, inLen,
                 received, hostStage>>

\* The host polls with an IN token and takes the packet; while the FIFO is
\* empty the chip answers NAK and nothing changes.  A short packet, or the
\* last byte it asked for, ends the data stage; a request for no bytes has
\* none, and its only packet is the status stage.
HostIn ==
  /\ inFifo = "valid"
  /\ hostStage = "data"
  /\ inFifo' = "empty"
  /\ irqs' = irqs \cup {"EP0IN"}
  /\ received' = received + inLen
  /\ hostStage' = IF asked = 0 THEN "done"
                  ELSE IF inLen < EP0_PACKET_SIZE \/ received' >= asked
                  THEN "status" ELSE "data"
  /\ UNCHANGED <<asked, available, DCP_state, wLength, wCount, inLen>>

\* The host sends the zero length OUT packet of the status stage.
HostStatus ==
  /\ hostStage = "status"
  /\ hostStage' = "done"
  /\ irqs' = irqs \cup {"EP0OUT"}
  /\ UNCHANGED <<asked, available, DCP_state, wLength, wCount, inFifo, inLen,
                 received>>

Next == \/ BurstTransmitEP0 \/ Isr_Ep00TxDone \/ Isr_Ep00RxDone
        \/ HostIn \/ HostStatus

Spec == Init /\ [][Next]_vars

Fairness == /\ WF_vars(BurstTransmitEP0)
            /\ WF_vars(Isr_Ep00TxDone)
            /\ WF_vars(Isr_Ep00RxDone)
            /\ WF_vars(HostIn)
            /\ WF_vars(HostStatus)

FairSpec == Spec /\ Fairness
-----------------------------------------------------------------------------
(* Properties *)

\* Nothing is lost or sent twice: what the driver has accounted for is what
\* the host has received plus the packet waiting in the FIFO.
BytesConserved == wCount = received + (IF inFifo = "valid" THEN inLen ELSE 0)

\* A host that ends its data stage has every byte due and not one more, also
\* when the length is an exact multiple of the packet size, where the last
\* packet is full and a zero length packet may have to follow.
ExactDelivery == hostStage # "data" => received = Due

\* The driver never leaves the data stage early and never stalls in it: in
\* DATAIN a packet is in the FIFO or its interrupt is pending.
DataStageMoves == DCP_state = "DATAIN" => inFifo = "valid" \/ "EP0IN" \in irqs

\* A control read that the host completes is never answered by a stall: its
\* status packet always finds the driver waiting for a handshake, or still in
\* the data stage when the interrupt of the last IN is handled after it.
NoSpuriousStall == DCP_state # "STALL"

\* The host is always served: the transfer finishes.
TransferFinishes == <>(hostStage = "done")

\* The data stage keeps the promise made to the host.
CR == INSTANCE ControlRead WITH due <- Due, finished <- (hostStage # "data")
RefinesControlRead == CR!Spec
=============================================================================
