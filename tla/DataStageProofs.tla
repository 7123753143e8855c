-------------------------- MODULE DataStageProofs --------------------------
(***************************************************************************)
(* For every packet size and every length: a control read delivers exactly *)
(* the bytes due, and implements ControlRead.                              *)
(***************************************************************************)
EXTENDS DataStage, TLAPS

\* Before the handler runs nothing has been sent.
BeforeHandler == /\ wLength = asked /\ wCount = 0
                 /\ inFifo = "empty" /\ irqs = {}
                 /\ received = 0
                 /\ hostStage = "data"

\* From then on the driver's count covers what was received and what waits,
\* only full packets leave the data stage open, and outside it all is sent.
AfterHandler == /\ wLength = Due
                /\ wCount <= Due
                /\ DCP_state = "DATAIN" => /\ inFifo = "valid" => inLen = EP0_PACKET_SIZE
                                           /\ inFifo = "valid" \/ "EP0IN" \in irqs
                /\ DCP_state # "DATAIN" => wCount = Due

\* A packet is written only after the interrupt of the one before it.
OnePacketAtATime == "EP0IN" \in irqs => inFifo = "empty"

\* The host's status packet comes once, and finds the driver ready for it.
HandshakeOrder == /\ hostStage # "done" => "EP0OUT" \notin irqs
                  /\ DCP_state = "IDLE" => "EP0OUT" \notin irqs /\ hostStage = "done"

IInv == /\ TypeOK
        /\ DCP_state \in {"REQUESTPROC", "DATAIN", "HANDSHAKE", "IDLE"}
        /\ IF DCP_state = "REQUESTPROC" THEN BeforeHandler ELSE AfterHandler
        /\ BytesConserved
        /\ OnePacketAtATime
        /\ HandshakeOrder
        /\ ExactDelivery

LEMMA InitIInv == Init => IInv
  BY MaxLengthAssumption, PacketSizeAssumption, SMTT(30)
     DEF Init, IInv, TypeOK, DCPStates, BeforeHandler, AfterHandler,
         BytesConserved, OnePacketAtATime, HandshakeOrder, ExactDelivery

\* A packet either fills the FIFO and leaves the data stage open, or carries
\* all that is left and closes it.
LEMMA PacketShape ==
  ASSUME NEW left \in Nat
  PROVE  \/ left >= EP0_PACKET_SIZE /\ NextPacket(left) = EP0_PACKET_SIZE
            /\ StateAfterPacket(left) = "DATAIN"
         \/ left < EP0_PACKET_SIZE /\ NextPacket(left) = left
            /\ StateAfterPacket(left) = "HANDSHAKE"
  BY PacketSizeAssumption, SMT DEF NextPacket, StateAfterPacket

LEMMA NextIInv == IInv /\ [Next]_vars => IInv'
<1> SUFFICES ASSUME IInv, [Next]_vars PROVE IInv'
  OBVIOUS
<1> USE PacketSizeAssumption
        DEF IInv, TypeOK, DCPStates, BeforeHandler, AfterHandler,
            BytesConserved, OnePacketAtATime, HandshakeOrder, ExactDelivery, Due
<1>1. CASE BurstTransmitEP0
  BY <1>1, SMTT(30) DEF BurstTransmitEP0, WriteEndpoint, BurstLength, NextPacket,
                        StateAfterPacket
<1>2. CASE Isr_Ep00TxDone
  <2>1. CASE DCP_state = "DATAIN"
    <3> DEFINE left == wLength - wCount
    <3>1. /\ inFifo' = "valid" /\ inLen' = NextPacket(left)
          /\ wCount' = wCount + NextPacket(left)
          /\ DCP_state' = StateAfterPacket(left)
          /\ irqs' = irqs \ {"EP0IN"}
          /\ UNCHANGED <<asked, available, wLength, received, hostStage>>
      BY <1>2, <2>1 DEF Isr_Ep00TxDone, WriteEndpoint
    <3>2. /\ left \in Nat /\ wCount + left = wLength
          /\ inFifo = "empty" \/ inFifo = "valid"
      BY <2>1, SMT
    <3>3. \/ left >= EP0_PACKET_SIZE /\ NextPacket(left) = EP0_PACKET_SIZE
             /\ StateAfterPacket(left) = "DATAIN"
          \/ left < EP0_PACKET_SIZE /\ NextPacket(left) = left
             /\ StateAfterPacket(left) = "HANDSHAKE"
      BY <3>2, PacketShape
    <3>4. /\ wCount = received /\ inFifo = "empty"
          /\ wLength = Due /\ Due' = Due
      BY <1>2, <2>1, <3>1 DEF Isr_Ep00TxDone
    <3>5. wCount' \in Nat /\ wCount' <= Due'
      BY <3>1, <3>2, <3>3, <3>4, PacketSizeAssumption
    <3> HIDE DEF left
    <3>6. TypeOK' /\ DCP_state' \in {"DATAIN", "HANDSHAKE"}
      BY <3>1, <3>2, <3>3, <3>5, SMTT(30)
    <3>7. AfterHandler'
      BY <3>1, <3>2, <3>3, <3>4, <3>5, SMTT(30)
    <3>8. BytesConserved' /\ OnePacketAtATime'
      BY <3>1, <3>2, <3>3, <3>4, SMTT(30)
    <3>9. HandshakeOrder' /\ ExactDelivery'
      BY <2>1, <3>1, <3>4, <3>6, SMTT(30)
    <3> QED
      BY <3>6, <3>7, <3>8, <3>9
  <2>2. CASE DCP_state # "DATAIN"
    BY <1>2, <2>2, SMTT(30) DEF Isr_Ep00TxDone
  <2> QED BY <2>1, <2>2
<1>3. CASE Isr_Ep00RxDone
  BY <1>3, SMTT(30) DEF Isr_Ep00RxDone
<1>4. CASE HostIn
  BY <1>4, SMTT(30) DEF HostIn
<1>5. CASE HostStatus
  BY <1>5, SMTT(30) DEF HostStatus
<1>6. CASE UNCHANGED vars
  BY <1>6, SMT DEF vars
<1> QED
  BY <1>1, <1>2, <1>3, <1>4, <1>5, <1>6 DEF Next

\* The inductive invariant holds of every behaviour of the data stage.
THEOREM Inductive == Spec => []IInv
  BY InitIInv, NextIInv, PTL DEF Spec

\* The variables keep their types: no packet is ever larger than the FIFO.
THEOREM TypeCorrect == Spec => []TypeOK
<1>1. IInv => TypeOK
  BY DEF IInv
<1> QED
  BY <1>1, Inductive, PTL

\* The driver's count is what the host has and what waits in the FIFO.
THEOREM Conservation == Spec => []BytesConserved
<1>1. IInv => BytesConserved
  BY DEF IInv
<1> QED
  BY <1>1, Inductive, PTL

\* A host that ends its data stage has exactly the bytes due.
THEOREM Delivery == Spec => []ExactDelivery
<1>1. IInv => ExactDelivery
  BY DEF IInv
<1> QED
  BY <1>1, Inductive, PTL

\* The driver in its data stage always has something under way.
THEOREM Moves == Spec => []DataStageMoves
<1>1. IInv => DataStageMoves
  BY DEF IInv, BeforeHandler, AfterHandler, DataStageMoves
<1> QED
  BY <1>1, Inductive, PTL

\* The host's status packet is never answered by a stall.
THEOREM NeverStalls == Spec => []NoSpuriousStall
<1>1. IInv => NoSpuriousStall
  BY DEF IInv, NoSpuriousStall
<1> QED
  BY <1>1, Inductive, PTL

\* Every step of the data stage is a delivery of ControlRead or leaves the
\* host's view as it is.
THEOREM Refinement == Spec => RefinesControlRead
<1>1. Init => CR!Init
  BY MaxLengthAssumption, SMT DEF Init, CR!Init, Due
<1>2. IInv /\ IInv' /\ [Next]_vars => [CR!Next]_CR!vars
  <2> SUFFICES ASSUME IInv, IInv', [Next]_vars PROVE [CR!Next]_CR!vars
    OBVIOUS
  <2>1. CASE HostIn
    <3>1. /\ received' = received + inLen
          /\ inLen \in Nat /\ received \in Nat /\ Due \in Nat /\ Due' = Due
          /\ hostStage = "data" /\ hostStage' \in {"data", "status", "done"}
          /\ received' <= Due
      BY <2>1, SMTT(30) DEF HostIn, IInv, TypeOK, BeforeHandler, AfterHandler,
                            BytesConserved, Due
    <3>2. hostStage' # "data" => received' = Due'
      BY DEF IInv, ExactDelivery
    <3>3. inLen \in 0..(Due - received)
      BY <3>1, SMT
    <3> QED
      BY <3>1, <3>2, <3>3 DEF CR!Next, CR!Deliver
  <2>2. CASE BurstTransmitEP0 \/ Isr_Ep00TxDone \/ Isr_Ep00RxDone
    BY <2>2 DEF BurstTransmitEP0, Isr_Ep00TxDone, Isr_Ep00RxDone, CR!vars, Due
  <2>3. CASE HostStatus
    BY <2>3 DEF HostStatus, CR!vars, Due
  <2>4. CASE UNCHANGED vars
    BY <2>4 DEF vars, CR!vars, Due
  <2> QED
    BY <2>1, <2>2, <2>3, <2>4 DEF Next
<1> QED
  BY <1>1, <1>2, Inductive, PTL DEF Spec, CR!Spec, RefinesControlRead
=============================================================================
