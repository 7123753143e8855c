------------------------- MODULE ControlPipeProofs -------------------------
(***************************************************************************)
(* The control pipe for every packet size, set of requests and number of   *)
(* transfers, resets and suspend events, under every interleaving of main  *)
(* loop, usb_isr and host: types and the bounds of the data stage; the     *)
(* phases a clean transfer goes through, and with them that no answer is   *)
(* left over from another transfer; that endpoint 0 stalls only what the   *)
(* driver refuses; that a read gives the host all the bytes it can have;   *)
(* and, from all of these, that the pipe implements ControlService.        *)
(***************************************************************************)
EXTENDS ControlAnswers, Chapter9Proofs

\* DeviceRequest holds a request the host has sent, from the moment it is read
\* to the moment it is handled.
Served == /\ serving <= Len(sent)
          /\ mpc \in {"decide", "ackTest", "ack", "request"} => serving >= 1
          /\ DCP_state \in {"REQUESTPROC", "DATAOUT"} => serving >= 1

\* A SETUP packet in the FIFO was sent, and so were the data the host counts.
Sent == /\ outFifo = "setup" => Len(sent) >= 1
        /\ stage = "dataOut" => Len(sent) >= 1 /\ got <= Current.length

\* The main loop has an operation to do where it does one, and only the first
\* of a handler starts a data stage.
Operating == /\ GoodOps(ops)
             /\ mpc \in {"respond", "commit"} => Len(ops) >= 1

\* From the choice of a descriptor to the accounting of its first packet the
\* main loop holds interrupts off, so usb_isr cannot continue it too early.
BurstMasked ==
  mpc \in {"respond", "commit"} /\ ops[1].op = "burst" =>
    /\ ipc = "off" /\ INT_Enabled = 0
    /\ mpc = "commit" => wCount = 0

IInv == TypeOK /\ InBounds /\ Served /\ Sent /\ Operating /\ BurstMasked

-----------------------------------------------------------------------------
(* Packets, devices, requests and operations *)

LEMMA Packets ==
  ASSUME NEW n \in Nat
  PROVE  /\ NextPacket(n) \in 0..EP0_PACKET_SIZE /\ NextPacket(n) <= n
         /\ StateAfterPacket(n) \in {"DATAIN", "HANDSHAKE"}
  BY PacketSizeAssumption DEF NextPacket, StateAfterPacket

\* Adding a packet no longer than what is missing.
LEMMA Sums ==
  ASSUME NEW g \in Nat, NEW l \in Nat, NEW n \in 0..EP0_PACKET_SIZE, n <= l - g
  PROVE  g + n \in Nat /\ g + n <= l
  BY PacketSizeAssumption

LEMMA StalledDevice ==
  ASSUME NEW d \in DeviceType PROVE Stalled(d) \in DeviceType
  BY DEF Stalled, DeviceType, ChipEndpoints, EP0, EP0OUT, EP0IN, MAX_ENDPOINTS

LEMMA AwakeDevice ==
  ASSUME NEW d \in DeviceType
  PROVE  [d EXCEPT !.stalled = @ \ EP0, !.usbAddress = 0] \in DeviceType
<1>1. d.stalled \ EP0 \in SUBSET ChipEndpoints /\ 0 \in 0..127
  BY DEF DeviceType
<1> QED
  BY <1>1 DEF DeviceType

LEMMA ResetDevice ==
  ASSUME NEW d \in DeviceType PROVE AfterBusReset(d) \in DeviceType
  BY DEF AfterBusReset, DeviceType

LEMMA FreshDevice == PowerOnDevice \in DeviceType
  BY DEF PowerOnDevice, DeviceType

\* The request in DeviceRequest, and the one of the host's transfer.
LEMMA Asked ==
  ASSUME TypeOK, NEW i \in 1..Len(sent) PROVE sent[i] \in RequestType
  BY PipeAssumption DEF TypeOK

\* What is left to do of a handler's operations starts no data stage.
LEMMA TailOps ==
  ASSUME NEW s, GoodOps(s), Len(s) >= 1
  PROVE  /\ GoodOps(Tail(s)) /\ Len(Tail(s)) = Len(s) - 1
         /\ Head(s) = s[1] /\ s[1] \in OperationType
         /\ Len(s) # 1 => Tail(s)[1].op # "burst"
<1>1. s \in Seq(OperationType) /\ Tail(s) \in Seq(OperationType)
      /\ Len(Tail(s)) = Len(s) - 1 /\ Head(s) = s[1] /\ s[1] \in OperationType
  BY DEF GoodOps
<1>2. \A i \in 1..Len(s) - 1 : Tail(s)[i] = s[i + 1]
  BY <1>1
<1>3. DOMAIN Tail(s) = 1..Len(s) - 1 /\ DOMAIN s = 1..Len(s)
  BY <1>1
<1>4. \A i \in DOMAIN s : i > 1 => s[i].op # "burst"
  BY DEF GoodOps
<1>5. \A i \in DOMAIN Tail(s) : Tail(s)[i].op # "burst"
  BY <1>1, <1>2, <1>3, <1>4
<1>6. Len(s) # 1 => 1 \in DOMAIN Tail(s)
  BY <1>1, <1>3
<1> QED
  BY <1>1, <1>5, <1>6 DEF GoodOps

-----------------------------------------------------------------------------
(* Every step preserves the invariant: the main loop *)

LEMMA Top_IInv ==
  ASSUME IInv, Top PROVE IInv'
<1>1. TypeOK'
  BY DEF IInv, TypeOK, Top, Main, isrVars, outVars, inVars, hostVars,
     DCPStates, MainPoints, Sources
<1>2. InBounds' /\ Served' /\ Sent' /\ Operating' /\ BurstMasked'
  BY DEF IInv, InBounds, Served, Sent, Operating, BurstMasked, Top, Main,
     isrVars, outVars, inVars, hostVars, TypeOK, Current
<1> QED
  BY <1>1, <1>2 DEF IInv

LEMMA CheckSetup_IInv ==
  ASSUME IInv, CheckSetup PROVE IInv'
<1>1. TypeOK'
  BY DEF IInv, TypeOK, CheckSetup, Main, isrVars, driverVars, outVars, inVars,
     hostVars, DCPStates, MainPoints, Sources
<1>2. InBounds' /\ Served' /\ Sent' /\ Operating' /\ BurstMasked'
  BY DEF IInv, InBounds, Served, Sent, Operating, BurstMasked, CheckSetup,
     Main, isrVars, driverVars, outVars, inVars, hostVars, TypeOK, Current
<1> QED
  BY <1>1, <1>2 DEF IInv

LEMMA SetupToken_IInv ==
  ASSUME IInv, SetupToken PROVE IInv'
<1>1. /\ <<Stall>> \in Seq(OperationType) /\ GoodOps(<<Stall>>)
      /\ Len(<<Stall>>) = 1 /\ <<Stall>>[1].op = "stall"
  BY SimpleOps DEF GoodOps, Stall
<1>2. outFifo' \in {"empty", "setup", "data"} /\ outLen' \in 0..EP0_PACKET_SIZE
  BY PacketSizeAssumption DEF IInv, TypeOK, SetupToken, ClearOut
<1>3. serving' \in 0..MaxSetups /\ mpc' \in {"decide", "respond"}
  BY DEF IInv, TypeOK, SetupToken
<1>4. ops' \in Seq(OperationType)
  BY <1>1 DEF IInv, TypeOK, SetupToken
<1>5. /\ Abort' \in {0, 1} /\ wLength' \in Nat /\ wCount' \in Nat
      /\ UNCHANGED <<isrVars, INT_Enabled, DCP_state, suspend, device, locked, ovwr,
                     inVars, irqs, hostVars>>
  BY DEF SetupToken
<1>6. TypeOK'
  BY <1>2, <1>3, <1>4, <1>5 DEF IInv, TypeOK, isrVars, inVars, hostVars, MainPoints
<1>7. InBounds'
  BY DEF InBounds, SetupToken
<1>8. Served'
  BY DEF IInv, TypeOK, Served, Sent, SetupToken, Main, hostVars
<1>9. Sent'
  BY DEF IInv, Sent, Current, SetupToken, ClearOut, hostVars
<1>10. Operating' /\ BurstMasked'
  BY <1>1 DEF IInv, Operating, BurstMasked, SetupToken, Main
<1> QED
  BY <1>6, <1>7, <1>8, <1>9, <1>10 DEF IInv

LEMMA Decide_IInv ==
  ASSUME IInv, Decide PROVE IInv'
<1>1. sent[serving].length \in Nat
  BY Asked DEF IInv, Served, TypeOK, Decide, Main, RequestType
<1>2. TypeOK'
  BY <1>1
  DEF IInv, TypeOK, Decide, Main, isrVars, outVars, inVars, hostVars,
      DCPStates, MainPoints, Sources
<1>3. InBounds'
  BY <1>1 DEF IInv, InBounds, Decide, Main, isrVars, outVars, inVars, hostVars
<1>4. Served'
  BY DEF IInv, Served, Decide, Main, isrVars, outVars, inVars, hostVars,
     TypeOK
<1>5. Sent' /\ Operating' /\ BurstMasked'
  BY DEF IInv, Sent, Operating, BurstMasked, Decide, Main, isrVars, outVars,
     inVars, hostVars, Current
<1> QED
  BY <1>2, <1>3, <1>4, <1>5 DEF IInv

LEMMA AckTest_IInv ==
  ASSUME IInv, AckTest PROVE IInv'
<1>1. TypeOK'
  BY StalledDevice, PacketSizeAssumption
  DEF IInv, TypeOK, AckTest, Main, isrVars, inVars, hostVars, DCPStates,
      MainPoints, Sources, Advance
<1>2. InBounds' /\ Served'
  BY DEF IInv, InBounds, Served, AckTest, Main, isrVars, inVars, hostVars,
     TypeOK, Advance
<1>3. Sent' /\ Operating' /\ BurstMasked'
  BY DEF IInv, Sent, Operating, BurstMasked, AckTest, Main, isrVars, inVars,
     hostVars, Current, Advance
<1> QED
  BY <1>1, <1>2, <1>3 DEF IInv

LEMMA AckSetup_IInv ==
  ASSUME IInv, AckSetup PROVE IInv'
<1>1. TypeOK'
  BY StalledDevice, PacketSizeAssumption
  DEF IInv, TypeOK, AckSetup, Main, isrVars, inVars, hostVars, DCPStates,
      MainPoints, Sources, Advance
<1>2. InBounds' /\ Served'
  BY DEF IInv, InBounds, Served, AckSetup, Main, isrVars, inVars, hostVars,
     TypeOK, Advance
<1>3. Sent' /\ Operating' /\ BurstMasked'
  BY DEF IInv, Sent, Operating, BurstMasked, AckSetup, Main, isrVars, inVars,
     hostVars, Current, Advance
<1> QED
  BY <1>1, <1>2, <1>3 DEF IInv

LEMMA CheckRequest_IInv ==
  ASSUME IInv, CheckRequest PROVE IInv'
<1>1. TypeOK'
  BY DEF IInv, TypeOK, CheckRequest, Main, isrVars, driverVars, outVars,
     inVars, hostVars, DCPStates, MainPoints, Sources
<1>2. InBounds' /\ Served' /\ Sent' /\ Operating' /\ BurstMasked'
  BY DEF IInv, InBounds, Served, Sent, Operating, BurstMasked, CheckRequest,
     Main, isrVars, driverVars, outVars, inVars, hostVars, TypeOK, Current
<1> QED
  BY <1>1, <1>2 DEF IInv

LEMMA DeviceRequest_IInv ==
  ASSUME IInv, DeviceRequest PROVE IInv'
<1>1. GoodReply(Handle(sent[serving], device, Abort))
  <2>1. sent[serving] \in RequestType
    BY Asked DEF IInv, Served, TypeOK, DeviceRequest, Main
  <2> QED
    BY <2>1, HandleReply DEF IInv, TypeOK
<1>2. GoodOps(ops') /\ (ops' # << >> => Len(ops') >= 1)
  BY <1>1 DEF DeviceRequest, GoodReply, GoodOps
<1>3. TypeOK'
  BY <1>1
  DEF IInv, TypeOK, DeviceRequest, Main, isrVars, outVars, inVars, hostVars,
      DCPStates, MainPoints, Sources, GoodReply, GoodOps
<1>4. InBounds' /\ Served' /\ Sent'
  BY DEF IInv, InBounds, Served, Sent, DeviceRequest, Main, isrVars, outVars,
     inVars, hostVars, TypeOK, Current
<1>5. Operating'
  BY <1>2
  DEF IInv, Operating, DeviceRequest, Main, isrVars, outVars, inVars, hostVars
<1>6. BurstMasked'
  BY DEF IInv, BurstMasked, DeviceRequest, Main, isrVars, outVars, inVars,
     hostVars
<1> QED
  BY <1>3, <1>4, <1>5, <1>6 DEF IInv

LEMMA Respond_IInv ==
  ASSUME IInv, Respond PROVE IInv'
<1> DEFINE o == Head(ops)
<1>1. o = ops[1] /\ o.op \in {"stall", "single", "burst"} /\ o.len \in Nat
  BY TailOps DEF IInv, Operating, Respond, Main, OperationType
<1>2. UNCHANGED <<ops, isrVars, INT_Enabled, DCP_state, suspend, Abort, serving,
                 outVars, irqs, hostVars>> /\ mpc' = "commit" /\ mpc = "respond"
  BY DEF Respond, Main
<1>3. CASE o.op = "stall"
  <2>1. UNCHANGED <<wLength, wCount, inVars>> /\ device' = Stalled(device)
    BY <1>3 DEF Respond
  <2>2. TypeOK'
    BY <1>2, <2>1, StalledDevice
    DEF IInv, TypeOK, isrVars, outVars, inVars, hostVars, MainPoints
  <2> QED
    BY <1>1, <1>2, <1>3, <2>1, <2>2
    DEF IInv, InBounds, Served, Sent, Current, Operating, BurstMasked, isrVars,
        outVars, hostVars
<1>4. CASE o.op = "single"
  <2>1. /\ UNCHANGED <<wLength, wCount, device>>
        /\ IF o.len <= EP0_PACKET_SIZE THEN WriteIn(o.len) ELSE UNCHANGED inVars
    BY <1>4 DEF Respond
  <2>2. TypeOK'
    BY <1>1, <1>2, <2>1, PacketSizeAssumption
    DEF IInv, TypeOK, WriteIn, isrVars, outVars, inVars, hostVars, MainPoints
  <2> QED
    BY <1>1, <1>2, <1>4, <2>1, <2>2
    DEF IInv, InBounds, Served, Sent, Current, Operating, BurstMasked, isrVars,
        outVars, hostVars
<1>5. CASE o.op = "burst"
  <2>1. /\ wCount' = 0 /\ wLength' = BurstLength(wLength, o.len)
        /\ WriteIn(NextPacket(wLength')) /\ UNCHANGED device
    BY <1>5 DEF Respond
  <2>2. wLength' \in Nat
    BY <1>1, <2>1 DEF IInv, TypeOK, BurstLength
  <2>3. NextPacket(wLength') \in 0..EP0_PACKET_SIZE
    BY <2>2, Packets
  <2>4. inFifo' \in 0..MaxSetups /\ inLen' \in 0..EP0_PACKET_SIZE
    BY <2>1, <2>3 DEF IInv, TypeOK, WriteIn, inVars
  <2>5. TypeOK'
    BY <1>2, <2>1, <2>2, <2>4
    DEF IInv, TypeOK, isrVars, outVars, hostVars, MainPoints
  <2> QED
    BY <1>1, <1>2, <1>5, <2>1, <2>2, <2>5
    DEF IInv, InBounds, Served, Sent, Current, Operating, BurstMasked, isrVars,
        outVars, hostVars
<1> QED
  BY <1>1, <1>3, <1>4, <1>5

LEMMA Commit_IInv ==
  ASSUME IInv, Commit PROVE IInv'
<1> DEFINE o == Head(ops)
<1>1. /\ o = ops[1] /\ o.op \in {"stall", "single", "burst"} /\ o.len \in Nat
      /\ GoodOps(Tail(ops)) /\ Len(Tail(ops)) = Len(ops) - 1 /\ Len(ops) \in Nat
      /\ Len(ops) # 1 => Tail(ops)[1].op # "burst"
  <2>1. GoodOps(ops) /\ Len(ops) >= 1 /\ Len(ops) \in Nat
    BY DEF IInv, Operating, GoodOps, Commit, Main
  <2> QED
    BY <2>1, TailOps DEF OperationType
<1>2. /\ UNCHANGED <<isrVars, suspend, Abort, serving, device, outVars, inVars,
                     irqs, hostVars>>
      /\ INT_Enabled' = 1 /\ ops' = Tail(ops) /\ mpc = "commit"
      /\ mpc' = IF Len(ops) = 1 THEN "top" ELSE "respond"
  BY DEF Commit, Main
<1>3. /\ DCP_state' = DCP_state \/ DCP_state' \in {"STALL", "HANDSHAKE", "DATAIN"}
      /\ wLength' \in Nat /\ wCount' \in Nat
      /\ InBounds'
  <2>1. CASE Abort = 1 \/ o.op = "stall"
    BY <1>1, <2>1 DEF IInv, TypeOK, InBounds, Commit
  <2>2. CASE Abort # 1 /\ o.op = "single"
    <3>1. DCP_state' = "HANDSHAKE" /\ wLength' = o.len /\ wCount' = o.len
      BY <2>2 DEF Commit
    <3> QED
      BY <1>1, <3>1 DEF InBounds
  <2>3. CASE Abort # 1 /\ o.op = "burst"
    <3>1. /\ wCount = 0 /\ wLength' = wLength /\ wLength \in Nat
          /\ wCount' = wCount + NextPacket(wLength)
          /\ DCP_state' = StateAfterPacket(wLength)
      BY <1>1, <1>2, <2>3 DEF IInv, TypeOK, BurstMasked, Commit
    <3>2. NextPacket(wLength) \in Nat /\ NextPacket(wLength) <= wLength
          /\ DCP_state' \in {"DATAIN", "HANDSHAKE"}
      BY <3>1, Packets, PacketSizeAssumption
    <3> QED
      BY <3>1, <3>2 DEF InBounds
  <2> QED
    BY <1>1, <2>1, <2>2, <2>3
<1>4. ops' \in Seq(OperationType) /\ mpc' \in MainPoints
  BY <1>1, <1>2 DEF GoodOps, MainPoints
<1>5. DCP_state' \in DCPStates
  BY <1>3 DEF IInv, TypeOK, DCPStates
<1>6. TypeOK'
  BY <1>2, <1>3, <1>4, <1>5 DEF IInv, TypeOK, isrVars, outVars, inVars, hostVars
<1>7. Served' /\ Sent'
  BY <1>2, <1>3 DEF IInv, Served, Sent, Current, outVars, hostVars
<1>8. Operating'
  BY <1>1, <1>2 DEF Operating, GoodOps
<1>9. BurstMasked'
  <2>1. mpc' \in {"respond", "commit"} => ops'[1].op # "burst"
    BY <1>1, <1>2
  <2> QED
    BY <2>1 DEF BurstMasked
<1> QED
  BY <1>3, <1>6, <1>7, <1>8, <1>9 DEF IInv

-----------------------------------------------------------------------------
(* usb_isr *)

LEMMA IsrEnter_IInv ==
  ASSUME IInv, IsrEnter PROVE IInv'
<1>1. TypeOK'
  BY DEF IInv, TypeOK, IsrEnter, mainVars, outVars, inVars, hostVars,
     DCPStates, MainPoints, Sources
<1>2. InBounds' /\ Served' /\ Sent' /\ Operating' /\ BurstMasked'
  BY DEF IInv, InBounds, Served, Sent, Operating, BurstMasked, IsrEnter,
     mainVars, outVars, inVars, hostVars, TypeOK, Current
<1> QED
  BY <1>1, <1>2 DEF IInv

LEMMA Isr_BusReset_IInv ==
  ASSUME IInv, Isr_BusReset PROVE IInv'
<1>1. TypeOK'
  BY ResetDevice
  DEF IInv, TypeOK, Isr_BusReset, mainVars, outVars, inVars, hostVars,
      DCPStates, MainPoints, Sources, ExitIsr
<1>2. InBounds' /\ Served' /\ Sent' /\ Operating' /\ BurstMasked'
  BY DEF IInv, InBounds, Served, Sent, Operating, BurstMasked, Isr_BusReset,
     mainVars, outVars, inVars, hostVars, TypeOK, Current, ExitIsr
<1> QED
  BY <1>1, <1>2 DEF IInv

LEMMA Isr_SuspendChange_IInv ==
  ASSUME IInv, Isr_SuspendChange PROVE IInv'
<1>1. TypeOK'
  BY DEF IInv, TypeOK, Isr_SuspendChange, mainVars, outVars, inVars, hostVars,
     DCPStates, MainPoints, Sources, ExitIsr
<1>2. InBounds' /\ Served' /\ Sent' /\ Operating' /\ BurstMasked'
  BY DEF IInv, InBounds, Served, Sent, Operating, BurstMasked,
     Isr_SuspendChange, mainVars, outVars, inVars, hostVars, TypeOK, Current,
     ExitIsr
<1> QED
  BY <1>1, <1>2 DEF IInv

LEMMA Isr_Ep00RxDone_IInv ==
  ASSUME IInv, Isr_Ep00RxDone PROVE IInv'
<1>1. /\ ovwr' = 0 /\ irqs' = irqs \ {"EP0OUT"}
      /\ UNCHANGED <<mainVars, i_st, suspend, serving, wLength, locked, inVars,
                     hostVars>>
      /\ ipc = "ep0Out" /\ ipc' \in {"ep0In", "off"} /\ INT_Enabled' \in {0, 1}
  BY DEF IInv, TypeOK, Isr_Ep00RxDone, ExitIsr
<1>2. SetupReceived \/ DataReceived
  BY DEF Isr_Ep00RxDone
<1>3. /\ Abort' \in {0, 1} /\ wCount' \in Nat
      /\ outLen' \in 0..EP0_PACKET_SIZE
  <2>1. CASE SetupReceived
    BY <2>1 DEF IInv, TypeOK, SetupReceived
  <2>2. CASE DataReceived
    BY <2>2, PacketSizeAssumption DEF IInv, TypeOK, DataReceived, ClearOut
  <2> QED
    BY <1>2, <2>1, <2>2
<1>4. outFifo' \in {"empty", outFifo}
  BY <1>2 DEF SetupReceived, DataReceived, ClearOut
<1>5. device' \in DeviceType
  <2>1. device' = device \/ device' = Stalled(device)
    BY <1>2 DEF SetupReceived, DataReceived
  <2> QED
    BY <2>1, StalledDevice DEF IInv, TypeOK
<1>6. \/ DCP_state' \in {"SETUPPROC", "IDLE", "STALL"}
      \/ DCP_state = "DATAOUT" /\ DCP_state' \in {"REQUESTPROC", "DATAOUT"}
      \/ DCP_state' = DCP_state /\ wCount' = wCount
  BY <1>2 DEF SetupReceived, DataReceived
<1>7. TypeOK'
  BY <1>1, <1>3, <1>4, <1>5, <1>6
  DEF IInv, TypeOK, mainVars, inVars, hostVars, Sources, DCPStates
<1>8. InBounds'
  BY <1>1, <1>6 DEF IInv, InBounds
<1>9. Served' /\ Sent'
  BY <1>1, <1>4, <1>6 DEF IInv, Served, Sent, Current, mainVars, hostVars
<1>10. Operating' /\ BurstMasked'
  BY <1>1 DEF IInv, Operating, BurstMasked, mainVars
<1> QED
  BY <1>7, <1>8, <1>9, <1>10 DEF IInv

LEMMA Isr_Ep00TxDone_IInv ==
  ASSUME IInv, Isr_Ep00TxDone PROVE IInv'
<1>1. /\ irqs' = irqs \ {"EP0IN", "BUSRESET", "SUSPEND"}
      /\ UNCHANGED <<mainVars, i_st, suspend, Abort, serving, wLength, device,
                     outVars, hostVars>>
      /\ ipc = "ep0In" /\ ipc' = "off" /\ INT_Enabled' = 1
  BY DEF Isr_Ep00TxDone, ExitIsr
<1>2. /\ wCount' \in Nat /\ inFifo' \in 0..MaxSetups /\ inLen' \in 0..EP0_PACKET_SIZE
      /\ DCP_state' = DCP_state \/ DCP_state' \in {"DATAIN", "HANDSHAKE"}
      /\ InBounds'
  <2>1. CASE DCP_state = "DATAIN"
    <3> DEFINE left == wLength - wCount
    <3>1. wLength \in Nat /\ wCount \in Nat /\ left \in Nat
      BY <2>1 DEF IInv, TypeOK, InBounds
    <3>2. /\ WriteIn(NextPacket(left)) /\ wCount' = wCount + NextPacket(left)
          /\ DCP_state' = StateAfterPacket(left)
      BY <2>1 DEF Isr_Ep00TxDone
    <3>3. /\ NextPacket(left) \in 0..EP0_PACKET_SIZE /\ NextPacket(left) <= left
          /\ DCP_state' \in {"DATAIN", "HANDSHAKE"}
      BY <3>1, <3>2, Packets
    <3>4. inFifo' \in 0..MaxSetups /\ inLen' \in 0..EP0_PACKET_SIZE
      BY <3>2, <3>3 DEF IInv, TypeOK, WriteIn, inVars
    <3>5. wCount' \in Nat /\ wCount' <= wLength'
      BY <1>1, <3>1, <3>2, <3>3, PacketSizeAssumption
    <3> QED
      BY <3>3, <3>4, <3>5 DEF InBounds
  <2>2. CASE DCP_state # "DATAIN"
    BY <1>1, <2>2 DEF IInv, TypeOK, InBounds, Isr_Ep00TxDone, inVars
  <2> QED
    BY <2>1, <2>2
<1>3. TypeOK'
  BY <1>1, <1>2
  DEF IInv, TypeOK, mainVars, outVars, hostVars, Sources, DCPStates
<1>4. Served' /\ Sent'
  BY <1>1, <1>2 DEF IInv, Served, Sent, Current, mainVars, outVars, hostVars
<1>5. Operating' /\ BurstMasked'
  BY <1>1 DEF IInv, Operating, BurstMasked, mainVars
<1> QED
  BY <1>2, <1>3, <1>4, <1>5 DEF IInv

-----------------------------------------------------------------------------
(* The host *)

LEMMA HostSetup_IInv ==
  ASSUME IInv, NEW r \in Requests, HostSetup(r) PROVE IInv'
<1>1. /\ sent' \in Seq(Requests) /\ Len(sent') = Len(sent) + 1
      /\ sent'[Len(sent')] = r /\ r.length \in Nat
      /\ Len(sent) \in Nat /\ Len(sent') <= MaxSetups
  <2>1. sent \in Seq(Requests) /\ Len(sent) \in Nat
    BY DEF IInv, TypeOK
  <2>2. sent' = Append(sent, r) /\ Len(sent) < MaxSetups /\ MaxSetups \in Nat
    BY PipeAssumption DEF HostSetup
  <2>3. r.length \in Nat
    BY PipeAssumption DEF RequestType
  <2> QED
    BY <2>1, <2>2, <2>3
<1>2. device' \in DeviceType /\ ovwr' \in {0, 1} /\ clean' \in {0, 1}
  BY DEF IInv, TypeOK, HostSetup, DeviceType
<1>3. /\ stage' \in {"statusIn", "dataIn", "dataOut"} /\ irqs' \subseteq Sources
      /\ got' \in Nat /\ outFifo' = "setup" /\ locked' \in {0, 1}
      /\ outLen' \in 0..EP0_PACKET_SIZE
      /\ inFifo' \in 0..MaxSetups /\ inLen' \in 0..EP0_PACKET_SIZE
  BY PacketSizeAssumption, PipeAssumption DEF IInv, TypeOK, HostSetup, Sources
<1>4. UNCHANGED <<mainVars, isrVars, driverVars, resets, suspends>>
  BY DEF HostSetup
<1>5. TypeOK'
  BY <1>1, <1>2, <1>3, <1>4 DEF IInv, TypeOK, mainVars, isrVars, driverVars
<1>6. Served' /\ Sent'
  BY <1>1
  DEF IInv, Served, Sent, HostSetup, mainVars, isrVars, driverVars, inVars,
      TypeOK, Current
<1>7. InBounds' /\ Operating' /\ BurstMasked'
  BY DEF IInv, InBounds, Operating, BurstMasked, HostSetup, mainVars, isrVars,
     driverVars, inVars
<1> QED
  BY <1>5, <1>6, <1>7 DEF IInv

LEMMA HostIn_IInv ==
  ASSUME IInv, HostIn PROVE IInv'
<1>1. /\ got' \in Nat
      /\ stage' \in {"idle", "dataIn", "statusOut"}
  <2>1. got \in Nat /\ inLen \in Nat
    BY PacketSizeAssumption DEF IInv, TypeOK
  <2> QED
    BY <2>1 DEF HostIn
<1>2. /\ inFifo' \in 0..MaxSetups /\ inLen' \in 0..EP0_PACKET_SIZE
      /\ irqs' \subseteq Sources
  BY PacketSizeAssumption, PipeAssumption DEF IInv, TypeOK, HostIn, Sources
<1>3. UNCHANGED <<mainVars, isrVars, driverVars, device, outVars, sent, clean,
                  resets, suspends>>
  BY DEF HostIn
<1>4. TypeOK'
  BY <1>1, <1>2, <1>3 DEF IInv, TypeOK, mainVars, isrVars, driverVars, outVars
<1>5. Served'
  BY DEF IInv, Served, HostIn, mainVars, isrVars, driverVars, outVars, inVars
<1>6. Sent'
  BY <1>1
  DEF IInv, Sent, HostIn, mainVars, isrVars, driverVars, outVars, inVars
<1>7. InBounds' /\ Operating' /\ BurstMasked'
  BY DEF IInv, InBounds, Operating, BurstMasked, HostIn, mainVars, isrVars,
     driverVars, outVars, inVars
<1> QED
  BY <1>4, <1>5, <1>6, <1>7 DEF IInv

LEMMA HostOut_IInv ==
  ASSUME IInv, HostOut PROVE IInv'
<1>1. /\ outLen' \in 0..EP0_PACKET_SIZE /\ got' \in Nat
      /\ stage' \in {"idle", "dataOut", "statusIn"}
      /\ stage' = "dataOut" => Len(sent) >= 1 /\ got' <= Current.length
  <2>1. CASE stage = "dataOut"
    <3>1. Len(sent) >= 1 /\ got \in Nat /\ Current.length \in Nat
          /\ Current.length - got \in Nat
      BY <2>1, Asked DEF IInv, TypeOK, Sent, Current, RequestType
    <3>2. /\ outLen' \in 0..EP0_PACKET_SIZE /\ outLen' <= Current.length - got
          /\ got' = got + outLen' /\ stage' \in {"dataOut", "statusIn"}
      BY <2>1, <3>1, Packets DEF HostOut
    <3>3. got' \in Nat /\ got' <= Current.length
      BY <3>1, <3>2, Sums, Zenon
    <3> QED
      BY <3>1, <3>2, <3>3
  <2>2. CASE stage # "dataOut"
    BY <2>2, PacketSizeAssumption DEF IInv, TypeOK, HostOut
  <2> QED
    BY <2>1, <2>2
<1>2. TypeOK'
  BY <1>1
  DEF IInv, TypeOK, HostOut, mainVars, isrVars, driverVars, inVars, DCPStates,
      MainPoints, Sources
<1>3. Served'
  BY DEF IInv, Served, HostOut, mainVars, isrVars, driverVars, inVars
<1>4. Sent'
  BY <1>1
  DEF IInv, Sent, HostOut, mainVars, isrVars, driverVars, inVars, Current
<1>5. InBounds' /\ Operating' /\ BurstMasked'
  BY DEF IInv, InBounds, Operating, BurstMasked, HostOut, mainVars, isrVars,
     driverVars, inVars
<1> QED
  BY <1>2, <1>3, <1>4, <1>5 DEF IInv

LEMMA HostStalled_IInv ==
  ASSUME IInv, HostStalled PROVE IInv'
<1>1. TypeOK'
  BY DEF IInv, TypeOK, HostStalled, mainVars, isrVars, driverVars, outVars,
     inVars, DCPStates, MainPoints, Sources
<1>2. InBounds' /\ Served' /\ Sent' /\ Operating' /\ BurstMasked'
  BY DEF IInv, InBounds, Served, Sent, Operating, BurstMasked, HostStalled,
     mainVars, isrVars, driverVars, outVars, inVars, TypeOK, Current
<1> QED
  BY <1>1, <1>2 DEF IInv

LEMMA HostBusReset_IInv ==
  ASSUME IInv, HostBusReset PROVE IInv'
<1>1. /\ stage' = "idle" /\ got' \in Nat /\ clean' \in {0, 1}
      /\ outFifo' = "empty" /\ outLen' \in 0..EP0_PACKET_SIZE
      /\ inFifo' \in 0..MaxSetups /\ inLen' \in 0..EP0_PACKET_SIZE
      /\ locked' \in {0, 1} /\ ovwr' \in {0, 1}
  BY PacketSizeAssumption, PipeAssumption DEF HostBusReset
<1>2. UNCHANGED <<mainVars, isrVars, driverVars, sent, suspends>>
  BY DEF HostBusReset
<1>3. device' \in DeviceType
  <2>1. device' = [device EXCEPT !.stalled = @ \ EP0, !.usbAddress = 0]
    BY DEF HostBusReset
  <2>2. device \in DeviceType /\ 0 \in 0..127
    BY DEF IInv, TypeOK
  <2> QED
    BY <2>1, <2>2, AwakeDevice, Zenon
<1>4. resets' \in 0..MaxBusResets
  BY PipeAssumption DEF IInv, TypeOK, HostBusReset
<1>5. irqs' \subseteq Sources
  BY DEF IInv, TypeOK, HostBusReset, Sources
<1>6. TypeOK'
  BY <1>1, <1>2, <1>3, <1>4, <1>5 DEF IInv, TypeOK, mainVars, isrVars, driverVars
<1>7. Served' /\ Sent'
  BY DEF IInv, Served, Sent, HostBusReset, mainVars, isrVars, driverVars,
     inVars
<1>8. InBounds' /\ Operating' /\ BurstMasked'
  BY DEF IInv, InBounds, Operating, BurstMasked, HostBusReset, mainVars,
     isrVars, driverVars, inVars
<1> QED
  BY <1>6, <1>7, <1>8 DEF IInv

LEMMA HostSuspend_IInv ==
  ASSUME IInv, HostSuspend PROVE IInv'
<1>1. TypeOK'
  BY PipeAssumption
  DEF IInv, TypeOK, HostSuspend, mainVars, isrVars, driverVars, outVars,
      inVars, Sources
<1>2. Served' /\ Sent'
  BY DEF IInv, Served, Sent, HostSuspend, mainVars, isrVars, driverVars,
     outVars, inVars, Current
<1>3. InBounds' /\ Operating' /\ BurstMasked'
  BY DEF IInv, InBounds, Operating, BurstMasked, HostSuspend, mainVars,
     isrVars, driverVars, outVars, inVars
<1> QED
  BY <1>1, <1>2, <1>3 DEF IInv

-----------------------------------------------------------------------------

LEMMA Init_IInv == Init => IInv
  BY PacketSizeAssumption, PipeAssumption, FreshDevice, NoOps
  DEF Init, IInv, TypeOK, InBounds, Served, Sent, Operating, BurstMasked, DCPStates,
      MainPoints, Sources

LEMMA Inductive == IInv /\ [Next]_vars => IInv'
<1> SUFFICES ASSUME IInv, [Next]_vars PROVE IInv'
  OBVIOUS
<1>1. CASE MainStep
  BY <1>1, Top_IInv, CheckSetup_IInv, SetupToken_IInv, Decide_IInv, AckTest_IInv,
     AckSetup_IInv, CheckRequest_IInv, DeviceRequest_IInv, Respond_IInv, Commit_IInv
  DEF MainStep
<1>2. CASE IsrStep
  BY <1>2, IsrEnter_IInv, Isr_BusReset_IInv, Isr_SuspendChange_IInv,
     Isr_Ep00RxDone_IInv, Isr_Ep00TxDone_IInv DEF IsrStep
<1>3. CASE HostStep
  BY <1>3, HostSetup_IInv, HostIn_IInv, HostOut_IInv, HostStalled_IInv,
     HostBusReset_IInv, HostSuspend_IInv DEF HostStep
<1>4. CASE UNCHANGED vars
  BY <1>4
  DEF vars, IInv, TypeOK, InBounds, Served, Sent, Current, Operating, BurstMasked
<1> QED
  BY <1>1, <1>2, <1>3, <1>4 DEF Next

\* Every variable of the control pipe keeps its type: no packet is longer than
\* the FIFO, DCP_state stays one of its states, and no counter goes below zero,
\* whatever main loop, usb_isr and host do in whatever order.
THEOREM TypeCorrect == Spec => []TypeOK
<1>1. IInv => TypeOK
  BY DEF IInv
<1> QED
  BY <1>1, Init_IInv, Inductive, PTL DEF Spec

\* What Isr_Ep00TxDone continues never lies past the end of the data.
THEOREM StaysInBounds == Spec => []InBounds
<1>1. IInv => InBounds
  BY DEF IInv
<1> QED
  BY <1>1, Init_IInv, Inductive, PTL DEF Spec

-----------------------------------------------------------------------------
(***************************************************************************)
(* A clean transfer.  Its SETUP packet finds the device quiet or at the    *)
(* end of a transfer that was clean itself, and from then on the device is *)
(* in one of five phases: the packet has not been Heard of, usb_isr has    *)
(* told the main loop of it, the main loop has Read the request, the       *)
(* request is Ready to be handled, or its handler has Answered.            *)
(***************************************************************************)

\* The main loop between its handlers.
Between == {"top", "checkSetup", "checkRequest"}

\* The stage a SETUP packet opens.
FirstStage(r) == IF r.length = 0 THEN "statusIn"
                 ELSE IF r.dir = "in" THEN "dataIn" ELSE "dataOut"

\* Requests that reach a handler that does two operations on endpoint 0.
Several(r) == /\ ~TooLong(r)
              /\ \/ r.kind = "GetDescriptor" /\ r.value \div 256 = 3
                 \/ r.kind = "SetInterface" /\ r.dir = "in"

\* The only operation of a handler is done with interrupts masked.
LastMasked ==
  mpc \in {"respond", "commit"} => Len(ops) = 1 /\ ipc = "off" /\ INT_Enabled = 0

\* The SETUP packet is in the FIFO, unacknowledged, and nothing came after it.
Fresh == /\ Len(sent) >= 1
         /\ outFifo = "setup" /\ locked = 1 /\ inFifo = 0 /\ ~EP0Stalled
         /\ stage = FirstStage(Current) /\ got = 0

\* Its interrupt is still pending.  The handler of the transfer before may not
\* have returned yet, but has no stall left to do; and an IN interrupt of that
\* transfer is served together with this one, before the packet is answered.
Unheard ==
  /\ Fresh /\ "EP0OUT" \in irqs
  /\ mpc \in Between \cup {"respond", "commit"} /\ LastMasked
  /\ mpc = "respond" => ops[1].op # "stall"
  /\ DCP_state # "SETUPPROC" /\ (DCP_state = "REQUESTPROC" => Abort = 1)
  /\ ipc = "ep0Out" /\ "EP0IN" \in irqs => "EP0IN" \in i_st

\* usb_isr has set SETUPPROC.
Heard ==
  /\ Fresh /\ "EP0OUT" \notin irqs /\ ipc # "ep0Out"
  /\ "EP0IN" \in irqs => ipc = "ep0In"
  /\ mpc \in Between \cup {"setup"} /\ DCP_state = "SETUPPROC" /\ ovwr = 0

\* SetupToken_Handler has the request and has not acknowledged it.
Read ==
  /\ Fresh /\ serving = Len(sent) /\ Abort = 0 /\ ovwr = 0
  /\ "EP0OUT" \notin irqs /\ "EP0IN" \notin irqs /\ ipc \in {"off", "suspend"}
  /\ mpc \in {"decide", "ackTest", "ack"}
  /\ DCP_state = IF mpc # "decide" /\ TakesData(Current) THEN "DATAOUT" ELSE "SETUPPROC"
  /\ mpc # "decide" => wLength = Current.length

\* A request with data from the host: they are awaited, then they are there.
Awaited ==
  /\ DCP_state = "DATAOUT" /\ mpc # "request" /\ stage = "dataOut" /\ got = 0
  /\ TakesData(Current)
  /\ outFifo = "empty" /\ "EP0OUT" \notin irqs /\ ipc # "ep0Out"
Arrived ==
  /\ DCP_state = "DATAOUT" /\ mpc # "request" /\ stage = "statusIn"
  /\ TakesData(Current) /\ outLen # EP0_PACKET_SIZE
  /\ outFifo = "data" /\ "EP0OUT" \in irqs

\* The request is handed to the main loop.
Handed ==
  /\ DCP_state = "REQUESTPROC" /\ ~TooLong(Current)
  /\ stage = "statusIn" \/ (stage = "dataIn" /\ got = 0)
  /\ outFifo = "empty" /\ "EP0OUT" \notin irqs /\ ipc # "ep0Out"

\* The SETUP packet is acknowledged and nothing is in the way of an answer.
Ready ==
  /\ Len(sent) >= 1 /\ serving = Len(sent) /\ locked = 0 /\ inFifo = 0 /\ Abort = 0
  /\ ~EP0Stalled /\ wLength = Current.length /\ "EP0IN" \notin irqs
  /\ mpc \in Between \cup {"request"}
  /\ Awaited \/ Arrived \/ Handed

\* The handler has been called, or the request was refused unseen.  What it
\* still has to do is not done behind the back of a host that has finished.
Answered ==
  /\ serving = Len(sent) /\ locked = 0 /\ outFifo # "setup"
  /\ inFifo \in {0, Len(sent)} /\ Abort = 0
  /\ DCP_state \in {"IDLE", "DATAIN", "HANDSHAKE", "STALL"}
  /\ mpc \in Between \cup {"respond", "commit"}
  /\ stage # "idle" => Len(sent) >= 1 /\ "EP0OUT" \notin irqs /\ ipc # "ep0Out"
  /\ stage = "dataOut" => EP0Stalled
  /\ stage = "idle" /\ ipc = "ep0Out" /\ "EP0IN" \in irqs => "EP0IN" \in i_st
  /\ mpc \in {"respond", "commit"} => Len(sent) >= 1
  /\ Len(sent) >= 1 /\ ~Several(Current) =>
       /\ LastMasked
       /\ mpc = "respond" => IF EP0Stalled THEN ops[1].op # "stall"
                             ELSE stage \notin {"idle", "statusOut"} /\ inFifo = 0

NoReset == "BUSRESET" \notin irqs /\ ipc # "busReset"

Phase == Unheard \/ Heard \/ Read \/ Ready \/ Answered

\* A transfer is clean until a bus reset, and goes through the phases.
CleanInv == clean = 1 => NoReset /\ Phase

AllInv == IInv /\ CleanInv

-----------------------------------------------------------------------------
(* The phases: lemmas about requests and replies *)

LEMMA SameTransfer ==
  ASSUME UNCHANGED <<sent, device>>
  PROVE  /\ Current' = Current /\ EP0Stalled' = EP0Stalled
         /\ Several(Current)' = Several(Current)
         /\ TakesData(Current)' = TakesData(Current)
         /\ TooLong(Current)' = TooLong(Current)
         /\ FirstStage(Current)' = FirstStage(Current)
  BY DEF Current, EP0Stalled, Several, TakesData, TooLong, FirstStage

\* What a request makes of the state machine depends on its direction and length.
LEMMA Directions ==
  ASSUME NEW r \in RequestType
  PROVE  /\ TakesData(r) => FirstStage(r) = "dataOut" /\ ~TooLong(r)
         /\ TooLong(r) => FirstStage(r) = "dataOut"
         /\ ~TakesData(r) /\ ~TooLong(r) => FirstStage(r) \in {"statusIn", "dataIn"}
<1>1. r.length \in Nat /\ r.dir \in {"in", "out"}
  BY DEF RequestType
<1> QED
  BY <1>1, PipeAssumption DEF TakesData, TooLong, FirstStage

LEMMA StallSets == ASSUME NEW d \in DeviceType PROVE Stalled(d).stalled \cap EP0 # {}
  BY DEF Stalled, DeviceType, EP0, EP0OUT, EP0IN

LEMMA CurrentType == ASSUME IInv, Len(sent) >= 1 PROVE Current \in RequestType
<1>1. Len(sent) \in 1..Len(sent)
  BY DEF IInv, TypeOK
<1> QED
  BY <1>1, Asked DEF IInv, Current

\* The host asks for an endpoint to be halted.
HaltsEndpoint(r) == /\ r.kind = "SetFeature" /\ r.recipient = "endpoint"
                    /\ r.value = USB_FEATURE_ENDPOINT_STALL

LEMMA OneAnswer ==
  /\ Len(<< >>) = 0 /\ Len(<<Stall>>) = 1 /\ Len(<<Acknowledge>>) = 1
  /\ \A o : Len(<<o>>) = 1
  /\ \A n : Len(<<Burst(n)>>) = 1 /\ Len(<<Burst(n), Stall>>) = 2
  /\ Len(<<Stall, Stall>>) = 2
  OBVIOUS

\* How many operations a handler does depends on the request alone.
LEMMA HowMany ==
  ASSUME NEW r \in RequestType, NEW d \in DeviceType, NEW a \in {0, 1}, ~TooLong(r)
  PROVE  Len(Handle(r, d, a).ops) <= 1 <=> ~Several(r)
<1>1. r.kind \in Kinds /\ r.dir \in {"in", "out"} /\ r.value \in Nat
  BY DEF RequestType
<1>2. CASE r.kind \in {"GetStatus", "ClearFeature", "SetFeature", "SetConfiguration",
                       "GetConfiguration", "GetInterface", "Unsupported"}
  <2>1. Handle(r, d, a).ops = << >> \/ \E o : Handle(r, d, a).ops = <<o>>
    <3>1. CASE r.kind = "GetStatus"
      BY <3>1 DEF Handle, Chap9_GetStatus, Reply
    <3>2. CASE r.kind = "ClearFeature"
      BY <3>2 DEF Handle, Chap9_ClearFeature, Reply
    <3>3. CASE r.kind = "SetFeature"
      BY <3>3 DEF Handle, Chap9_SetFeature, Reply
    <3>4. CASE r.kind = "SetConfiguration"
      BY <3>4 DEF Handle, Chap9_SetConfiguration, Reply
    <3>5. CASE r.kind = "GetConfiguration"
      BY <3>5 DEF Handle, Chap9_GetConfiguration, Reply
    <3>6. CASE r.kind = "GetInterface"
      BY <3>6 DEF Handle, Chap9_GetInterface, Reply
    <3>7. CASE r.kind = "Unsupported"
      BY <3>7 DEF Handle, Reply
    <3> QED
      BY <1>2, <3>1, <3>2, <3>3, <3>4, <3>5, <3>6, <3>7
  <2>2. Len(Handle(r, d, a).ops) = 0 \/ Len(Handle(r, d, a).ops) = 1
    BY <2>1, OneAnswer
  <2>3. ~Several(r)
    BY <1>2 DEF Several
  <2>4. \A n \in {0, 1} : n <= 1
    OBVIOUS
  <2>5. Len(Handle(r, d, a).ops) <= 1
    BY <2>2, <2>4
  <2> QED
    BY <2>3, <2>5
<1>3. CASE r.kind = "SetAddress"
  <2>1. Handle(r, d, a).ops = << >> \/ Handle(r, d, a).ops = <<Acknowledge>>
    BY <1>3 DEF Handle, Chap9_SetAddress, SetAddress, Reply
  <2>2. Len(Handle(r, d, a).ops) = 0 \/ Len(Handle(r, d, a).ops) = 1
    BY <2>1, OneAnswer
  <2>3. ~Several(r)
    BY <1>3 DEF Several
  <2>4. \A n \in {0, 1} : n <= 1
    OBVIOUS
  <2>5. Len(Handle(r, d, a).ops) <= 1
    BY <2>2, <2>4
  <2> QED
    BY <2>3, <2>5
<1>4. CASE r.kind = "GetDescriptor"
  <2> DEFINE h == Handle(r, d, a)
  <2>1. h = Chap9_GetDescriptor(r, d)
    BY <1>4 DEF Handle
  <2>2. CASE r.value \div 256 = 3
    <3>1. h.ops = <<Burst(StringDescrSize[r.value % 256]), Stall>> \/ h.ops = <<Stall, Stall>>
      BY <2>1, <2>2 DEF Chap9_GetDescriptor, Reply
    <3>2. Len(h.ops) = 2
      BY <3>1, OneAnswer
    <3> QED
      BY <1>4, <2>2, <3>2 DEF Several
  <2>3. CASE r.value \div 256 # 3
    <3>1. \E o : h.ops = <<o>>
      BY <2>1, <2>3 DEF Chap9_GetDescriptor, Reply
    <3>2. Len(h.ops) = 1
      BY <3>1
    <3> QED
      BY <1>4, <2>3, <3>2 DEF Several
  <2> QED
    BY <2>2, <2>3
<1>5. CASE r.kind = "SetInterface"
  <2> DEFINE h == Handle(r, d, a)
             first == IF r.dir = "in" THEN <<Stall>> ELSE << >>
  <2>1. h.ops = first \o <<Acknowledge>> \/ h.ops = first \o <<Stall>>
    BY <1>5 DEF Handle, Chap9_SetInterface, Reply
  <2>2. /\ Len(first \o <<Acknowledge>>) = Len(first) + 1
        /\ Len(first \o <<Stall>>) = Len(first) + 1
        /\ Len(first) = IF r.dir = "in" THEN 1 ELSE 0
    <3>1. /\ first \in Seq(OperationType) /\ <<Acknowledge>> \in Seq(OperationType)
          /\ <<Stall>> \in Seq(OperationType)
      BY SimpleOps DEF GoodOps
    <3>2. Len(first \o <<Acknowledge>>) = Len(first) + Len(<<Acknowledge>>)
          /\ Len(first \o <<Stall>>) = Len(first) + Len(<<Stall>>)
      BY <3>1, ConcatProperties
    <3> QED
      BY <3>2, OneAnswer
  <2> QED
    BY <1>5, <2>1, <2>2 DEF Several
<1> QED
  BY <1>1, <1>2, <1>3, <1>4, <1>5 DEF Kinds

\* Endpoint 0 is halted by no handler but that of SetFeature, which acknowledges.
LEMMA HaltingReply ==
  ASSUME NEW r \in RequestType, NEW d \in DeviceType, NEW a \in {0, 1},
         d.stalled \cap EP0 = {}, Handle(r, d, a).device.stalled \cap EP0 # {}
  PROVE  HaltsEndpoint(r) /\ Handle(r, d, a).ops = <<Acknowledge>>
<1> DEFINE h == Handle(r, d, a)
<1>1. r.kind \in Kinds
  BY DEF RequestType
<1>2. ASSUME NEW e, e = h.device, e.stalled \subseteq d.stalled PROVE FALSE
  BY <1>2
<1>3. CASE r.kind = "GetStatus"
  BY <1>3 DEF Handle, Chap9_GetStatus, Reply
<1>4. CASE r.kind = "ClearFeature"
  <2>1. h.device.stalled \subseteq d.stalled
    BY <1>4 DEF Handle, Chap9_ClearFeature, Reply, DeviceType
  <2> QED
    BY <2>1, <1>2
<1>5. CASE r.kind = "SetFeature"
  BY <1>5 DEF Handle, Chap9_SetFeature, Reply, HaltsEndpoint, DeviceType
<1>6. CASE r.kind = "SetAddress"
  <2>1. h.device.stalled = d.stalled
    BY <1>6 DEF Handle, Chap9_SetAddress, SetAddress, Reply, DeviceType
  <2> QED
    BY <2>1, <1>2
<1>7. CASE r.kind = "GetDescriptor"
  BY <1>7 DEF Handle, Chap9_GetDescriptor, Reply
<1>8. CASE r.kind = "GetConfiguration"
  BY <1>8 DEF Handle, Chap9_GetConfiguration, Reply
<1>9. CASE r.kind = "SetConfiguration"
  <2>1. h.device.stalled = d.stalled
    BY <1>9 DEF Handle, Chap9_SetConfiguration, Reply, DeviceType
  <2> QED
    BY <2>1, <1>2
<1>10. CASE r.kind = "GetInterface"
  BY <1>10 DEF Handle, Chap9_GetInterface, Reply
<1>11. CASE r.kind = "SetInterface"
  <2>1. h.device.stalled = d.stalled
    BY <1>11 DEF Handle, Chap9_SetInterface, Reply, DeviceType
  <2> QED
    BY <2>1, <1>2
<1>12. CASE r.kind = "Unsupported"
  BY <1>12 DEF Handle, Reply
<1> QED
  BY <1>1, <1>3, <1>4, <1>5, <1>6, <1>7, <1>8, <1>9, <1>10, <1>11, <1>12 DEF Kinds

-----------------------------------------------------------------------------
(* Every step of a clean transfer leads from a phase to a phase: the main loop *)

LEMMA Top_Clean ==
  ASSUME AllInv, Top PROVE CleanInv'
<1> SUFFICES ASSUME clean = 1 PROVE NoReset' /\ Phase'
  BY DEF CleanInv, Top, hostVars, Phase
<1>0. /\ UNCHANGED <<ops, isrVars, INT_Enabled, DCP_state, Abort, serving, wLength,
                     wCount, device, outVars, inVars, irqs, hostVars>>
      /\ mpc = "top" /\ mpc' = "checkSetup"
  BY DEF Top, Main
<1>a. NoReset /\ Phase
  BY DEF AllInv, CleanInv, Phase
<1>b. UNCHANGED <<sent, device>>
  BY <1>0 DEF hostVars
<1>1. NoReset'
  BY <1>0, <1>a DEF NoReset, isrVars
<1>2. Unheard => Unheard'
  BY <1>0, <1>b, SameTransfer
  DEF Unheard, Fresh, LastMasked, Between, isrVars, outVars, inVars, hostVars
<1>3. Heard => Heard'
  BY <1>0, <1>b, SameTransfer
  DEF Heard, Fresh, Between, isrVars, outVars, inVars, hostVars
<1>4. ~Read
  BY <1>0 DEF Read
<1>5. Ready => Ready'
  BY <1>0, <1>b, SameTransfer
  DEF Ready, Awaited, Arrived, Handed, Between, isrVars, outVars, inVars, hostVars
<1>6. Answered => Answered'
  BY <1>0, <1>b, SameTransfer
  DEF Answered, LastMasked, Between, isrVars, outVars, inVars, hostVars
<1> QED
  BY <1>a, <1>1, <1>2, <1>3, <1>4, <1>5, <1>6 DEF Phase

LEMMA CheckSetup_Clean ==
  ASSUME AllInv, CheckSetup PROVE CleanInv'
<1> SUFFICES ASSUME clean = 1 PROVE NoReset' /\ Phase'
  BY DEF CleanInv, CheckSetup, hostVars, Phase
<1>0. /\ UNCHANGED <<ops, isrVars, driverVars, device, outVars, inVars, irqs, hostVars>>
      /\ mpc = "checkSetup"
      /\ mpc' = IF DCP_state = "SETUPPROC" THEN "setup" ELSE "checkRequest"
  BY DEF CheckSetup, Main
<1>a. NoReset /\ Phase
  BY DEF AllInv, CleanInv, Phase
<1>b. UNCHANGED <<sent, device>>
  BY <1>0 DEF hostVars
<1>1. NoReset'
  BY <1>0, <1>a DEF NoReset, isrVars
<1>2. Unheard => Unheard'
  BY <1>0, <1>b, SameTransfer
  DEF Unheard, Fresh, LastMasked, Between, isrVars, driverVars, outVars, inVars, hostVars
<1>3. Heard => Heard'
  BY <1>0, <1>b, SameTransfer
  DEF Heard, Fresh, Between, isrVars, driverVars, outVars, inVars, hostVars
<1>4. ~Read
  BY <1>0 DEF Read
<1>5. Ready => Ready'
  BY <1>0, <1>b, SameTransfer
  DEF Ready, Awaited, Arrived, Handed, Between, isrVars, driverVars, outVars, inVars,
      hostVars
<1>6. Answered => Answered'
  BY <1>0, <1>b, SameTransfer
  DEF Answered, LastMasked, Between, isrVars, driverVars, outVars, inVars, hostVars
<1> QED
  BY <1>a, <1>1, <1>2, <1>3, <1>4, <1>5, <1>6 DEF Phase

LEMMA CheckRequest_Clean ==
  ASSUME AllInv, CheckRequest PROVE CleanInv'
<1> SUFFICES ASSUME clean = 1 PROVE NoReset' /\ Phase'
  BY DEF CleanInv, CheckRequest, hostVars, Phase
<1>0. /\ UNCHANGED <<ops, isrVars, driverVars, device, outVars, inVars, irqs, hostVars>>
      /\ mpc = "checkRequest"
      /\ mpc' = IF DCP_state = "REQUESTPROC" /\ Abort = 0 THEN "request" ELSE "top"
  BY DEF CheckRequest, Main
<1>a. NoReset /\ Phase
  BY DEF AllInv, CleanInv, Phase
<1>b. UNCHANGED <<sent, device>>
  BY <1>0 DEF hostVars
<1>1. NoReset'
  BY <1>0, <1>a DEF NoReset, isrVars
<1>2. Unheard => Unheard'
  BY <1>0, <1>b, SameTransfer
  DEF Unheard, Fresh, LastMasked, Between, isrVars, driverVars, outVars, inVars, hostVars
<1>3. Heard => Heard'
  BY <1>0, <1>b, SameTransfer
  DEF Heard, Fresh, Between, isrVars, driverVars, outVars, inVars, hostVars
<1>4. ~Read
  BY <1>0 DEF Read
<1>5. Ready => Ready'
  BY <1>0, <1>b, SameTransfer
  DEF Ready, Awaited, Arrived, Handed, Between, isrVars, driverVars, outVars, inVars,
      hostVars
<1>6. Answered => Answered'
  BY <1>0, <1>b, SameTransfer
  DEF Answered, LastMasked, Between, isrVars, driverVars, outVars, inVars, hostVars
<1> QED
  BY <1>a, <1>1, <1>2, <1>3, <1>4, <1>5, <1>6 DEF Phase

LEMMA SetupToken_Clean ==
  ASSUME AllInv, SetupToken PROVE CleanInv'
<1> SUFFICES ASSUME clean = 1 PROVE NoReset' /\ Phase'
  BY DEF CleanInv, SetupToken, hostVars, Phase
<1>0. /\ UNCHANGED <<isrVars, DCP_state, device, locked, ovwr, inVars, irqs, hostVars>>
      /\ mpc = "setup" /\ ipc = "off" /\ Abort' = 0
      /\ outFifo = "setup" => serving' = Len(sent) /\ mpc' = "decide"
      /\ ClearOut
  BY DEF SetupToken, Main
<1>1. Heard /\ NoReset
  BY <1>0
  DEF AllInv, CleanInv, Phase, Unheard, Read, Ready, Answered, Between
<1>2. UNCHANGED <<outFifo, sent, device>>
  BY <1>0, <1>1 DEF Heard, Fresh, ClearOut, hostVars
<1>3. Read'
  BY <1>0, <1>1, <1>2, SameTransfer
  DEF Heard, Read, Fresh, isrVars, inVars, hostVars
<1> QED
  BY <1>0, <1>1, <1>3 DEF NoReset, Phase, isrVars

LEMMA Decide_Clean ==
  ASSUME AllInv, Decide PROVE CleanInv'
<1> SUFFICES ASSUME clean = 1 PROVE NoReset' /\ Phase'
  BY DEF CleanInv, Decide, hostVars, Phase
<1>0. /\ UNCHANGED <<isrVars, Abort, serving, device, outVars, inVars, irqs, hostVars>>
      /\ mpc = "decide" /\ ipc = "off" /\ mpc' = "ackTest"
      /\ wLength' = sent[serving].length
      /\ DCP_state' = IF TakesData(sent[serving]) THEN "DATAOUT" ELSE DCP_state
  BY DEF Decide, Main
<1>1. Read /\ NoReset
  BY <1>0
  DEF AllInv, CleanInv, Phase, Unheard, Heard, Ready, Answered, Between
<1>2. sent[serving] = Current /\ UNCHANGED <<sent, device>>
  BY <1>0, <1>1 DEF Read, Current, hostVars
<1>3. Read'
  BY <1>0, <1>1, <1>2, SameTransfer
  DEF Read, Fresh, isrVars, outVars, inVars, hostVars
<1> QED
  BY <1>0, <1>1, <1>3 DEF NoReset, Phase, isrVars

LEMMA AckTest_Clean ==
  ASSUME AllInv, AckTest PROVE CleanInv'
<1> SUFFICES ASSUME clean = 1 PROVE NoReset' /\ Phase'
  BY DEF CleanInv, AckTest, hostVars, Phase
<1>0. mpc = "ackTest" /\ ipc = "off"
  BY DEF AckTest, Main
<1>1. Read /\ NoReset
  BY <1>0
  DEF AllInv, CleanInv, Phase, Unheard, Heard, Ready, Answered, Between
<1>2. /\ UNCHANGED <<isrVars, DCP_state, Abort, serving, device, wLength, outFifo, outLen,
                     locked, inVars, irqs, hostVars>>
      /\ ovwr' = 0 /\ mpc' = "ack"
  BY <1>1 DEF AckTest, Read
<1>3. UNCHANGED <<sent, device>>
  BY <1>2 DEF hostVars
<1>4. Read'
  BY <1>0, <1>1, <1>2, <1>3, SameTransfer
  DEF Read, Fresh, isrVars, inVars, hostVars
<1> QED
  BY <1>1, <1>2, <1>4 DEF NoReset, Phase, isrVars

LEMMA AckSetup_Clean ==
  ASSUME AllInv, AckSetup PROVE CleanInv'
<1> SUFFICES ASSUME clean = 1 PROVE NoReset' /\ Phase'
  BY DEF CleanInv, AckSetup, hostVars, Phase
<1>0. /\ UNCHANGED <<ops, isrVars, Abort, serving, wLength, inVars, irqs, hostVars>>
      /\ mpc = "ack" /\ ipc = "off" /\ mpc' = "checkRequest"
      /\ locked' = 0 /\ outFifo' = "empty"
      /\ Advance
  BY DEF AckSetup, Main, Advance
<1>1. Read /\ NoReset
  BY <1>0
  DEF AllInv, CleanInv, Phase, Unheard, Heard, Ready, Answered, Between
<1>2. /\ sent[serving] = Current /\ Current' = Current /\ Current \in RequestType
      /\ device \in DeviceType
  BY <1>0, <1>1, CurrentType DEF Read, Fresh, Current, hostVars, AllInv, IInv, TypeOK
<1>3. /\ TakesData(Current)' = TakesData(Current) /\ TooLong(Current)' = TooLong(Current)
  BY <1>2 DEF TakesData, TooLong
<1>4. NoReset'
  BY <1>0, <1>1 DEF NoReset, isrVars
<1>5. CASE TakesData(Current)
  <2>1. /\ DCP_state' = DCP_state /\ device' = device /\ stage = "dataOut"
        /\ DCP_state = "DATAOUT"
    BY <1>0, <1>1, <1>2, <1>5, Directions DEF Advance, Read, Fresh
  <2>2. Awaited'
    BY <1>0, <1>1, <1>2, <1>3, <1>5, <2>1
    DEF Awaited, Read, Fresh, isrVars, hostVars
  <2>3. Ready'
    BY <1>0, <1>1, <1>2, <2>1, <2>2
    DEF Ready, Read, Fresh, EP0Stalled, Between, inVars, hostVars
  <2> QED
    BY <1>4, <2>3 DEF Phase
<1>6. CASE TooLong(Current)
  <2>1. /\ DCP_state' = "STALL" /\ device' = Stalled(device) /\ EP0Stalled'
    BY <1>0, <1>2, <1>6, Directions, StallSets DEF Advance, EP0Stalled
  <2>2. Answered'
    BY <1>0, <1>1, <1>2, <2>1
    DEF Answered, Read, Fresh, LastMasked, Between, isrVars, inVars, hostVars
  <2> QED
    BY <1>4, <2>2 DEF Phase
<1>7. CASE ~TakesData(Current) /\ ~TooLong(Current)
  <2>1. /\ DCP_state' = "REQUESTPROC" /\ device' = device
        /\ stage \in {"statusIn", "dataIn"}
    BY <1>0, <1>1, <1>2, <1>7, Directions DEF Advance, Read, Fresh
  <2>2. Handed'
    BY <1>0, <1>1, <1>2, <1>3, <1>7, <2>1
    DEF Handed, Read, Fresh, isrVars, hostVars
  <2>3. Ready'
    BY <1>0, <1>1, <1>2, <2>1, <2>2
    DEF Ready, Read, Fresh, EP0Stalled, Between, inVars, hostVars
  <2> QED
    BY <1>4, <2>3 DEF Phase
<1> QED
  BY <1>5, <1>6, <1>7

LEMMA DeviceRequest_Clean ==
  ASSUME AllInv, DeviceRequest PROVE CleanInv'
<1> SUFFICES ASSUME clean = 1 PROVE NoReset' /\ Phase'
  BY DEF CleanInv, DeviceRequest, hostVars, Phase
<1> DEFINE h == Handle(sent[serving], device, Abort)
<1>0. /\ UNCHANGED <<isrVars, Abort, serving, wLength, outVars, inVars, irqs, hostVars>>
      /\ mpc = "request" /\ ipc = "off" /\ DCP_state' = "IDLE"
      /\ device' = h.device /\ ops' = h.ops
      /\ h.ops = << >> => mpc' = "top"
      /\ h.ops # << >> => mpc' = "respond" /\ INT_Enabled' = 0
  BY DEF DeviceRequest, Main
<1>1. Ready /\ Handed /\ NoReset
  BY <1>0
  DEF AllInv, CleanInv, Phase, Unheard, Heard, Read, Ready, Awaited, Arrived, Answered,
      Between
<1>2. /\ sent[serving] = Current /\ Current' = Current /\ Current \in RequestType
      /\ device \in DeviceType /\ Abort \in {0, 1}
      /\ Several(Current)' = Several(Current)
  BY <1>0, <1>1, CurrentType DEF Ready, Current, hostVars, AllInv, IInv, TypeOK, Several,
     TooLong
<1>3. ops' \in Seq(OperationType)
  BY <1>0, <1>2, HandleReply DEF GoodReply, GoodOps
<1>4. mpc' # "top" /\ ~Several(Current) => Len(ops') = 1
  <2>1. Len(ops') <= 1 <=> ~Several(Current)
    BY <1>0, <1>1, <1>2, HowMany DEF Handed
  <2>2. mpc' # "top" => ops' # << >>
    BY <1>0
  <2>3. Len(ops') \in Nat /\ (ops' # << >> => Len(ops') # 0)
    BY <1>3
  <2> DEFINE n == Len(ops')
  <2>4. /\ n \in Nat /\ (n <= 1 <=> ~Several(Current)) /\ (mpc' # "top" => n # 0)
    BY <2>1, <2>2, <2>3
  <2> HIDE DEF n
  <2>5. mpc' # "top" /\ ~Several(Current) => n = 1
    BY <2>4
  <2> QED
    BY <2>5 DEF n
<1>5. EP0Stalled' /\ mpc' = "respond" => ops'[1].op # "stall"
  <2>1. EP0Stalled' => ops' = <<Acknowledge>>
    BY <1>0, <1>1, <1>2, HaltingReply DEF Ready, EP0Stalled
  <2> QED
    BY <2>1 DEF Acknowledge, Transmit
<1>6. NoReset'
  BY <1>0, <1>1 DEF NoReset, isrVars
<1>7. Answered'
  BY <1>0, <1>1, <1>2, <1>4, <1>5
  DEF Ready, Handed, Answered, LastMasked, Between, isrVars, outVars, inVars, hostVars
<1> QED
  BY <1>6, <1>7 DEF Phase

LEMMA Respond_Clean ==
  ASSUME AllInv, Respond PROVE CleanInv'
<1> SUFFICES ASSUME clean = 1 PROVE NoReset' /\ Phase'
  BY DEF CleanInv, Respond, hostVars, Phase
<1> DEFINE o == Head(ops)
<1>0. /\ UNCHANGED <<ops, isrVars, INT_Enabled, DCP_state, Abort, serving, outVars, irqs,
                     hostVars>>
      /\ mpc = "respond" /\ ipc = "off" /\ mpc' = "commit"
  BY DEF Respond, Main
<1>1. NoReset /\ (Unheard \/ Answered)
  BY <1>0
  DEF AllInv, CleanInv, Phase, Heard, Read, Ready, Between
<1>2. /\ o = ops[1] /\ o.op \in {"stall", "single", "burst"} /\ device \in DeviceType
  BY <1>0, TailOps DEF AllInv, IInv, TypeOK, Operating, OperationType
<1>3. /\ device' = device \/ device' = Stalled(device)
      /\ o.op # "stall" => device' = device
      /\ inFifo' = inFifo \/ (locked # 1 /\ inFifo' = serving)
  BY <1>2 DEF Respond, WriteIn, inVars
<1>4. NoReset'
  BY <1>0, <1>1 DEF NoReset, isrVars
<1>5. CASE Unheard
  <2>1. device' = device /\ inFifo' = inFifo
    BY <1>0, <1>2, <1>3, <1>5 DEF Unheard, Fresh
  <2>2. Unheard'
    BY <1>0, <1>5, <2>1, SameTransfer
    DEF Unheard, Fresh, LastMasked, isrVars, outVars, hostVars
  <2> QED
    BY <1>4, <2>2 DEF Phase
<1>6. CASE Answered
  <2>1. EP0Stalled => EP0Stalled'
    BY <1>2, <1>3, StallSets DEF EP0Stalled
  <2>2. Several(Current)' = Several(Current) /\ sent' = sent
    BY <1>0 DEF Several, TooLong, Current, hostVars
  <2>3. Answered'
    BY <1>0, <1>3, <1>6, <2>1, <2>2
    DEF Answered, LastMasked, isrVars, outVars, hostVars
  <2> QED
    BY <1>4, <2>3 DEF Phase
<1> QED
  BY <1>1, <1>5, <1>6

LEMMA Commit_Clean ==
  ASSUME AllInv, Commit PROVE CleanInv'
<1> SUFFICES ASSUME clean = 1 PROVE NoReset' /\ Phase'
  BY DEF CleanInv, Commit, hostVars, Phase
<1>0. /\ UNCHANGED <<isrVars, Abort, serving, device, outVars, inVars, irqs, hostVars>>
      /\ mpc = "commit" /\ ipc = "off"
      /\ mpc' = IF Len(ops) = 1 THEN "top" ELSE "respond"
  BY DEF Commit, Main
<1>1. NoReset /\ (Unheard \/ Answered)
  BY <1>0
  DEF AllInv, CleanInv, Phase, Heard, Read, Ready, Between
<1>2. DCP_state' = DCP_state \/ DCP_state' \in {"STALL", "HANDSHAKE", "DATAIN"}
  <2>1. Head(ops) = ops[1] /\ Head(ops).op \in {"stall", "single", "burst"}
    BY <1>0, TailOps DEF AllInv, IInv, TypeOK, Operating, OperationType
  <2> QED
    BY <2>1 DEF Commit, StateAfterPacket
<1>3. UNCHANGED <<sent, device>>
  BY <1>0 DEF hostVars
<1>4. NoReset'
  BY <1>0, <1>1 DEF NoReset, isrVars
<1>5. CASE Unheard
  <2>1. mpc' = "top"
    BY <1>0, <1>5 DEF Unheard, LastMasked
  <2>2. Unheard'
    BY <1>0, <1>2, <1>3, <1>5, <2>1, SameTransfer
    DEF Unheard, Fresh, LastMasked, Between, isrVars, outVars, inVars, hostVars
  <2> QED
    BY <1>4, <2>2 DEF Phase
<1>6. CASE Answered
  <2>1. ~Several(Current) => mpc' = "top"
    BY <1>0, <1>6 DEF Answered, LastMasked
  <2>2. Answered'
    BY <1>0, <1>2, <1>3, <1>6, <2>1, SameTransfer
    DEF Answered, LastMasked, Between, isrVars, outVars, inVars, hostVars
  <2> QED
    BY <1>4, <2>2 DEF Phase
<1> QED
  BY <1>1, <1>5, <1>6

-----------------------------------------------------------------------------
(* The phases: usb_isr *)

LEMMA IsrEnter_Clean ==
  ASSUME AllInv, IsrEnter PROVE CleanInv'
<1> SUFFICES ASSUME clean = 1 PROVE NoReset' /\ Phase'
  BY DEF CleanInv, IsrEnter, hostVars, Phase
<1>0. /\ UNCHANGED <<mainVars, DCP_state, Abort, serving, wLength, device, outVars, inVars,
                     hostVars>>
      /\ ipc = "off" /\ INT_Enabled = 1 /\ i_st' = irqs
  BY DEF IsrEnter
<1>a. NoReset /\ Phase
  BY DEF AllInv, CleanInv, Phase
<1>b. UNCHANGED <<sent, device>>
  BY <1>0 DEF hostVars
<1>c. /\ irqs' = irqs \ {"SUSPEND"} /\ ipc' \in {"suspend", "ep0Out", "ep0In"}
      /\ "EP0OUT" \in irqs => ipc' # "ep0In"
      /\ "EP0OUT" \notin irqs => ipc' # "ep0Out"
      /\ "EP0OUT" \notin irqs /\ "EP0IN" \notin irqs => ipc' = "suspend"
  <2>1. /\ irqs # {} /\ irqs' = irqs \ {"BUSRESET", "SUSPEND"} /\ "BUSRESET" \notin irqs
        /\ irqs \subseteq Sources
    BY <1>a DEF NoReset, IsrEnter, AllInv, IInv, TypeOK
  <2>2. CASE "SUSPEND" \in irqs
    <3>1. ipc' = "suspend"
      BY <2>1, <2>2 DEF IsrEnter
    <3> QED
      BY <2>1, <3>1
  <2>3. CASE "SUSPEND" \notin irqs /\ "EP0OUT" \in irqs
    <3>1. ipc' = "ep0Out"
      BY <2>1, <2>3 DEF IsrEnter
    <3> QED
      BY <2>1, <2>3, <3>1
  <2>4. CASE "SUSPEND" \notin irqs /\ "EP0OUT" \notin irqs
    <3>1. ipc' = "ep0In"
      BY <2>1, <2>4 DEF IsrEnter
    <3>2. "EP0IN" \in irqs
      BY <2>1, <2>4 DEF Sources
    <3> QED
      BY <2>1, <2>4, <3>1, <3>2
  <2> QED
    BY <2>2, <2>3, <2>4
<1>1. NoReset'
  BY <1>a, <1>c DEF NoReset
<1>2. Unheard => Unheard'
  BY <1>0, <1>b, <1>c, SameTransfer
  DEF Unheard, Fresh, LastMasked, Between, mainVars, outVars, inVars, hostVars
<1>3. Heard => Heard'
  BY <1>0, <1>b, <1>c, SameTransfer
  DEF Heard, Fresh, Between, mainVars, outVars, inVars, hostVars
<1>4. Read => Read'
  BY <1>0, <1>b, <1>c, SameTransfer
  DEF Read, Fresh, mainVars, outVars, inVars, hostVars
<1>5. Ready => Ready'
  BY <1>0, <1>b, <1>c, SameTransfer
  DEF Ready, Awaited, Arrived, Handed, Between, mainVars, outVars, inVars, hostVars
<1>6. Answered => Answered'
  BY <1>0, <1>b, <1>c, SameTransfer
  DEF Answered, LastMasked, Between, mainVars, outVars, inVars, hostVars
<1> QED
  BY <1>a, <1>1, <1>2, <1>3, <1>4, <1>5, <1>6 DEF Phase

LEMMA Isr_SuspendChange_Clean ==
  ASSUME AllInv, Isr_SuspendChange PROVE CleanInv'
<1> SUFFICES ASSUME clean = 1 PROVE NoReset' /\ Phase'
  BY DEF CleanInv, Isr_SuspendChange, hostVars, Phase
<1>0. /\ UNCHANGED <<mainVars, i_st, DCP_state, Abort, serving, wLength, device, outVars,
                     inVars, irqs, hostVars>>
      /\ ipc = "suspend" /\ ipc' = "off"
  BY DEF Isr_SuspendChange, ExitIsr
<1>a. NoReset /\ Phase
  BY DEF AllInv, CleanInv, Phase
<1>b. UNCHANGED <<sent, device>>
  BY <1>0 DEF hostVars
<1>1. NoReset'
  BY <1>0, <1>a DEF NoReset
<1>2. Unheard => Unheard'
  BY <1>0, <1>b, SameTransfer
  DEF Unheard, Fresh, LastMasked, Between, mainVars, outVars, inVars, hostVars
<1>3. Heard => Heard'
  BY <1>0, <1>b, SameTransfer
  DEF Heard, Fresh, Between, mainVars, outVars, inVars, hostVars
<1>4. Read => Read'
  BY <1>0, <1>b, SameTransfer
  DEF Read, Fresh, mainVars, outVars, inVars, hostVars
<1>5. Ready => Ready'
  BY <1>0, <1>b, SameTransfer
  DEF Ready, Awaited, Arrived, Handed, Between, mainVars, outVars, inVars, hostVars
<1>6. Answered => Answered'
  BY <1>0, <1>b, SameTransfer
  DEF Answered, LastMasked, Between, mainVars, outVars, inVars, hostVars
<1> QED
  BY <1>a, <1>1, <1>2, <1>3, <1>4, <1>5, <1>6 DEF Phase

LEMMA Isr_Ep00RxDone_Clean ==
  ASSUME AllInv, Isr_Ep00RxDone PROVE CleanInv'
<1> SUFFICES ASSUME clean = 1 PROVE NoReset' /\ Phase'
  BY DEF CleanInv, Isr_Ep00RxDone, hostVars, Phase
<1>0. /\ UNCHANGED <<mainVars, i_st, serving, wLength, locked, inVars, hostVars>>
      /\ irqs' = irqs \ {"EP0OUT"} /\ ovwr' = 0
      /\ ipc = "ep0Out" /\ ipc' = IF "EP0IN" \in i_st THEN "ep0In" ELSE "off"
  BY DEF Isr_Ep00RxDone, ExitIsr
<1>1. NoReset /\ (Unheard \/ (Ready /\ Arrived) \/ Answered)
  BY <1>0
  DEF AllInv, CleanInv, Phase, Heard, Read, Ready, Awaited, Handed
<1>2. NoReset'
  BY <1>0, <1>1 DEF NoReset
<1>3. CASE Unheard
  <2>1. /\ DCP_state' = "SETUPPROC" /\ UNCHANGED <<outFifo, device, sent>>
    BY <1>0, <1>3 DEF Isr_Ep00RxDone, SetupReceived, Unheard, Fresh, hostVars
  <2>2. Heard'
    BY <1>0, <1>3, <2>1, SameTransfer
    DEF Unheard, Heard, Fresh, LastMasked, Between, mainVars, inVars, hostVars
  <2> QED
    BY <1>2, <2>2 DEF Phase
<1>4. CASE Ready /\ Arrived
  <2>1. /\ DCP_state' = "REQUESTPROC" /\ UNCHANGED <<Abort, device, sent>>
        /\ outFifo' = "empty"
    BY <1>0, <1>4
    DEF Isr_Ep00RxDone, DataReceived, ClearOut, Ready, Arrived, hostVars
  <2>2. ~TooLong(Current)
    BY <1>4, CurrentType, Directions DEF AllInv, Ready, Arrived
  <2>3. Handed'
    BY <1>0, <1>4, <2>1, <2>2, SameTransfer
    DEF Arrived, Handed, mainVars, hostVars
  <2>4. Ready'
    BY <1>0, <1>4, <2>1, <2>3, SameTransfer
    DEF Ready, Between, mainVars, inVars, hostVars
  <2> QED
    BY <1>2, <2>4 DEF Phase
<1>5. CASE Answered
  <2>1. stage = "idle" /\ (mpc \in {"respond", "commit"} => Several(Current))
    BY <1>0, <1>5 DEF Answered, LastMasked
  <2>2. /\ DCP_state' \in {DCP_state, "IDLE", "STALL"} /\ Abort' = Abort
        /\ outFifo' = outFifo
    BY <1>0, <1>5 DEF Isr_Ep00RxDone, DataReceived, Answered
  <2>3. Several(Current)' = Several(Current) /\ sent' = sent
    BY <1>0 DEF Several, TooLong, Current, hostVars
  <2>4. Answered'
    BY <1>0, <1>5, <2>1, <2>2, <2>3
    DEF Answered, LastMasked, mainVars, inVars, hostVars
  <2> QED
    BY <1>2, <2>4 DEF Phase
<1> QED
  BY <1>1, <1>3, <1>4, <1>5

LEMMA Isr_Ep00TxDone_Clean ==
  ASSUME AllInv, Isr_Ep00TxDone PROVE CleanInv'
<1> SUFFICES ASSUME clean = 1 PROVE NoReset' /\ Phase'
  BY DEF CleanInv, Isr_Ep00TxDone, hostVars, Phase
<1>0. /\ UNCHANGED <<mainVars, i_st, Abort, serving, wLength, device, outVars, hostVars>>
      /\ irqs' = irqs \ {"EP0IN", "BUSRESET", "SUSPEND"}
      /\ ipc = "ep0In" /\ ipc' = "off"
      /\ inFifo' = inFifo \/ (locked # 1 /\ inFifo' = serving)
      /\ \/ DCP_state' = DCP_state
         \/ DCP_state = "DATAIN" /\ DCP_state' \in {"DATAIN", "HANDSHAKE"}
      /\ DCP_state # "DATAIN" => inFifo' = inFifo
  <2>1. CASE DCP_state = "DATAIN"
    BY <2>1 DEF Isr_Ep00TxDone, ExitIsr, WriteIn, inVars, StateAfterPacket
  <2>2. CASE DCP_state # "DATAIN"
    BY <2>2 DEF Isr_Ep00TxDone, ExitIsr, inVars
  <2> QED
    BY <2>1, <2>2
<1>a. NoReset /\ Phase
  BY DEF AllInv, CleanInv, Phase
<1>b. UNCHANGED <<sent, device>>
  BY <1>0 DEF hostVars
<1>1. NoReset'
  BY <1>0, <1>a DEF NoReset
<1>2. Unheard => Unheard'
  BY <1>0, <1>b, SameTransfer
  DEF Unheard, Fresh, LastMasked, Between, mainVars, outVars, hostVars
<1>3. Heard => Heard'
  BY <1>0, <1>b, SameTransfer
  DEF Heard, Fresh, Between, mainVars, outVars, hostVars
<1>4. ~Read
  BY <1>0 DEF Read
<1>5. Ready => Ready'
  BY <1>0, <1>b, SameTransfer
  DEF Ready, Awaited, Arrived, Handed, Between, mainVars, outVars, hostVars
<1>6. Answered => Answered'
  BY <1>0, <1>b, SameTransfer
  DEF Answered, LastMasked, Between, mainVars, outVars, hostVars
<1> QED
  BY <1>a, <1>1, <1>2, <1>3, <1>4, <1>5, <1>6 DEF Phase

-----------------------------------------------------------------------------
(* The phases: the host *)

LEMMA HostSetup_Clean ==
  ASSUME AllInv, NEW r \in Requests, HostSetup(r) PROVE CleanInv'
<1> SUFFICES ASSUME clean' = 1 PROVE NoReset' /\ Phase'
  BY DEF CleanInv, Phase
<1>0. /\ UNCHANGED <<mainVars, isrVars, driverVars>>
      /\ outFifo' = "setup" /\ locked' = 1 /\ inFifo' = 0 /\ got' = 0
      /\ irqs' = irqs \cup {"EP0OUT"}
      /\ Clean
  BY DEF HostSetup
<1>1. /\ Len(sent') = Len(sent) + 1 /\ Len(sent) \in Nat /\ Current' = r
      /\ r \in RequestType
  BY PipeAssumption DEF HostSetup, AllInv, IInv, TypeOK, Current
<1>2. stage' = FirstStage(r)
  <2>1. r.length \in Nat /\ r.dir \in {"in", "out"}
    BY <1>1 DEF RequestType
  <2> QED
    BY <2>1 DEF HostSetup, FirstStage
<1>3. ~EP0Stalled'
  <2>1. device' = [device EXCEPT !.stalled = @ \ EP0] /\ device \in DeviceType
    BY DEF HostSetup, AllInv, IInv, TypeOK
  <2>2. device'.stalled = device.stalled \ EP0
    BY <2>1 DEF DeviceType
  <2> QED
    BY <2>2 DEF EP0Stalled
<1>4. Fresh'
  <2>1. FirstStage(Current)' = FirstStage(r)
    BY <1>1 DEF FirstStage
  <2>2. Len(sent') >= 1
    BY <1>1
  <2> QED
    BY <1>0, <1>2, <1>3, <2>1, <2>2 DEF Fresh
<1>5. CASE Quiet
  <2>1. NoReset'
    BY <1>0, <1>5 DEF Quiet, NoReset, isrVars
  <2>2. Unheard'
    BY <1>0, <1>4, <1>5
    DEF Unheard, Quiet, LastMasked, Between, mainVars, isrVars, driverVars
  <2> QED
    BY <2>1, <2>2 DEF Phase
<1>6. CASE ~Quiet
  <2>1. /\ stage = "idle" /\ clean = 1
        /\ sent # << >> => TooLong(Current) \/ Len(Handle(Current, device, 0).ops) <= 1
    BY <1>0, <1>6 DEF Clean
  <2>2. NoReset /\ Answered
    BY <2>1, CurrentType, Directions
    DEF AllInv, CleanInv, Phase, Unheard, Heard, Read, Ready, Awaited, Arrived, Handed,
        Fresh,
        FirstStage
  <2>3. Len(sent) >= 1 => ~Several(Current)
    <3> SUFFICES ASSUME Len(sent) >= 1 PROVE ~Several(Current)
      OBVIOUS
    <3>1. sent # << >>
      OBVIOUS
    <3>2. Current \in RequestType /\ device \in DeviceType
      BY CurrentType DEF AllInv, IInv, TypeOK
    <3> QED
      BY <2>1, <3>1, <3>2, HowMany DEF Several
  <2>4. mpc \in {"respond", "commit"} => LastMasked /\ (mpc = "respond" => ops[1].op # "stall")
    BY <2>1, <2>2, <2>3 DEF Answered
  <2>5. NoReset'
    BY <1>0, <2>2 DEF NoReset, isrVars
  <2>6. Unheard'
    BY <1>0, <1>4, <2>1, <2>2, <2>4
    DEF Unheard, Answered, LastMasked, mainVars, isrVars, driverVars
  <2> QED
    BY <2>5, <2>6 DEF Phase
<1> QED
  BY <1>5, <1>6

LEMMA HostIn_Clean ==
  ASSUME AllInv, HostIn PROVE CleanInv'
<1> SUFFICES ASSUME clean = 1 PROVE NoReset' /\ Phase'
  BY DEF CleanInv, HostIn, Phase
<1>0. /\ UNCHANGED <<mainVars, isrVars, driverVars, device, outVars, sent>>
      /\ inFifo # 0 /\ inFifo' = 0 /\ ~EP0Stalled
      /\ irqs' = irqs \cup {"EP0IN"}
      /\ stage \in {"dataIn", "statusIn"} /\ stage' \in {"dataIn", "statusOut", "idle"}
  BY DEF HostIn
<1>1. NoReset /\ Answered
  BY <1>0 DEF AllInv, CleanInv, Phase, Unheard, Heard, Read, Ready, Fresh
<1>2. NoReset'
  BY <1>0, <1>1 DEF NoReset, isrVars
<1>3. Answered'
  BY <1>0, <1>1, SameTransfer
  DEF Answered, LastMasked, mainVars, isrVars, driverVars, outVars
<1> QED
  BY <1>2, <1>3 DEF Phase

LEMMA HostOut_Clean ==
  ASSUME AllInv, HostOut PROVE CleanInv'
<1> SUFFICES ASSUME clean = 1 PROVE NoReset' /\ Phase'
  BY DEF CleanInv, HostOut, Phase
<1>0. /\ UNCHANGED <<mainVars, isrVars, driverVars, device, locked, ovwr, inVars, sent>>
      /\ stage \in {"dataOut", "statusOut"}
      /\ locked = 0 /\ outFifo' = "data" /\ ~EP0Stalled
      /\ irqs' = irqs \cup {"EP0OUT"}
      /\ stage = "statusOut" => stage' = "idle"
  BY DEF HostOut
<1>1. NoReset /\ ((Ready /\ Awaited) \/ Answered)
  BY <1>0 DEF AllInv, CleanInv, Phase, Unheard, Heard, Read, Ready, Arrived, Handed, Fresh
<1>2. NoReset'
  BY <1>0, <1>1 DEF NoReset, isrVars
<1>3. CASE Ready /\ Awaited
  <2>1. /\ Current.length \in Nat /\ Current.length < EP0_PACKET_SIZE
        /\ got = 0
    BY <1>3, CurrentType, PipeAssumption, PacketSizeAssumption
    DEF AllInv, Ready, Awaited, TakesData, RequestType
  <2>2. NextPacket(Current.length - got) = Current.length
    BY <2>1, PacketSizeAssumption DEF NextPacket
  <2>3. outLen' = Current.length /\ got' = Current.length /\ stage' = "statusIn"
    BY <1>3, <2>1, <2>2 DEF HostOut, Awaited
  <2>4. Arrived'
    BY <1>0, <1>3, <2>1, <2>3, SameTransfer, PacketSizeAssumption
    DEF Awaited, Arrived, mainVars, driverVars
  <2>5. Ready'
    BY <1>0, <1>3, <2>4, SameTransfer
    DEF Ready, Between, mainVars, driverVars, inVars
  <2> QED
    BY <1>2, <2>5 DEF Phase
<1>4. CASE Answered
  <2>1. stage = "statusOut" /\ stage' = "idle" /\ ipc # "ep0Out"
    BY <1>0, <1>4 DEF Answered
  <2>2. Answered'
    BY <1>0, <1>4, <2>1, SameTransfer
    DEF Answered, LastMasked, mainVars, isrVars, driverVars, inVars
  <2> QED
    BY <1>2, <2>2 DEF Phase
<1> QED
  BY <1>1, <1>3, <1>4

LEMMA HostStalled_Clean ==
  ASSUME AllInv, HostStalled PROVE CleanInv'
<1> SUFFICES ASSUME clean = 1 PROVE NoReset' /\ Phase'
  BY DEF CleanInv, HostStalled, Phase
<1>0. /\ UNCHANGED <<mainVars, isrVars, driverVars, device, outVars, inVars, irqs, sent>>
      /\ stage # "idle" /\ stage' = "idle" /\ EP0Stalled
  BY DEF HostStalled
<1>1. NoReset /\ Answered
  BY <1>0 DEF AllInv, CleanInv, Phase, Unheard, Heard, Read, Ready, Fresh
<1>2. NoReset'
  BY <1>0, <1>1 DEF NoReset, isrVars
<1>3. Answered'
  BY <1>0, <1>1, SameTransfer
  DEF Answered, LastMasked, mainVars, isrVars, driverVars, outVars, inVars
<1> QED
  BY <1>2, <1>3 DEF Phase

LEMMA HostSuspend_Clean ==
  ASSUME AllInv, HostSuspend PROVE CleanInv'
<1> SUFFICES ASSUME clean = 1 PROVE NoReset' /\ Phase'
  BY DEF CleanInv, HostSuspend, Phase
<1>0. /\ UNCHANGED <<mainVars, isrVars, driverVars, device, outVars, inVars, sent, stage,
                     got, clean>>
      /\ irqs' = irqs \cup {"SUSPEND"}
  BY DEF HostSuspend
<1>a. NoReset /\ Phase
  BY DEF AllInv, CleanInv, Phase
<1>1. NoReset'
  BY <1>0, <1>a DEF NoReset, isrVars
<1>2. Unheard => Unheard'
  BY <1>0, SameTransfer
  DEF Unheard, Fresh, LastMasked, Between, mainVars, isrVars, driverVars, outVars, inVars
<1>3. Heard => Heard'
  BY <1>0, SameTransfer
  DEF Heard, Fresh, Between, mainVars, isrVars, driverVars, outVars, inVars
<1>4. Read => Read'
  BY <1>0, SameTransfer
  DEF Read, Fresh, mainVars, isrVars, driverVars, outVars, inVars
<1>5. Ready => Ready'
  BY <1>0, SameTransfer
  DEF Ready, Awaited, Arrived, Handed, Between, mainVars, isrVars, driverVars, outVars,
      inVars
<1>6. Answered => Answered'
  BY <1>0, SameTransfer
  DEF Answered, LastMasked, Between, mainVars, isrVars, driverVars, outVars, inVars
<1> QED
  BY <1>a, <1>1, <1>2, <1>3, <1>4, <1>5, <1>6 DEF Phase

-----------------------------------------------------------------------------

LEMMA CleanStep == AllInv /\ [Next]_vars => CleanInv'
<1> SUFFICES ASSUME AllInv, [Next]_vars PROVE CleanInv'
  OBVIOUS
<1>1. CASE MainStep
  BY <1>1, Top_Clean, CheckSetup_Clean, SetupToken_Clean, Decide_Clean, AckTest_Clean,
     AckSetup_Clean, CheckRequest_Clean, DeviceRequest_Clean, Respond_Clean, Commit_Clean
  DEF MainStep
<1>2. CASE IsrStep
  <2>1. Isr_BusReset => CleanInv'
    BY DEF AllInv, CleanInv, NoReset, Isr_BusReset, hostVars
  <2> QED
    BY <1>2, <2>1, IsrEnter_Clean, Isr_SuspendChange_Clean, Isr_Ep00RxDone_Clean,
       Isr_Ep00TxDone_Clean DEF IsrStep
<1>3. CASE HostStep
  <2>1. HostBusReset => CleanInv'
    BY DEF CleanInv, HostBusReset
  <2> QED
    BY <1>3, <2>1, HostSetup_Clean, HostIn_Clean, HostOut_Clean, HostStalled_Clean,
       HostSuspend_Clean DEF HostStep
<1>4. CASE UNCHANGED vars
  BY <1>4
  DEF vars, AllInv, CleanInv, Phase, NoReset, Unheard, Heard, Read, Ready, Awaited, Arrived,
      Handed, Answered, Fresh, LastMasked, Current, EP0Stalled, Several, TakesData, TooLong,
      FirstStage
<1> QED
  BY <1>1, <1>2, <1>3, <1>4 DEF Next

LEMMA CleanInit == Init => CleanInv
  BY DEF Init, CleanInv, Phase, NoReset, Answered, Between

LEMMA AllInvariant == Spec => []AllInv
<1>1. Init => AllInv
  BY Init_IInv, CleanInit DEF AllInv
<1>2. AllInv /\ [Next]_vars => AllInv'
  BY Inductive, CleanStep DEF AllInv
<1> QED
  BY <1>1, <1>2, PTL DEF Spec

\* A clean transfer goes through the phases, however main loop, usb_isr and
\* host interleave: its SETUP packet is heard of, read, acknowledged, handled
\* and answered once, for the request the host sent.
THEOREM CleanTransfers == Spec => []CleanInv
<1>1. AllInv => CleanInv
  BY DEF AllInv
<1> QED
  BY <1>1, AllInvariant, PTL

\* The request of a clean transfer is executed as the host sent it, whole and
\* not to be aborted: the main loop overtaken by a SETUP packet between the test
\* of main.c:80 and the call of the handler is a hazard of other transfers only.
THEOREM CleanRequestsExecuted ==
  Spec => [][clean = 1 /\ mpc = "request" /\ mpc' # "request" =>
               Abort = 0 /\ sent[serving] = Current /\ wLength = Current.length
                 /\ outFifo = "empty" /\ inFifo = 0]_vars
<1> DEFINE Executed == clean = 1 /\ mpc = "request" /\ mpc' # "request" =>
                         Abort = 0 /\ sent[serving] = Current /\ wLength = Current.length
                           /\ outFifo = "empty" /\ inFifo = 0
<1>1. AllInv /\ [Next]_vars => [Executed]_vars
  BY DEF AllInv, CleanInv, Phase, Unheard, Heard, Read, Ready, Awaited, Arrived, Handed,
     Answered, Between, Current
<1> QED
  BY <1>1, AllInvariant, PTL DEF Spec

\* No transfer is answered with what was prepared for another: a packet in the
\* IN FIFO belongs to the transfer the host is in.
THEOREM AnswersAreCurrent == Spec => []AnswersCurrent
<1>1. AllInv => AnswersCurrent
  BY DEF AllInv, CleanInv, Phase, AnswersCurrent, Unheard, Heard, Read, Ready, Answered,
     Fresh
<1> QED
  BY <1>1, AllInvariant, PTL

-----------------------------------------------------------------------------
(***************************************************************************)
(* Stalls of endpoint 0.                                                   *)
(***************************************************************************)

\* The driver refuses request r in device state d: Refused of the current one.
RefusedBy(r, d) ==
  TooLong(r) \/ \E i \in DOMAIN Handle(r, d, 0).ops : Handle(r, d, 0).ops[i] = Stall

LEMMA OneElement ==
  /\ DOMAIN << >> = {}
  /\ \A o : DOMAIN <<o>> = {1} /\ <<o>>[1] = o
  /\ \A o, p : DOMAIN <<o, p>> = {1, 2} /\ <<o, p>>[1] = o /\ <<o, p>>[2] = p
<1>1. 1..1 = {1} /\ 1..2 = {1, 2} /\ 1..0 = {}
  OBVIOUS
<1> QED
  BY <1>1

LEMMA OpNames ==
  /\ Stall.op = "stall" /\ Acknowledge.op = "single"
  /\ \A n, b : Transmit(n, b).op = "single"
  /\ \A n : Burst(n).op = "burst"
  BY DEF Stall, Acknowledge, Transmit, Burst

LEMMA StallReply ==
  ASSUME NEW r \in RequestType, NEW d \in DeviceType, NEW a \in {0, 1},
         NEW i \in DOMAIN Handle(r, d, a).ops, Handle(r, d, a).ops[i].op = "stall"
  PROVE  /\ Handle(r, d, a).ops[i] = Stall
         /\ Handle(r, d, a).device = d \/ r.kind = "SetInterface"
<1> DEFINE h == Handle(r, d, a)
<1>1. r.kind \in Kinds
  BY DEF RequestType
<1>2. ASSUME NEW o, h.ops = <<o>> PROVE h.ops[i] = o /\ o.op = "stall"
  BY <1>2, OneElement
<1>3. h.ops # << >>
  BY OneElement
<1>4. CASE r.kind = "GetStatus"
  <2>1. h.device = d
    BY <1>4 DEF Handle, Chap9_GetStatus, Reply
  <2>2. h.ops = <<Stall>> \/ \E n, b : h.ops = <<Transmit(n, b)>>
    BY <1>3, <1>4 DEF Handle, Chap9_GetStatus, Reply
  <2> QED
    BY <1>2, <2>1, <2>2, OpNames
<1>5. CASE r.kind = "ClearFeature"
  <2>1. h.ops = <<Acknowledge>> \/ (h.ops = <<Stall>> /\ h.device = d)
    BY <1>3, <1>5 DEF Handle, Chap9_ClearFeature, Reply
  <2> QED
    BY <1>2, <2>1, OpNames
<1>6. CASE r.kind = "SetFeature"
  <2>1. h.ops = <<Acknowledge>> \/ (h.ops = <<Stall>> /\ h.device = d)
    BY <1>3, <1>6 DEF Handle, Chap9_SetFeature, Reply
  <2> QED
    BY <1>2, <2>1, OpNames
<1>7. CASE r.kind = "SetAddress"
  <2>1. h.ops = <<Acknowledge>>
    BY <1>3, <1>7 DEF Handle, Chap9_SetAddress, SetAddress, Reply
  <2> QED
    BY <1>2, <2>1, OpNames
<1>8. CASE r.kind = "GetDescriptor"
  <2>1. h.device = d
    BY <1>8 DEF Handle, Chap9_GetDescriptor, Reply
  <2>2. \/ \E n : h.ops = <<Burst(n)>> \/ h.ops = <<Burst(n), Stall>>
        \/ h.ops = <<Stall>> \/ h.ops = <<Stall, Stall>>
    BY <1>8 DEF Handle, Chap9_GetDescriptor, Reply
  <2> QED
    BY <2>1, <2>2, OneElement, OpNames
<1>9. CASE r.kind = "GetConfiguration"
  <2>1. \E n, b : h.ops = <<Transmit(n, b)>>
    BY <1>3, <1>9 DEF Handle, Chap9_GetConfiguration, Reply
  <2> QED
    BY <1>2, <2>1, OpNames
<1>10. CASE r.kind = "SetConfiguration"
  <2>1. h.ops = <<Acknowledge>> \/ (h.ops = <<Stall>> /\ h.device = d)
    BY <1>3, <1>10 DEF Handle, Chap9_SetConfiguration, Reply
  <2> QED
    BY <1>2, <2>1, OpNames
<1>11. CASE r.kind = "GetInterface"
  <2>1. h.device = d
    BY <1>11 DEF Handle, Chap9_GetInterface, Reply
  <2>2. h.ops = <<Stall>> \/ \E n, b : h.ops = <<Transmit(n, b)>>
    BY <1>11 DEF Handle, Chap9_GetInterface, Reply
  <2> QED
    BY <1>2, <2>1, <2>2, OpNames
<1>12. CASE r.kind = "SetInterface"
  <2>1. ASSUME NEW o \in {Acknowledge, Stall}
        PROVE  /\ <<Stall>> \o <<o>> = <<Stall, o>>
               /\ << >> \o <<o>> = <<o>>
    <3>1. Stall \in OperationType /\ o \in OperationType
      BY Operations DEF Stall, Acknowledge, Transmit, OperationType
    <3> QED
      BY <3>1, TwoInARow
  <2>2. \E o \in {Acknowledge, Stall} : h.ops = <<Stall, o>> \/ h.ops = <<o>>
    BY <1>12, <2>1 DEF Handle, Chap9_SetInterface, Reply
  <2> QED
    BY <1>12, <2>2, OneElement, OpNames
<1>13. CASE r.kind = "Unsupported"
  BY <1>2, <1>13 DEF Handle, Reply
<1> QED
  BY <1>1, <1>4, <1>5, <1>6, <1>7, <1>8, <1>9, <1>10, <1>11, <1>12, <1>13 DEF Kinds

\* A refused SetInterface is refused whatever it has done to the device.
LEMMA SetInterfaceRefused ==
  ASSUME NEW r \in RequestType, NEW d \in DeviceType, r.kind = "SetInterface"
  PROVE  (\E i \in DOMAIN Handle(r, d, 0).ops : Handle(r, d, 0).ops[i].op = "stall")
           => RefusedBy(r, Handle(r, d, 0).device)
<1> DEFINE h == Handle(r, d, 0)
           first == IF r.dir = "in" THEN <<Stall>> ELSE << >>
<1>1. h = Chap9_SetInterface(r, d)
  BY DEF Handle
<1>2. ASSUME NEW o \in {Acknowledge, Stall}
      PROVE  /\ <<Stall>> \o <<o>> = <<Stall, o>>
             /\ << >> \o <<o>> = <<o>>
  <2>1. Stall \in OperationType /\ o \in OperationType
    BY Operations DEF Stall, Acknowledge, Transmit, OperationType
  <2> QED
    BY <2>1, TwoInARow
<1>3. CASE r.dir = "in"
  <2>1. ASSUME NEW e \in DeviceType
        PROVE  \E o \in {Acknowledge, Stall} : Handle(r, e, 0).ops = <<Stall, o>>
    BY <1>2, <1>3 DEF Handle, Chap9_SetInterface, Reply
  <2>2. h.device \in DeviceType
    BY HandleReply DEF GoodReply
  <2>3. 1 \in DOMAIN Handle(r, h.device, 0).ops /\ Handle(r, h.device, 0).ops[1] = Stall
    BY <2>1, <2>2, OneElement
  <2> QED
    BY <2>3 DEF RefusedBy
<1>4. CASE r.dir # "in"
  <2>1. h.ops = <<Acknowledge>> \/ (h.ops = <<Stall>> /\ h.device = d)
    BY <1>1, <1>2, <1>4 DEF Chap9_SetInterface, Reply
  <2>2. CASE h.ops = <<Acknowledge>>
    BY <2>2, OneElement, OpNames
  <2>3. CASE h.ops = <<Stall>> /\ h.device = d
    BY <2>3, OneElement DEF RefusedBy
  <2> QED
    BY <2>1, <2>2, <2>3
<1> QED
  BY <1>3, <1>4

LEMMA RefusedReply ==
  ASSUME NEW r \in RequestType, NEW d \in DeviceType,
         \E i \in DOMAIN Handle(r, d, 0).ops : Handle(r, d, 0).ops[i].op = "stall"
  PROVE  RefusedBy(r, Handle(r, d, 0).device)
<1>1. PICK i \in DOMAIN Handle(r, d, 0).ops : Handle(r, d, 0).ops[i].op = "stall"
  OBVIOUS
<1>2. /\ Handle(r, d, 0).ops[i] = Stall
      /\ Handle(r, d, 0).device = d \/ r.kind = "SetInterface"
  BY <1>1, StallReply
<1> QED
  BY <1>2, SetInterfaceRefused DEF RefusedBy

\* Whether a request is refused does not depend on what is stalled.
LEMMA RefusedStalled ==
  ASSUME NEW r \in RequestType, NEW d \in DeviceType, RefusedBy(r, d)
  PROVE  RefusedBy(r, Stalled(d))
<1> DEFINE e == Stalled(d)
<1>1. r.kind \in Kinds
  BY DEF RequestType
<1>2. /\ e \in DeviceType /\ e.address = d.address /\ e.default = d.default
      /\ e.configuration = d.configuration /\ e.alt = d.alt /\ e.remote_wakeup = d.remote_wakeup
      /\ e.configured = d.configured
  BY StalledDevice DEF Stalled, DeviceType
<1> HIDE DEF e
<1>3. CASE TooLong(r)
  BY <1>3 DEF RefusedBy
<1>4. CASE ~TooLong(r)
  <2>1. PICK i \in DOMAIN Handle(r, d, 0).ops : Handle(r, d, 0).ops[i] = Stall
    BY <1>4 DEF RefusedBy
  <2>2. CASE r.kind = "GetStatus"
    <3>1. Handle(r, d, 0).ops = <<Stall>> \/ Handle(r, d, 0).ops # <<Stall>>
      OBVIOUS
    <3>2. CASE Handle(r, d, 0).ops = <<Stall>>
      <4>1. Handle(r, e, 0).ops = <<Stall>>
        <5>1. ASSUME NEW n, NEW b PROVE <<Stall>> # <<Transmit(n, b)>>
          <6>1. <<Stall>>[1] # <<Transmit(n, b)>>[1]
            BY OneElement, OpNames
          <6> QED
            BY <6>1
        <5>2. <<Stall>> # << >>
          BY OneElement
        <5> QED
          BY <1>2, <2>2, <3>2, <5>1, <5>2 DEF Handle, Chap9_GetStatus, Reply
      <4> QED
        BY <4>1, OneElement DEF RefusedBy, e
    <3>3. CASE Handle(r, d, 0).ops # <<Stall>>
      <4>1. Handle(r, d, 0).ops = << >> \/ \E n, b : Handle(r, d, 0).ops = <<Transmit(n, b)>>
        BY <2>2, <3>3 DEF Handle, Chap9_GetStatus, Reply
      <4> QED
        BY <2>1, <4>1, OneElement, OpNames
    <3> QED
      BY <3>2, <3>3
  <2>3. CASE r.kind # "GetStatus"
    <3>1. Handle(r, e, 0).ops = Handle(r, d, 0).ops
      <4>2. CASE r.kind = "ClearFeature"
        BY <1>2, <4>2 DEF Handle, Chap9_ClearFeature, Reply
      <4>3. CASE r.kind = "SetFeature"
        BY <1>2, <4>3 DEF Handle, Chap9_SetFeature, Reply
      <4>4. CASE r.kind = "SetAddress"
        BY <1>2, <4>4 DEF Handle, Chap9_SetAddress, SetAddress, Reply
      <4>5. CASE r.kind = "GetDescriptor"
        BY <1>2, <4>5 DEF Handle, Chap9_GetDescriptor, Reply
      <4>6. CASE r.kind = "GetConfiguration"
        BY <1>2, <4>6 DEF Handle, Chap9_GetConfiguration, Reply
      <4>7. CASE r.kind = "SetConfiguration"
        BY <1>2, <4>7 DEF Handle, Chap9_SetConfiguration, Reply
      <4>8. CASE r.kind = "GetInterface"
        BY <1>2, <4>8 DEF Handle, Chap9_GetInterface, Reply
      <4>9. CASE r.kind = "SetInterface"
        BY <1>2, <4>9 DEF Handle, Chap9_SetInterface, Reply
      <4>10. CASE r.kind = "Unsupported"
        BY <4>10 DEF Handle, Reply
      <4> QED
        BY <1>1, <2>3, <4>2, <4>3, <4>4, <4>5, <4>6, <4>7, <4>8, <4>9, <4>10 DEF Kinds
    <3> QED
      BY <2>1, <3>1 DEF RefusedBy, e
  <2> QED
    BY <2>2, <2>3
<1> QED
  BY <1>3, <1>4

\* A stall a host has to reckon with: the driver refuses its request, or it
\* asked for an endpoint to be halted itself.
Justified(r, d) == RefusedBy(r, d) \/ HaltsEndpoint(r)

Stalls == \E i \in DOMAIN ops : ops[i].op = "stall"

\* A stall of a clean transfer is justified, and a handler has none to do but
\* for a refused request.
StallsKnown ==
  clean = 1 =>
    /\ stage # "idle" /\ EP0Stalled => Justified(Current, device)
    /\ locked = 0 /\ mpc \in {"respond", "commit"} /\ Stalls => RefusedBy(Current, device)

LEMMA StallSame ==
  ASSUME StallsKnown, UNCHANGED <<sent, device, ops, clean, locked>>,
         stage' # "idle" => stage # "idle",
         mpc' \in {"respond", "commit"} => mpc \in {"respond", "commit"}
  PROVE  StallsKnown'
<1>1. Current' = Current /\ EP0Stalled' = EP0Stalled /\ Stalls' = Stalls
  BY DEF Current, EP0Stalled, Stalls
<1>2. /\ Justified(Current, device)' = Justified(Current, device)
      /\ RefusedBy(Current, device)' = RefusedBy(Current, device)
  BY <1>1 DEF Justified, RefusedBy, HaltsEndpoint, TooLong
<1> QED
  BY <1>1, <1>2 DEF StallsKnown

LEMMA SimpleSteps_Stalls ==
  ASSUME StallsKnown,
         \/ Top \/ CheckSetup \/ Decide \/ CheckRequest \/ IsrEnter \/ Isr_SuspendChange
         \/ Isr_Ep00TxDone \/ HostIn \/ HostOut \/ HostStalled \/ HostSuspend
  PROVE  StallsKnown'
<1>1. CASE Top
  BY <1>1, StallSame DEF Top, Main, outVars, hostVars
<1>2. CASE CheckSetup
  BY <1>2, StallSame DEF CheckSetup, Main, outVars, hostVars
<1>3. CASE Decide
  BY <1>3, StallSame DEF Decide, Main, outVars, hostVars
<1>4. CASE CheckRequest
  BY <1>4, StallSame DEF CheckRequest, Main, outVars, hostVars
<1>5. CASE IsrEnter
  BY <1>5, StallSame DEF IsrEnter, mainVars, outVars, hostVars
<1>6. CASE Isr_SuspendChange
  BY <1>6, StallSame DEF Isr_SuspendChange, mainVars, outVars, hostVars
<1>7. CASE Isr_Ep00TxDone
  BY <1>7, StallSame DEF Isr_Ep00TxDone, mainVars, outVars, hostVars
<1>8. CASE HostIn
  BY <1>8, StallSame DEF HostIn, mainVars, outVars
<1>9. CASE HostOut
  BY <1>9, StallSame DEF HostOut, mainVars
<1>10. CASE HostStalled
  BY <1>10, StallSame DEF HostStalled, mainVars, outVars
<1>11. CASE HostSuspend
  BY <1>11, StallSame DEF HostSuspend, mainVars, outVars
<1> QED
  BY <1>1, <1>2, <1>3, <1>4, <1>5, <1>6, <1>7, <1>8, <1>9, <1>10, <1>11

LEMMA SetupSteps_Stalls ==
  ASSUME AllInv, StallsKnown, SetupToken \/ AckTest \/ AckSetup
  PROVE  StallsKnown'
<1> SUFFICES ASSUME clean' = 1 PROVE StallsKnown'
  BY DEF StallsKnown
<1>1. clean = 1 /\ CleanInv
  BY DEF AllInv, SetupToken, AckTest, AckSetup, hostVars
<1>2. CASE SetupToken
  <2>1. Heard
    BY <1>1, <1>2
    DEF CleanInv, Phase, Unheard, Read, Ready, Answered, Between, SetupToken, Main
  <2> QED
    BY <1>2, <2>1, StallSame DEF SetupToken, Heard, Fresh, hostVars
<1>3. CASE AckTest
  <2>1. Read
    BY <1>1, <1>3
    DEF CleanInv, Phase, Unheard, Heard, Ready, Answered, Between, AckTest, Main
  <2>2. UNCHANGED <<sent, device, ops, clean, locked, stage>> /\ mpc' = "ack"
    BY <1>3, <2>1 DEF AckTest, Read, hostVars
  <2> QED
    BY <2>2, StallSame
<1>4. CASE AckSetup
  <2>1. Read
    BY <1>1, <1>4
    DEF CleanInv, Phase, Unheard, Heard, Ready, Answered, Between, AckSetup, Main
  <2>2. /\ Current' = Current /\ sent[serving] = Current /\ mpc' = "checkRequest"
        /\ ~EP0Stalled
    BY <1>4, <2>1 DEF AckSetup, Advance, Read, Fresh, Current, hostVars
  <2>3. TooLong(Current) \/ device' = device
    BY <1>4, <2>2 DEF AckSetup, Advance
  <2>4. CASE TooLong(Current)
    BY <2>2, <2>4 DEF StallsKnown, Justified, RefusedBy, TooLong
  <2>5. CASE device' = device
    BY <2>2, <2>5 DEF StallsKnown, EP0Stalled
  <2> QED
    BY <2>3, <2>4, <2>5
<1> QED
  BY <1>2, <1>3, <1>4

LEMMA DeviceRequest_Stalls ==
  ASSUME AllInv, StallsKnown, DeviceRequest
  PROVE  StallsKnown'
<1> SUFFICES ASSUME clean' = 1 PROVE StallsKnown'
  BY DEF StallsKnown
<1>1. Ready
  BY DEF AllInv, CleanInv, Phase, Unheard, Heard, Read, Answered, Between, DeviceRequest,
         Main,
     hostVars
<1>2. /\ sent[serving] = Current /\ Current' = Current /\ Current \in RequestType
      /\ device \in DeviceType /\ Abort = 0
  BY <1>1, CurrentType
  DEF DeviceRequest, Ready, Current, hostVars, AllInv, IInv, TypeOK
<1> DEFINE h == Handle(Current, device, 0)
<1>3. device' = h.device /\ ops' = h.ops
  BY <1>2 DEF DeviceRequest
<1>4. EP0Stalled' => HaltsEndpoint(Current)
  BY <1>1, <1>2, <1>3, HaltingReply DEF Ready, EP0Stalled
<1>5. Stalls' => RefusedBy(Current, h.device)
  BY <1>2, <1>3, RefusedReply DEF Stalls
<1> QED
  BY <1>2, <1>3, <1>4, <1>5 DEF StallsKnown, Justified, RefusedBy, HaltsEndpoint, TooLong

LEMMA Respond_Stalls ==
  ASSUME AllInv, StallsKnown, Respond
  PROVE  StallsKnown'
<1> SUFFICES ASSUME clean' = 1 PROVE StallsKnown'
  BY DEF StallsKnown
<1>1. /\ UNCHANGED <<ops, sent, stage, clean, locked>> /\ mpc = "respond" /\ mpc' = "commit"
      /\ device \in DeviceType /\ Current' = Current /\ Stalls' = Stalls
  BY DEF Respond, Main, outVars, hostVars, AllInv, IInv, TypeOK, Current, Stalls
<1>2. /\ Head(ops) = ops[1] /\ ops[1].op \in {"stall", "single", "burst"}
      /\ 1 \in DOMAIN ops
  BY <1>1, TailOps DEF AllInv, IInv, TypeOK, Operating, OperationType
<1>3. CASE ops[1].op = "stall"
  <2>1. device' = Stalled(device)
    BY <1>2, <1>3 DEF Respond
  <2>2. Answered
    BY <1>1, <1>3 DEF AllInv, CleanInv, Phase, Unheard, Heard, Read, Ready, Between
  <2>3. RefusedBy(Current, device) /\ Current \in RequestType
    BY <1>1, <1>2, <1>3, <2>2, CurrentType DEF StallsKnown, Stalls, Answered, AllInv
  <2>4. RefusedBy(Current, Stalled(device))
    BY <1>1, <2>3, RefusedStalled
  <2> QED
    BY <1>1, <2>1, <2>4 DEF StallsKnown, Justified, RefusedBy, TooLong
<1>4. CASE ops[1].op # "stall"
  <2>1. device' = device
    BY <1>2, <1>4 DEF Respond
  <2> QED
    BY <1>1, <2>1, StallSame
<1> QED
  BY <1>3, <1>4

LEMMA Commit_Stalls ==
  ASSUME AllInv, StallsKnown, Commit
  PROVE  StallsKnown'
<1>1. /\ UNCHANGED <<device, sent, stage, clean, locked>> /\ mpc = "commit"
      /\ ops' = Tail(ops) /\ Current' = Current /\ EP0Stalled' = EP0Stalled
  BY DEF Commit, Main, outVars, hostVars, Current, EP0Stalled
<1>2. ops \in Seq(OperationType) /\ Len(ops) >= 1
  BY <1>1 DEF AllInv, IInv, TypeOK, Operating
<1>3. /\ DOMAIN Tail(ops) = 1..Len(ops) - 1 /\ DOMAIN ops = 1..Len(ops)
      /\ \A i \in 1..Len(ops) - 1 : Tail(ops)[i] = ops[i + 1]
  BY <1>2
<1>4. Len(ops) \in Nat
  BY <1>2
<1>5. \A i \in 1..Len(ops) - 1 : i + 1 \in 1..Len(ops)
  BY <1>4
<1>6. Stalls' => Stalls
  BY <1>1, <1>3, <1>5 DEF Stalls
<1>7. /\ Justified(Current, device)' = Justified(Current, device)
      /\ RefusedBy(Current, device)' = RefusedBy(Current, device)
  BY <1>1 DEF Justified, RefusedBy, HaltsEndpoint, TooLong
<1> QED
  BY <1>1, <1>6, <1>7 DEF StallsKnown

LEMMA Isr_Ep00RxDone_Stalls ==
  ASSUME AllInv, StallsKnown, Isr_Ep00RxDone
  PROVE  StallsKnown'
<1> SUFFICES ASSUME clean' = 1 PROVE StallsKnown'
  BY DEF StallsKnown
<1>1. /\ UNCHANGED <<mpc, ops, sent, stage, clean, locked>> /\ ipc = "ep0Out"
      /\ device \in DeviceType /\ Current' = Current /\ Stalls' = Stalls
  BY DEF Isr_Ep00RxDone, mainVars, hostVars, AllInv, IInv, TypeOK, Current, Stalls
<1>2. Unheard \/ (Ready /\ Arrived) \/ Answered
  BY <1>1 DEF AllInv, CleanInv, Phase, Heard, Read, Ready, Awaited, Handed
<1>3. CASE device' = device
  BY <1>1, <1>3, StallSame
<1>4. CASE device' # device
  <2>1. outFifo # "setup" /\ DCP_state = "IDLE" /\ device' = Stalled(device)
    BY <1>4 DEF Isr_Ep00RxDone, SetupReceived, DataReceived
  <2>2. Answered
    BY <1>2, <2>1 DEF Unheard, Fresh, Arrived
  <2>3. stage = "idle"
    BY <1>1, <2>2 DEF Answered
  <2>4. SUFFICES ASSUME mpc \in {"respond", "commit"}, Stalls, locked = 0
                 PROVE  RefusedBy(Current, Stalled(device))
    BY <1>1, <2>1, <2>3 DEF StallsKnown, RefusedBy, TooLong
  <2>5. RefusedBy(Current, device) /\ Current \in RequestType
    BY <1>1, <2>2, <2>4, CurrentType DEF StallsKnown, Answered, AllInv
  <2> QED
    BY <1>1, <2>5, RefusedStalled
<1> QED
  BY <1>3, <1>4

LEMMA HostSetup_Stalls ==
  ASSUME AllInv, NEW r \in Requests, HostSetup(r)
  PROVE  StallsKnown'
<1>1. locked' = 1
  BY DEF HostSetup
<1>2. ~EP0Stalled'
  <2>1. device' = [device EXCEPT !.stalled = @ \ EP0] /\ device \in DeviceType
    BY DEF HostSetup, AllInv, IInv, TypeOK
  <2>2. device'.stalled = device.stalled \ EP0
    BY <2>1 DEF DeviceType
  <2> QED
    BY <2>2 DEF EP0Stalled
<1> QED
  BY <1>1, <1>2 DEF StallsKnown

LEMMA StallsKnownInit == Init => StallsKnown
  BY DEF Init, StallsKnown

LEMMA StallsKnownStep == AllInv /\ StallsKnown /\ [Next]_vars => StallsKnown'
<1> SUFFICES ASSUME AllInv, StallsKnown, [Next]_vars PROVE StallsKnown'
  OBVIOUS
<1>1. CASE MainStep
  BY <1>1, SimpleSteps_Stalls, SetupSteps_Stalls, DeviceRequest_Stalls, Respond_Stalls,
     Commit_Stalls DEF MainStep
<1>2. CASE IsrStep
  <2>1. Isr_BusReset => StallsKnown'
    BY DEF AllInv, CleanInv, NoReset, Isr_BusReset, hostVars, StallsKnown
  <2> QED
    BY <1>2, <2>1, SimpleSteps_Stalls, Isr_Ep00RxDone_Stalls DEF IsrStep
<1>3. CASE HostStep
  <2>1. HostBusReset => StallsKnown'
    BY DEF StallsKnown, HostBusReset
  <2> QED
    BY <1>3, <2>1, SimpleSteps_Stalls, HostSetup_Stalls DEF HostStep
<1>4. CASE UNCHANGED vars
  BY <1>4, StallSame DEF vars
<1> QED
  BY <1>1, <1>2, <1>3, <1>4 DEF Next

LEMMA StallsInvariant == Spec => []StallsKnown
<1>1. AllInv /\ StallsKnown /\ [Next]_vars => StallsKnown'
  BY StallsKnownStep
<1> QED
  BY <1>1, AllInvariant, StallsKnownInit, PTL DEF Spec

\* A host that asks for no endpoint to be halted.
NoHalts == \A r \in Requests : ~HaltsEndpoint(r)

\* Endpoint 0 answers STALL to a clean transfer only when the driver refuses its
\* request, or when the host has just had an endpoint halted (in the address
\* state Chap9_SetFeature halts endpoint 0 for any endpoint): no stall is left
\* over, and none comes from an interrupt that finds the state machine elsewhere.
THEOREM StallsExplained ==
  Spec => [](clean = 1 /\ stage # "idle" /\ EP0Stalled =>
               Refused(Current) \/ HaltsEndpoint(Current))
<1>1. StallsKnown => (clean = 1 /\ stage # "idle" /\ EP0Stalled =>
                        Refused(Current) \/ HaltsEndpoint(Current))
  BY DEF StallsKnown, Justified, RefusedBy, Refused
<1> QED
  BY <1>1, StallsInvariant, PTL

\* With a host that has no endpoint halted, only a refused request is stalled.
THEOREM StallsJustified == ASSUME NoHalts PROVE Spec => []StallsOnlyWhenRefused
<1>1. AllInv /\ StallsKnown => StallsOnlyWhenRefused
  <2> SUFFICES ASSUME AllInv, StallsKnown, clean = 1, stage # "idle", EP0Stalled
               PROVE  Refused(Current)
    BY DEF StallsOnlyWhenRefused
  <2>1. Len(sent) >= 1
    BY DEF AllInv, CleanInv, Phase, Unheard, Heard, Read, Ready, Answered, Fresh
  <2>2. Len(sent) \in 1..Len(sent) /\ sent \in Seq(Requests)
    BY <2>1 DEF AllInv, IInv, TypeOK
  <2>3. Current \in Requests
    BY <2>2 DEF Current
  <2> QED
    BY <2>3 DEF StallsKnown, Justified, RefusedBy, Refused, NoHalts
<1> QED
  BY <1>1, AllInvariant, StallsInvariant, PTL

-----------------------------------------------------------------------------
(***************************************************************************)
(* The data stage of a clean read.                                         *)
(***************************************************************************)

ReadStage == stage \in {"dataIn", "statusOut"} =>
               Len(sent) >= 1 /\ Current.dir = "in" /\ Current.length > 0

\* The bytes an answer has, if there is one: a descriptor is cut to the length
\* asked for, and the rest is not.
Due(r) == CASE r.kind = "GetDescriptor" -> BurstLength(r.length, Available(r))
            [] r.kind = "GetStatus" -> 2
            [] r.kind \in {"ClearFeature", "SetFeature", "SetAddress",
                           "SetConfiguration", "SetInterface"} -> 0
            [] OTHER -> 1

\* There is one: of a descriptor the host gets no more than it asked for.
Sized(r) == /\ Due(r) \in Nat
            /\ r.kind = "GetDescriptor" => Available(r) \in Nat /\ Due(r) <= r.length

\* Those the host has not taken from the FIFO.
Pending == IF inFifo = 0 THEN 0 ELSE inLen

\* usb_isr is called for an empty FIFO.
Writable == "EP0IN" \in irqs \/ ipc = "ep0In" => inFifo = 0

\* A packet is part of what is missing, and all of it when it is short or the
\* host did not ask for as much.
Fitting == inFifo # 0 =>
  /\ Sized(Current) /\ got + inLen <= Due(Current)
  /\ inLen < EP0_PACKET_SIZE \/ Due(Current) > Current.length => got + inLen = Due(Current)

\* The answer is a descriptor.
Described == Current.kind = "GetDescriptor" /\ Sized(Current)

\* The driver counts what the host has and what waits for it.
Continued == DCP_state = "DATAIN" =>
  Described /\ wLength = Due(Current) /\ wCount = got + Pending

\* A handler's data meet an empty pipe with interrupts masked.
Answering == mpc = "respond" /\ ops[1].op # "stall" =>
  /\ ipc = "off" /\ INT_Enabled = 0 /\ "EP0IN" \notin irqs
  /\ DCP_state = "IDLE" /\ got = 0 /\ inFifo = 0 /\ wLength = Current.length
  /\ Sized(Current)
  /\ ops[1].op = "burst" => Described /\ ops[1].len = Available(Current)
  /\ ops[1].op = "single" => ops[1].len = Due(Current)

\* Their first packet may be taken before it is accounted for.
Accounting == mpc = "commit" /\ ops[1].op = "burst" =>
  /\ DCP_state = "IDLE" /\ Described /\ wLength = Due(Current)
  /\ got + Pending = NextPacket(wLength)

\* Nothing but a stall follows, and after a stall the host is gone.
AnswersOnce ==
  /\ mpc \in {"respond", "commit"} /\ ops[1].op # "stall" =>
       \A i \in DOMAIN ops : i > 1 => ops[i].op = "stall"
  /\ mpc = "commit" => ops[1].op # "stall"

DataKnown ==
  clean = 1 /\ locked = 0 =>
    /\ stage = "statusOut" => Sized(Current) /\ got = Due(Current)
    /\ stage = "dataIn" /\ ~EP0Stalled =>
         Writable /\ Fitting /\ Continued /\ Answering /\ Accounting /\ AnswersOnce

LEMMA ReadStageStep == IInv /\ ReadStage /\ [Next]_vars => ReadStage'
<1> SUFFICES ASSUME IInv, ReadStage, [Next]_vars PROVE ReadStage'
  OBVIOUS
<1>1. ASSUME sent' = sent,
             stage' \in {"dataIn", "statusOut"} => stage \in {"dataIn", "statusOut"}
      PROVE  ReadStage'
  BY <1>1 DEF ReadStage, Current
<1>2. CASE MainStep
  <2>1. hostVars' = hostVars
    BY <1>2 DEF MainStep, Top, CheckSetup, SetupToken, Decide, AckTest, AckSetup,
       CheckRequest, DeviceRequest, Respond, Commit
  <2> QED
    BY <1>1, <2>1 DEF hostVars
<1>3. CASE IsrStep
  <2>1. hostVars' = hostVars
    BY <1>3 DEF IsrStep, IsrEnter, Isr_BusReset, Isr_SuspendChange, Isr_Ep00RxDone,
       Isr_Ep00TxDone
  <2> QED
    BY <1>1, <2>1 DEF hostVars
<1>4. ASSUME NEW r \in Requests, HostSetup(r) PROVE ReadStage'
  <2>1. Len(sent') >= 1 /\ Current' = r
    BY <1>4 DEF HostSetup, Current, IInv, TypeOK
  <2>2. stage' \in {"dataIn", "statusOut"} => r.dir = "in" /\ r.length > 0
    BY <1>4 DEF HostSetup
  <2> QED
    BY <2>1, <2>2 DEF ReadStage
<1>5. CASE HostIn \/ HostOut \/ HostStalled \/ HostBusReset \/ HostSuspend
  <2>1. /\ sent' = sent
        /\ stage' \in {"dataIn", "statusOut"} => stage \in {"dataIn", "statusOut"}
    BY <1>5 DEF HostIn, HostOut, HostStalled, HostBusReset, HostSuspend
  <2> QED
    BY <1>1, <2>1
<1>6. CASE UNCHANGED vars
  BY <1>1, <1>6 DEF vars
<1> QED
  BY <1>2, <1>3, <1>4, <1>5, <1>6 DEF Next, HostStep

LEMMA ReadStageInit == Init => ReadStage
  BY DEF Init, ReadStage

(* The data stage *)

LEMMA SameRead ==
  ASSUME UNCHANGED <<sent>>
  PROVE  /\ Current' = Current
         /\ Available(Current)' = Available(Current) /\ Due(Current)' = Due(Current)
         /\ Sized(Current)' = Sized(Current) /\ Described' = Described
<1>1. /\ Current' = Current
      /\ Available(Current)' = Available(Current) /\ Due(Current)' = Due(Current)
  BY DEF Current, Available, Due
<1> QED
  BY <1>1 DEF Sized, Described

LEMMA DataSame ==
  ASSUME DataKnown,
         UNCHANGED <<sent, device, ops, clean, locked, got, inFifo, inLen, wLength>>,
         stage' \in {"dataIn", "statusOut"} => stage' = stage,
         DCP_state' = DCP_state, wCount' = wCount,
         mpc' \in {"respond", "commit"} => mpc' = mpc,
         ipc = "off" /\ INT_Enabled = 0 => ipc' = "off" /\ INT_Enabled' = 0,
         "EP0IN" \in irqs' => "EP0IN" \in irqs,
         ipc' = "ep0In" => ipc = "ep0In" \/ "EP0IN" \in irqs
  PROVE  DataKnown'
<1>1. /\ Current' = Current /\ EP0Stalled' = EP0Stalled /\ Pending' = Pending
      /\ Due(Current)' = Due(Current)
      /\ Sized(Current)' = Sized(Current) /\ Described' = Described
  BY SameRead DEF EP0Stalled, Pending
<1>2. SUFFICES ASSUME clean = 1, locked = 0,
                      stage' = stage, stage = "dataIn", ~EP0Stalled,
                      Writable, Fitting, Continued, Answering, Accounting, AnswersOnce
               PROVE  /\ Writable' /\ Fitting' /\ Continued'
                      /\ Answering' /\ Accounting' /\ AnswersOnce'
  BY <1>1 DEF DataKnown
<1>3. Writable'
  BY <1>2 DEF Writable
<1>4. Fitting' /\ Continued'
  BY <1>1, <1>2 DEF Fitting, Continued
<1>5. Answering'
  BY <1>1, <1>2 DEF Answering
<1>6. Accounting' /\ AnswersOnce'
  BY <1>1, <1>2 DEF Accounting, AnswersOnce
<1> QED
  BY <1>3, <1>4, <1>5, <1>6

\* The bytes of an answer.
LEMMA DataReply ==
  ASSUME NEW r \in RequestType, NEW d \in DeviceType, r.dir = "in", r.length > 0
  PROVE  LET ans == Handle(r, d, 0).ops
         IN ans # << >> /\ ans[1].op # "stall" =>
              /\ \A i \in DOMAIN ans : i > 1 => ans[i].op = "stall"
              /\ Sized(r)
              /\ ans[1].op = "burst" => r.kind = "GetDescriptor" /\ ans[1].len = Available(r)
              /\ ans[1].op = "single" => ans[1].len = Due(r)
<1> DEFINE ans == Handle(r, d, 0).ops
<1>1. SUFFICES ASSUME ans # << >>, ans[1].op # "stall"
               PROVE  /\ \A i \in DOMAIN ans : i > 1 => ans[i].op = "stall"
                      /\ Sized(r)
                      /\ ans[1].op = "burst" =>
                           r.kind = "GetDescriptor" /\ ans[1].len = Available(r)
                      /\ ans[1].op = "single" => ans[1].len = Due(r)
  OBVIOUS
<1>2. r.kind \in Kinds /\ r.length \in Nat /\ r.value \in Nat
  BY DEF RequestType
<1>3. ASSUME NEW o, ans = <<o>>
      PROVE  (\A i \in DOMAIN ans : i > 1 => ans[i].op = "stall") /\ ans[1] = o
  BY <1>3, OneElement
<1>4. ASSUME NEW o, ans = <<o, Stall>>
      PROVE  (\A i \in DOMAIN ans : i > 1 => ans[i].op = "stall") /\ ans[1] = o
  BY <1>4, OneElement, OpNames
<1>5. /\ \A n, b : Transmit(n, b).len = n
      /\ \A n : Burst(n).len = n
      /\ Acknowledge.len = 0
  BY DEF Transmit, Burst, Acknowledge
<1>6. CASE r.kind = "GetDescriptor"
  <2>1. ans = Chap9_GetDescriptor(r, d).ops
    BY <1>6 DEF Handle
  <2>2. ASSUME NEW n \in Nat, ans = <<Burst(n)>> \/ ans = <<Burst(n), Stall>>, Available(r) = n
        PROVE  /\ \A i \in DOMAIN ans : i > 1 => ans[i].op = "stall"
               /\ Sized(r)
               /\ ans[1].op = "burst" /\ ans[1].len = Available(r)
    <3>1. Due(r) = BurstLength(r.length, n)
      BY <1>6, <2>2 DEF Due
    <3>2. Due(r) \in Nat /\ Due(r) <= r.length
      BY <1>2, <3>1 DEF BurstLength
    <3>3. ans[1] = Burst(n) /\ \A i \in DOMAIN ans : i > 1 => ans[i].op = "stall"
      BY <1>3, <1>4, <2>2
    <3> QED
      BY <1>5, <2>2, <3>2, <3>3, OpNames DEF Sized
  <2>3. CASE r.value \div 256 = 1
    <3>1. ans = <<Burst(DeviceDescrSize)>> /\ Available(r) = DeviceDescrSize
      BY <1>6, <2>1, <2>3 DEF Chap9_GetDescriptor, Reply, Available
    <3> QED
      BY <1>6, <2>2, <3>1, DescriptorAssumption
  <2>4. CASE r.value \div 256 = 2
    <3>1. ans = <<Burst(ConfigDescrSize)>> /\ Available(r) = ConfigDescrSize
      BY <1>6, <2>1, <2>4 DEF Chap9_GetDescriptor, Reply, Available
    <3> QED
      BY <1>6, <2>2, <3>1, DescriptorAssumption
  <2>5. CASE r.value \div 256 = 3 /\ r.value % 256 \in 0..5
    <3>1. /\ ans = <<Burst(StringDescrSize[r.value % 256]), Stall>>
          /\ Available(r) = StringDescrSize[r.value % 256]
      BY <1>6, <2>1, <2>5 DEF Chap9_GetDescriptor, Reply, Available
    <3>2. StringDescrSize[r.value % 256] \in Nat
      BY <2>5, DescriptorAssumption
    <3> QED
      BY <1>6, <2>2, <3>1, <3>2
  <2>6. CASE r.value \div 256 = 3 /\ r.value % 256 \notin 0..5
    <3>1. ans = <<Stall, Stall>>
      BY <2>1, <2>6 DEF Chap9_GetDescriptor, Reply
    <3> QED
      BY <1>1, <1>4, <3>1, OpNames
  <2>7. CASE r.value \div 256 \notin {1, 2, 3}
    <3>1. ans = <<Stall>>
      BY <2>1, <2>7 DEF Chap9_GetDescriptor, Reply
    <3> QED
      BY <1>1, <1>3, <3>1, OpNames
  <2> QED
    BY <2>3, <2>4, <2>5, <2>6, <2>7
<1>7. ASSUME NEW n \in Nat, Due(r) = n, r.kind # "GetDescriptor",
             \/ ans = <<Stall>> \/ (n = 0 /\ ans = <<Acknowledge>>)
             \/ \E b : ans = <<Transmit(n, b)>>
      PROVE  /\ \A i \in DOMAIN ans : i > 1 => ans[i].op = "stall"
             /\ Sized(r) /\ ans[1].op = "single" /\ ans[1].len = Due(r)
  <2>1. CASE ans = <<Stall>>
    BY <1>1, <1>3, <2>1, OpNames
  <2>2. CASE n = 0 /\ ans = <<Acknowledge>>
    BY <1>3, <1>5, <1>7, <2>2, OpNames DEF Sized
  <2>3. ASSUME NEW b, ans = <<Transmit(n, b)>>
        PROVE  /\ \A i \in DOMAIN ans : i > 1 => ans[i].op = "stall"
               /\ Sized(r) /\ ans[1].op = "single" /\ ans[1].len = Due(r)
    BY <1>3, <1>5, <1>7, <2>3, OpNames DEF Sized
  <2> QED
    BY <1>7, <2>1, <2>2, <2>3
<1>8. CASE r.kind = "GetStatus"
  <2>1. ans = <<Stall>> \/ \E b : ans = <<Transmit(2, b)>>
    BY <1>1, <1>8 DEF Handle, Chap9_GetStatus, Reply
  <2>2. Due(r) = 2
    BY <1>8 DEF Due
  <2> QED
    BY <1>7, <1>8, <2>1, <2>2
<1>9. CASE r.kind \in {"GetConfiguration", "GetInterface", "Unsupported"}
  <2>1. ans = <<Stall>> \/ \E b : ans = <<Transmit(1, b)>>
    <3>1. CASE r.kind = "GetConfiguration"
      BY <1>1, <3>1 DEF Handle, Chap9_GetConfiguration, Reply
    <3>2. CASE r.kind = "GetInterface"
      BY <1>1, <3>2 DEF Handle, Chap9_GetInterface, Reply
    <3>3. CASE r.kind = "Unsupported"
      BY <3>3 DEF Handle, Reply
    <3> QED
      BY <1>9, <3>1, <3>2, <3>3
  <2>2. Due(r) = 1
    BY <1>9 DEF Due
  <2> QED
    BY <1>7, <1>9, <2>1, <2>2
<1>10. CASE r.kind \in {"ClearFeature", "SetFeature", "SetAddress", "SetConfiguration"}
  <2>1. ans = <<Stall>> \/ ans = <<Acknowledge>>
    <3>1. CASE r.kind = "ClearFeature"
      BY <1>1, <3>1 DEF Handle, Chap9_ClearFeature, Reply
    <3>2. CASE r.kind = "SetFeature"
      BY <1>1, <3>2 DEF Handle, Chap9_SetFeature, Reply
    <3>3. CASE r.kind = "SetAddress"
      BY <1>1, <3>3 DEF Handle, Chap9_SetAddress, SetAddress, Reply
    <3>4. CASE r.kind = "SetConfiguration"
      BY <1>1, <3>4 DEF Handle, Chap9_SetConfiguration, Reply
    <3> QED
      BY <1>10, <3>1, <3>2, <3>3, <3>4
  <2>2. Due(r) = 0
    BY <1>10 DEF Due
  <2> QED
    BY <1>7, <1>10, <2>1, <2>2
<1>11. CASE r.kind = "SetInterface"
  <2>1. ASSUME NEW o \in {Acknowledge, Stall} PROVE <<Stall>> \o <<o>> = <<Stall, o>>
    <3>1. Stall \in OperationType /\ o \in OperationType
      BY Operations DEF Stall, Acknowledge, Transmit, OperationType
    <3> QED
      BY <3>1, TwoInARow
  <2>2. \E o \in {Acknowledge, Stall} : ans = <<Stall, o>>
    BY <1>11, <2>1 DEF Handle, Chap9_SetInterface, Reply
  <2>3. ans[1].op = "stall"
    BY <2>2, OneElement, OpNames
  <2> QED
    BY <1>1, <2>3
<1> QED
  BY <1>2, <1>6, <1>8, <1>9, <1>10, <1>11 DEF Kinds

LEMMA SimpleSteps_Data ==
  ASSUME IInv, DataKnown,
         \/ Top \/ CheckSetup \/ CheckRequest \/ IsrEnter \/ Isr_SuspendChange
         \/ HostOut \/ HostStalled \/ HostSuspend
  PROVE  DataKnown'
<1>1. CASE Top
  BY <1>1, DataSame DEF Top, Main, isrVars, outVars, inVars, hostVars
<1>2. CASE CheckSetup
  BY <1>2, DataSame DEF CheckSetup, Main, isrVars, driverVars, outVars, inVars, hostVars
<1>3. CASE CheckRequest
  BY <1>3, DataSame DEF CheckRequest, Main, isrVars, driverVars, outVars, inVars, hostVars
<1>4. CASE IsrEnter
  <2>1. ipc' = "ep0In" => "EP0IN" \in irqs
    BY <1>4 DEF IsrEnter, IInv, TypeOK, Sources
  <2> QED
    BY <1>4, <2>1, DataSame DEF IsrEnter, mainVars, outVars, inVars, hostVars
<1>5. CASE Isr_SuspendChange
  BY <1>5, DataSame DEF Isr_SuspendChange, ExitIsr, mainVars, outVars, inVars, hostVars
<1>6. CASE HostOut
  <2>1. stage' \notin {"dataIn", "statusOut"}
    BY <1>6 DEF HostOut
  <2> QED
    BY <2>1 DEF DataKnown
<1>7. CASE HostStalled
  BY <1>7, DataSame DEF HostStalled, mainVars, isrVars, driverVars, outVars, inVars
<1>8. CASE HostSuspend
  BY <1>8, DataSame DEF HostSuspend, mainVars, isrVars, driverVars, outVars, inVars
<1> QED
  BY <1>1, <1>2, <1>3, <1>4, <1>5, <1>6, <1>7, <1>8

LEMMA SetupSteps_Data ==
  ASSUME AllInv, SetupToken \/ Decide \/ AckTest \/ AckSetup
  PROVE  DataKnown'
<1> SUFFICES ASSUME clean' = 1 PROVE DataKnown'
  BY DEF DataKnown
<1>1. clean = 1 /\ CleanInv
  BY DEF AllInv, SetupToken, Decide, AckTest, AckSetup, hostVars
<1>2. CASE SetupToken
  <2>1. Heard
    BY <1>1, <1>2
    DEF CleanInv, Phase, Unheard, Read, Ready, Answered, Between, SetupToken, Main
  <2> QED
    BY <1>2, <2>1 DEF SetupToken, Heard, Fresh, DataKnown
<1>3. CASE Decide
  <2>1. Read
    BY <1>1, <1>3
    DEF CleanInv, Phase, Unheard, Heard, Ready, Answered, Between, Decide, Main
  <2> QED
    BY <1>3, <2>1 DEF Decide, Read, Fresh, DataKnown, outVars
<1>4. CASE AckTest
  <2>1. Read
    BY <1>1, <1>4
    DEF CleanInv, Phase, Unheard, Heard, Ready, Answered, Between, AckTest, Main
  <2> QED
    BY <1>4, <2>1 DEF AckTest, Read, Fresh, DataKnown
<1>5. CASE AckSetup
  <2>1. Read
    BY <1>1, <1>5
    DEF CleanInv, Phase, Unheard, Heard, Ready, Answered, Between, AckSetup, Main
  <2>2. stage' \in {"dataIn", "dataOut", "statusIn"} /\ inFifo' = 0 /\ mpc' = "checkRequest"
    BY <1>5, <2>1 DEF AckSetup, Advance, Read, Fresh, FirstStage, inVars, hostVars
  <2>3. stage' = "dataIn" => DCP_state' # "DATAIN"
    BY <1>5, <2>1 DEF AckSetup, Advance, Read
  <2> QED
    BY <2>2, <2>3
    DEF DataKnown, Writable, Fitting, Continued, Answering, Accounting, AnswersOnce
<1> QED
  BY <1>2, <1>3, <1>4, <1>5

LEMMA DeviceRequest_Data ==
  ASSUME AllInv, ReadStage, DeviceRequest
  PROVE  DataKnown'
<1> SUFFICES ASSUME clean' = 1 PROVE DataKnown'
  BY DEF DataKnown
<1>1. Ready /\ Handed
  BY DEF AllInv, CleanInv, Phase, Unheard, Heard, Read, Ready, Awaited, Arrived,
         Answered, Between,
     DeviceRequest, Main, hostVars
<1>2. /\ sent[serving] = Current /\ Current' = Current /\ Current \in RequestType
      /\ device \in DeviceType /\ Abort = 0
      /\ Due(Current)' = Due(Current)
      /\ Sized(Current)' = Sized(Current) /\ Described' = Described
  BY <1>1, CurrentType, SameRead
  DEF DeviceRequest, Ready, Current, hostVars, AllInv, IInv, TypeOK
<1> DEFINE ans == Handle(Current, device, 0).ops
<1>3. /\ UNCHANGED <<ipc, wLength, inFifo, irqs, stage, got>>
      /\ ops' = ans /\ DCP_state' = "IDLE" /\ ipc = "off"
      /\ ans = << >> => mpc' = "top"
      /\ ans # << >> => mpc' = "respond" /\ INT_Enabled' = 0
  BY <1>2 DEF DeviceRequest, Main, isrVars, inVars, hostVars
<1>4. stage' = "statusIn" \/ (stage' = "dataIn" /\ got' = 0)
  BY <1>1, <1>3 DEF Handed
<1>5. SUFFICES ASSUME stage' = "dataIn", got' = 0
               PROVE  /\ Writable' /\ Fitting' /\ Continued'
                      /\ Answering' /\ Accounting' /\ AnswersOnce'
  BY <1>4 DEF DataKnown
<1>6. Writable' /\ Fitting' /\ Continued' /\ Accounting'
  BY <1>1, <1>3 DEF Ready, Writable, Fitting, Continued, Accounting
<1>7. Current.dir = "in" /\ Current.length > 0
  BY <1>1, <1>3, <1>5 DEF Ready, ReadStage
<1>8. ans # << >> /\ ans[1].op # "stall" =>
        /\ \A i \in DOMAIN ans : i > 1 => ans[i].op = "stall"
        /\ Sized(Current)
        /\ ans[1].op = "burst" => Described /\ ans[1].len = Available(Current)
        /\ ans[1].op = "single" => ans[1].len = Due(Current)
  BY <1>2, <1>7, DataReply DEF Described
<1>9. AnswersOnce'
  BY <1>3, <1>8 DEF AnswersOnce
<1>10. Answering'
  BY <1>1, <1>2, <1>3, <1>5, <1>8 DEF Answering, Ready
<1> QED
  BY <1>6, <1>9, <1>10

\* A packet that is written at the start of an answer, or to go on with it.
LEMMA NextFits ==
  ASSUME NEW due \in Nat, NEW g \in Nat, g <= due
  PROVE  LET n == NextPacket(due - g)
         IN /\ n \in 0..EP0_PACKET_SIZE /\ g + n <= due
            /\ n < EP0_PACKET_SIZE => g + n = due
  BY PacketSizeAssumption DEF NextPacket

LEMMA Isr_Ep00RxDone_Data ==
  ASSUME AllInv, Isr_Ep00RxDone, DataKnown
  PROVE  DataKnown'
<1> SUFFICES ASSUME clean' = 1 PROVE DataKnown'
  BY DEF DataKnown
<1>1. UNCHANGED <<stage, clean, locked>> /\ ipc = "ep0Out"
  BY DEF Isr_Ep00RxDone, hostVars
<1>2. Unheard \/ (Ready /\ Arrived) \/ Answered
  BY <1>1 DEF AllInv, CleanInv, Phase, Heard, Read, Ready, Awaited, Handed
<1>3. locked = 1 \/ stage \in {"statusIn", "idle"}
  BY <1>1, <1>2 DEF Unheard, Fresh, Arrived, Answered
<1> QED
  BY <1>1, <1>3 DEF DataKnown

LEMMA HostIn_Data ==
  ASSUME AllInv, ReadStage, HostIn, DataKnown
  PROVE  DataKnown'
<1> SUFFICES ASSUME clean' = 1, locked' = 0, stage = "dataIn" PROVE DataKnown'
  BY DEF DataKnown, HostIn
<1>1. /\ UNCHANGED <<mpc, ops, ipc, INT_Enabled, DCP_state, wLength, wCount, sent, device>>
      /\ inFifo' = 0 /\ irqs' = irqs \cup {"EP0IN"}
      /\ got' = got + inLen /\ inFifo # 0 /\ ~EP0Stalled
      /\ stage' = IF inLen < EP0_PACKET_SIZE \/ got' >= Current.length
                  THEN "statusOut" ELSE "dataIn"
  BY DEF HostIn, mainVars, isrVars, driverVars
<1>2. /\ Current' = Current
      /\ Due(Current)' = Due(Current)
      /\ Sized(Current)' = Sized(Current) /\ Described' = Described
  BY <1>1, SameRead
<1>3. Writable /\ Fitting /\ Continued /\ Answering /\ Accounting /\ AnswersOnce
  BY <1>1 DEF DataKnown, HostIn, outVars
<1>4. /\ Sized(Current) /\ Due(Current) \in Nat /\ Current.length \in Nat
      /\ got \in Nat /\ inLen \in Nat
  <2>1. Current \in RequestType
    BY <1>1, CurrentType DEF AllInv, ReadStage
  <2> QED
    BY <1>1, <1>3, <2>1, PacketSizeAssumption DEF AllInv, IInv, TypeOK, RequestType, Fitting, Sized
<1>5. /\ got' <= Due(Current)
      /\ inLen < EP0_PACKET_SIZE \/ Due(Current) > Current.length => got' = Due(Current)
  BY <1>1, <1>3 DEF Fitting
<1>6. stage' = "statusOut" => got' = Due(Current)
  <2>1. got' \in Nat
    BY <1>1, <1>4
  <2>2. got' >= Current.length => got' = Due(Current)
    BY <1>4, <1>5, <2>1
  <2> QED
    BY <1>1, <1>5, <2>2
<1>7. Writable' /\ Fitting' /\ AnswersOnce'
  BY <1>1, <1>3 DEF Writable, Fitting, AnswersOnce
<1>8. got' + Pending' = got + Pending
  BY <1>1, <1>4 DEF Pending
<1>9. Continued' /\ Accounting'
  BY <1>1, <1>2, <1>3, <1>8 DEF Continued, Accounting
<1>10. Answering'
  BY <1>1, <1>3 DEF Answering
<1> QED
  BY <1>2, <1>4, <1>6, <1>7, <1>9, <1>10 DEF DataKnown

LEMMA Isr_Ep00TxDone_Data ==
  ASSUME AllInv, ReadStage, Isr_Ep00TxDone, DataKnown
  PROVE  DataKnown'
<1>1. /\ UNCHANGED <<mpc, ops, serving, sent, device, stage, got, clean, locked, wLength>>
      /\ irqs' = irqs \ {"EP0IN", "BUSRESET", "SUSPEND"}
      /\ ipc = "ep0In" /\ ipc' = "off"
  BY DEF Isr_Ep00TxDone, ExitIsr, mainVars, outVars, hostVars
<1>2. CASE DCP_state # "DATAIN"
  <2>1. UNCHANGED <<inFifo, inLen, wCount, DCP_state>>
    BY <1>2 DEF Isr_Ep00TxDone, inVars
  <2> QED
    BY <1>1, <2>1, DataSame
<1>3. CASE DCP_state = "DATAIN"
  <2>1. SUFFICES ASSUME clean = 1, locked = 0, stage = "dataIn", ~EP0Stalled
                 PROVE  /\ Writable' /\ Fitting' /\ Continued'
                        /\ Answering' /\ Accounting' /\ AnswersOnce'
    BY <1>1, SameRead DEF DataKnown, EP0Stalled
  <2>2. /\ Current' = Current /\ Current \in RequestType
        /\ Due(Current)' = Due(Current)
        /\ Sized(Current)' = Sized(Current) /\ Described' = Described
    BY <1>1, <2>1, SameRead, CurrentType DEF AllInv, ReadStage
  <2>3. Writable /\ Fitting /\ Continued /\ Answering /\ Accounting /\ AnswersOnce
    BY <2>1 DEF DataKnown
  <2>4. /\ inFifo = 0 /\ Described
        /\ wLength = Due(Current) /\ wCount = got /\ got \in Nat /\ wCount <= wLength
    <3>1. inFifo = 0 /\ wCount = got + 0
      BY <1>1, <1>3, <2>3 DEF Writable, Continued, Pending
    <3> QED
      BY <1>3, <2>3, <3>1 DEF Continued, AllInv, IInv, TypeOK, InBounds
  <2> DEFINE n == NextPacket(wLength - wCount)
  <2>5. Due(Current) \in Nat /\ Due(Current) <= Current.length /\ Current.length \in Nat
    BY <2>2, <2>4 DEF Described, Sized, RequestType
  <2>6. /\ n \in 0..EP0_PACKET_SIZE /\ got + n <= Due(Current)
        /\ n < EP0_PACKET_SIZE => got + n = Due(Current)
    BY <2>4, <2>5, NextFits
  <2>7. /\ inFifo' = serving /\ inLen' = n /\ wCount' = wCount + n /\ serving = Len(sent)
        /\ Len(sent) >= 1
    <3>1. inFifo' = serving /\ inLen' = n /\ wCount' = wCount + n
      BY <1>3, <2>1 DEF Isr_Ep00TxDone, WriteIn
    <3>2. Unheard \/ Heard \/ Read \/ Ready \/ Answered
      BY <2>1 DEF AllInv, CleanInv, Phase
    <3>3. serving = Len(sent)
      BY <1>3, <2>1, <3>2 DEF Unheard, Heard, Read, Ready, Answered, Fresh
    <3> QED
      BY <2>1, <3>1, <3>3 DEF ReadStage
  <2>8. Len(sent) \in Nat
    BY DEF AllInv, IInv, TypeOK
  <2>9. Pending' = n
    <3>1. serving # 0
      BY <2>7, <2>8
    <3> QED
      BY <2>7, <3>1 DEF Pending
  <2>10. Writable'
    BY <1>1 DEF Writable
  <2>11. Fitting'
    <3>1. ~(Due(Current) > Current.length)
      BY <2>5
    <3> QED
      BY <1>1, <2>2, <2>4, <2>6, <2>7, <3>1 DEF Fitting, Described
  <2>12. Continued'
    BY <1>1, <2>2, <2>4, <2>7, <2>9 DEF Continued
  <2>13. Answering' /\ AnswersOnce'
    BY <1>1, <2>3 DEF Answering, AnswersOnce
  <2>14. Accounting'
    BY <1>1, <1>3, <2>3 DEF Accounting
  <2> QED
    BY <2>10, <2>11, <2>12, <2>13, <2>14
<1> QED
  BY <1>2, <1>3

LEMMA Respond_Data ==
  ASSUME AllInv, ReadStage, Respond, DataKnown
  PROVE  DataKnown'
<1>1. /\ UNCHANGED <<ops, ipc, INT_Enabled, DCP_state, serving, sent, stage, got, clean,
                     locked, irqs>>
      /\ mpc = "respond" /\ mpc' = "commit"
      /\ Current' = Current
      /\ Due(Current)' = Due(Current)
      /\ Sized(Current)' = Sized(Current) /\ Described' = Described
  BY SameRead DEF Respond, Main, isrVars, outVars, hostVars
<1>2. /\ Head(ops) = ops[1] /\ ops[1].op \in {"stall", "single", "burst"}
      /\ ops[1].len \in Nat /\ device \in DeviceType
  BY <1>1, TailOps DEF AllInv, IInv, TypeOK, Operating, OperationType
<1>3. EP0Stalled => EP0Stalled'
  <2>1. device' = device \/ device' = Stalled(device)
    BY <1>2 DEF Respond
  <2> QED
    BY <1>2, <2>1, StallSets DEF EP0Stalled
<1>4. SUFFICES ASSUME clean = 1, locked = 0, stage = "dataIn", ~EP0Stalled, ~EP0Stalled'
               PROVE  /\ Writable' /\ Fitting' /\ Continued'
                      /\ Answering' /\ Accounting' /\ AnswersOnce'
  BY <1>1, <1>3 DEF DataKnown
<1>5. ops[1].op # "stall"
  <2>1. ops[1].op = "stall" => device' = Stalled(device)
    BY <1>2 DEF Respond
  <2> QED
    BY <1>2, <1>4, <2>1, StallSets DEF EP0Stalled
<1>6. /\ DCP_state = "IDLE" /\ got = 0 /\ inFifo = 0 /\ wLength = Current.length
      /\ Sized(Current) /\ "EP0IN" \notin irqs /\ ipc = "off" /\ AnswersOnce
      /\ ops[1].op = "burst" => Described /\ ops[1].len = Available(Current)
      /\ ops[1].op = "single" => ops[1].len = Due(Current)
  BY <1>1, <1>4, <1>5 DEF DataKnown, Answering
<1>7. Current \in RequestType /\ Due(Current) \in Nat /\ Len(sent) \in Nat /\ Len(sent) >= 1
  BY <1>4, <1>6, CurrentType DEF AllInv, IInv, TypeOK, ReadStage, Sized
<1>8. serving # 0
  <2>1. serving = Len(sent)
    BY <1>1, <1>4 DEF AllInv, CleanInv, Phase, Unheard, Heard, Read, Ready, Answered,
                      Fresh, Between
  <2> QED
    BY <1>7, <2>1
<1>9. Writable' /\ Continued' /\ Answering' /\ AnswersOnce'
  BY <1>1, <1>5, <1>6 DEF Writable, Continued, Answering, AnswersOnce
<1>10. CASE ops[1].op = "single"
  <2>1. Fitting'
    <3>1. CASE ops[1].len <= EP0_PACKET_SIZE
      <4>1. inLen' = Due(Current)
        <5>1. WriteIn(ops[1].len)
          BY <1>2, <1>10, <3>1 DEF Respond
        <5> QED
          BY <1>4, <1>6, <1>10, <5>1 DEF WriteIn
      <4>2. got' + inLen' = Due(Current) /\ got' + inLen' <= Due(Current)
        BY <1>1, <1>6, <1>7, <4>1
      <4> QED
        BY <1>1, <1>6, <4>2 DEF Fitting
    <3>2. CASE ~(ops[1].len <= EP0_PACKET_SIZE)
      BY <1>2, <1>6, <1>10, <3>2 DEF Respond, inVars, Fitting
    <3> QED
      BY <3>1, <3>2
  <2>2. Accounting'
    BY <1>1, <1>10 DEF Accounting
  <2> QED
    BY <1>9, <2>1, <2>2
<1>11. CASE ops[1].op = "burst"
  <2>1. wLength' = Due(Current) /\ Described
    BY <1>2, <1>6, <1>11 DEF Respond, Due, Described
  <2>2. inFifo' = serving /\ inLen' = NextPacket(wLength')
    <3>1. WriteIn(NextPacket(wLength'))
      BY <1>2, <1>11 DEF Respond
    <3> QED
      BY <1>4, <3>1 DEF WriteIn
  <2>3. /\ Due(Current) - 0 = Due(Current) /\ 0 <= Due(Current)
        /\ ~(Due(Current) > Current.length)
    BY <1>7, <2>1 DEF Described, Sized, RequestType
  <2>4. /\ inLen' \in 0..EP0_PACKET_SIZE /\ 0 + inLen' <= Due(Current)
        /\ inLen' < EP0_PACKET_SIZE => 0 + inLen' = Due(Current)
    BY <1>7, <2>1, <2>2, <2>3, NextFits
  <2>5. Fitting'
    BY <1>1, <1>6, <1>7, <2>3, <2>4 DEF Fitting
  <2>6. got' + Pending' = NextPacket(wLength')
    BY <1>1, <1>6, <1>8, <2>2, <2>4, PacketSizeAssumption DEF Pending
  <2>7. Accounting'
    BY <1>1, <1>6, <2>1, <2>6 DEF Accounting
  <2> QED
    BY <1>9, <2>5, <2>7
<1> QED
  BY <1>2, <1>5, <1>10, <1>11

LEMMA Commit_Data ==
  ASSUME AllInv, Commit, DataKnown
  PROVE  DataKnown'
<1>1. /\ UNCHANGED <<device, ipc, serving, sent, stage, got, clean, locked, irqs, inFifo,
                     inLen>>
      /\ mpc = "commit" /\ ops' = Tail(ops)
      /\ mpc' = IF Len(ops) = 1 THEN "top" ELSE "respond"
      /\ Current' = Current /\ EP0Stalled' = EP0Stalled /\ Pending' = Pending
      /\ Due(Current)' = Due(Current)
      /\ Sized(Current)' = Sized(Current) /\ Described' = Described
  BY SameRead DEF Commit, Main, isrVars, outVars, inVars, hostVars, EP0Stalled, Pending
<1>2. SUFFICES ASSUME clean = 1, locked = 0, stage = "dataIn", ~EP0Stalled
               PROVE  /\ Writable' /\ Fitting' /\ Continued'
                      /\ Answering' /\ Accounting' /\ AnswersOnce'
  BY <1>1 DEF DataKnown
<1>3. /\ Head(ops) = ops[1] /\ ops[1].op \in {"stall", "single", "burst"}
      /\ ops \in Seq(OperationType) /\ Len(ops) >= 1
  BY <1>1, TailOps DEF AllInv, IInv, TypeOK, Operating, OperationType
<1>4. Writable /\ Fitting /\ Accounting /\ AnswersOnce /\ Abort = 0
  <2>1. Unheard \/ Heard \/ Read \/ Ready \/ Answered
    BY <1>2 DEF AllInv, CleanInv, Phase
  <2>2. Abort = 0
    BY <1>1, <1>2, <2>1 DEF Unheard, Heard, Read, Ready, Answered, Fresh, Between
  <2> QED
    BY <1>2, <2>2 DEF DataKnown
<1>5. Writable' /\ Fitting' /\ Accounting'
  BY <1>1, <1>4 DEF Writable, Fitting, Accounting
<1>6. Continued'
  <2> DEFINE o == Head(ops)
  <2>0. o = ops[1] /\ Abort # 1
    BY <1>3, <1>4
  <2>1. CASE ops[1].op = "stall"
    <3>1. o.op = "stall"
      BY <2>0, <2>1
    <3>2. DCP_state' = "STALL"
      BY <2>0, <3>1 DEF Commit
    <3> QED
      BY <3>2 DEF Continued
  <2>2. CASE ops[1].op = "single"
    <3>1. o.op = "single"
      BY <2>0, <2>2
    <3>2. DCP_state' = "HANDSHAKE"
      BY <2>0, <3>1 DEF Commit
    <3> QED
      BY <3>2 DEF Continued
  <2>3. CASE ops[1].op = "burst"
    <3>0. o.op = "burst"
      BY <2>0, <2>3
    <3>1. /\ wLength' = wLength /\ wCount' = wCount + NextPacket(wLength) /\ wCount = 0
      <4>1. wLength' = wLength /\ wCount' = wCount + NextPacket(wLength)
        BY <2>0, <3>0 DEF Commit
      <4>2. wCount = 0
        BY <1>1, <2>3 DEF AllInv, IInv, BurstMasked
      <4> QED
        BY <4>1, <4>2
    <3>2. Described /\ wLength = Due(Current)
          /\ got + Pending = NextPacket(wLength)
      BY <1>1, <1>4, <2>3 DEF Accounting
    <3>3. wLength \in Nat
      BY DEF AllInv, IInv, TypeOK
    <3>4. wCount' = got' + Pending'
      BY <1>1, <3>1, <3>2, <3>3, Packets, PacketSizeAssumption
    <3> QED
      BY <1>1, <3>1, <3>2, <3>4 DEF Continued
  <2> QED
    BY <1>3, <2>1, <2>2, <2>3
<1>7. Answering' /\ AnswersOnce'
  <2> DEFINE n == Len(ops)
  <2>1. /\ DOMAIN Tail(ops) = 1..n - 1 /\ DOMAIN ops = 1..n /\ n \in Nat
        /\ \A i \in 1..n - 1 : Tail(ops)[i] = ops[i + 1]
    BY <1>3
  <2>2. \A i \in 1..n : i > 1 => ops[i].op = "stall"
    BY <1>1, <1>4, <2>1 DEF AnswersOnce
  <2>3. \A i \in 1..n - 1 : Tail(ops)[i].op = "stall"
    <3>1. \A i \in 1..n - 1 : i + 1 \in 1..n /\ i + 1 > 1
      BY <2>1
    <3> QED
      BY <2>1, <2>2, <3>1
  <2>4. mpc' = "respond" => 1 \in 1..n - 1
    BY <1>1, <1>3, <2>1
  <2>5. Answering'
    BY <1>1, <2>3, <2>4 DEF Answering
  <2>6. AnswersOnce'
    BY <1>1, <2>3, <2>4 DEF AnswersOnce
  <2> QED
    BY <2>5, <2>6
<1> QED
  BY <1>5, <1>6, <1>7

LEMMA DataKnownInit == Init => DataKnown
  BY DEF Init, DataKnown

LEMMA DataKnownStep == AllInv /\ ReadStage /\ DataKnown /\ [Next]_vars => DataKnown'
<1> SUFFICES ASSUME AllInv, ReadStage, DataKnown, [Next]_vars PROVE DataKnown'
  OBVIOUS
<1>1. CASE MainStep
  BY <1>1, SimpleSteps_Data, SetupSteps_Data, DeviceRequest_Data, Respond_Data, Commit_Data
  DEF MainStep, AllInv
<1>2. CASE IsrStep
  <2>1. Isr_BusReset => DataKnown'
    BY DEF AllInv, CleanInv, NoReset, Isr_BusReset, hostVars, DataKnown
  <2> QED
    BY <1>2, <2>1, SimpleSteps_Data, Isr_Ep00RxDone_Data, Isr_Ep00TxDone_Data
    DEF IsrStep, AllInv
<1>3. CASE HostStep
  <2>1. HostBusReset => DataKnown'
    BY DEF DataKnown, HostBusReset
  <2>2. \A r \in Requests : HostSetup(r) => DataKnown'
    BY DEF DataKnown, HostSetup
  <2> QED
    BY <1>3, <2>1, <2>2, SimpleSteps_Data, HostIn_Data DEF HostStep, AllInv
<1>4. CASE UNCHANGED vars
  BY <1>4, DataSame DEF vars
<1> QED
  BY <1>1, <1>2, <1>3, <1>4 DEF Next

LEMMA DataInvariant == Spec => [](ReadStage /\ DataKnown)
<1>1. AllInv /\ ReadStage /\ DataKnown /\ [Next]_vars => ReadStage' /\ DataKnown'
  BY ReadStageStep, DataKnownStep DEF AllInv
<1> QED
  BY <1>1, AllInvariant, ReadStageInit, DataKnownInit, PTL DEF Spec

\* A read that only a request with data asks for, and of a status whole.
ReadsWell(r) ==
  r.dir = "in" /\ r.length > 0 =>
    /\ r.kind \in {"GetDescriptor", "GetStatus", "GetConfiguration", "GetInterface",
                   "Unsupported"}
    /\ r.kind = "GetStatus" => r.length >= 2

WellAsked == \A r \in Requests : ReadsWell(r)

LEMMA DueRead ==
  ASSUME NEW r \in RequestType, ReadsWell(r), r.dir = "in", r.length > 0, Sized(r)
  PROVE  Due(r) <= r.length /\ Due(r) <= Available(r) /\ Due(r) \in {r.length, Available(r)}
<1>1. r.length \in Nat
  BY DEF RequestType
<1>2. CASE r.kind = "GetDescriptor"
  BY <1>1, <1>2 DEF Sized, Due, BurstLength
<1>3. CASE r.kind = "GetStatus"
  BY <1>1, <1>3 DEF ReadsWell, Due, Available
<1>4. CASE r.kind \in {"GetConfiguration", "GetInterface", "Unsupported"}
  BY <1>1, <1>4 DEF Due, Available
<1> QED
  BY <1>2, <1>3, <1>4 DEF ReadsWell

\* A host that asks for data only where there are some gets, in a clean transfer,
\* all the bytes it can have: the split into packets by main loop and usb_isr
\* loses and repeats none, and an early end is recognised as one.
THEOREM LengthsRight == ASSUME WellAsked PROVE Spec => []RightLength
<1>1. AllInv /\ ReadStage /\ DataKnown => RightLength
  <2> SUFFICES ASSUME AllInv, ReadStage, DataKnown, clean = 1, stage = "statusOut"
               PROVE  /\ got <= Current.length /\ got <= Available(Current)
                      /\ got \in {Current.length, Available(Current)}
    BY DEF RightLength
  <2>1. Answered
    <3>1. FirstStage(Current) # "statusOut"
      BY DEF FirstStage
    <3> QED
      BY <3>1
      DEF AllInv, CleanInv, Phase, Unheard, Heard, Read, Ready, Awaited, Arrived, Handed,
          Fresh
  <2>2. /\ Sized(Current) /\ got = Due(Current) /\ Current \in RequestType
        /\ Current.dir = "in" /\ Current.length > 0
    BY <2>1, CurrentType DEF DataKnown, Answered, AllInv, ReadStage
  <2>3. ReadsWell(Current)
    <3>1. Len(sent) \in 1..Len(sent) /\ sent \in Seq(Requests)
      BY DEF AllInv, IInv, TypeOK, ReadStage
    <3>2. Current \in Requests
      BY <3>1 DEF Current
    <3> QED
      BY <3>2 DEF WellAsked
  <2> QED
    BY <2>2, <2>3, DueRead
<1> QED
  BY <1>1, AllInvariant, DataInvariant, PTL

-----------------------------------------------------------------------------
(***************************************************************************)
(* The service of the pipe.  A history variable holds the answer the       *)
(* driver has decided on; a clean transfer is answered with it and with    *)
(* nothing else.                                                           *)
(***************************************************************************)

\* The request of the host is on its way to its handler.
Waiting == locked = 1 \/ DCP_state \in {"DATAOUT", "REQUESTPROC"}

\* There are operations of a handler to do.
Working == mpc \in {"respond", "commit"}

\* What the answer has in it is what is, or will be, in the pipe.
Promised ==
  /\ answer.executed /\ (answer.goesOn <=> Several(Current))
  /\ stage # "idle" /\ EP0Stalled => answer.refused
  /\ Working /\ Stalls => answer.refused
  /\ inFifo # 0 \/ DCP_state = "DATAIN" \/ stage = "statusOut" \/ (Working /\ Gives(ops))
       => answer.granted
  /\ stage = "statusOut" => answer.length = Due(Current)
  /\ stage = "dataIn" /\ ~EP0Stalled
       /\ (inFifo # 0 \/ DCP_state = "DATAIN" \/ (Working /\ ops[1].op # "stall"))
       => answer.length = Due(Current)

\* An answer is decided on when the request leaves the way to its handler.
AnswerKnown ==
  IF clean = 0 \/ Waiting THEN answer = Pipe!NoAnswer ELSE Len(sent) >= 1 => Promised

\* A request with too much data does not get to its handler.
Handable ==
  /\ mpc \in {"setup", "decide"} => DCP_state \notin {"DATAOUT", "REQUESTPROC"}
  /\ DCP_state \in {"DATAOUT", "REQUESTPROC"} \/ mpc = "request" => ~TooLong(sent[serving])

-----------------------------------------------------------------------------
(* The settings of the device: its record without the stall bits of endpoint 0 *)

LEMMA SettingsRecord ==
  ASSUME NEW d \in DeviceType
  PROVE  Settings(d) = [default |-> d.default, address |-> d.address,
           configured |-> d.configured, configuration |-> d.configuration,
           remote_wakeup |-> d.remote_wakeup, alt |-> d.alt,
           stalled |-> d.stalled \ EP0, usbAddress |-> d.usbAddress]
  BY DEF Settings, DeviceType

LEMMA SettingsFields ==
  ASSUME NEW d \in DeviceType
  PROVE  LET s == Settings(d)
         IN /\ s \in DeviceType /\ s.stalled = d.stalled \ EP0 /\ s.stalled \cap EP0 = {}
            /\ s.default = d.default /\ s.address = d.address
            /\ s.configured = d.configured /\ s.configuration = d.configuration
            /\ s.remote_wakeup = d.remote_wakeup /\ s.alt = d.alt
            /\ s.usbAddress = d.usbAddress
  BY SettingsRecord DEF DeviceType

\* Two devices with the same fields but for the stall bits of endpoint 0.
LEMMA SettingsEqual ==
  ASSUME NEW d \in DeviceType, NEW e \in DeviceType,
         d.stalled \ EP0 = e.stalled \ EP0,
         d.default = e.default, d.address = e.address, d.configured = e.configured,
         d.configuration = e.configuration, d.remote_wakeup = e.remote_wakeup,
         d.alt = e.alt, d.usbAddress = e.usbAddress
  PROVE  Settings(d) = Settings(e)
  BY SettingsRecord

\* What the chip and its interrupts do to the settings.
LEMMA SettingsOf ==
  ASSUME NEW d \in DeviceType
  PROVE  /\ d.stalled \cap EP0 = {} => Settings(d) = d
         /\ Settings(Settings(d)) = Settings(d)
         /\ Settings(Stalled(d)) = Settings(d)
         /\ Settings([d EXCEPT !.stalled = @ \ EP0]) = Settings(d)
         /\ Settings([d EXCEPT !.stalled = @ \ EP0, !.usbAddress = 0]) = Detached(Settings(d))
         /\ Settings(AfterBusReset(d)) = AfterBusReset(Settings(d))
<1>1. d.stalled \cap EP0 = {} => Settings(d) = d
  <2>1. d.stalled \cap EP0 = {} => d.stalled \ EP0 = d.stalled
    OBVIOUS
  <2>2. d = [default |-> d.default, address |-> d.address,
           configured |-> d.configured, configuration |-> d.configuration,
           remote_wakeup |-> d.remote_wakeup, alt |-> d.alt,
           stalled |-> d.stalled, usbAddress |-> d.usbAddress]
    BY DEF DeviceType
  <2> QED
    BY <2>1, <2>2, SettingsRecord
<1>2. Settings(Settings(d)) = Settings(d)
  BY SettingsFields, SettingsEqual
<1>3. Settings(Stalled(d)) = Settings(d)
  BY SettingsEqual DEF Stalled, DeviceType, ChipEndpoints, EP0, EP0OUT, EP0IN, MAX_ENDPOINTS
<1>4. Settings([d EXCEPT !.stalled = @ \ EP0]) = Settings(d)
  BY DEF Settings, DeviceType
<1>5. Settings([d EXCEPT !.stalled = @ \ EP0, !.usbAddress = 0]) = Detached(Settings(d))
  BY DEF Settings, Detached, DeviceType
<1>6. Settings(AfterBusReset(d)) = AfterBusReset(Settings(d))
  BY DEF Settings, AfterBusReset, DeviceType
<1> QED
  BY <1>1, <1>2, <1>3, <1>4, <1>5, <1>6

\* SetAddress and Chap9_SetConfiguration look at the state bits only, and leave the
\* stall bits alone.
LEMMA AddressHandled ==
  ASSUME NEW r \in RequestType, NEW d \in DeviceType, NEW e \in DeviceType,
         e.default = d.default, e.address = d.address, e.configured = d.configured,
         e.configuration = d.configuration, e.remote_wakeup = d.remote_wakeup,
         e.alt = d.alt, e.usbAddress = d.usbAddress
  PROVE  LET h == SetAddress(r, d).device
             g == SetAddress(r, e).device
         IN /\ h.default = g.default /\ h.address = g.address
            /\ h.configured = g.configured /\ h.configuration = g.configuration
            /\ h.remote_wakeup = g.remote_wakeup /\ h.alt = g.alt
            /\ h.stalled = d.stalled /\ g.stalled = e.stalled /\ h.usbAddress = g.usbAddress
<1> DEFINE u == r.value % 128
<1>0. d.default \in {0, 1} /\ d.address \in {0, 1}
  BY DEF DeviceType
<1> HIDE DEF u
<1>1. CASE d.default = 1 /\ u # 0
  <2>1. /\ SetAddress(r, d).device = [d EXCEPT !.default = 0, !.address = 1, !.usbAddress = u]
        /\ SetAddress(r, e).device = [e EXCEPT !.default = 0, !.address = 1, !.usbAddress = u]
    BY <1>1 DEF SetAddress, Reply, u
  <2> QED
    BY <2>1 DEF DeviceType
<1>2. CASE d.default = 1 /\ u = 0
  <2>1. SetAddress(r, d).device = d /\ SetAddress(r, e).device = e
    BY <1>2 DEF SetAddress, Reply, u
  <2> QED
    BY <2>1
<1>3. CASE d.default = 0 /\ d.address = 1
  <2>1. /\ SetAddress(r, d).device = [d EXCEPT !.default = IF u = 0 THEN 1 ELSE 0,
                               !.address = IF u = 0 THEN 0 ELSE 1, !.usbAddress = u]
        /\ SetAddress(r, e).device = [e EXCEPT !.default = IF u = 0 THEN 1 ELSE 0,
                               !.address = IF u = 0 THEN 0 ELSE 1, !.usbAddress = u]
    BY <1>3 DEF SetAddress, Reply, u
  <2> QED
    BY <2>1 DEF DeviceType
<1>4. CASE d.default = 0 /\ d.address = 0
  <2>1. /\ SetAddress(r, d).device = [d EXCEPT !.configured = 0, !.address = 0, !.default = 1]
        /\ SetAddress(r, e).device = [e EXCEPT !.configured = 0, !.address = 0, !.default = 1]
    BY <1>4 DEF SetAddress, Reply, u
  <2> QED
    BY <2>1 DEF DeviceType
<1> QED
  BY <1>0, <1>1, <1>2, <1>3, <1>4

LEMMA ConfigurationHandled ==
  ASSUME NEW r \in RequestType, NEW d \in DeviceType, NEW e \in DeviceType,
         e.default = d.default, e.address = d.address, e.configured = d.configured,
         e.configuration = d.configuration, e.remote_wakeup = d.remote_wakeup,
         e.alt = d.alt, e.usbAddress = d.usbAddress
  PROVE  LET h == Chap9_SetConfiguration(r, d).device
             g == Chap9_SetConfiguration(r, e).device
         IN /\ h.default = g.default /\ h.address = g.address
            /\ h.configured = g.configured /\ h.configuration = g.configuration
            /\ h.remote_wakeup = g.remote_wakeup /\ h.alt = g.alt
            /\ h.stalled = d.stalled /\ g.stalled = e.stalled /\ h.usbAddress = g.usbAddress
<1> DEFINE silent == d.address = 1 /\ (r.index # 0 \/ r.length # 0)
<1>1. CASE silent
  <2>1. Chap9_SetConfiguration(r, d).device = d /\ Chap9_SetConfiguration(r, e).device = e
    BY <1>1 DEF Chap9_SetConfiguration, Reply
  <2> QED
    BY <2>1
<1>2. CASE ~silent /\ r.value = 0
  <2> DEFINE c == IF d.address = 1 THEN d.configured ELSE 0
  <2>1. /\ Chap9_SetConfiguration(r, d).device =
             [d EXCEPT !.configuration = 0, !.address = 1, !.configured = c]
        /\ Chap9_SetConfiguration(r, e).device =
             [e EXCEPT !.configuration = 0, !.address = 1, !.configured = c]
    BY <1>2 DEF Chap9_SetConfiguration, Reply
  <2> QED
    BY <2>1 DEF DeviceType
<1>3. CASE ~silent /\ r.value = 1
  <2>1. /\ Chap9_SetConfiguration(r, d).device =
             [d EXCEPT !.configuration = 1, !.address = 0, !.configured = 1]
        /\ Chap9_SetConfiguration(r, e).device =
             [e EXCEPT !.configuration = 1, !.address = 0, !.configured = 1]
    BY <1>3 DEF Chap9_SetConfiguration, Reply
  <2> QED
    BY <2>1 DEF DeviceType
<1>4. CASE ~silent /\ r.value \notin {0, 1}
  <2>1. Chap9_SetConfiguration(r, d).device = d /\ Chap9_SetConfiguration(r, e).device = e
    BY <1>4 DEF Chap9_SetConfiguration, Reply
  <2> QED
    BY <2>1
<1> QED
  BY <1>1, <1>2, <1>3, <1>4

\* A handler does to the settings what it does to a device without a stall on
\* endpoint 0, or, when it is told to abort, nothing.
LEMMA SettingsHandled ==
  ASSUME NEW r \in RequestType, NEW d \in DeviceType, NEW a \in {0, 1}
  PROVE  Settings(Handle(r, d, a).device)
           \in {Settings(d), Settings(Handle(r, Settings(d), 0).device)}
<1> DEFINE s == Settings(d)
           h == Handle(r, d, a).device
           g == Handle(r, s, 0).device
<1>1. r.kind \in Kinds
  BY DEF RequestType
<1>2. /\ s \in DeviceType /\ s.stalled = d.stalled \ EP0
      /\ s.default = d.default /\ s.address = d.address
      /\ s.configured = d.configured /\ s.configuration = d.configuration
      /\ s.remote_wakeup = d.remote_wakeup /\ s.alt = d.alt
      /\ s.usbAddress = d.usbAddress
  BY SettingsFields
<1> HIDE DEF s
<1>3. h \in DeviceType /\ g \in DeviceType
  BY <1>2, HandleReply DEF GoodReply
<1>4. CASE r.kind \in {"GetStatus", "GetDescriptor", "GetConfiguration", "GetInterface",
                       "Unsupported"}
  <2>1. h = d
    BY <1>4 DEF Handle, Chap9_GetStatus, Chap9_GetDescriptor, Chap9_GetConfiguration,
       Chap9_GetInterface, Reply
  <2> QED
    BY <2>1
<1>5. CASE r.kind = "ClearFeature"
  <2>1. /\ h = Chap9_ClearFeature(r, d).device /\ g = Chap9_ClearFeature(r, s).device
    BY <1>5 DEF Handle
  <2>2. Settings(h) = Settings(g)
    BY <1>2, <1>3, <2>1, SettingsEqual DEF Chap9_ClearFeature, Reply, DeviceType
  <2> QED
    BY <2>2 DEF s
<1>6. CASE r.kind = "SetFeature"
  <2>1. h = Chap9_SetFeature(r, d).device /\ g = Chap9_SetFeature(r, s).device
    BY <1>6 DEF Handle
  <2>2. Settings(h) = Settings(g)
    BY <1>2, <1>3, <2>1, SettingsEqual DEF Chap9_SetFeature, Reply, DeviceType
  <2> QED
    BY <2>2 DEF s
<1>7. CASE r.kind = "SetAddress"
  <2>1. h = d \/ h = SetAddress(r, d).device
    BY <1>7 DEF Handle, Chap9_SetAddress, Reply
  <2>2. g = SetAddress(r, s).device
    BY <1>7 DEF Handle, Chap9_SetAddress
  <2>3. ASSUME h = SetAddress(r, d).device PROVE Settings(h) = Settings(g)
    <3>1. /\ h.default = g.default /\ h.address = g.address
          /\ h.configured = g.configured /\ h.configuration = g.configuration
          /\ h.remote_wakeup = g.remote_wakeup /\ h.alt = g.alt
          /\ h.stalled = d.stalled /\ g.stalled = s.stalled /\ h.usbAddress = g.usbAddress
      BY <1>2, <2>2, <2>3, AddressHandled
    <3>2. h.stalled \ EP0 = g.stalled \ EP0
      BY <1>2, <3>1
    <3> QED
      BY <1>3, <3>1, <3>2, SettingsEqual
  <2> QED
    BY <2>1, <2>3 DEF s
<1>8. CASE r.kind = "SetConfiguration"
  <2>1. h = Chap9_SetConfiguration(r, d).device /\ g = Chap9_SetConfiguration(r, s).device
    BY <1>8 DEF Handle
  <2>2. Settings(h) = Settings(g)
    <3>1. /\ h.default = g.default /\ h.address = g.address
          /\ h.configured = g.configured /\ h.configuration = g.configuration
          /\ h.remote_wakeup = g.remote_wakeup /\ h.alt = g.alt
          /\ h.stalled = d.stalled /\ g.stalled = s.stalled /\ h.usbAddress = g.usbAddress
      BY <1>2, <2>1, ConfigurationHandled
    <3>2. h.stalled \ EP0 = g.stalled \ EP0
      BY <1>2, <3>1
    <3> QED
      BY <1>3, <3>1, <3>2, SettingsEqual
  <2> QED
    BY <2>2 DEF s
<1>9. CASE r.kind = "SetInterface"
  <2>1. h = Chap9_SetInterface(r, d).device /\ g = Chap9_SetInterface(r, s).device
    BY <1>9 DEF Handle
  <2>2. Settings(h) = Settings(g)
    BY <1>2, <1>3, <2>1, SettingsEqual DEF Chap9_SetInterface, Reply, DeviceType
  <2> QED
    BY <2>2 DEF s
<1> QED
  BY <1>1, <1>4, <1>5, <1>6, <1>7, <1>8, <1>9 DEF Kinds

-----------------------------------------------------------------------------
(* Every step keeps AnswerKnown *)

LEMMA AnswerSame ==
  ASSUME AnswerKnown, UNCHANGED <<sent, device, ops, clean, locked, DCP_state, answer>>,
         inFifo' # 0 => inFifo # 0,
         stage' # "idle" => stage # "idle",
         stage' \in {"dataIn", "statusOut"} => stage' = stage,
         mpc' \in {"respond", "commit"} => mpc \in {"respond", "commit"}
  PROVE  AnswerKnown'
<1>1. /\ Current' = Current /\ EP0Stalled' = EP0Stalled /\ Stalls' = Stalls
      /\ Several(Current)' = Several(Current) /\ Due(Current)' = Due(Current)
      /\ Gives(ops)' = Gives(ops) /\ (Working' => Working) /\ Waiting' = Waiting
      /\ (Pipe!NoAnswer)' = Pipe!NoAnswer
  BY SameTransfer, SameRead DEF Stalls, Gives, Working, Waiting, Pipe!NoAnswer
<1>2. CASE clean = 0 \/ Waiting
  BY <1>1, <1>2 DEF AnswerKnown
<1>3. CASE ~(clean = 0 \/ Waiting) /\ Len(sent) >= 1
  <2>1. Promised
    BY <1>3 DEF AnswerKnown
  <2>2. Promised'
    BY <1>1, <2>1 DEF Promised
  <2> QED
    BY <1>1, <1>3, <2>2 DEF AnswerKnown
<1>4. CASE ~(clean = 0 \/ Waiting) /\ ~(Len(sent) >= 1)
  BY <1>1, <1>4 DEF AnswerKnown
<1> QED
  BY <1>2, <1>3, <1>4

\* Outside the two steps that decide the answer stays.
LEMMA AnswerStays ==
  ASSUME Records, clean' = 1, UNCHANGED <<sent>>, ~Decides
  PROVE  answer' = answer
  BY DEF Records

LEMMA SimpleSteps_Answer ==
  ASSUME AllInv, AnswerKnown, Records, clean' = 1,
         \/ Top \/ CheckSetup \/ SetupToken \/ AckTest \/ CheckRequest
         \/ IsrEnter \/ Isr_SuspendChange \/ HostOut \/ HostStalled \/ HostSuspend
  PROVE  AnswerKnown'
<1>1. CASE Top
  BY <1>1, AnswerSame, AnswerStays
  DEF Top, Main, Decides, isrVars, outVars, inVars, hostVars
<1>2. CASE CheckSetup
  BY <1>2, AnswerSame, AnswerStays
  DEF CheckSetup, Main, Decides, isrVars, driverVars, outVars, inVars, hostVars
<1>3. CASE SetupToken
  <2>1. Heard
    BY <1>3
    DEF AllInv, CleanInv, Phase, Unheard, Read, Ready, Answered, Between, SetupToken, Main,
        hostVars
  <2> QED
    BY <1>3, <2>1, AnswerSame, AnswerStays
    DEF SetupToken, Main, Decides, Heard, Fresh, inVars, hostVars
<1>4. CASE AckTest
  <2>1. Read
    BY <1>4
    DEF AllInv, CleanInv, Phase, Unheard, Heard, Ready, Answered, Between, AckTest, Main,
        hostVars
  <2> QED
    BY <1>4, <2>1, AnswerSame, AnswerStays
    DEF AckTest, Main, Decides, Read, inVars, hostVars
<1>5. CASE CheckRequest
  BY <1>5, AnswerSame, AnswerStays
  DEF CheckRequest, Main, Decides, isrVars, driverVars, outVars, inVars, hostVars
<1>6. CASE IsrEnter
  BY <1>6, AnswerSame, AnswerStays
  DEF IsrEnter, Decides, mainVars, outVars, inVars, hostVars
<1>7. CASE Isr_SuspendChange
  BY <1>7, AnswerSame, AnswerStays
  DEF Isr_SuspendChange, Decides, mainVars, outVars, inVars, hostVars
<1>8. CASE HostOut
  BY <1>8, AnswerSame, AnswerStays
  DEF HostOut, Decides, mainVars, driverVars, inVars
<1>9. CASE HostStalled
  BY <1>9, AnswerSame, AnswerStays
  DEF HostStalled, Decides, mainVars, driverVars, outVars, inVars
<1>10. CASE HostSuspend
  BY <1>10, AnswerSame, AnswerStays
  DEF HostSuspend, Decides, mainVars, driverVars, outVars, inVars
<1> QED
  BY <1>1, <1>2, <1>3, <1>4, <1>5, <1>6, <1>7, <1>8, <1>9, <1>10

LEMMA Decide_Answer ==
  ASSUME AllInv, AnswerKnown, Records, clean' = 1, Decide
  PROVE  AnswerKnown'
<1>1. Read
  BY DEF AllInv, CleanInv, Phase, Unheard, Heard, Ready, Answered, Between, Decide, Main,
     hostVars
<1>2. answer' = answer
  BY AnswerStays DEF Decide, Main, Decides, hostVars
<1>3. locked' = 1 /\ clean = 1 /\ Waiting /\ Waiting'
  BY <1>1 DEF Decide, Read, Fresh, outVars, hostVars, Waiting
<1> QED
  BY <1>2, <1>3 DEF AnswerKnown, Pipe!NoAnswer

LEMMA HostSetup_Answer ==
  ASSUME AllInv, NEW r \in Requests, HostSetup(r), Records
  PROVE  AnswerKnown'
<1>1. locked' = 1 /\ Len(sent') > Len(sent)
  BY DEF HostSetup, AllInv, IInv, TypeOK
<1> QED
  BY <1>1 DEF Records, AnswerKnown, Waiting, Pipe!NoAnswer

\* What is in an answer with the operations of its handler.
LEMMA AnswerFields ==
  ASSUME NEW r, NEW h
  PROVE  LET a == AnswerOf(r, h)
         IN /\ a.executed
            /\ a.goesOn = (Len(h.ops) > 1)
            /\ a.granted = Gives(h.ops)
            /\ a.refused = \/ h.device.stalled \cap EP0 # {}
                           \/ \E i \in DOMAIN h.ops : h.ops[i].op = "stall"
            /\ a.length = AnswerLength(r, h.ops)
  BY DEF AnswerOf

\* The request is executed in the device as the host knows it.
LEMMA ExecutedAsSent ==
  ASSUME AllInv, clean = 1, DeviceRequest
  PROVE  /\ Ready /\ Handed
         /\ sent[serving] = Current /\ Current \in RequestType /\ device \in DeviceType
         /\ Abort = 0 /\ ~TooLong(Current) /\ Settings(device) = device
         /\ device.stalled \cap EP0 = {}
<1>1. Ready /\ Handed
  BY DEF AllInv, CleanInv, Phase, Unheard, Heard, Read, Ready, Awaited, Arrived, Answered,
     Between, DeviceRequest, Main
<1>2. Current \in RequestType /\ device \in DeviceType
  BY <1>1, CurrentType DEF Ready, AllInv, IInv, TypeOK
<1> QED
  BY <1>1, <1>2, SettingsOf DEF Ready, Handed, Current, EP0Stalled

LEMMA DeviceRequest_Answer ==
  ASSUME AllInv, ReadStage, Records, clean' = 1, DeviceRequest
  PROVE  AnswerKnown'
<1> DEFINE h == Handle(Current, device, 0)
<1>1. /\ Ready /\ Handed /\ Settings(device) = device
      /\ sent[serving] = Current /\ Current \in RequestType /\ device \in DeviceType
      /\ Abort = 0 /\ ~TooLong(Current) /\ clean = 1
  BY ExecutedAsSent DEF DeviceRequest, hostVars
<1>2. /\ UNCHANGED <<sent, stage, got, locked, inFifo>>
      /\ device' = h.device /\ ops' = h.ops /\ DCP_state' = "IDLE" /\ mpc = "request"
      /\ mpc' = IF h.ops = << >> THEN "top" ELSE "respond"
  BY <1>1 DEF DeviceRequest, Main, outVars, inVars, hostVars
<1>3. answer' = AnswerOf(Current, h)
  BY <1>1, <1>2 DEF Records, Decides, Answer, Outcome
<1>4. /\ Current' = Current /\ locked' = 0 /\ inFifo' = 0 /\ stage' \in {"statusIn", "dataIn"}
      /\ Several(Current)' = Several(Current) /\ Due(Current)' = Due(Current)
  BY <1>1, <1>2, SameRead DEF Ready, Handed, Current, Several, TooLong
<1>5. h.ops \in Seq(OperationType)
  BY <1>1, HandleReply DEF GoodReply, GoodOps
<1>6. h.ops # << >> => 1 \in DOMAIN h.ops /\ h.ops[1].op \in {"stall", "single", "burst"}
  <2>1. \A s \in Seq(OperationType) : s # << >> => 1 \in DOMAIN s /\ s[1] \in OperationType
    OBVIOUS
  <2> QED
    BY <1>5, <2>1 DEF OperationType
<1>7. answer'.goesOn <=> Several(Current)
  <2>1. Len(h.ops) <= 1 <=> ~Several(Current)
    BY <1>1, HowMany
  <2>2. Len(h.ops) \in Nat
    BY <1>5
  <2>3. answer'.goesOn <=> Len(h.ops) > 1
    BY <1>3, AnswerFields
  <2> DEFINE n == Len(h.ops)
  <2>4. n \in Nat /\ (n <= 1 <=> ~Several(Current)) /\ (answer'.goesOn <=> n > 1)
    BY <2>1, <2>2, <2>3
  <2> HIDE DEF n
  <2> QED
    BY <2>4
<1>8. ASSUME stage' = "dataIn", Working', ops'[1].op # "stall"
      PROVE  answer'.length = Due(Current)
  <2>1. h.ops # << >> /\ h.ops[1].op # "stall" /\ Gives(h.ops)
    BY <1>2, <1>6, <1>8 DEF Working, Gives
  <2>2. Current.dir = "in" /\ Current.length > 0
    BY <1>2, <1>8 DEF ReadStage
  <2>3. /\ h.ops[1].op = "burst" =>
             Current.kind = "GetDescriptor" /\ h.ops[1].len = Available(Current)
        /\ h.ops[1].op = "single" => h.ops[1].len = Due(Current)
    BY <1>1, <2>1, <2>2, DataReply
  <2>4. AnswerLength(Current, h.ops) = Due(Current)
    BY <1>6, <2>1, <2>3 DEF AnswerLength, Due
  <2> QED
    BY <1>3, <2>4, AnswerFields
<1>9. /\ answer'.executed
      /\ EP0Stalled' => answer'.refused
      /\ Stalls' => answer'.refused
      /\ Gives(ops)' => answer'.granted
  BY <1>2, <1>3, AnswerFields DEF EP0Stalled, Stalls, Gives
<1>10. Promised'
  BY <1>2, <1>4, <1>7, <1>8, <1>9 DEF Promised, Working
<1>11. ~Waiting'
  BY <1>2, <1>4 DEF Waiting
<1> QED
  BY <1>10, <1>11 DEF AnswerKnown

LEMMA AckSetup_Answer ==
  ASSUME AllInv, AnswerKnown, Records, clean' = 1, AckSetup
  PROVE  AnswerKnown'
<1>1. Read /\ clean = 1
  BY DEF AllInv, CleanInv, Phase, Unheard, Heard, Ready, Answered, Between, AckSetup, Main,
     hostVars
<1>2. /\ UNCHANGED <<ops, sent, inFifo, stage>> /\ sent[serving] = Current
      /\ Current' = Current /\ Current \in RequestType
      /\ mpc = "ack" /\ mpc' = "checkRequest" /\ locked' = 0 /\ inFifo = 0
      /\ stage = FirstStage(Current) /\ Advance
  BY <1>1, CurrentType
  DEF AckSetup, Main, Advance, Read, Fresh, Current, inVars, hostVars, AllInv
<1>3. CASE TooLong(Current)
  <2> DEFINE h == Reply(Settings(device), <<Stall>>)
  <2>1. answer' = AnswerOf(Current, h)
    BY <1>2, <1>3 DEF Records, Decides, Answer, Outcome
  <2>2. answer'.executed /\ answer'.refused /\ ~answer'.goesOn
    <3>1. h.ops = <<Stall>> /\ 1 \in DOMAIN <<Stall>> /\ <<Stall>>[1].op = "stall"
          /\ Len(<<Stall>>) = 1
      BY OneElement, OpNames DEF Reply
    <3>2. ~(Len(<<Stall>>) > 1)
      BY <3>1
    <3> QED
      BY <2>1, <3>1, <3>2, AnswerFields
  <2>3. DCP_state' = "STALL" /\ stage = "dataOut"
    BY <1>2, <1>3, Directions DEF Advance
  <2>4. ~Several(Current)' /\ ~Waiting' /\ ~Working'
    BY <1>2, <1>3, <2>3 DEF Several, TooLong, Waiting, Working
  <2>5. Promised'
    BY <1>2, <2>2, <2>3, <2>4 DEF Promised
  <2> QED
    BY <2>4, <2>5 DEF AnswerKnown
<1>4. CASE ~TooLong(Current)
  <2>1. answer' = answer
    BY <1>2, <1>4, AnswerStays DEF Decides
  <2>2. Waiting /\ Waiting'
    <3>1. DCP_state' \in {"DATAOUT", "REQUESTPROC"}
      BY <1>1, <1>2, <1>4 DEF Advance, Read
    <3> QED
      BY <1>1, <3>1 DEF Waiting, Read, Fresh
  <2> QED
    BY <2>1, <2>2 DEF AnswerKnown, Pipe!NoAnswer
<1> QED
  BY <1>3, <1>4

LEMMA Respond_Answer ==
  ASSUME AllInv, AnswerKnown, Records, clean' = 1, Respond
  PROVE  AnswerKnown'
<1>1. /\ UNCHANGED <<ops, DCP_state, serving, sent, stage, clean, locked>>
      /\ mpc = "respond" /\ mpc' = "commit" /\ clean = 1
      /\ Current' = Current /\ Several(Current)' = Several(Current)
      /\ Due(Current)' = Due(Current) /\ Stalls' = Stalls /\ Gives(ops)' = Gives(ops)
      /\ Waiting' = Waiting
  BY SameRead DEF Respond, Main, outVars, hostVars, Several, TooLong, Current, Stalls,
     Gives, Waiting
<1>2. answer' = answer
  BY <1>1, AnswerStays DEF Decides
<1>3. /\ Head(ops) = ops[1] /\ ops[1].op \in {"stall", "single", "burst"}
      /\ 1 \in DOMAIN ops /\ device \in DeviceType
  BY <1>1, TailOps DEF AllInv, IInv, TypeOK, Operating, OperationType
<1>4. SUFFICES ASSUME ~Waiting, Len(sent) >= 1 PROVE Promised'
  BY <1>1, <1>2 DEF AnswerKnown, Pipe!NoAnswer
<1>5. Promised /\ Working /\ Working'
  BY <1>1, <1>4 DEF AnswerKnown, Working
<1>6. CASE ops[1].op = "stall"
  <2>1. device' = Stalled(device) /\ UNCHANGED <<inFifo>>
    BY <1>3, <1>6 DEF Respond, inVars
  <2>2. answer.refused /\ EP0Stalled'
    BY <1>3, <1>5, <1>6, <2>1, StallSets DEF Promised, Stalls, EP0Stalled
  <2> QED
    BY <1>1, <1>2, <1>5, <2>1, <2>2 DEF Promised
<1>7. CASE ops[1].op # "stall"
  <2>1. device' = device /\ EP0Stalled' = EP0Stalled
    BY <1>3, <1>7 DEF Respond, EP0Stalled
  <2>2. answer.granted
    BY <1>3, <1>5, <1>7 DEF Promised, Gives
  <2> QED
    BY <1>1, <1>2, <1>5, <1>7, <2>1, <2>2 DEF Promised
<1> QED
  BY <1>6, <1>7

LEMMA Commit_Answer ==
  ASSUME AllInv, DataKnown, AnswerKnown, Records, clean' = 1, Commit
  PROVE  AnswerKnown'
<1>1. /\ UNCHANGED <<device, inFifo, sent, stage, clean, locked>>
      /\ mpc = "commit" /\ ops' = Tail(ops) /\ clean = 1
      /\ mpc' = IF Len(ops) = 1 THEN "top" ELSE "respond"
      /\ Current' = Current /\ Several(Current)' = Several(Current)
      /\ Due(Current)' = Due(Current) /\ EP0Stalled' = EP0Stalled
  BY SameTransfer, SameRead DEF Commit, Main, outVars, inVars, hostVars
<1>2. answer' = answer
  BY <1>1, AnswerStays DEF Decides
<1>3. /\ Head(ops) = ops[1] /\ ops[1].op \in {"stall", "single", "burst"}
      /\ 1 \in DOMAIN ops /\ ops \in Seq(OperationType) /\ Len(ops) >= 1
  BY <1>1, TailOps DEF AllInv, IInv, TypeOK, Operating, OperationType
<1>4. /\ DOMAIN Tail(ops) = 1..Len(ops) - 1 /\ DOMAIN ops = 1..Len(ops) /\ Len(ops) \in Nat
      /\ \A i \in 1..Len(ops) - 1 : i + 1 \in 1..Len(ops) /\ Tail(ops)[i] = ops[i + 1]
  BY <1>3
<1>5. (Stalls' => Stalls) /\ (Gives(ops)' => Gives(ops))
  BY <1>1, <1>4 DEF Stalls, Gives
<1>6. /\ DCP_state' = DCP_state \/ DCP_state' \in {"STALL", "HANDSHAKE", "DATAIN"}
      /\ DCP_state' = "DATAIN" => DCP_state = "DATAIN" \/ ops[1].op = "burst"
  BY <1>3 DEF Commit, StateAfterPacket
<1>7. Answered \/ Unheard
  BY <1>1 DEF AllInv, CleanInv, Phase, Heard, Read, Ready, Between
<1>8. CASE Unheard
  <2>1. Waiting /\ Waiting'
    BY <1>1, <1>8 DEF Unheard, Fresh, Waiting
  <2> QED
    BY <1>2, <2>1 DEF AnswerKnown, Pipe!NoAnswer
<1>9. CASE Answered
  <2>1. ~Waiting /\ ~Waiting' /\ locked = 0 /\ Len(sent) >= 1
    BY <1>1, <1>6, <1>9 DEF Answered, Waiting
  <2>2. Promised /\ Working
    BY <1>1, <2>1 DEF AnswerKnown, Working
  <2>3. stage = "dataIn" /\ ~EP0Stalled => ops[1].op # "stall" /\ ~(Working' /\ ops'[1].op # "stall")
    <3> SUFFICES ASSUME stage = "dataIn", ~EP0Stalled
                 PROVE  ops[1].op # "stall" /\ (Working' => ops'[1].op = "stall")
      OBVIOUS
    <3>1. AnswersOnce
      BY <1>1, <2>1 DEF DataKnown
    <3>2. ops[1].op # "stall" /\ \A i \in DOMAIN ops : i > 1 => ops[i].op = "stall"
      BY <1>1, <3>1 DEF AnswersOnce
    <3>3. Working' => 1 \in 1..Len(ops) - 1
      BY <1>1, <1>3, <1>4 DEF Working
    <3> QED
      BY <1>1, <1>4, <3>2, <3>3
  <2>4. DCP_state' = "DATAIN" => DCP_state = "DATAIN" \/ Gives(ops)
    BY <1>3, <1>6 DEF Gives
  <2>5. Promised'
    BY <1>1, <1>2, <1>5, <1>6, <2>2, <2>3, <2>4 DEF Promised
  <2> QED
    BY <2>1, <2>5 DEF AnswerKnown
<1> QED
  BY <1>7, <1>8, <1>9

LEMMA Isr_Ep00RxDone_Answer ==
  ASSUME AllInv, AnswerKnown, Records, clean' = 1, Isr_Ep00RxDone
  PROVE  AnswerKnown'
<1>1. /\ UNCHANGED <<mpc, ops, sent, stage, clean, locked, inFifo>>
      /\ ipc = "ep0Out" /\ clean = 1
      /\ Current' = Current /\ Several(Current)' = Several(Current)
      /\ Due(Current)' = Due(Current) /\ Stalls' = Stalls /\ Gives(ops)' = Gives(ops)
      /\ Working' = Working
  BY SameRead DEF Isr_Ep00RxDone, mainVars, inVars, hostVars, Several, TooLong, Current,
     Stalls, Gives, Working
<1>2. answer' = answer
  BY <1>1, AnswerStays DEF Decides
<1>3. Unheard \/ (Ready /\ Arrived) \/ Answered
  BY <1>1 DEF AllInv, CleanInv, Phase, Heard, Read, Ready, Awaited, Handed
<1>4. CASE Unheard
  BY <1>1, <1>2, <1>4 DEF Unheard, Fresh, Waiting, AnswerKnown, Pipe!NoAnswer
<1>5. CASE Ready /\ Arrived
  <2>1. DCP_state = "DATAOUT" /\ DCP_state' \in {"DATAOUT", "REQUESTPROC"}
    BY <1>5 DEF Arrived, Isr_Ep00RxDone, DataReceived
  <2> QED
    BY <1>1, <1>2, <2>1 DEF Waiting, AnswerKnown, Pipe!NoAnswer
<1>6. CASE Answered
  <2>1. stage = "idle" /\ ~Waiting
    BY <1>1, <1>6 DEF Answered, Waiting
  <2>2. DCP_state' \in {DCP_state, "IDLE", "STALL"}
    BY <1>6 DEF Isr_Ep00RxDone, DataReceived, Answered
  <2>3. ~Waiting'
    BY <1>1, <2>1, <2>2 DEF Waiting
  <2>4. Len(sent) >= 1 => Promised
    BY <1>1, <2>1 DEF AnswerKnown
  <2>5. Len(sent) >= 1 => Promised'
    BY <1>1, <1>2, <2>1, <2>2, <2>4 DEF Promised
  <2> QED
    BY <1>1, <2>3, <2>5 DEF AnswerKnown
<1> QED
  BY <1>3, <1>4, <1>5, <1>6

LEMMA Isr_Ep00TxDone_Answer ==
  ASSUME AllInv, AnswerKnown, Records, clean' = 1, Isr_Ep00TxDone
  PROVE  AnswerKnown'
<1>1. /\ UNCHANGED <<mpc, ops, sent, device, stage, clean, locked>> /\ clean = 1
      /\ DCP_state # "DATAIN" => UNCHANGED <<inFifo, DCP_state>>
      /\ DCP_state = "DATAIN" => DCP_state' \in {"DATAIN", "HANDSHAKE"}
      /\ Current' = Current /\ Several(Current)' = Several(Current)
      /\ Due(Current)' = Due(Current) /\ Stalls' = Stalls /\ Gives(ops)' = Gives(ops)
      /\ EP0Stalled' = EP0Stalled /\ Working' = Working /\ Waiting' = Waiting
  <2>1. /\ UNCHANGED <<mpc, ops, sent, device, stage, clean, locked>>
        /\ DCP_state # "DATAIN" => UNCHANGED <<inFifo, DCP_state>>
        /\ DCP_state = "DATAIN" => DCP_state' \in {"DATAIN", "HANDSHAKE"}
    BY DEF Isr_Ep00TxDone, StateAfterPacket, mainVars, inVars, outVars, hostVars
  <2> QED
    BY <2>1, SameRead, SameTransfer DEF Stalls, Gives, Working, Waiting
<1>2. answer' = answer
  BY <1>1, AnswerStays DEF Decides
<1>3. Promised => Promised'
  BY <1>1, <1>2 DEF Promised
<1> QED
  BY <1>1, <1>2, <1>3 DEF AnswerKnown, Pipe!NoAnswer

LEMMA HostIn_Answer ==
  ASSUME AllInv, ReadStage, DataKnown, AnswerKnown, Records, clean' = 1, HostIn
  PROVE  AnswerKnown'
<1>1. /\ UNCHANGED <<mpc, ops, sent, device, clean, locked, DCP_state>> /\ clean = 1
      /\ inFifo # 0 /\ inFifo' = 0 /\ ~EP0Stalled
      /\ stage \in {"dataIn", "statusIn"}
      /\ stage' \in {"dataIn", "statusOut", "idle"}
      /\ stage' \in {"dataIn", "statusOut"} => stage = "dataIn"
      /\ Current' = Current /\ Several(Current)' = Several(Current)
      /\ Due(Current)' = Due(Current) /\ Stalls' = Stalls /\ Gives(ops)' = Gives(ops)
      /\ EP0Stalled' = EP0Stalled /\ Working' = Working /\ Waiting' = Waiting
  BY SameRead, SameTransfer
  DEF HostIn, mainVars, driverVars, outVars, Stalls, Gives, Working, Waiting
<1>2. answer' = answer
  BY <1>1, AnswerStays DEF HostIn, Decides, mainVars
<1>3. Promised => Promised'
  BY <1>1, <1>2 DEF Promised
<1> QED
  BY <1>1, <1>2, <1>3 DEF AnswerKnown, Pipe!NoAnswer

LEMMA AnswerKnownStep ==
  AllInv /\ ReadStage /\ DataKnown /\ AnswerKnown /\ [AnswersNext]_answersVars => AnswerKnown'
<1> SUFFICES ASSUME AllInv, ReadStage, DataKnown, AnswerKnown, [AnswersNext]_answersVars
             PROVE  AnswerKnown'
  OBVIOUS
<1>1. CASE UNCHANGED answersVars
  BY <1>1, AnswerSame DEF answersVars, vars
<1>2. CASE AnswersNext /\ clean' # 1
  <2>1. clean' = 0
    BY <1>2, Inductive DEF AnswersNext, AllInv, IInv, TypeOK
  <2> QED
    BY <1>2, <2>1 DEF AnswersNext, Records, AnswerKnown, Pipe!NoAnswer
<1>3. CASE AnswersNext /\ clean' = 1
  <2>1. Records /\ Next
    BY <1>3 DEF AnswersNext
  <2>2. CASE MainStep
    BY <1>3, <2>1, <2>2, SimpleSteps_Answer, Decide_Answer, AckSetup_Answer,
       DeviceRequest_Answer, Respond_Answer, Commit_Answer DEF MainStep
  <2>3. CASE IsrStep
    <3>1. ~Isr_BusReset
      BY <1>3 DEF AllInv, CleanInv, NoReset, Isr_BusReset, hostVars
    <3> QED
      BY <1>3, <2>1, <2>3, <3>1, SimpleSteps_Answer, Isr_Ep00RxDone_Answer,
         Isr_Ep00TxDone_Answer DEF IsrStep
  <2>4. CASE HostStep
    <3>1. ~HostBusReset
      BY <1>3 DEF HostBusReset
    <3> QED
      BY <1>3, <2>1, <2>4, <3>1, SimpleSteps_Answer, HostSetup_Answer, HostIn_Answer
      DEF HostStep
  <2> QED
    BY <2>1, <2>2, <2>3, <2>4 DEF Next
<1> QED
  BY <1>1, <1>2, <1>3

LEMMA AnswerKnownInit == AnswersInit => AnswerKnown
  BY DEF AnswersInit, Init, AnswerKnown, Pipe!NoAnswer

-----------------------------------------------------------------------------
(* No request with too much data gets to its handler *)

LEMMA HandableInit == Init => Handable
  BY DEF Init, Handable

LEMMA HandableStep == IInv /\ Handable /\ [Next]_vars => Handable'
<1> SUFFICES ASSUME IInv, Handable, [Next]_vars PROVE Handable'
  OBVIOUS
<1>1. ASSUME serving' = serving, sent[serving]' = sent[serving],
             mpc' \in {"setup", "decide"} =>
               DCP_state' \notin {"DATAOUT", "REQUESTPROC"},
             DCP_state' \in {"DATAOUT", "REQUESTPROC"} =>
               ~TooLong(sent[serving]),
             mpc' = "request" => ~TooLong(sent[serving])
      PROVE  Handable'
  BY <1>1 DEF Handable, TooLong
<1>2. CASE Top \/ CheckSetup \/ CheckRequest
  BY <1>1, <1>2
  DEF Handable, Top, CheckSetup, CheckRequest, Main, driverVars, hostVars
<1>3. CASE SetupToken
  BY <1>3 DEF Handable, SetupToken, Main, hostVars
<1>4. CASE Decide
  BY <1>1, <1>4, PipeAssumption
  DEF Handable, Decide, Main, hostVars, TakesData, TooLong
<1>5. CASE AckTest \/ AckSetup
  BY <1>1, <1>5
  DEF Handable, AckTest, AckSetup, Advance, Main, hostVars
<1>6. CASE DeviceRequest \/ Respond \/ Commit
  <2>1. /\ mpc' \notin {"setup", "decide", "request"} /\ UNCHANGED <<serving, sent>>
        /\ DCP_state' \in {"DATAOUT", "REQUESTPROC"} => DCP_state' = DCP_state
    <3>1. CASE DeviceRequest
      BY <3>1 DEF DeviceRequest, Main, hostVars
    <3>2. CASE Respond
      BY <3>2 DEF Respond, Main, hostVars
    <3>3. CASE Commit
      <4>1. Head(ops) = ops[1] /\ ops[1].op \in {"stall", "single", "burst"}
        BY <3>3, TailOps DEF Commit, Main, IInv, Operating, OperationType
      <4> QED
        BY <3>3, <4>1 DEF Commit, Main, hostVars, StateAfterPacket
    <3> QED
      BY <1>6, <3>1, <3>2, <3>3
  <2> QED
    BY <1>1, <2>1 DEF Handable
<1>7. CASE IsrEnter \/ Isr_BusReset \/ Isr_SuspendChange \/ Isr_Ep00TxDone
  <2>1. /\ UNCHANGED <<mpc, serving, sent>>
        /\ DCP_state' \in {"DATAOUT", "REQUESTPROC"} => DCP_state' = DCP_state
    BY <1>7 DEF IsrEnter, Isr_BusReset, Isr_SuspendChange, Isr_Ep00TxDone, mainVars, hostVars,
       StateAfterPacket
  <2> QED
    BY <1>1, <2>1 DEF Handable
<1>8. CASE Isr_Ep00RxDone
  <2>1. /\ UNCHANGED <<mpc, serving, sent>>
        /\ DCP_state' \in {"DATAOUT", "REQUESTPROC"} => DCP_state \in {"DATAOUT", "REQUESTPROC"}
    BY <1>8 DEF Isr_Ep00RxDone, SetupReceived, DataReceived, mainVars, hostVars
  <2> QED
    BY <1>1, <2>1 DEF Handable
<1>9. ASSUME NEW r \in Requests, HostSetup(r) PROVE Handable'
  <2>1. UNCHANGED <<mpc, DCP_state, serving>> /\ sent' = Append(sent, r)
    BY <1>9 DEF HostSetup, mainVars, driverVars
  <2>2. serving >= 1 => sent'[serving] = sent[serving]
    BY <2>1 DEF IInv, TypeOK, Served
  <2>3. DCP_state \in {"DATAOUT", "REQUESTPROC"} \/ mpc = "request" => serving >= 1
    BY DEF IInv, Served
  <2> QED
    BY <2>1, <2>2, <2>3 DEF Handable, TooLong
<1>10. CASE HostIn \/ HostOut \/ HostStalled \/ HostBusReset \/ HostSuspend
  <2>1. UNCHANGED <<mpc, DCP_state, serving, sent>>
    BY <1>10 DEF HostIn, HostOut, HostStalled, HostBusReset, HostSuspend, mainVars, driverVars
  <2> QED
    BY <1>1, <2>1 DEF Handable
<1>11. CASE UNCHANGED vars
  BY <1>1, <1>11 DEF vars, Handable
<1> QED
  BY <1>2, <1>3, <1>4, <1>5, <1>6, <1>7, <1>8, <1>9, <1>10, <1>11
  DEF Next, MainStep, IsrStep, HostStep

\* Although the state machine can be overtaken between its test and the call.
LEMMA HandableInvariant == Spec => []Handable
<1>1. AllInv /\ Handable /\ [Next]_vars => Handable'
  BY HandableStep DEF AllInv
<1> QED
  BY <1>1, AllInvariant, HandableInit, PTL DEF Spec

\* No handler is called for a request that announces more data than the buffer
\* of ControlData holds, in transfers given up and overtaken as in any other:
\* the check of SetupToken_Handler cannot be passed by.
THEOREM LongRequestsRefused == Spec => [](mpc = "request" => ~TooLong(sent[serving]))
<1>1. Handable => (mpc = "request" => ~TooLong(sent[serving]))
  BY DEF Handable
<1> QED
  BY <1>1, HandableInvariant, PTL

-----------------------------------------------------------------------------
(* The history variable changes nothing *)

LEMMA AnswersImplement == AnswersSpec => Spec
<1>1. AnswersInit => Init
  BY DEF AnswersInit
<1>2. [AnswersNext]_answersVars => [Next]_vars
  BY DEF AnswersNext, answersVars
<1> QED
  BY <1>1, <1>2, PTL DEF AnswersSpec, Spec

\* What holds of all that happens.
PipeInv == AllInv /\ ReadStage /\ DataKnown /\ Handable /\ AnswerKnown

LEMMA PipeInvariant == AnswersSpec => []PipeInv
<1>1. AllInv /\ ReadStage /\ DataKnown /\ AnswerKnown /\ [AnswersNext]_answersVars => AnswerKnown'
  BY AnswerKnownStep
<1>2. AnswersSpec => [](AllInv /\ ReadStage /\ DataKnown /\ Handable)
  BY AnswersImplement, AllInvariant, DataInvariant, HandableInvariant, PTL
<1>3. AnswersSpec => []AnswerKnown
  BY <1>1, <1>2, AnswerKnownInit, PTL DEF AnswersSpec
<1> QED
  BY <1>2, <1>3, PTL DEF PipeInv

-----------------------------------------------------------------------------
(* Every step is a step of the service, or none *)

LEMMA AnswerKept ==
  ASSUME AnswerKnown, Records, UNCHANGED <<sent, clean>>, clean \in {0, 1},
         clean = 1 => ~Decides
  PROVE  answer' = answer
<1>1. CASE clean = 0
  BY <1>1 DEF AnswerKnown, Records, Pipe!NoAnswer
<1>2. CASE clean = 1
  BY <1>2, AnswerStays
<1> QED
  BY <1>1, <1>2

\* Steps of the driver that neither decide nor change the settings.
LEMMA WorkStutters ==
  ASSUME PipeInv, Records, UNCHANGED <<hostVars>>,
         device' = device \/ device' = Stalled(device),
         clean = 1 => ~Decides
  PROVE  UNCHANGED Pipe!serviceVars
<1>1. device \in DeviceType /\ clean \in {0, 1}
  BY DEF PipeInv, AllInv, IInv, TypeOK
<1>2. Settings(device') = Settings(device)
  BY <1>1, SettingsOf
<1>3. answer' = answer
  BY <1>1, AnswerKept DEF PipeInv, hostVars
<1> QED
  BY <1>2, <1>3 DEF Pipe!serviceVars, hostVars

\* A step of the driver in a transfer out of order.
LEMMA DisorderlySettings ==
  ASSUME PipeInv, Records, UNCHANGED <<hostVars>>, clean = 0,
         \/ Settings(device') = Settings(device)
         \/ device' = AfterBusReset(device)
         \/ \E i \in 1..Len(sent) : Settings(device') = After(sent[i], Settings(device))
  PROVE  Pipe!Disorder
<1>1. /\ device \in DeviceType /\ clean \in {0, 1} /\ got \in Nat
      /\ stage \in {"idle", "dataIn", "dataOut", "statusIn", "statusOut"}
  BY DEF PipeInv, AllInv, IInv, TypeOK
<1>2. answer' = answer
  BY <1>1, AnswerKept DEF PipeInv, hostVars
<1>3. Settings(device') \in {Settings(device), AfterBusReset(Settings(device))}
                              \cup {After(sent[i], Settings(device)) : i \in 1..Len(sent)}
  BY <1>1, SettingsOf
<1> QED
  BY <1>1, <1>2, <1>3 DEF Pipe!Disorder, hostVars

LEMMA DeviceRequest_Serves ==
  ASSUME PipeInv, Records, DeviceRequest
  PROVE  Pipe!Execute \/ Pipe!Disorder
<1>1. /\ UNCHANGED hostVars /\ mpc = "request" /\ mpc' # "request"
      /\ device' = Handle(sent[serving], device, Abort).device
      /\ ops' = Handle(sent[serving], device, Abort).ops
  BY DEF DeviceRequest, Main
<1>2. CASE clean = 1
  <2>1. /\ Ready /\ Handed
        /\ sent[serving] = Current /\ Abort = 0 /\ ~TooLong(Current)
        /\ Settings(device) = device
    BY <1>2, ExecutedAsSent DEF PipeInv
  <2>2. Waiting /\ answer = Pipe!NoAnswer
    BY <1>2, <2>1 DEF Handed, Waiting, PipeInv, AnswerKnown
  <2>3. answer' = Answer(Current, Settings(device))
    BY <1>1, <1>2, <2>1 DEF Records, Decides, hostVars
  <2>4. Settings(device') = After(Current, Settings(device))
    BY <1>1, <2>1 DEF After, Outcome
  <2>5. stage # "idle" /\ stage # "dataOut"
    BY <2>1 DEF Handed
  <2> QED
    BY <1>1, <1>2, <2>2, <2>3, <2>4, <2>5
    DEF Pipe!Execute, Pipe!Last, Pipe!NoAnswer, Current, hostVars
<1>3. CASE clean # 1
  <2>1. /\ serving \in 1..Len(sent) /\ device \in DeviceType /\ Abort \in {0, 1}
        /\ clean = 0
    BY <1>1, <1>3 DEF PipeInv, AllInv, IInv, TypeOK, Served
  <2>2. sent[serving] \in RequestType
    BY <2>1, Asked DEF PipeInv, AllInv, IInv
  <2>3. ~TooLong(sent[serving])
    BY <1>1 DEF PipeInv, Handable
  <2>4. \/ Settings(device') = Settings(device)
        \/ Settings(device') = After(sent[serving], Settings(device))
    BY <1>1, <2>1, <2>2, <2>3, SettingsHandled DEF After, Outcome
  <2> QED
    BY <1>1, <2>1, <2>4, DisorderlySettings
<1> QED
  BY <1>2, <1>3

LEMMA AckSetup_Serves ==
  ASSUME PipeInv, Records, AckSetup
  PROVE  Pipe!Execute \/ UNCHANGED Pipe!serviceVars
<1>1. /\ UNCHANGED hostVars /\ mpc = "ack" /\ mpc' = "checkRequest"
      /\ device' = IF TooLong(sent[serving]) THEN Stalled(device) ELSE device
  BY DEF AckSetup, Main, Advance
<1>2. CASE clean = 1 /\ TooLong(sent[serving])
  <2>1. Read /\ sent[serving] = Current /\ Current \in RequestType
    BY <1>1, <1>2, CurrentType
    DEF PipeInv, AllInv, CleanInv, Phase, Unheard, Heard, Read, Ready, Answered, Between,
        Fresh, Current
  <2>2. stage = "dataOut" /\ Waiting /\ answer = Pipe!NoAnswer
    BY <1>2, <2>1, Directions DEF Read, Fresh, Waiting, PipeInv, AnswerKnown
  <2>3. answer' = Answer(Current, Settings(device))
    BY <1>1, <1>2, <2>1 DEF Records, Decides, hostVars
  <2>4. Settings(device') = After(Current, Settings(device))
    <3>1. device \in DeviceType
      BY DEF PipeInv, AllInv, IInv, TypeOK
    <3>2. Settings(device') = Settings(device) /\ Settings(Settings(device)) = Settings(device)
      BY <1>1, <1>2, <3>1, SettingsOf
    <3> QED
      BY <1>2, <2>1, <3>2 DEF After, Outcome, Reply
  <2>5. answer'.refused
    <3>1. answer' = AnswerOf(Current, Reply(Settings(device), <<Stall>>))
      BY <1>2, <2>1, <2>3 DEF Answer, Outcome
    <3>2. 1 \in DOMAIN <<Stall>> /\ <<Stall>>[1].op = "stall"
      BY OneElement, OpNames
    <3>3. Reply(Settings(device), <<Stall>>).ops = <<Stall>>
      BY DEF Reply
    <3> QED
      BY <3>1, <3>2, <3>3, AnswerFields
  <2> QED
    BY <1>1, <1>2, <2>2, <2>3, <2>4, <2>5
    DEF Pipe!Execute, Pipe!Last, Pipe!NoAnswer, Current, hostVars
<1>3. CASE ~(clean = 1 /\ TooLong(sent[serving]))
  <2>1. clean = 1 => ~Decides
    BY <1>1, <1>3 DEF Decides
  <2> QED
    BY <1>1, <2>1, WorkStutters
<1> QED
  BY <1>2, <1>3

LEMMA MainStep_Serves ==
  ASSUME PipeInv, Records, MainStep
  PROVE  Pipe!Execute \/ Pipe!Disorder \/ UNCHANGED Pipe!serviceVars
<1>1. CASE Top \/ CheckSetup \/ SetupToken \/ Decide \/ CheckRequest \/ Commit
  <2>1. device' = device /\ UNCHANGED hostVars /\ mpc \notin {"request", "ack"}
    BY <1>1 DEF Top, CheckSetup, SetupToken, Decide, CheckRequest, Commit, Main
  <2> QED
    BY <2>1, WorkStutters DEF Decides
<1>2. CASE AckTest
  <2>1. (device' = device \/ device' = Stalled(device)) /\ UNCHANGED hostVars /\ mpc = "ackTest"
    BY <1>2 DEF AckTest, Advance, Main
  <2> QED
    BY <2>1, WorkStutters DEF Decides
<1>3. CASE Respond
  <2>1. Head(ops).op \in {"stall", "single", "burst"}
    BY <1>3, TailOps
    DEF Respond, Main, PipeInv, AllInv, IInv, Operating, OperationType
  <2>2. (device' = device \/ device' = Stalled(device)) /\ UNCHANGED hostVars /\ mpc = "respond"
    BY <1>3, <2>1 DEF Respond, Main
  <2> QED
    BY <2>2, WorkStutters DEF Decides
<1> QED
  BY <1>1, <1>2, <1>3, DeviceRequest_Serves, AckSetup_Serves DEF MainStep

LEMMA IsrStep_Serves ==
  ASSUME PipeInv, Records, IsrStep
  PROVE  Pipe!Disorder \/ UNCHANGED Pipe!serviceVars
<1>1. UNCHANGED <<hostVars, mpc>>
  BY DEF IsrStep, IsrEnter, Isr_BusReset, Isr_SuspendChange, Isr_Ep00RxDone, Isr_Ep00TxDone,
     mainVars
<1>2. CASE Isr_BusReset
  <2>1. clean = 0
    BY <1>2 DEF PipeInv, AllInv, IInv, TypeOK, CleanInv, NoReset, Isr_BusReset
  <2> QED
    BY <1>1, <1>2, <2>1, DisorderlySettings DEF Isr_BusReset
<1>3. CASE ~Isr_BusReset
  <2>1. device' = device \/ device' = Stalled(device)
    BY <1>3 DEF IsrStep, IsrEnter, Isr_SuspendChange, Isr_Ep00RxDone, Isr_Ep00TxDone,
       SetupReceived, DataReceived
  <2> QED
    BY <1>1, <2>1, WorkStutters DEF Decides
<1> QED
  BY <1>2, <1>3

LEMMA HostSetup_Serves ==
  ASSUME PipeInv, Records, NEW r \in Requests, HostSetup(r)
  PROVE  Pipe!Ask(r)
<1>1. /\ sent' = Append(sent, r) /\ got' = 0 /\ sent \in Seq(Requests)
      /\ r \in RequestType /\ device \in DeviceType
      /\ device' = [device EXCEPT !.stalled = @ \ EP0]
  BY PipeAssumption DEF HostSetup, PipeInv, AllInv, IInv, TypeOK
<1>2. stage' = Pipe!FirstStage(r)
  <2>1. r.length \in Nat /\ r.dir \in {"in", "out"}
    BY <1>1 DEF RequestType
  <2> QED
    BY <2>1 DEF HostSetup, Pipe!FirstStage
<1>3. answer' = Pipe!NoAnswer
  <2>1. Len(sent') > Len(sent)
    BY <1>1
  <2> QED
    BY <2>1 DEF Records
<1>4. clean' \in {0, 1} /\ (Pipe!InTurn => clean' = 1)
  <2>1. clean' = IF Clean THEN 1 ELSE 0
    BY DEF HostSetup
  <2>2. ASSUME stage = "idle", clean = 1, ~answer.goesOn PROVE Clean
    <3>1. Answered
      BY <2>2, CurrentType, Directions
      DEF PipeInv, AllInv, CleanInv, Phase, Unheard, Heard, Read, Ready, Awaited, Arrived,
          Handed, Fresh, FirstStage
    <3>2. sent # << >> => Len(sent) >= 1
      BY <1>1
    <3>3. Len(sent) >= 1 => ~Several(Current)
      BY <2>2, <3>1 DEF PipeInv, AnswerKnown, Answered, Waiting, Promised
    <3>4. Len(sent) >= 1 => TooLong(Current) \/ Len(Handle(Current, device, 0).ops) <= 1
      BY <1>1, <3>3, CurrentType, HowMany DEF PipeInv, AllInv
    <3> QED
      BY <2>2, <3>2, <3>4 DEF Clean
  <2> QED
    BY <2>1, <2>2 DEF Pipe!InTurn
<1>5. Settings(device') = Settings(device)
  BY <1>1, SettingsOf
<1> QED
  BY <1>1, <1>2, <1>3, <1>4, <1>5 DEF Pipe!Ask

\* The host's steps in a transfer out of order.
LEMMA DisorderlyHost ==
  ASSUME PipeInv, Records, clean = 0, UNCHANGED <<sent, clean, device>>,
         HostIn \/ HostOut \/ HostStalled
  PROVE  Pipe!Disorder
<1>1. IInv'
  BY Inductive DEF PipeInv, AllInv, Next, HostStep
<1>2. answer' = answer
  BY AnswerKept DEF PipeInv
<1>3. got' \in Nat /\ stage' \in {"idle", "dataIn", "dataOut", "statusIn", "statusOut"}
  BY <1>1 DEF IInv, TypeOK
<1> QED
  BY <1>2, <1>3 DEF Pipe!Disorder

LEMMA HostIn_Serves ==
  ASSUME PipeInv, Records, HostIn
  PROVE  Pipe!Receive \/ Pipe!Conclude \/ Pipe!Disorder
<1>1. /\ UNCHANGED <<mpc, ops, device, sent, clean>> /\ inFifo # 0 /\ ~EP0Stalled
      /\ clean \in {0, 1}
  BY DEF HostIn, mainVars, PipeInv, AllInv, IInv, TypeOK
<1>2. CASE clean = 0
  BY <1>1, <1>2, DisorderlyHost
<1>3. CASE clean = 1
  <2>1. answer' = answer
    BY <1>1, <1>3, AnswerKept DEF PipeInv, Decides
  <2>2. Answered /\ stage \in {"dataIn", "statusIn"}
    BY <1>1, <1>3
    DEF HostIn, PipeInv, AllInv, CleanInv, Phase, Unheard, Heard, Read, Ready, Fresh
  <2>3. Promised /\ answer.granted
    BY <1>1, <1>3, <2>2 DEF PipeInv, AnswerKnown, Waiting, Answered, Promised
  <2>4. CASE stage = "statusIn"
    BY <1>1, <1>3, <2>1, <2>3, <2>4 DEF HostIn, Pipe!Conclude
  <2>5. CASE stage = "dataIn"
    <3>1. answer.length = Due(Current)
      BY <1>1, <2>3, <2>5 DEF Promised
    <3>2. Fitting /\ Sized(Current) /\ got + inLen <= Due(Current)
      BY <1>1, <1>3, <2>2, <2>5 DEF PipeInv, DataKnown, Answered, Fitting
    <3>3. /\ got \in Nat /\ inLen \in Nat /\ Due(Current) \in Nat
      BY <3>2, PacketSizeAssumption DEF PipeInv, AllInv, IInv, TypeOK, Sized
    <3>4. /\ got' = got + inLen
          /\ stage' = IF inLen < EP0_PACKET_SIZE \/ got' >= Current.length
                      THEN "statusOut" ELSE "dataIn"
      BY <2>5 DEF HostIn
    <3>5. got' \in got..answer.length
      BY <3>1, <3>2, <3>3, <3>4
    <3>6. stage' = "statusOut" => got' = answer.length
      <4>1. DataKnown'
        BY HostIn_Data DEF PipeInv
      <4>2. locked' = 0 /\ clean' = 1 /\ Due(Current)' = Due(Current)
        BY <1>1, <1>3, <2>2, SameRead DEF HostIn, outVars, Answered
      <4> QED
        BY <3>1, <4>1, <4>2 DEF DataKnown
    <3> QED
      BY <1>1, <1>3, <2>1, <2>3, <2>5, <3>4, <3>5, <3>6 DEF Pipe!Receive
  <2> QED
    BY <2>2, <2>4, <2>5
<1> QED
  BY <1>1, <1>2, <1>3

LEMMA HostOut_Serves ==
  ASSUME PipeInv, Records, HostOut
  PROVE  Pipe!Give \/ Pipe!Conclude \/ Pipe!Disorder
<1>1. /\ UNCHANGED <<mpc, ops, device, sent, clean>> /\ locked = 0 /\ ~EP0Stalled
      /\ clean \in {0, 1} /\ outFifo = "empty"
  BY DEF HostOut, mainVars, PipeInv, AllInv, IInv, TypeOK
<1>2. CASE clean = 0
  BY <1>1, <1>2, DisorderlyHost
<1>3. CASE clean = 1
  <2>1. answer' = answer
    BY <1>1, <1>3, AnswerKept DEF PipeInv, Decides
  <2>2. (Ready /\ Awaited) \/ Answered
    BY <1>1, <1>3
    DEF HostOut, PipeInv, AllInv, CleanInv, Phase, Unheard, Heard, Read, Ready, Arrived, Handed,
        Fresh
  <2>3. CASE Ready /\ Awaited
    <3>1. answer = Pipe!NoAnswer
      BY <1>3, <2>3 DEF Awaited, Waiting, PipeInv, AnswerKnown
    <3>2. stage = "dataOut" /\ got = 0 /\ Current \in RequestType
      BY <2>3, CurrentType DEF Ready, Awaited, PipeInv, AllInv
    <3>3. /\ got' = got + NextPacket(Current.length - got)
          /\ stage' = IF got' = Current.length THEN "statusIn" ELSE "dataOut"
      BY <3>2 DEF HostOut
    <3>4. got' \in got..Current.length
      <4>1. Current.length \in Nat /\ Current.length - 0 = Current.length
        BY <3>2 DEF RequestType
      <4>2. NextPacket(Current.length) \in Nat /\ NextPacket(Current.length) <= Current.length
        BY <4>1, Packets, PacketSizeAssumption
      <4> QED
        BY <3>2, <3>3, <4>1, <4>2
    <3> QED
      BY <1>1, <1>3, <2>1, <3>1, <3>2, <3>3, <3>4
      DEF Pipe!Give, Pipe!NoAnswer, Pipe!Last, Current
  <2>4. CASE Answered
    <3>1. stage = "statusOut" /\ Len(sent) >= 1
      BY <1>1, <2>4 DEF HostOut, Answered, PipeInv, ReadStage
    <3>2. answer.granted
      BY <1>3, <2>4, <3>1 DEF PipeInv, AnswerKnown, Waiting, Answered, Promised
    <3> QED
      BY <1>1, <1>3, <2>1, <3>1, <3>2 DEF HostOut, Pipe!Conclude
  <2> QED
    BY <2>2, <2>3, <2>4
<1> QED
  BY <1>1, <1>2, <1>3

LEMMA HostStalled_Serves ==
  ASSUME PipeInv, Records, HostStalled
  PROVE  Pipe!Refuse \/ Pipe!Disorder
<1>1. /\ UNCHANGED <<mpc, ops, device, sent, clean, got>> /\ EP0Stalled
      /\ stage # "idle" /\ stage' = "idle" /\ clean \in {0, 1}
  BY DEF HostStalled, mainVars, PipeInv, AllInv, IInv, TypeOK
<1>2. CASE clean = 0
  BY <1>1, <1>2, DisorderlyHost
<1>3. CASE clean = 1
  <2>1. answer' = answer
    BY <1>1, <1>3, AnswerKept DEF PipeInv, Decides
  <2>2. Answered
    BY <1>1, <1>3 DEF PipeInv, AllInv, CleanInv, Phase, Unheard, Heard, Read, Ready, Fresh
  <2>3. answer.refused
    BY <1>1, <1>3, <2>2 DEF PipeInv, AnswerKnown, Waiting, Answered, Promised
  <2> QED
    BY <1>1, <1>3, <2>1, <2>3 DEF Pipe!Refuse
<1> QED
  BY <1>1, <1>2, <1>3

LEMMA HostBusReset_Serves ==
  ASSUME PipeInv, Records, HostBusReset
  PROVE  Pipe!BusReset
<1>1. /\ clean' = 0 /\ stage' = "idle" /\ got' = 0 /\ sent' = sent
      /\ device' = [device EXCEPT !.stalled = @ \ EP0, !.usbAddress = 0]
      /\ device \in DeviceType
  BY DEF HostBusReset, PipeInv, AllInv, IInv, TypeOK
<1>2. answer' = Pipe!NoAnswer
  BY <1>1 DEF Records
<1> QED
  BY <1>1, <1>2, SettingsOf DEF Pipe!BusReset

LEMMA HostStep_Serves ==
  ASSUME PipeInv, Records, HostStep
  PROVE  \/ \E r \in Requests : Pipe!Ask(r)
         \/ Pipe!Give \/ Pipe!Receive \/ Pipe!Conclude \/ Pipe!Refuse \/ Pipe!BusReset
         \/ Pipe!Disorder \/ UNCHANGED Pipe!serviceVars
<1>1. CASE HostSuspend
  <2>1. UNCHANGED <<mpc, sent, stage, got, clean, device>> /\ clean \in {0, 1}
    BY <1>1 DEF HostSuspend, mainVars, PipeInv, AllInv, IInv, TypeOK
  <2>2. answer' = answer
    BY <2>1, AnswerKept DEF PipeInv, Decides
  <2> QED
    BY <2>1, <2>2 DEF Pipe!serviceVars
<1> QED
  BY <1>1, HostSetup_Serves, HostIn_Serves, HostOut_Serves, HostStalled_Serves,
     HostBusReset_Serves DEF HostStep

LEMMA ServesStep == PipeInv /\ [AnswersNext]_answersVars => [Pipe!ServiceNext]_(Pipe!serviceVars)
<1> SUFFICES ASSUME PipeInv, [AnswersNext]_answersVars
             PROVE  Pipe!ServiceNext \/ UNCHANGED Pipe!serviceVars
  OBVIOUS
<1>1. CASE AnswersNext
  BY <1>1, MainStep_Serves, IsrStep_Serves, HostStep_Serves
  DEF AnswersNext, Next, Pipe!ServiceNext
<1>2. CASE UNCHANGED answersVars
  BY <1>2 DEF answersVars, vars, Pipe!serviceVars
<1> QED
  BY <1>1, <1>2

LEMMA ServesInit == AnswersInit => Pipe!ServiceInit
<1>1. Settings(PowerOnDevice) = PowerOnDevice
  BY FreshDevice, SettingsOf DEF PowerOnDevice
<1> QED
  BY <1>1 DEF AnswersInit, Init, Pipe!ServiceInit

\* The control pipe is the service ControlService promises: a clean transfer is
\* executed once, on what the host has sent and the settings it knows, and ends
\* with the answer its handler has for it; main loop and usb_isr change the
\* settings of the device by whole requests and bus resets only, whatever the
\* host does.
THEOREM ControlRefinement == AnswersSpec => RefinesControlService
<1>1. AnswersSpec => [][Pipe!ServiceNext]_(Pipe!serviceVars)
  BY PipeInvariant, ServesStep, PTL DEF AnswersSpec
<1>2. AnswersSpec => Pipe!ServiceInit
  BY ServesInit DEF AnswersSpec
<1> QED
  BY <1>1, <1>2, PTL DEF RefinesControlService, Pipe!Service
=============================================================================
