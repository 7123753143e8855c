---------------------------- MODULE BufferProofs ----------------------------
(***************************************************************************)
(* The buffers of the driver: what the FIFO functions move into and out of *)
(* them, for a FIFO of any even size and any number of packets, and what   *)
(* the vendor requests find in the one of endpoint 0, with the mode they   *)
(* set, for any number of transfers.                                       *)
(***************************************************************************)
EXTENDS FifoAccess, VendorRequests, TLAPS

-----------------------------------------------------------------------------
(* FifoAccess.  The inductive invariant says how far the loop has come: a    *)
(* read has replaced the first i cells of the buffer, a write has put the    *)
(* first i bytes into the FIFO and written a word for every two of them.     *)

Reading ==
  pc = "read" =>
    /\ j = Smaller(size, len) /\ i <= j
    /\ buf = [k \in Cells |-> IF k < i THEN Byte(round, k) ELSE before[k]]

Writing ==
  pc \in {"write", "sent"} =>
    /\ i < len => 2 * words = i
    /\ \A k \in Cells : k < len /\ k < i => fifo[k] = buf[k]

FifoInv == FifoTypeOK /\ Reading /\ PacketTaken /\ Writing /\ FifoFits /\ (pc = "sent" => i >= len)
-----------------------------------------------------------------------------
LEMMA ByteType == ASSUME NEW r \in Nat, NEW k \in Nat PROVE Byte(r, k) \in Int
BY FifoAssumption DEF Byte

LEMMA FifoInitKeeps == FifoInit => FifoInv
BY FifoAssumption
   DEF FifoInit, FifoInv, FifoTypeOK, Reading, PacketTaken, Writing, FifoFits, Lengths, Cells, Slots, Stale

LEMMA ReadWordKeeps == FifoInv /\ ReadWord => FifoInv'
<1> SUFFICES ASSUME FifoInv, ReadWord PROVE FifoInv'
    OBVIOUS
<1>1. /\ pc = "read" /\ i < j /\ j = Smaller(size, len) /\ j <= FifoSize
      /\ i \in Nat /\ j \in Nat /\ round \in Nat
      /\ buf = [k \in Cells |-> IF k < i THEN Byte(round, k) ELSE before[k]]
    BY FifoAssumption DEF FifoInv, FifoTypeOK, Reading, ReadWord, Lengths
<1>2. /\ i' = IF i + 1 >= j THEN i + 1 ELSE i + 2
      /\ i' <= j /\ i' \in 0..FifoSize + 1
    BY <1>1, FifoAssumption DEF ReadWord
<1>3. /\ Byte(round, i) \in Int /\ Byte(round, i + 1) \in Int
      /\ i \in Cells /\ (i + 1 < j => i + 1 \in Cells)
  <2>1. i + 1 \in Nat
      BY <1>1
  <2>2. Byte(round, i) \in Int /\ Byte(round, i + 1) \in Int
      BY <1>1, <2>1, ByteType
  <2> QED
      BY <1>1, <2>2, FifoAssumption DEF Cells
<1>4. buf' \in [Cells -> Int]
    BY <1>3 DEF ReadWord, Taken, FifoInv, FifoTypeOK
<1>5. ASSUME NEW k \in Cells
      PROVE  buf'[k] = IF k < i' THEN Byte(round, k) ELSE before[k]
    BY <1>1, <1>2, <1>3, FifoAssumption DEF ReadWord, Taken, Cells
<1>6. buf' = [k \in Cells |-> IF k < i' THEN Byte(round, k) ELSE before[k]]
    BY <1>4, <1>5
<1>7. UNCHANGED <<pc, round, size, j, len, before, bulk, fifo, words>>
    BY DEF ReadWord
<1>8. FifoTypeOK'
    BY <1>2, <1>4, <1>7 DEF FifoInv, FifoTypeOK
<1> QED
    BY <1>1, <1>2, <1>6, <1>7, <1>8
    DEF FifoInv, Reading, PacketTaken, Writing, FifoFits

LEMMA EndReadKeeps == FifoInv /\ EndRead => FifoInv'
<1> SUFFICES ASSUME FifoInv, EndRead PROVE FifoInv'
    OBVIOUS
<1>1. pc = "read" /\ i = j /\ j = Smaller(size, len)
    BY FifoAssumption DEF FifoInv, FifoTypeOK, Reading, EndRead, Lengths
<1>2. PacketTaken'
    BY <1>1 DEF FifoInv, Reading, EndRead, PacketTaken, Cells, Byte, Smaller
<1> QED
    BY <1>2 DEF FifoInv, FifoTypeOK, Reading, EndRead, Writing, FifoFits

LEMMA WriteWordKeeps == FifoInv /\ (WriteWord \/ WriteBulkWord) => FifoInv'
<1> SUFFICES ASSUME FifoInv, WriteWord \/ WriteBulkWord PROVE FifoInv'
    OBVIOUS
<1>1. /\ pc = "write" /\ i < len /\ 2 * words = i
      /\ i \in Nat /\ words \in Nat /\ len \in Nat /\ len <= FifoSize
      /\ buf \in [Cells -> Int] /\ fifo \in [Slots -> Int]
      /\ \A k \in Cells : k < len /\ k < i => fifo[k] = buf[k]
    BY FifoAssumption DEF FifoInv, FifoTypeOK, Writing, WriteWord, WriteBulkWord, Lengths
<1>2. /\ UNCHANGED <<pc, round, size, j, len, buf, before, bulk>>
      /\ i' = i + 2 /\ i' \in 0..FifoSize + 1
    BY <1>1, FifoAssumption DEF WriteWord, WriteBulkWord
<1> DEFINE h == FifoSize \div 2
<1>3. h \in Nat /\ FifoSize = 2 * h
    BY FifoAssumption
<1> HIDE DEF h
<1>4. /\ words' \in 0..h + 1
      /\ 2 * words' <= FifoSize \/ (bulk = 0 /\ len = FifoSize - 1)
      /\ i + 2 < len => 2 * words' = i + 2
    BY <1>1, <1>3 DEF WriteWord, WriteBulkWord
<1>5. i \in Cells /\ i + 1 \in Cells /\ i \in Slots /\ i + 1 \in Slots
    BY <1>1, <1>3 DEF Cells, Slots
<1>6. fifo' \in [Slots -> Int]
    BY <1>1, <1>5 DEF WriteWord, WriteBulkWord, Put, Zero
<1>7. ASSUME NEW k \in Cells, k < len, k < i + 2 PROVE fifo'[k] = buf[k]
  <2>1. k \in Slots /\ k \in Nat
      BY FifoAssumption DEF Cells, Slots
  <2> QED
      BY <1>1, <1>5, <1>7, <2>1 DEF WriteWord, WriteBulkWord, Put
<1>8. FifoTypeOK'
    BY <1>2, <1>4, <1>6 DEF FifoInv, FifoTypeOK, h
<1>9. Writing' /\ FifoFits'
    BY <1>1, <1>2, <1>4, <1>7 DEF Writing, FifoFits
<1> QED
    BY <1>1, <1>2, <1>8, <1>9 DEF FifoInv, Reading, PacketTaken

LEMMA CallsKeep ==
  FifoInv /\ (HostSends \/ ReadEndpoint \/ WriteLength \/ EndWrite \/ HostReceives) => FifoInv'
<1> SUFFICES ASSUME FifoInv PROVE
      HostSends \/ ReadEndpoint \/ WriteLength \/ EndWrite \/ HostReceives => FifoInv'
    OBVIOUS
<1>1. CASE HostSends
    BY <1>1, FifoAssumption
    DEF FifoInv, FifoTypeOK, Reading, PacketTaken, Writing, FifoFits, HostSends
<1>2. CASE ReadEndpoint
  <2>1. /\ size \in 0..FifoSize /\ len' \in 0..FifoSize /\ j' = Smaller(size, len')
        /\ i' = 0 /\ j' \in 0..FifoSize
      BY <1>2 DEF FifoInv, FifoTypeOK, ReadEndpoint, ReadLength, Lengths, Smaller
  <2>2. FifoTypeOK'
      BY <1>2, <2>1, FifoAssumption DEF FifoInv, FifoTypeOK, ReadEndpoint, Lengths
  <2>3. buf = [k \in Cells |-> IF k < 0 THEN Byte(round, k) ELSE buf[k]]
      BY FifoAssumption DEF FifoInv, FifoTypeOK, Cells
  <2>4. Reading'
      BY <1>2, <2>1, <2>3 DEF ReadEndpoint, Reading, Cells, Byte
  <2> QED
      BY <1>2, <2>2, <2>4 DEF FifoInv, ReadEndpoint, PacketTaken, Writing, FifoFits
<1>3. CASE WriteLength
  <2>1. words' \in 0..FifoSize \div 2 + 1 /\ 2 * words' <= FifoSize /\ i' = 0
      BY <1>3, FifoAssumption DEF WriteLength
  <2>2. fifo' \in [Slots -> Int]
      BY <1>3 DEF WriteLength, Zero, Stale, Slots
  <2>3. FifoTypeOK'
      BY <1>3, <2>1, <2>2, FifoAssumption DEF FifoInv, FifoTypeOK, WriteLength
  <2>4. Writing'
      BY <1>3, FifoAssumption DEF WriteLength, Writing, Cells, Lengths
  <2> QED
      BY <1>3, <2>1, <2>3, <2>4 DEF FifoInv, WriteLength, Reading, PacketTaken, FifoFits
<1>4. CASE EndWrite
    BY <1>4 DEF FifoInv, FifoTypeOK, Reading, PacketTaken, Writing, FifoFits, EndWrite
<1>5. CASE HostReceives
    BY <1>5 DEF FifoInv, FifoTypeOK, Reading, PacketTaken, Writing, FifoFits, HostReceives
<1> QED
    BY <1>1, <1>2, <1>3, <1>4, <1>5

LEMMA FifoNextKeeps == FifoInv /\ [FifoNext]_fifoVars => FifoInv'
<1>1. FifoInv /\ UNCHANGED fifoVars => FifoInv'
    BY DEF FifoInv, FifoTypeOK, Reading, PacketTaken, Writing, FifoFits, fifoVars
<1> QED
    BY <1>1, ReadWordKeeps, EndReadKeeps, WriteWordKeeps, CallsKeep DEF FifoNext

\* How far the loops of the five functions have come holds in every state.
THEOREM FifoInductive == FifoSpec => []FifoInv
BY FifoInitKeeps, FifoNextKeeps, PTL DEF FifoSpec

\* Reads and writes of any length stay within the buffer and the FIFO's slots
\* (Hal4D13_ReadEndpoint, Hal4D13_WriteEndpoint and their variants).
THEOREM FifoTypeCorrect == FifoSpec => []FifoTypeOK
<1>1. FifoInv => FifoTypeOK
    BY DEF FifoInv
<1> QED
    BY <1>1, FifoInductive, PTL

\* A read of any packet into any buffer replaces exactly the bytes it should.
THEOREM ReadsExactly == FifoSpec => []PacketTaken
<1>1. FifoInv => PacketTaken
    BY DEF FifoInv
<1> QED
    BY <1>1, FifoInductive, PTL

\* The host gets the bytes of the buffer, whatever the length and the function.
THEOREM WritesExactly == FifoSpec => []PacketGiven
<1>1. FifoInv => PacketGiven
    BY FifoAssumption DEF FifoInv, FifoTypeOK, Writing, PacketGiven, Cells, Lengths
<1> QED
    BY <1>1, FifoInductive, PTL

\* No packet but an odd one of the largest size overflows the FIFO.
THEOREM WordsFit == FifoSpec => []FifoFits
<1>1. FifoInv => FifoFits
    BY DEF FifoInv
<1> QED
    BY <1>1, FifoInductive, PTL
-----------------------------------------------------------------------------
(* VendorRequests *)

\* While data is awaited none has come, and the request is the host's own.
Awaiting ==
  DCP_state = "DATAOUT" =>
    /\ DeviceRequest \in Requests /\ DeviceRequest = host
    /\ host.length \in 1..MAX_CONTROLDATA_SIZE /\ wCount = 0 /\ wLength = host.length

\* A request about to be executed has all its data in the buffer.
Complete ==
  DCP_state = "REQUESTPROC" =>
    /\ DeviceRequest \in Requests
    /\ DeviceRequest.dir = "out" =>
         \A k \in DOMAIN dataBuffer : k < DeviceRequest.length => dataBuffer[k] = transfer

\* The SETUP packet that is read is the one the host has sent last.
Pending == DCP_state = "SETUPPROC" => host \in Requests

IInv == TypeOK /\ IsoAgrees /\ Awaiting /\ Complete /\ Pending

\* The type of a request.
LEMMA RequestFields ==
  ASSUME NEW r \in Requests
  PROVE  /\ r.req \in {0, 1, 2, 12, 15} /\ r.dir \in {"in", "out"}
         /\ r.mode \subseteq ISO_FLAGS /\ r.length \in 0..17
         /\ r.req # 0 \/ r.length \in {0, 2}
<1>1. CASE r \in IsoRequests
  BY <1>1 DEF IsoRequests, Vendor
<1>2. CASE r \in ReservedRequests
  BY <1>2 DEF ReservedRequests, Vendor
<1>3. CASE r \in ReadRequests
  BY <1>3 DEF ReadRequests, Vendor
<1>4. CASE r \in WriteRequests
  BY <1>4 DEF WriteRequests, Vendor
<1> QED BY <1>1, <1>2, <1>3, <1>4 DEF Requests

\* The bounds of a USHORT.
LEMMA Numbers == 0 \in USHORT /\ MAX_USHORT \in USHORT
  BY DEF USHORT, MAX_USHORT

\* The initial state.
LEMMA InitInv == Init => IInv
<1> SUFFICES ASSUME Init PROVE IInv
  OBVIOUS
<1>1. dataBuffer \in [0..MAX_CONTROLDATA_SIZE - 1 -> 0..MaxTransfers]
  BY TransfersAssumption DEF Init
<1>2. TypeOK
  BY <1>1, TransfersAssumption, Numbers DEF Init, TypeOK, MAX_CONTROLDATA_SIZE, ISO_FLAGS, Packets
<1>3. IsoAgrees /\ Awaiting /\ Complete /\ Pending
  BY DEF Init, IsoAgrees, Awaiting, Complete, Pending
<1> QED BY <1>2, <1>3 DEF IInv

\* Reading the SETUP packet: the parts of IInv about the state it leads to.
LEMMA SetupInv == ASSUME IInv, SetupToken_Handler PROVE IInv'
<1>1. host \in Requests /\ host.length \in 0..17 /\ host.dir \in {"in", "out"} /\ host.req \in {0, 1, 2, 12, 15}
  BY RequestFields DEF IInv, Pending, SetupToken_Handler
<1>2. /\ DCP_state' \in {"HANDSHAKE", "REQUESTPROC", "DATAOUT", "STALL"}
      /\ DCP_state' = "DATAOUT" => host.length \in 1..MAX_CONTROLDATA_SIZE
      /\ DCP_state' = "REQUESTPROC" /\ host.dir = "out" => host.length = 0
  BY <1>1 DEF SetupToken_Handler, StateAfterSetup, TakesData, MAX_CONTROLDATA_SIZE
<1>3. TypeOK'
  BY <1>1, <1>2 DEF IInv, TypeOK, SetupToken_Handler, MAX_CONTROLDATA_SIZE
<1>4. Complete'
  <2> SUFFICES ASSUME DCP_state' = "REQUESTPROC", host.dir = "out", NEW k \in DOMAIN dataBuffer
               PROVE ~(k < host.length)
    BY <1>1 DEF Complete, SetupToken_Handler
  <2> QED BY <1>2 DEF IInv, TypeOK
<1>5. Awaiting' /\ Pending' /\ IsoAgrees'
  BY <1>1, <1>2 DEF IInv, Awaiting, Pending, IsoAgrees, SetupToken_Handler
<1> QED BY <1>3, <1>4, <1>5 DEF IInv

\* The data stage: one packet brings all of it, since the buffer is smaller
\* than a packet.
LEMMA OutInv == ASSUME IInv, HostOut PROVE IInv'
<1>1. DCP_state = "DATAOUT" /\ wCount = 0 /\ wLength = host.length
      /\ DeviceRequest = host /\ host \in Requests /\ host.length \in 1..16
  BY DEF IInv, Awaiting, HostOut, MAX_CONTROLDATA_SIZE
<1>2. PICK n \in 1..EP0_PACKET_SIZE : n = host.length /\ DataReceived(n)
  BY <1>1 DEF HostOut, EP0_PACKET_SIZE
<1>3. /\ wCount' = host.length /\ DCP_state' = "REQUESTPROC"
      /\ dataBuffer' = [k \in DOMAIN dataBuffer |->
                          IF wCount <= k /\ k < wCount + host.length THEN transfer ELSE dataBuffer[k]]
  BY <1>1, <1>2 DEF DataReceived, EP0_PACKET_SIZE
<1>4. UNCHANGED <<DeviceRequest, wLength, isoVars, dmaVars, inFifo, host, outcome, transfer, cut>>
  BY DEF HostOut
<1>5. TypeOK'
  BY <1>1, <1>3, <1>4 DEF IInv, TypeOK, MAX_CONTROLDATA_SIZE, isoVars, dmaVars
<1>6. Complete'
  BY <1>1, <1>3, <1>4 DEF Complete, IInv, TypeOK, MAX_CONTROLDATA_SIZE
<1>7. Awaiting' /\ Pending' /\ IsoAgrees'
  BY <1>3, <1>4 DEF IInv, Awaiting, Pending, IsoAgrees, isoVars
<1> QED BY <1>5, <1>6, <1>7 DEF IInv

\* What a handler leaves behind, whichever it is.
LEMMA HandlerInv ==
  ASSUME IInv, DeviceRequest_Handler
  PROVE  IInv' /\ (UNCHANGED dmaVars \/ \A k \in 0..5 : dataBuffer[k] = transfer)
<1>0. cut' \in {0, 1} /\ (DeviceRequest.req = 0 => cut' = 0) /\ (DeviceRequest.req # 0 => cut' = cut)
  BY DEF DeviceRequest_Handler, IInv, TypeOK
<1>1. /\ DCP_state = "REQUESTPROC" /\ DeviceRequest \in Requests
      /\ UNCHANGED <<DeviceRequest, dataBuffer, host, outcome, transfer>>
  BY DEF IInv, Complete, DeviceRequest_Handler
<1>2. /\ DeviceRequest.mode \subseteq ISO_FLAGS /\ DeviceRequest.dir \in {"in", "out"}
      /\ DeviceRequest.length \in 0..17
  BY <1>1, RequestFields
<1> DEFINE Answered == /\ DCP_state' \in {"IDLE", "HANDSHAKE", "STALL"}
                       /\ inFifo' \in Packets
                       /\ wLength' \in 0..17 /\ wCount' \in 0..MAX_CONTROLDATA_SIZE
<1> DEFINE Iso == /\ IsoMode' \subseteq ISO_FLAGS /\ ISO_state' \in ISO_FLAGS \cup {"off"}
                  /\ IsoDisable' \in {0, 1} /\ ep06' \in {0, 1} /\ IsoAgrees'
<1> DEFINE Dma == setup_dma' \in {0, 1} /\ uSize' \in USHORT
<1>3. StallEP0 => Answered
  BY DEF IInv, TypeOK, StallEP0
<1>4. Silent => Answered
  BY DEF IInv, TypeOK, Silent
<1>5. ASSUME NEW n \in {0, 1}, SingleTransmitEP0(n) PROVE Answered
  <2>1. Packet(n) \in Packets
    BY DEF Packet, Packets
  <2>2. wLength' \in 0..17 /\ wCount' \in 0..MAX_CONTROLDATA_SIZE
    BY <1>5 DEF SingleTransmitEP0, MAX_CONTROLDATA_SIZE
  <2> QED BY <1>5, <2>1, <2>2 DEF SingleTransmitEP0
<1>6. UNCHANGED isoVars /\ DeviceRequest.req # 0 => Iso
  BY <1>0 DEF IInv, TypeOK, IsoAgrees, isoVars
<1>7. UNCHANGED dmaVars => Dma
  BY DEF IInv, TypeOK, dmaVars
<1>8. EnableIsoMode /\ DeviceRequest.req = 0 => Answered /\ Iso /\ UNCHANGED dmaVars
  <2>1. CASE wLength = 0
    BY <2>1, <1>0, <1>2, <1>5 DEF EnableIsoMode, IInv, TypeOK, IsoAgrees, ISO_FLAGS
  <2>2. CASE wLength # 0
    BY <2>2, <1>3 DEF EnableIsoMode, IInv, TypeOK, IsoAgrees
  <2> QED BY <2>1, <2>2
<1>9. ASSUME setup_dma_request, DeviceRequest.dir = "out", DeviceRequest.length = 6
      PROVE  Answered /\ Dma /\ \A k \in 0..5 : dataBuffer[k] = transfer
  <2>1. Answered /\ Dma
    <3>1. uSize' \in USHORT
      BY <1>9, Numbers DEF setup_dma_request
    <3>2. CASE StallEP0 /\ UNCHANGED setup_dma
      BY <3>1, <3>2, <1>3 DEF IInv, TypeOK
    <3>3. CASE setup_dma' = 1 /\ Silent
      BY <3>1, <3>3, <1>4
    <3> QED BY <1>9, <3>2, <3>3 DEF setup_dma_request
  <2>2. \A k \in 0..5 : dataBuffer[k] = transfer
    BY <1>1, <1>9 DEF IInv, Complete, TypeOK, MAX_CONTROLDATA_SIZE
  <2> QED BY <2>1, <2>2
<1>10. read_write_register /\ DeviceRequest.req # 0 =>
         /\ Answered /\ Iso /\ Dma
         /\ UNCHANGED dmaVars \/ \A k \in 0..5 : dataBuffer[k] = transfer
  BY <1>3, <1>4, <1>5, <1>6, <1>7, <1>9 DEF read_write_register
<1>11. /\ Answered /\ Iso /\ Dma
       /\ UNCHANGED dmaVars \/ \A k \in 0..5 : dataBuffer[k] = transfer
  BY <1>3, <1>6, <1>7, <1>8, <1>10 DEF DeviceRequest_Handler
<1>12. IInv'
  <2>1. TypeOK'
    BY <1>0, <1>1, <1>11 DEF IInv, TypeOK
  <2>2. Awaiting' /\ Complete' /\ Pending'
    BY <1>11 DEF Awaiting, Complete, Pending
  <2> QED BY <1>11, <2>1, <2>2 DEF IInv
<1> QED BY <1>11, <1>12

\* The steps of the host that leave the buffer alone.
LEMMA HostInv ==
  ASSUME IInv, HostSetup \/ HostIn \/ HostStalled \/ HostBusReset PROVE IInv'
<1>1. CASE HostSetup
  <2>1. /\ host' \in Requests /\ transfer' \in 0..MaxTransfers /\ DCP_state' = "SETUPPROC"
        /\ outcome' = "none" /\ inFifo' = "empty"
        /\ UNCHANGED <<DeviceRequest, wLength, wCount, dataBuffer, isoVars, dmaVars, cut>>
    BY <1>1, TransfersAssumption DEF HostSetup, IInv, TypeOK
  <2>2. TypeOK'
    BY <2>1 DEF IInv, TypeOK, Packets, isoVars, dmaVars
  <2> QED BY <2>1, <2>2 DEF IInv, IsoAgrees, Awaiting, Complete, Pending, isoVars
<1>2. CASE HostIn
  BY <1>2 DEF HostIn, Packets, IInv, TypeOK, IsoAgrees, Awaiting, Complete, Pending, isoVars, dmaVars
<1>3. CASE HostStalled
  BY <1>3 DEF HostStalled, IInv, TypeOK, IsoAgrees, Awaiting, Complete, Pending, device
<1>4. CASE HostBusReset
  BY <1>4 DEF HostBusReset, connect_USB, ISO_FLAGS, Packets, IInv, TypeOK, IsoAgrees, Awaiting, Complete, Pending, isoVars, dmaVars
<1> QED BY <1>1, <1>2, <1>3, <1>4

\* Every step.
LEMMA StepInv == IInv /\ [Next]_vars => IInv'
<1> SUFFICES ASSUME IInv, [Next]_vars PROVE IInv'
  OBVIOUS
<1>1. CASE Next
  BY <1>1, SetupInv, OutInv, HandlerInv, HostInv DEF Next, Progress
<1>2. CASE UNCHANGED vars
  BY <1>2 DEF vars, device, IInv, TypeOK, IsoAgrees, Awaiting, Complete, Pending
<1> QED BY <1>1, <1>2

LEMMA Inductive == Spec => []IInv
  BY InitInv, StepInv, PTL DEF Spec

\* Types, and with them the bound of the data buffer (ISR.c:163), for every
\* number of transfers.
THEOREM VendorTypeCorrect == Spec => []TypeOK
  BY Inductive, PTL DEF IInv

\* The isochronous state names the mode until a bus reset, and is off from
\* there to the next mode request (ISO.c:26-69, MAINLOOP.c:311).
THEOREM IsoModeAgrees == Spec => []IsoAgrees
  BY Inductive, PTL DEF IInv

\* A DMA set-up takes only the bytes of its own transfer (D13BUS.c:104).
THEOREM ParametersAreOwn == Spec => ParametersOwn
<1> DEFINE Takes == uSize' # uSize \/ setup_dma' > setup_dma
<1>1. IInv /\ [Next]_vars => [Takes => OwnBytes]_<<uSize, setup_dma>>
  <2> SUFFICES ASSUME IInv, [Next]_vars, Takes
               PROVE  OwnBytes
    OBVIOUS
  <2>1. ASSUME SetupToken_Handler \/ HostOut \/ HostIn \/ HostStalled \/ HostSetup
               \/ UNCHANGED vars
        PROVE FALSE
    BY <2>1 DEF SetupToken_Handler, HostOut, HostIn, HostStalled, HostSetup,
       vars, device, dmaVars, IInv, TypeOK
  <2>2. ~HostBusReset
    BY DEF HostBusReset, connect_USB, IInv, TypeOK
  <2>3. DeviceRequest_Handler
    BY <2>1, <2>2 DEF Next, Progress
  <2>4. ~(UNCHANGED dmaVars)
    BY DEF dmaVars, IInv, TypeOK
  <2> QED BY <2>3, <2>4, HandlerInv DEF OwnBytes
<1> QED BY <1>1, Inductive, PTL DEF Spec, ParametersOwn
=============================================================================
