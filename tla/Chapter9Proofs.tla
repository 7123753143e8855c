-------------------------- MODULE Chapter9Proofs ---------------------------
(***************************************************************************)
(* What every request handler of CHAP_9.c returns, for all requests and    *)
(* all states of the device.                                               *)
(***************************************************************************)
EXTENDS Chapter9, TLAPS, SequenceTheorems

\* A handler leaves a device of the right type and a sequence of operations on
\* endpoint 0 of which only the first can start a data stage.
GoodOps(ops) == /\ ops \in Seq(OperationType)
                /\ \A i \in DOMAIN ops : i > 1 => ops[i].op # "burst"
GoodReply(h) == h.device \in DeviceType /\ GoodOps(h.ops)

LEMMA NoOps == GoodOps(<< >>)
  BY DEF GoodOps

LEMMA OneOp == ASSUME NEW o \in OperationType PROVE GoodOps(<<o>>)
  BY DEF GoodOps

LEMMA TwoOps == ASSUME NEW o \in OperationType, NEW p \in OperationType,
                       p.op # "burst"
                PROVE  GoodOps(<<o, p>>)
  BY DEF GoodOps

LEMMA Operations ==
  ASSUME NEW n \in Nat, NEW b \in 0..3
  PROVE  /\ Stall \in OperationType /\ Stall.op # "burst"
         /\ Acknowledge \in OperationType /\ Acknowledge.op # "burst"
         /\ Transmit(n, b) \in OperationType
         /\ Burst(n) \in OperationType
  BY DEF Stall, Acknowledge, Transmit, Burst, OperationType

LEMMA Replies ==
  ASSUME NEW d \in DeviceType, NEW ops, GoodOps(ops)
  PROVE  GoodReply(Reply(d, ops))
  BY DEF GoodReply, Reply

\* The sequences of operations that occur.
LEMMA SimpleOps ==
  /\ GoodOps(<< >>) /\ GoodOps(<<Stall>>) /\ GoodOps(<<Acknowledge>>)
  /\ \A n \in Nat, b \in 0..3 : GoodOps(<<Transmit(n, b)>>)
  /\ \A n \in Nat : GoodOps(<<Burst(n)>>) /\ GoodOps(<<Burst(n), Stall>>)
  /\ GoodOps(<<Stall, Stall>>) /\ GoodOps(<<Stall, Acknowledge>>)
<1>1. /\ GoodOps(<< >>) /\ GoodOps(<<Stall>>) /\ GoodOps(<<Acknowledge>>)
      /\ GoodOps(<<Stall, Stall>>) /\ GoodOps(<<Stall, Acknowledge>>)
  <2>1. 0 \in Nat /\ 0 \in 0..3
    OBVIOUS
  <2> QED
    BY <2>1, NoOps, OneOp, TwoOps, Operations
<1>2. ASSUME NEW n \in Nat, NEW b \in 0..3 PROVE GoodOps(<<Transmit(n, b)>>)
  BY <1>2, OneOp, Operations
<1>3. ASSUME NEW n \in Nat PROVE GoodOps(<<Burst(n)>>) /\ GoodOps(<<Burst(n), Stall>>)
  <2>1. 0 \in 0..3
    OBVIOUS
  <2> QED
    BY <2>1, <1>3, OneOp, TwoOps, Operations
<1> QED
  BY <1>1, <1>2, <1>3

LEMMA StatusBytes == ASSUME NEW d \in DeviceType, NEW e
               PROVE  StatusByte(d) \in 0..3 /\ HaltByte(d, e) \in 0..3
  BY DEF StatusByte, HaltByte, DeviceType

LEMMA EndpointNumber == ASSUME NEW i \in Nat PROVE ChipEndpoint(i) \in ChipEndpoints
  BY DEF ChipEndpoint, ChipEndpoints, EP0OUT, MAX_ENDPOINTS

LEMMA GetStatusReply ==
  ASSUME NEW r \in RequestType, NEW d \in DeviceType
  PROVE  GoodReply(Chap9_GetStatus(r, d))
<1>1. /\ GoodOps(<< >>) /\ GoodOps(<<Stall>>)
      /\ GoodOps(<<Transmit(2, StatusByte(d))>>) /\ GoodOps(<<Transmit(2, 0)>>)
      /\ GoodOps(<<Transmit(2, HaltByte(d, EP0OUT))>>)
      /\ GoodOps(<<Transmit(2, HaltByte(d, ChipEndpoint(r.index)))>>)
  <2>1. 2 \in Nat /\ 0 \in 0..3
    OBVIOUS
  <2> QED
    BY <2>1, SimpleOps, StatusBytes
<1> QED
  BY <1>1, Replies DEF Chap9_GetStatus

LEMMA ClearFeatureReply ==
  ASSUME NEW r \in RequestType, NEW d \in DeviceType
  PROVE  GoodReply(Chap9_ClearFeature(r, d))
<1>1. [d EXCEPT !.remote_wakeup = 0] \in DeviceType
  BY DEF DeviceType
<1>2. [d EXCEPT !.stalled = @ \ {ChipEndpoint(r.index)}] \in DeviceType
  BY DEF DeviceType
<1>3. ASSUME NEW e \in DeviceType
      PROVE  /\ GoodReply(Reply(e, << >>)) /\ GoodReply(Reply(e, <<Stall>>))
             /\ GoodReply(Reply(e, <<Acknowledge>>))
  BY <1>3, SimpleOps, Replies
<1> QED
  BY <1>1, <1>2, <1>3 DEF Chap9_ClearFeature

LEMMA SetFeatureReply ==
  ASSUME NEW r \in RequestType, NEW d \in DeviceType
  PROVE  GoodReply(Chap9_SetFeature(r, d))
<1> DEFINE e == IF d.address = 1 /\ r.index # 0 THEN EP0IN ELSE ChipEndpoint(r.index)
<1>1. [d EXCEPT !.remote_wakeup = 1] \in DeviceType
  BY DEF DeviceType
<1>2. e \in ChipEndpoints
  BY EndpointNumber DEF RequestType, EP0IN, ChipEndpoints, MAX_ENDPOINTS
<1>3. [d EXCEPT !.stalled = @ \cup {e}] \in DeviceType
  BY <1>2 DEF DeviceType
<1>4. [d EXCEPT !.stalled = @ \ {EP0IN}] \in DeviceType
  BY DEF DeviceType
<1>5. ASSUME NEW c \in DeviceType
      PROVE  /\ GoodReply(Reply(c, << >>)) /\ GoodReply(Reply(c, <<Stall>>))
             /\ GoodReply(Reply(c, <<Acknowledge>>))
  BY <1>5, SimpleOps, Replies
<1> QED
  BY <1>1, <1>3, <1>4, <1>5 DEF Chap9_SetFeature

LEMMA SetAddressReply ==
  ASSUME NEW r \in RequestType, NEW d \in DeviceType, NEW a \in {0, 1}
  PROVE  GoodReply(Chap9_SetAddress(r, d, a))
<1> DEFINE u == r.value % 128
<1>1. u \in 0..127
  BY DEF RequestType
<1>2. [d EXCEPT !.default = 0, !.address = 1, !.usbAddress = u] \in DeviceType
  BY <1>1 DEF DeviceType
<1>3. [d EXCEPT !.default = IF u = 0 THEN 1 ELSE 0,
                !.address = IF u = 0 THEN 0 ELSE 1, !.usbAddress = u] \in DeviceType
  <2>1. \A b, c \in {0, 1} :
          [d EXCEPT !.default = b, !.address = c, !.usbAddress = u] \in DeviceType
    BY <1>1 DEF DeviceType
  <2> QED
    BY <2>1
<1>4. [d EXCEPT !.configured = 0, !.address = 0, !.default = 1] \in DeviceType
  BY DEF DeviceType
<1>5. ASSUME NEW c \in DeviceType
      PROVE  GoodReply(Reply(c, << >>)) /\ GoodReply(Reply(c, <<Acknowledge>>))
  BY <1>5, SimpleOps, Replies
<1>6. GoodReply(SetAddress(r, d))
  BY <1>2, <1>3, <1>4, <1>5 DEF SetAddress
<1> QED
  BY <1>5, <1>6 DEF Chap9_SetAddress

LEMMA GetDescriptorReply ==
  ASSUME NEW r \in RequestType, NEW d \in DeviceType
  PROVE  GoodReply(Chap9_GetDescriptor(r, d))
<1>1. ASSUME NEW i \in 0..5 PROVE GoodOps(<<Burst(StringDescrSize[i]), Stall>>)
  BY <1>1, DescriptorAssumption, SimpleOps
<1>2. /\ GoodOps(<<Burst(DeviceDescrSize)>>) /\ GoodOps(<<Burst(ConfigDescrSize)>>)
      /\ GoodOps(<<Stall>>) /\ GoodOps(<<Stall, Stall>>)
  BY DescriptorAssumption, SimpleOps
<1> QED
  BY <1>1, <1>2, Replies DEF Chap9_GetDescriptor

LEMMA GetConfigurationReply ==
  ASSUME NEW r \in RequestType, NEW d \in DeviceType
  PROVE  GoodReply(Chap9_GetConfiguration(r, d))
<1>1. d.configuration \in 0..3 /\ 0 \in 0..3 /\ 1 \in Nat
  BY DEF DeviceType
<1>2. /\ GoodOps(<< >>) /\ GoodOps(<<Transmit(1, 0)>>)
      /\ GoodOps(<<Transmit(1, d.configuration)>>)
  BY <1>1, SimpleOps
<1> QED
  BY <1>2, Replies DEF Chap9_GetConfiguration

LEMMA SetConfigurationReply ==
  ASSUME NEW r \in RequestType, NEW d \in DeviceType
  PROVE  GoodReply(Chap9_SetConfiguration(r, d))
<1>1. [d EXCEPT !.configuration = 0, !.address = 1,
                !.configured = IF d.address = 1 THEN @ ELSE 0] \in DeviceType
  BY DEF DeviceType
<1>2. [d EXCEPT !.configuration = 1, !.address = 0, !.configured = 1] \in DeviceType
  BY DEF DeviceType
<1>3. ASSUME NEW c \in DeviceType
      PROVE  /\ GoodReply(Reply(c, << >>)) /\ GoodReply(Reply(c, <<Stall>>))
             /\ GoodReply(Reply(c, <<Acknowledge>>))
  BY <1>3, SimpleOps, Replies
<1> QED
  BY <1>1, <1>2, <1>3 DEF Chap9_SetConfiguration

LEMMA GetInterfaceReply ==
  ASSUME NEW r \in RequestType, NEW d \in DeviceType
  PROVE  GoodReply(Chap9_GetInterface(r, d))
<1>1. d.alt \in 0..3 /\ 1 \in Nat
  BY DEF DeviceType
<1>2. GoodOps(<<Transmit(1, d.alt)>>) /\ GoodOps(<<Stall>>)
  BY <1>1, SimpleOps
<1> QED
  BY <1>2, Replies DEF Chap9_GetInterface

LEMMA TwoInARow == ASSUME NEW S, NEW x \in S, NEW y \in S
                   PROVE  <<x>> \o <<y>> = <<x, y>>
<1>1. <<x>> \in Seq(S) /\ <<y>> \in Seq(S) /\ <<x, y>> \in Seq(S)
  OBVIOUS
<1>2. <<x>> \o <<y>> \in Seq(S) /\ Len(<<x>> \o <<y>>) = 2
  BY <1>1, ConcatProperties
<1>3. (<<x>> \o <<y>>)[1] = x /\ (<<x>> \o <<y>>)[2] = y
  BY <1>1, ConcatProperties
<1>4. DOMAIN <<x, y>> = 1..2 /\ DOMAIN (<<x>> \o <<y>>) = 1..2
  BY <1>2
<1>5. \A i \in 1..2 : (<<x>> \o <<y>>)[i] = <<x, y>>[i]
  BY <1>3
<1> QED
  BY <1>1, <1>2, <1>4, <1>5, SeqEqual

LEMMA SetInterfaceReply ==
  ASSUME NEW r \in RequestType, NEW d \in DeviceType
  PROVE  GoodReply(Chap9_SetInterface(r, d))
<1> DEFINE first == IF r.dir = "in" THEN <<Stall>> ELSE << >>
<1>1. r.value \in {0, 1} => [d EXCEPT !.alt = r.value] \in DeviceType
  BY DEF DeviceType
<1>2. ASSUME NEW o \in {Acknowledge, Stall} PROVE GoodOps(first \o <<o>>)
  <2>1. Stall \in OperationType /\ o \in OperationType
    BY Operations DEF Stall, Acknowledge, Transmit, OperationType
  <2>2. CASE r.dir = "in"
    <3>1. first = <<Stall>>
      BY <2>2
    <3>2. <<Stall>> \o <<o>> = <<Stall, o>>
      BY <2>1, TwoInARow
    <3> QED
      BY <3>1, <3>2, SimpleOps
  <2>3. CASE r.dir # "in"
    <3>1. first \o <<o>> = <<o>>
      BY <2>1, <2>3
    <3> QED
      BY <3>1, SimpleOps
  <2> QED
    BY <2>2, <2>3
<1> QED
  BY <1>1, <1>2, Replies DEF Chap9_SetInterface

\* DeviceRequest_Handler: whatever is asked of whatever device.
THEOREM HandleReply ==
  ASSUME NEW r \in RequestType, NEW d \in DeviceType, NEW a \in {0, 1}
  PROVE  GoodReply(Handle(r, d, a))
<1>1. r.kind \in Kinds
  BY DEF RequestType
<1>2. GoodReply(Reply(d, <<Stall>>))
  BY SimpleOps, Replies
<1> QED
  BY <1>1, <1>2, GetStatusReply, ClearFeatureReply, SetFeatureReply, SetAddressReply,
     GetDescriptorReply, GetConfigurationReply, SetConfigurationReply,
     GetInterfaceReply, SetInterfaceReply
  DEF Handle, Kinds
=============================================================================
