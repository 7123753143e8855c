------------------------- MODULE DeviceStateProofs -------------------------
(***************************************************************************)
(* Proofs about the device a host enumerates, for any set of well formed   *)
(* requests in any lawful order, with bus resets in between: the device    *)
(* states, what the device reports, that refused requests leave no trace,  *)
(* and the refinement of UsbDevice.                                        *)
(***************************************************************************)
EXTENDS DeviceState, Chapter9Proofs

\* The host's record is what the device holds.  The chip's number of USB
\* endpoint e is e + 1.
RecordAgrees ==
  /\ device.configuration = host.configuration
  /\ device.remote_wakeup = host.wakeup
  /\ device.usbAddress = host.address
  /\ host.address = 0 <=> host.state = "default"
  /\ host.configuration = 1 <=> host.state = "configured"
  /\ \A e \in Functions : host.halt[e] \in {Unknown, HaltByte(device, e + 1)}

HostInv == TypeOK /\ StateBitsAgree /\ RecordAgrees

\* Both, of any device and any record.
Match(d, h) ==
  /\ d.default = 1 <=> h.state = "default"
  /\ d.address = 1 <=> h.state = "address"
  /\ d.configured = 1 <=> h.state = "configured"
  /\ d.configuration = h.configuration
  /\ d.remote_wakeup = h.wakeup
  /\ d.usbAddress = h.address
  /\ h.address = 0 <=> h.state = "default"
  /\ h.configuration = 1 <=> h.state = "configured"
  /\ \A e \in Functions : h.halt[e] \in {Unknown, HaltByte(d, e + 1)}

\* The steps of the host's record that UsbDevice has, or does not see.
HostStep ==
  \/ /\ host'.state = host.state /\ host'.address = host.address
     /\ host'.configuration = host.configuration
  \/ host'.state = "default"
  \/ host.state \in {"default", "address"} /\ host'.state = "address"
  \/ /\ host.state \in {"address", "configured"}
     /\ host'.state \in {"address", "configured"} /\ host'.address = host.address

\* What a step has to be: it keeps the invariant and the reports, changes
\* nothing unless it was acknowledged, a wrong direction apart, answers, and is
\* a step of UsbDevice.
GoodStep ==
  /\ HostInv' /\ ReportsAgree'
  /\ Settings(device)' # Settings(device)
       => reply' = <<Acknowledge>> \/ StalledYetSet \/ BusReset
  /\ BusReset \/ reply' # << >>
  /\ [USB!Next]_(USB!vars)

\* The device a handler is given, and what it returns.
Awake == [device EXCEPT !.stalled = @ \ EP0]
Answer(r) == Handle(r, Awake, 0)

\* What makes the answer to r one: the record after it matches the device.
Reports(r, o, h) ==
  o.op = "single" =>
    /\ r.kind = "GetConfiguration" => o.data = h.configuration
    /\ r.kind = "GetStatus" /\ r.recipient = "device" => o.data = 1 + 2 * h.wakeup
    /\ r.kind = "GetStatus" /\ r.recipient = "endpoint"
         => h.halt[r.index] \in {o.data, Unknown}

\* The answer to a SetInterface in the wrong direction that sets nevertheless.
WrongWay(r) ==
  /\ r.kind = "SetInterface" /\ r.dir = "in"
  /\ Answer(r).ops = <<Stall, Acknowledge>>
  /\ Settings(Answer(r).device) = Settings([device EXCEPT !.alt = r.value])

GoodAnswer(r) ==
  /\ Answer(r).ops # << >>
  /\ host' \in HostType
  /\ Match(Answer(r).device, host')
  /\ Settings(Answer(r).device) # Settings(device)
       => Answer(r).ops = <<Acknowledge>> \/ WrongWay(r)
  /\ HostStep
  /\ Reports(r, Answer(r).ops[1], host')
-----------------------------------------------------------------------------
(* The operations on endpoint 0 *)

LEMMA Different ==
  ASSUME NEW n \in Nat, NEW b
  PROVE  /\ Stall # Acknowledge /\ Burst(n) # Acknowledge /\ Burst(n) # Stall
         /\ Transmit(n, b) # Stall /\ Burst(n).op = "burst" /\ Stall.op = "stall"
         /\ Transmit(n, b).op = "single" /\ Transmit(n, b).data = b
         /\ n > 0 => Transmit(n, b) # Acknowledge
<1>1. /\ Stall.op = "stall" /\ Burst(n).op = "burst" /\ Transmit(n, b).op = "single"
      /\ Transmit(n, b).data = b /\ Transmit(n, b).len = n
      /\ Acknowledge.op = "single" /\ Acknowledge.len = 0
  BY DEF Stall, Burst, Transmit, Acknowledge
<1> QED
  BY <1>1

LEMMA AwakeType ==
  ASSUME device \in DeviceType
  PROVE  /\ Awake \in DeviceType
         /\ Awake.default = device.default /\ Awake.address = device.address
         /\ Awake.configured = device.configured
         /\ Awake.configuration = device.configuration
         /\ Awake.remote_wakeup = device.remote_wakeup
         /\ Awake.alt = device.alt /\ Awake.usbAddress = device.usbAddress
         /\ Awake.stalled = device.stalled \ EP0
  BY DEF Awake, DeviceType

\* The step in terms of what the handler returned.
LEMMA TransferStep ==
  ASSUME HostInv, NEW r \in Requests, Transfer(r)
  PROVE  /\ r \in RequestType /\ WellFormed(r) /\ Lawful(r)
         /\ request' = r /\ reply' = Answer(r).ops
         /\ reply' \in Seq(OperationType)
         /\ Answer(r).device \in DeviceType
         /\ device' \in {Answer(r).device,
                         [Answer(r).device EXCEPT !.stalled = @ \cup EP0]}
         /\ Answer(r).ops = <<Acknowledge>> => device' = Answer(r).device
         /\ host' = IF Answer(r).ops = <<Acknowledge>> THEN Acknowledged(r) ELSE host
<1>1. r \in RequestType /\ WellFormed(r) /\ Lawful(r)
  BY HostAssumption DEF Transfer
<1>2. /\ request' = r /\ reply' = Answer(r).ops
      /\ device' = IF Stall \in {Answer(r).ops[i] : i \in 1..Len(Answer(r).ops)}
                   THEN [Answer(r).device EXCEPT !.stalled = @ \cup EP0]
                   ELSE Answer(r).device
      /\ host' = IF Answer(r).ops = <<Acknowledge>> THEN Acknowledged(r) ELSE host
  BY DEF Transfer, Answer, Awake
<1>3. GoodReply(Answer(r))
  BY <1>1, AwakeType, HandleReply DEF Answer, HostInv, TypeOK
<1>4. ASSUME Answer(r).ops = <<Acknowledge>>
      PROVE  Stall \notin {Answer(r).ops[i] : i \in 1..Len(Answer(r).ops)}
  <2>1. Stall # Acknowledge
    BY Different
  <2> QED
    BY <1>4, <2>1
<1> QED
  BY <1>1, <1>2, <1>3, <1>4 DEF GoodReply, GoodOps

\* The stall bits of endpoint 0 are of no concern to the host's record.
LEMMA StallOfEP0 ==
  ASSUME NEW d \in DeviceType, NEW c \in {d, [d EXCEPT !.stalled = @ \cup EP0]}
  PROVE  /\ c \in DeviceType
         /\ c.default = d.default /\ c.address = d.address
         /\ c.configured = d.configured /\ c.configuration = d.configuration
         /\ c.remote_wakeup = d.remote_wakeup /\ c.alt = d.alt
         /\ c.usbAddress = d.usbAddress
         /\ c.stalled \ EP0 = d.stalled \ EP0
         /\ \A e \in Functions : HaltByte(c, e + 1) = HaltByte(d, e + 1)
  BY HostAssumption DEF DeviceType, EP0, EP0OUT, EP0IN, ChipEndpoints, HaltByte, MAX_ENDPOINTS

LEMMA Awakening ==
  ASSUME device \in DeviceType, NEW e \in Functions
  PROVE  HaltByte(Awake, e + 1) = HaltByte(device, e + 1)
  BY AwakeType, HostAssumption DEF DeviceType, EP0, EP0OUT, EP0IN, HaltByte, MAX_ENDPOINTS

LEMMA FunctionEndpoint ==
  ASSUME NEW e \in Functions
  PROVE  e \in 1..15 /\ ChipEndpoint(e) = e + 1 /\ e + 1 \notin EP0
<1>1. e \in 1..15
  BY HostAssumption DEF MAX_ENDPOINTS
<1>2. e % 16 = e
  BY <1>1
<1> QED
  BY <1>1, <1>2 DEF ChipEndpoint, EP0, EP0OUT, EP0IN

LEMMA Matching == HostInv <=> TypeOK /\ Match(device, host)
  BY DEF HostInv, StateBitsAgree, RecordAgrees, Match

\* With the invariant, UsbDevice is the host's record.
LEMMA Refined ==
  ASSUME HostInv, HostInv', HostStep
  PROVE  [USB!Next]_(USB!vars)
<1> DEFINE st == CASE device.configured = 1 -> "configured"
                   [] device.configured = 0 /\ device.address = 1 -> "address"
                   [] OTHER -> "default"
<1>1. /\ st = host.state /\ device.usbAddress = host.address
      /\ device.configuration = host.configuration
  BY DEF HostInv, TypeOK, StateBitsAgree, RecordAgrees, DeviceType, HostType
<1>2. /\ st' = host'.state /\ device'.usbAddress = host'.address
      /\ device'.configuration = host'.configuration
  BY DEF HostInv, TypeOK, StateBitsAgree, RecordAgrees, DeviceType, HostType
<1>3. /\ host'.address \in 0..127 /\ host'.configuration \in {0, 1}
      /\ host'.address = 0 <=> host'.state = "default"
      /\ host'.configuration = 1 <=> host'.state = "configured"
      /\ host'.state \in {"default", "address", "configured"}
  BY DEF HostInv, TypeOK, RecordAgrees, HostType
<1> HIDE DEF st
<1>4. CASE /\ host'.state = host.state /\ host'.address = host.address
           /\ host'.configuration = host.configuration
  BY <1>1, <1>2, <1>4 DEF USB!vars, st
<1>5. CASE host'.state = "default"
  BY <1>2, <1>3, <1>5 DEF USB!Next, USB!Reset, st
<1>6. CASE host.state \in {"default", "address"} /\ host'.state = "address"
  BY <1>1, <1>2, <1>3, <1>6 DEF USB!Next, USB!AssignAddress, st
<1>7. CASE /\ host.state \in {"address", "configured"}
           /\ host'.state \in {"address", "configured"} /\ host'.address = host.address
  BY <1>1, <1>2, <1>3, <1>7 DEF USB!Next, USB!Configure, USB!Unconfigure, st
<1> QED
  BY <1>4, <1>5, <1>6, <1>7 DEF HostStep

LEMMA AnswerStep ==
  ASSUME HostInv, NEW r \in Requests, Transfer(r), GoodAnswer(r)
  PROVE  GoodStep
<1> DEFINE d == Answer(r).device
<1>1. /\ request' = r /\ reply' = Answer(r).ops /\ reply' \in Seq(OperationType)
      /\ d \in DeviceType
      /\ device' \in {d, [d EXCEPT !.stalled = @ \cup EP0]}
  BY TransferStep
<1> HIDE DEF d
<1>2. /\ device' \in DeviceType
      /\ device'.default = d.default /\ device'.address = d.address
      /\ device'.configured = d.configured /\ device'.configuration = d.configuration
      /\ device'.remote_wakeup = d.remote_wakeup /\ device'.alt = d.alt
      /\ device'.usbAddress = d.usbAddress
      /\ device'.stalled \ EP0 = d.stalled \ EP0
      /\ \A e \in Functions : HaltByte(device', e + 1) = HaltByte(d, e + 1)
  BY <1>1, StallOfEP0
<1>3. Match(device', host')
  BY <1>2 DEF Match, d, GoodAnswer
<1>4. TypeOK'
  BY <1>1, <1>2 DEF TypeOK, GoodAnswer
<1>5. HostInv'
  BY <1>3, <1>4 DEF HostInv, StateBitsAgree, RecordAgrees, Match
<1>6. Settings(device)' = Settings(d)
  BY <1>2 DEF Settings
<1>7. ReportsAgree'
  BY <1>1 DEF ReportsAgree, GoodAnswer, Reports
<1>9. WrongWay(r) => StalledYetSet
  BY <1>1, <1>6 DEF WrongWay, StalledYetSet, d
<1>8. [USB!Next]_(USB!vars)
  BY <1>5, Refined DEF GoodAnswer
<1> QED
  BY <1>1, <1>5, <1>6, <1>7, <1>8, <1>9 DEF GoodStep, GoodAnswer, d
-----------------------------------------------------------------------------
(* The answers, one request after another *)

\* A reply that acknowledges nothing changes nothing.
LEMMA NoEffect ==
  ASSUME HostInv, NEW r \in Requests, Transfer(r), Answer(r).device = Awake,
         Answer(r).ops # << >>, Answer(r).ops # <<Acknowledge>>,
         Reports(r, Answer(r).ops[1], host)
  PROVE  GoodAnswer(r)
<1>1. host' = host
  BY TransferStep
<1>2. Match(Awake, host)
  BY Matching, AwakeType, Awakening DEF Match, HostInv, TypeOK
<1>3. Settings(Awake) = Settings(device)
  BY AwakeType DEF Settings, HostInv, TypeOK
<1> QED
  BY <1>1, <1>2, <1>3 DEF GoodAnswer, HostStep, HostInv, TypeOK

\* A stall, or several.
LEMMA Stalled ==
  ASSUME HostInv, NEW r \in Requests, Transfer(r), Answer(r).device = Awake,
         Answer(r).ops # << >>, Answer(r).ops[1] = Stall
  PROVE  GoodAnswer(r)
<1>1. Stall # Acknowledge /\ Stall.op # "single"
  BY DEF Stall, Acknowledge, Transmit
<1> QED
  BY <1>1, NoEffect DEF Reports

LEMMA StatusAnswer ==
  ASSUME HostInv, NEW r \in Requests, Transfer(r), r.kind = "GetStatus"
  PROVE  GoodAnswer(r)
<1> DEFINE a == Answer(r)
<1>1. r \in RequestType /\ WellFormed(r) /\ Lawful(r)
  BY TransferStep
<1>2. a = Chap9_GetStatus(r, Awake)
  BY <1>1 DEF Answer, Handle
<1>3. a.device = Awake
  BY <1>2 DEF Chap9_GetStatus, Reply
<1>4. ASSUME NEW b, a.ops = <<Transmit(2, b)>>,
             r.recipient = "device" => b = 1 + 2 * host.wakeup,
             r.recipient = "endpoint" => host.halt[r.index] \in {b, Unknown}
      PROVE  GoodAnswer(r)
  <2>1. Transmit(2, b) # Acknowledge /\ Transmit(2, b).data = b
    BY DEF Transmit, Acknowledge
  <2>2. Reports(r, Transmit(2, b), host)
    BY <1>4, <2>1 DEF Reports
  <2>3. a.ops # << >> /\ a.ops # <<Acknowledge>> /\ a.ops[1] = Transmit(2, b)
    BY <1>4, <2>1
  <2>4. Reports(r, a.ops[1], host)
    BY <2>2, <2>3
  <2> HIDE DEF a
  <2> QED
    BY <1>3, <2>3, <2>4, NoEffect DEF a
<1>5. CASE r.recipient = "device"
  <2>1. a.ops = <<Transmit(2, StatusByte(Awake))>>
    BY <1>1, <1>2, <1>5 DEF Chap9_GetStatus, Reply, WellFormed
  <2>2. StatusByte(Awake) = 1 + 2 * host.wakeup
    BY AwakeType DEF StatusByte, HostInv, TypeOK, RecordAgrees
  <2> QED
    BY <1>4, <1>5, <2>1, <2>2
<1>6. CASE r.recipient = "endpoint"
  <2>1. host.state = "configured" /\ r.index \in Functions
    BY <1>1, <1>6 DEF Lawful
  <2>2. ChipEndpoint(r.index) = r.index + 1
    BY <2>1, FunctionEndpoint
  <2>3. Awake.address = 0
    BY <2>1, AwakeType DEF HostInv, TypeOK, StateBitsAgree, DeviceType
  <2>4. a.ops = <<Transmit(2, HaltByte(Awake, r.index + 1))>>
    BY <1>1, <1>2, <1>6, <2>2, <2>3 DEF Chap9_GetStatus, Reply, WellFormed
  <2>5. host.halt[r.index] \in {HaltByte(Awake, r.index + 1), Unknown}
    BY <2>1, Awakening DEF HostInv, TypeOK, RecordAgrees
  <2> QED
    BY <1>4, <1>6, <2>4, <2>5
<1>7. CASE r.recipient \notin {"device", "endpoint"}
  <2>1. a.ops = <<Transmit(2, 0)>> \/ a.ops = <<Stall>>
    BY <1>1, <1>2, <1>7 DEF Chap9_GetStatus, Reply, WellFormed
  <2> QED
    BY <1>3, <1>4, <1>7, <2>1, Stalled
<1> QED
  BY <1>5, <1>6, <1>7

LEMMA ConfigurationAnswer ==
  ASSUME HostInv, NEW r \in Requests, Transfer(r), r.kind = "GetConfiguration"
  PROVE  GoodAnswer(r)
<1> DEFINE a == Answer(r)
<1>1. r \in RequestType /\ WellFormed(r)
  BY TransferStep
<1>2. a = Chap9_GetConfiguration(r, Awake)
  BY <1>1 DEF Answer, Handle
<1>3. a.device = Awake
  BY <1>2 DEF Chap9_GetConfiguration, Reply
<1>4. /\ Awake.address = 1 => host.configuration = 0
      /\ Awake.configuration = host.configuration
      /\ Awake.address \in {0, 1}
  BY AwakeType DEF HostInv, TypeOK, StateBitsAgree, RecordAgrees, HostType, DeviceType
<1>5. a.ops = <<Transmit(1, host.configuration)>>
  BY <1>1, <1>2, <1>4 DEF Chap9_GetConfiguration, Reply, WellFormed
<1>6. /\ Transmit(1, host.configuration) # Acknowledge
      /\ Transmit(1, host.configuration).data = host.configuration
  BY DEF Transmit, Acknowledge
<1>7. Reports(r, Transmit(1, host.configuration), host)
  BY <1>6 DEF Reports
<1> QED
  BY <1>3, <1>5, <1>6, <1>7, NoEffect

LEMMA DescriptorAnswer ==
  ASSUME HostInv, NEW r \in Requests, Transfer(r), r.kind = "GetDescriptor"
  PROVE  GoodAnswer(r)
<1> DEFINE a == Answer(r)
<1>1. a = Chap9_GetDescriptor(r, Awake)
  BY DEF Answer, Handle
<1>2. a.device = Awake
  BY <1>1 DEF Chap9_GetDescriptor, Reply
<1>3. /\ a.ops # << >>
      /\ a.ops[1] = Stall \/ \E n : a.ops[1] = Burst(n)
  BY <1>1 DEF Chap9_GetDescriptor, Reply
<1>4. ASSUME NEW n, a.ops[1] = Burst(n) PROVE GoodAnswer(r)
  <2>1. Burst(n).op = "burst" /\ Acknowledge.op = "single"
    BY DEF Burst, Acknowledge, Transmit
  <2>2. a.ops # <<Acknowledge>> /\ Reports(r, a.ops[1], host)
    BY <1>4, <2>1 DEF Reports
  <2> QED
    BY <1>2, <1>3, <2>2, NoEffect
<1> QED
  BY <1>2, <1>3, <1>4, Stalled

LEMMA GetInterfaceAnswer ==
  ASSUME HostInv, NEW r \in Requests, Transfer(r), r.kind = "GetInterface"
  PROVE  GoodAnswer(r)
<1> DEFINE a == Answer(r)
<1>1. a = Chap9_GetInterface(r, Awake)
  BY DEF Answer, Handle
<1>2. a.device = Awake /\ (a.ops = <<Stall>> \/ a.ops = <<Transmit(1, Awake.alt)>>)
  BY <1>1 DEF Chap9_GetInterface, Reply
<1>3. CASE a.ops = <<Transmit(1, Awake.alt)>>
  <2>1. Transmit(1, Awake.alt) # Acknowledge /\ Reports(r, Transmit(1, Awake.alt), host)
    BY DEF Transmit, Acknowledge, Reports
  <2> QED
    BY <1>2, <1>3, <2>1, NoEffect
<1> QED
  BY <1>2, <1>3, Stalled

LEMMA UnsupportedAnswer ==
  ASSUME HostInv, NEW r \in Requests, Transfer(r), r.kind = "Unsupported"
  PROVE  GoodAnswer(r)
  BY Stalled DEF Answer, Handle, Reply

\* What an acknowledged request has to do to the device.
LEMMA Accepted ==
  ASSUME HostInv, NEW r \in Requests, Transfer(r),
         Answer(r).ops = <<Acknowledge>>,
         r.kind \notin {"GetConfiguration", "GetStatus"},
         host' \in HostType, Match(Answer(r).device, host'), HostStep
  PROVE  GoodAnswer(r)
  BY DEF GoodAnswer, Reports

LEMMA AwakeMatch ==
  ASSUME HostInv
  PROVE  Match(Awake, host) /\ host \in HostType /\ Awake \in DeviceType
  BY Matching, AwakeType, Awakening DEF Match, HostInv, TypeOK

\* An endpoint feature of the device record, and nothing else.
LEMMA HaltRecorded ==
  ASSUME HostInv, NEW r \in Requests, Transfer(r), NEW b \in {0, 1},
         r.index \in Functions, NEW d \in DeviceType,
         d = [Awake EXCEPT !.stalled = IF b = 1 THEN @ \cup {r.index + 1}
                                       ELSE @ \ {r.index + 1}],
         host' = [host EXCEPT !.halt[r.index] = b]
  PROVE  host' \in HostType /\ Match(d, host') /\ HostStep
<1>1. \A e \in Functions : e \in 1..15
  BY FunctionEndpoint
<1>2. host' \in HostType
  BY AwakeMatch DEF HostType
<1>3. /\ host'.state = host.state /\ host'.address = host.address
      /\ host'.configuration = host.configuration /\ host'.wakeup = host.wakeup
      /\ host'.halt = [host.halt EXCEPT ![r.index] = b]
      /\ host.halt \in [Functions -> {0, 1, Unknown}]
  BY AwakeMatch DEF HostType
<1>4. /\ d.default = Awake.default /\ d.address = Awake.address
      /\ d.configured = Awake.configured /\ d.configuration = Awake.configuration
      /\ d.remote_wakeup = Awake.remote_wakeup /\ d.usbAddress = Awake.usbAddress
      /\ d.stalled = IF b = 1 THEN Awake.stalled \cup {r.index + 1}
                     ELSE Awake.stalled \ {r.index + 1}
  BY AwakeMatch DEF DeviceType
<1>5. ASSUME NEW e \in Functions
      PROVE  host'.halt[e] \in {Unknown, HaltByte(d, e + 1)}
  <2>1. CASE e = r.index
    BY <1>3, <1>4, <2>1 DEF HaltByte
  <2>2. CASE e # r.index
    <3>1. e + 1 # r.index + 1
      BY <1>1, <2>2
    <3>2. HaltByte(d, e + 1) = HaltByte(Awake, e + 1)
      BY <1>4, <3>1 DEF HaltByte
    <3> QED
      BY <1>3, <2>2, <3>2, AwakeMatch DEF Match
  <2> QED
    BY <2>1, <2>2
<1>6. Match(d, host')
  BY <1>3, <1>4, <1>5, AwakeMatch DEF Match
<1> QED
  BY <1>2, <1>3, <1>6 DEF HostStep

\* The remote wakeup bit, and nothing else.
LEMMA WakeupRecorded ==
  ASSUME HostInv, NEW b \in {0, 1}, NEW d \in DeviceType,
         d = [Awake EXCEPT !.remote_wakeup = b], host' = [host EXCEPT !.wakeup = b]
  PROVE  host' \in HostType /\ Match(d, host') /\ HostStep
<1>1. host' \in HostType
  BY AwakeMatch DEF HostType
<1>2. /\ host'.state = host.state /\ host'.address = host.address
      /\ host'.configuration = host.configuration /\ host'.wakeup = b
      /\ host'.halt = host.halt
  BY AwakeMatch DEF HostType
<1>3. /\ d.default = Awake.default /\ d.address = Awake.address
      /\ d.configured = Awake.configured /\ d.configuration = Awake.configuration
      /\ d.remote_wakeup = b /\ d.usbAddress = Awake.usbAddress
      /\ d.stalled = Awake.stalled
  BY AwakeMatch DEF DeviceType
<1>4. \A e \in Functions : HaltByte(d, e + 1) = HaltByte(Awake, e + 1)
  BY <1>3 DEF HaltByte
<1> QED
  BY <1>1, <1>2, <1>3, <1>4, AwakeMatch DEF Match, HostStep

LEMMA ClearFeatureAnswer ==
  ASSUME HostInv, NEW r \in Requests, Transfer(r), r.kind = "ClearFeature"
  PROVE  GoodAnswer(r)
<1> DEFINE a == Answer(r)
<1>1. /\ r \in RequestType /\ r.length = 0 /\ Lawful(r) /\ a.device \in DeviceType
      /\ host' = IF a.ops = <<Acknowledge>> THEN Acknowledged(r) ELSE host
  BY TransferStep DEF WellFormed
<1>2. a = Chap9_ClearFeature(r, Awake)
  BY DEF Answer, Handle
<1>3. CASE r.recipient = "device" /\ r.value = USB_FEATURE_REMOTE_WAKEUP
  <2>1. a = Reply([Awake EXCEPT !.remote_wakeup = 0], <<Acknowledge>>)
    BY <1>1, <1>2, <1>3 DEF Chap9_ClearFeature
  <2>2. host' = [host EXCEPT !.wakeup = 0]
    BY <1>1, <1>3, <2>1 DEF Reply, Acknowledged
  <2>3. a.ops = <<Acknowledge>> /\ a.device = [Awake EXCEPT !.remote_wakeup = 0]
    BY <2>1 DEF Reply
  <2>4. host' \in HostType /\ Match(a.device, host') /\ HostStep
    BY <1>1, <2>2, <2>3, WakeupRecorded
  <2> QED
    BY <2>3, <2>4, Accepted
<1>4. CASE r.recipient = "endpoint" /\ r.value = USB_FEATURE_ENDPOINT_STALL
  <2>1. r.index \in Functions /\ Awake.address = 0
    BY <1>1, <1>4, AwakeMatch DEF Lawful, Match, DeviceType
  <2>2. a = Reply([Awake EXCEPT !.stalled = @ \ {r.index + 1}], <<Acknowledge>>)
    BY <1>1, <1>2, <1>4, <2>1, FunctionEndpoint DEF Chap9_ClearFeature
  <2>3. host' = [host EXCEPT !.halt[r.index] = 0]
    BY <1>1, <1>4, <2>2 DEF Reply, Acknowledged
  <2>4. /\ a.ops = <<Acknowledge>>
        /\ a.device = [Awake EXCEPT !.stalled = @ \ {r.index + 1}]
    BY <2>2 DEF Reply
  <2>5. host' \in HostType /\ Match(a.device, host') /\ HostStep
    BY <1>1, <2>1, <2>3, <2>4, HaltRecorded
  <2> QED
    BY <2>4, <2>5, Accepted
<1>5. CASE /\ ~ (r.recipient = "device" /\ r.value = USB_FEATURE_REMOTE_WAKEUP)
           /\ ~ (r.recipient = "endpoint" /\ r.value = USB_FEATURE_ENDPOINT_STALL)
  <2>1. a = Reply(Awake, <<Stall>>)
    BY <1>1, <1>2, <1>5 DEF Chap9_ClearFeature
  <2> QED
    BY <2>1, Stalled DEF Reply
<1> QED
  BY <1>3, <1>4, <1>5

LEMMA SetFeatureAnswer ==
  ASSUME HostInv, NEW r \in Requests, Transfer(r), r.kind = "SetFeature"
  PROVE  GoodAnswer(r)
<1> DEFINE a == Answer(r)
<1>1. /\ r \in RequestType /\ r.length = 0 /\ Lawful(r) /\ a.device \in DeviceType
      /\ host' = IF a.ops = <<Acknowledge>> THEN Acknowledged(r) ELSE host
  BY TransferStep DEF WellFormed
<1>2. a = Chap9_SetFeature(r, Awake)
  BY DEF Answer, Handle
<1>3. CASE r.recipient = "device" /\ r.value = USB_FEATURE_REMOTE_WAKEUP
  <2>1. a = Reply([Awake EXCEPT !.remote_wakeup = 1], <<Acknowledge>>)
    BY <1>1, <1>2, <1>3 DEF Chap9_SetFeature
  <2>2. host' = [host EXCEPT !.wakeup = 1]
    BY <1>1, <1>3, <2>1 DEF Reply, Acknowledged
  <2>3. a.ops = <<Acknowledge>> /\ a.device = [Awake EXCEPT !.remote_wakeup = 1]
    BY <2>1 DEF Reply
  <2>4. host' \in HostType /\ Match(a.device, host') /\ HostStep
    BY <1>1, <2>2, <2>3, WakeupRecorded
  <2> QED
    BY <2>3, <2>4, Accepted
<1>4. ASSUME r.recipient = "endpoint" PROVE r.index \in Functions /\ Awake.address = 0
  BY <1>1, <1>4, AwakeMatch DEF Lawful, Match, DeviceType
<1>5. CASE r.recipient = "endpoint" /\ r.value = USB_FEATURE_ENDPOINT_STALL
  <2>1. a = Reply([Awake EXCEPT !.stalled = @ \cup {r.index + 1}], <<Acknowledge>>)
    BY <1>1, <1>2, <1>4, <1>5, FunctionEndpoint DEF Chap9_SetFeature
  <2>2. host' = [host EXCEPT !.halt[r.index] = 1]
    BY <1>1, <1>5, <2>1 DEF Reply, Acknowledged
  <2>3. /\ a.ops = <<Acknowledge>>
        /\ a.device = [Awake EXCEPT !.stalled = @ \cup {r.index + 1}]
    BY <2>1 DEF Reply
  <2>4. host' \in HostType /\ Match(a.device, host') /\ HostStep
    BY <1>1, <1>4, <1>5, <2>2, <2>3, HaltRecorded
  <2> QED
    BY <2>3, <2>4, Accepted
<1>6. CASE r.recipient = "endpoint" /\ r.value # USB_FEATURE_ENDPOINT_STALL
  <2>1. a = Reply([Awake EXCEPT !.stalled = @ \ {EP0IN}], <<Acknowledge>>)
    BY <1>1, <1>2, <1>4, <1>6 DEF Chap9_SetFeature
  <2>2. host' = host
    BY <1>1, <1>6, <2>1 DEF Reply, Acknowledged
  <2>3. EP0IN \notin Awake.stalled
    BY AwakeType DEF EP0, EP0IN, HostInv, TypeOK
  <2>4. a.device = Awake
    BY <2>1, <2>3, AwakeMatch DEF Reply, DeviceType
  <2>5. host' \in HostType /\ Match(a.device, host') /\ HostStep
    BY <2>2, <2>4, AwakeMatch DEF HostStep
  <2>6. a.ops = <<Acknowledge>>
    BY <2>1 DEF Reply
  <2> QED
    BY <2>5, <2>6, Accepted
<1>7. CASE /\ ~ (r.recipient = "device" /\ r.value = USB_FEATURE_REMOTE_WAKEUP)
           /\ r.recipient # "endpoint"
  <2>1. a = Reply(Awake, <<Stall>>)
    BY <1>1, <1>2, <1>7 DEF Chap9_SetFeature
  <2> QED
    BY <2>1, Stalled DEF Reply
<1> QED
  BY <1>3, <1>5, <1>6, <1>7

LEMMA SetAddressAnswer ==
  ASSUME HostInv, NEW r \in Requests, Transfer(r), r.kind = "SetAddress"
  PROVE  GoodAnswer(r)
<1> DEFINE a == Answer(r)
           s == IF r.value = 0 THEN "default" ELSE "address"
<1>1. /\ r \in RequestType /\ r.value \in 0..127 /\ Lawful(r)
      /\ host' = IF a.ops = <<Acknowledge>> THEN Acknowledged(r) ELSE host
  BY TransferStep DEF WellFormed
<1>2. a = SetAddress(r, Awake) /\ r.value % 128 = r.value
  BY <1>1 DEF Answer, Handle, Chap9_SetAddress
<1>3. /\ host.state = "default" => r.value # 0
      /\ host.state \in {"default", "address"}
  BY <1>1 DEF Lawful
<1>4. /\ Awake.default = IF host.state = "default" THEN 1 ELSE 0
      /\ Awake.address = IF host.state = "address" THEN 1 ELSE 0
      /\ Awake.configured = 0 /\ Awake.configuration = 0
      /\ host.configuration = 0
  BY <1>3, AwakeMatch DEF Match, DeviceType, HostType
<1>5. a.ops = <<Acknowledge>>
  BY <1>2, <1>3, <1>4 DEF SetAddress, Reply
<1>6. /\ a.device.default = (IF r.value = 0 THEN 1 ELSE 0)
      /\ a.device.address = (IF r.value = 0 THEN 0 ELSE 1)
      /\ a.device.usbAddress = r.value /\ a.device.configured = 0
      /\ a.device.configuration = 0
      /\ a.device.remote_wakeup = Awake.remote_wakeup
      /\ a.device.stalled = Awake.stalled
  <2>1. CASE r.value # 0
    <3>1. a = Reply([Awake EXCEPT !.default = 0, !.address = 1,
                                  !.usbAddress = r.value], <<Acknowledge>>)
      <4>1. CASE host.state = "default"
        BY <1>2, <1>4, <2>1, <4>1 DEF SetAddress
      <4>2. CASE host.state = "address"
        BY <1>2, <1>4, <2>1, <4>2 DEF SetAddress
      <4> QED
        BY <1>3, <4>1, <4>2
    <3>2. a.device = [Awake EXCEPT !.default = 0, !.address = 1, !.usbAddress = r.value]
      BY <3>1 DEF Reply
    <3> QED
      BY <1>4, <2>1, <3>2, AwakeMatch DEF DeviceType
  <2>2. CASE r.value = 0
    <3>1. Awake.default = 0 /\ Awake.address = 1
      BY <1>3, <1>4, <2>2
    <3>2. a = Reply([Awake EXCEPT !.default = 1, !.address = 0, !.usbAddress = 0],
                    <<Acknowledge>>)
      BY <1>2, <2>2, <3>1 DEF SetAddress
    <3>3. a.device = [Awake EXCEPT !.default = 1, !.address = 0, !.usbAddress = 0]
      BY <3>2 DEF Reply
    <3> QED
      BY <1>4, <2>2, <3>3, AwakeMatch DEF DeviceType
  <2> QED
    BY <2>1, <2>2
<1>7. host' = [host EXCEPT !.state = s, !.address = r.value]
  BY <1>1, <1>5 DEF Acknowledged
<1>8. /\ host' \in HostType /\ host'.state = s /\ host'.address = r.value
      /\ host'.configuration = 0 /\ host'.wakeup = host.wakeup
      /\ host'.halt = host.halt
  BY <1>1, <1>4, <1>7, AwakeMatch DEF HostType
<1>9. \A e \in Functions : HaltByte(a.device, e + 1) = HaltByte(Awake, e + 1)
  BY <1>6 DEF HaltByte
<1>10. Match(a.device, host')
  BY <1>6, <1>8, <1>9, AwakeMatch DEF Match
<1>11. HostStep
  BY <1>3, <1>8 DEF HostStep
<1> QED
  BY <1>5, <1>8, <1>10, <1>11, Accepted

LEMMA SetConfigurationAnswer ==
  ASSUME HostInv, NEW r \in Requests, Transfer(r), r.kind = "SetConfiguration"
  PROVE  GoodAnswer(r)
<1> DEFINE a == Answer(r)
           s == IF r.value = 0 THEN "address" ELSE "configured"
<1>1. /\ r \in RequestType /\ r.length = 0 /\ r.index = 0 /\ Lawful(r)
      /\ host' = IF a.ops = <<Acknowledge>> THEN Acknowledged(r) ELSE host
  BY TransferStep DEF WellFormed
<1>2. a = Chap9_SetConfiguration(r, Awake)
  BY DEF Answer, Handle
<1>3. host.state \in {"address", "configured"}
  BY <1>1 DEF Lawful
<1>4. Awake.default = 0 /\ host.address # 0
  BY <1>3, AwakeMatch DEF Match, DeviceType
<1>5. Awake.address = 1 => Awake.configured = 0
  BY AwakeMatch DEF Match, DeviceType
<1>6. CASE r.value \in {0, 1}
  <2>1. /\ a.ops = <<Acknowledge>>
        /\ a.device.default = 0 /\ a.device.address = 1 - r.value
        /\ a.device.configured = r.value /\ a.device.configuration = r.value
        /\ a.device.remote_wakeup = Awake.remote_wakeup
        /\ a.device.stalled = Awake.stalled
        /\ a.device.usbAddress = Awake.usbAddress
    <3>1. CASE r.value = 0
      <4>1. a = Reply([Awake EXCEPT !.configuration = 0, !.address = 1,
                         !.configured = IF Awake.address = 1 THEN @ ELSE 0],
                      <<Acknowledge>>)
        BY <1>1, <1>2, <3>1 DEF Chap9_SetConfiguration
      <4>2. /\ a.ops = <<Acknowledge>>
            /\ a.device = [Awake EXCEPT !.configuration = 0, !.address = 1,
                              !.configured = IF Awake.address = 1 THEN @ ELSE 0]
        BY <4>1 DEF Reply
      <4>3. (IF Awake.address = 1 THEN Awake.configured ELSE 0) = 0
        BY <1>5
      <4> QED
        BY <1>4, <3>1, <4>2, <4>3, AwakeMatch DEF DeviceType
    <3>2. CASE r.value = 1
      <4>1. a = Reply([Awake EXCEPT !.configuration = 1, !.address = 0,
                         !.configured = 1], <<Acknowledge>>)
        BY <1>1, <1>2, <3>2 DEF Chap9_SetConfiguration
      <4>2. /\ a.ops = <<Acknowledge>>
            /\ a.device = [Awake EXCEPT !.configuration = 1, !.address = 0,
                                        !.configured = 1]
        BY <4>1 DEF Reply
      <4> QED
        BY <1>4, <3>2, <4>2, AwakeMatch DEF DeviceType
    <3> QED
      BY <1>6, <3>1, <3>2
  <2>2. host' = [host EXCEPT !.state = s, !.configuration = r.value]
    BY <1>1, <2>1 DEF Acknowledged
  <2>3. /\ host' \in HostType /\ host'.state = s /\ host'.address = host.address
        /\ host'.configuration = r.value /\ host'.wakeup = host.wakeup
        /\ host'.halt = host.halt
    BY <1>6, <2>2, AwakeMatch DEF HostType
  <2>4. \A e \in Functions : HaltByte(a.device, e + 1) = HaltByte(Awake, e + 1)
    BY <2>1 DEF HaltByte
  <2>5. Match(a.device, host')
    BY <1>4, <1>6, <2>1, <2>3, <2>4, AwakeMatch DEF Match
  <2>6. HostStep
    BY <1>3, <2>3 DEF HostStep
  <2> QED
    BY <2>1, <2>3, <2>5, <2>6, Accepted
<1>7. CASE r.value \notin {0, 1}
  <2>1. a = Reply(Awake, <<Stall>>)
    BY <1>1, <1>2, <1>7 DEF Chap9_SetConfiguration
  <2> QED
    BY <2>1, Stalled DEF Reply
<1> QED
  BY <1>6, <1>7

\* The alternate setting is no part of the host's record.
LEMMA AlternateMatch ==
  ASSUME HostInv, NEW v \in {0, 1}
  PROVE  /\ Match([Awake EXCEPT !.alt = v], host)
         /\ Settings([Awake EXCEPT !.alt = v]) = Settings([device EXCEPT !.alt = v])
<1> DEFINE d == [Awake EXCEPT !.alt = v]
           c == [device EXCEPT !.alt = v]
<1>1. /\ d.default = Awake.default /\ d.address = Awake.address
      /\ d.configured = Awake.configured /\ d.configuration = Awake.configuration
      /\ d.remote_wakeup = Awake.remote_wakeup /\ d.alt = v
      /\ d.usbAddress = Awake.usbAddress /\ d.stalled = Awake.stalled
  BY AwakeMatch DEF DeviceType
<1>2. /\ c.default = device.default /\ c.address = device.address
      /\ c.configured = device.configured /\ c.configuration = device.configuration
      /\ c.remote_wakeup = device.remote_wakeup /\ c.alt = v
      /\ c.stalled = device.stalled
  BY DEF HostInv, TypeOK, DeviceType
<1> HIDE DEF d, c
<1>3. \A e \in Functions : HaltByte(d, e + 1) = HaltByte(Awake, e + 1)
  BY <1>1 DEF HaltByte
<1>4. Match(d, host)
  BY <1>1, <1>3, AwakeMatch DEF Match
<1>5. Settings(d) = Settings(c)
  BY <1>1, <1>2, AwakeType DEF Settings, HostInv, TypeOK
<1> QED
  BY <1>4, <1>5 DEF d, c

LEMMA SetInterfaceAnswer ==
  ASSUME HostInv, NEW r \in Requests, Transfer(r), r.kind = "SetInterface"
  PROVE  GoodAnswer(r)
<1> DEFINE a == Answer(r)
           lawful == Awake.address = 0 /\ r.value \in {0, 1} /\ r.index = 0
<1>1. /\ r \in RequestType /\ r.dir \in {"in", "out"}
      /\ host' = IF a.ops = <<Acknowledge>> THEN Acknowledged(r) ELSE host
  BY TransferStep DEF RequestType
<1>2. a = Chap9_SetInterface(r, Awake)
  BY DEF Answer, Handle
<1>3. /\ << >> \o <<Stall>> = <<Stall>> /\ << >> \o <<Acknowledge>> = <<Acknowledge>>
      /\ <<Stall>> \o <<Stall>> = <<Stall, Stall>>
      /\ <<Stall>> \o <<Acknowledge>> = <<Stall, Acknowledge>>
  <2>1. <<Stall>> \in Seq(OperationType) /\ <<Acknowledge>> \in Seq(OperationType)
    BY SimpleOps DEF GoodOps
  <2>2. Stall \in OperationType /\ Acknowledge \in OperationType
    BY Operations DEF Stall, Acknowledge, Transmit, OperationType
  <2>3. /\ <<Stall>> \o <<Stall>> = <<Stall, Stall>>
        /\ <<Stall>> \o <<Acknowledge>> = <<Stall, Acknowledge>>
    BY <2>2, TwoInARow
  <2>4. << >> \o <<Stall>> = <<Stall>> /\ << >> \o <<Acknowledge>> = <<Acknowledge>>
    BY <2>1
  <2> QED
    BY <2>3, <2>4
<1>4. lawful => a.device = [Awake EXCEPT !.alt = r.value] /\ Match(a.device, host)
  <2>1. lawful => a.device = [Awake EXCEPT !.alt = r.value]
    BY <1>2 DEF Chap9_SetInterface, Reply
  <2> QED
    BY <2>1, AlternateMatch
<1>5. CASE lawful /\ r.dir = "out"
  <2>1. a.ops = <<Acknowledge>>
    BY <1>2, <1>3, <1>5 DEF Chap9_SetInterface, Reply
  <2>2. host' = host
    BY <1>1, <2>1 DEF Acknowledged
  <2> QED
    BY <1>4, <1>5, <2>1, <2>2, AwakeMatch, Accepted DEF HostStep
<1>6. CASE lawful /\ r.dir = "in"
  <2>1. a.ops = <<Stall, Acknowledge>>
    BY <1>2, <1>3, <1>6 DEF Chap9_SetInterface, Reply
  <2>2. a.ops # << >> /\ a.ops # <<Acknowledge>> /\ a.ops[1] = Stall /\ Stall.op # "single"
    BY <2>1 DEF Stall
  <2>3. host' = host
    BY <1>1, <2>2
  <2>4. WrongWay(r)
    BY <1>4, <1>6, <2>1, AlternateMatch DEF WrongWay
  <2>5. Reports(r, a.ops[1], host')
    BY <2>2 DEF Reports
  <2> QED
    BY <1>4, <1>6, <2>2, <2>3, <2>4, <2>5, AwakeMatch DEF GoodAnswer, HostStep
<1>7. CASE ~lawful
  <2>1. a.device = Awake
    BY <1>2, <1>7 DEF Chap9_SetInterface, Reply
  <2>2. a.ops = <<Stall>> \/ a.ops = <<Stall, Stall>>
    <3>1. a.ops = (IF r.dir = "in" THEN <<Stall>> ELSE << >>) \o <<Stall>>
      BY <1>2, <1>7 DEF Chap9_SetInterface, Reply
    <3>2. r.dir = "in" => a.ops = <<Stall>> \o <<Stall>>
      BY <3>1
    <3>3. r.dir # "in" => a.ops = << >> \o <<Stall>>
      BY <3>1
    <3> QED
      BY <1>3, <3>2, <3>3
  <2>3. ASSUME NEW o, o = <<Stall>> \/ o = <<Stall, Stall>>
        PROVE  o # << >> /\ o[1] = Stall
    <3>1. CASE o = <<Stall>>
      BY <3>1
    <3>2. CASE o = <<Stall, Stall>>
      BY <3>2
    <3> QED
      BY <2>3, <3>1, <3>2
  <2>4. a.ops # << >> /\ a.ops[1] = Stall
    BY <2>2, <2>3
  <2> QED
    BY <2>1, <2>4, Stalled
<1> QED
  BY <1>1, <1>5, <1>6, <1>7
-----------------------------------------------------------------------------
(* The specification *)

LEMMA HostInvInit == Init => HostInv /\ ReportsAgree
<1> SUFFICES ASSUME Init PROVE HostInv /\ ReportsAgree
  OBVIOUS
<1>1. device = PowerOnDevice /\ host = FreshHost /\ reply = << >> /\ request \in Requests
  BY DEF Init
<1>2. PowerOnDevice \in DeviceType /\ FreshHost \in HostType
  BY DEF PowerOnDevice, FreshHost, DeviceType, HostType, ChipEndpoints
<1>3. Match(device, host)
  BY <1>1 DEF Match, PowerOnDevice, FreshHost
<1>4. TypeOK
  BY <1>1, <1>2 DEF TypeOK
<1> QED
  BY <1>1, <1>3, <1>4, Matching DEF ReportsAgree

LEMMA TransferGood ==
  ASSUME HostInv, NEW r \in Requests, Transfer(r)
  PROVE  GoodStep
<1>1. r.kind \in Kinds
  BY TransferStep DEF RequestType
<1>2. GoodAnswer(r)
  BY <1>1, StatusAnswer, ClearFeatureAnswer, SetFeatureAnswer, SetAddressAnswer,
     DescriptorAnswer, ConfigurationAnswer, SetConfigurationAnswer,
     GetInterfaceAnswer, SetInterfaceAnswer, UnsupportedAnswer
  DEF Kinds
<1> QED
  BY <1>2, AnswerStep

LEMMA ResetGood ==
  ASSUME HostInv, BusReset
  PROVE  GoodStep
<1>1. PICK kept \in {{}, device.stalled} :
         device' = [AfterBusReset(device) EXCEPT !.stalled = kept, !.usbAddress = 0]
  BY DEF BusReset
<1>2. host' = FreshHost /\ reply' = << >> /\ request' = request
  BY DEF BusReset
<1>3. device \in DeviceType /\ request \in Requests
  BY DEF HostInv, TypeOK
<1>4. /\ device' \in DeviceType
      /\ device'.default = 1 /\ device'.address = 0 /\ device'.configured = 0
      /\ device'.configuration = 0 /\ device'.remote_wakeup = 0
      /\ device'.usbAddress = 0
  <2>1. kept \in SUBSET ChipEndpoints
    BY <1>3 DEF DeviceType
  <2>2. AfterBusReset(device) \in DeviceType
    BY <1>3 DEF AfterBusReset, DeviceType
  <2>3. /\ AfterBusReset(device).default = 1 /\ AfterBusReset(device).address = 0
        /\ AfterBusReset(device).configured = 0
        /\ AfterBusReset(device).configuration = 0
        /\ AfterBusReset(device).remote_wakeup = 0
    BY <1>3 DEF AfterBusReset, DeviceType
  <2> DEFINE d == AfterBusReset(device)
             c == [d EXCEPT !.stalled = kept]
  <2> HIDE DEF d
  <2>4. c \in DeviceType /\ c.default = d.default /\ c.address = d.address
        /\ c.configured = d.configured /\ c.configuration = d.configuration
        /\ c.remote_wakeup = d.remote_wakeup
    BY <2>1, <2>2 DEF DeviceType, d
  <2>5. device' = [c EXCEPT !.usbAddress = 0]
    BY <1>1 DEF d
  <2> HIDE DEF c
  <2>6. 0 \in 0..127
    OBVIOUS
  <2> QED
    BY <2>3, <2>4, <2>5, <2>6 DEF DeviceType, d
<1>5. Match(device', host')
  BY <1>2, <1>4 DEF Match, FreshHost
<1>6. FreshHost \in HostType
  BY DEF FreshHost, HostType
<1>7. HostInv'
  BY <1>2, <1>3, <1>4, <1>5, <1>6
  DEF HostInv, TypeOK, StateBitsAgree, RecordAgrees, Match
<1>8. HostStep
  BY <1>2 DEF HostStep, FreshHost
<1> QED
  BY <1>2, <1>7, <1>8, Refined DEF GoodStep, ReportsAgree

LEMMA StepGood == HostInv /\ Next => GoodStep
  BY TransferGood, ResetGood DEF Next

\* What the device holds is what the host was acknowledged.
THEOREM HostRecord == Spec => [](HostInv /\ ReportsAgree)
<1>1. HostInv /\ ReportsAgree /\ [Next]_vars => (HostInv /\ ReportsAgree)'
  <2>1. ASSUME HostInv, ReportsAgree, UNCHANGED vars PROVE (HostInv /\ ReportsAgree)'
    BY <2>1 DEF vars, HostInv, ReportsAgree, TypeOK, StateBitsAgree, RecordAgrees
  <2> QED
    BY <2>1, StepGood DEF GoodStep
<1> QED
  BY <1>1, HostInvInit, PTL DEF Spec

\* The device record keeps its type for a host of any well formed requests.
THEOREM DeviceTypes == Spec => []TypeOK
<1>1. HostInv => TypeOK
  BY DEF HostInv
<1> QED
  BY <1>1, HostRecord, PTL

\* StateBitsAgree: no handler that sets one DEVICE_*_STATE bit forgets another.
THEOREM StateBitsExclusive == Spec => []StateBitsAgree
<1>1. HostInv => StateBitsAgree
  BY DEF HostInv
<1> QED
  BY <1>1, HostRecord, PTL

\* ReportsAgree: Chap9_GetStatus and Chap9_GetConfiguration report what the
\* host was last acknowledged.
THEOREM ReportsTrue == Spec => []ReportsAgree
  BY HostRecord, PTL

\* RefusedRequestsHaveNoEffect: no handler sets anything in a request it
\* refuses, but Chap9_SetInterface, which sets the alternate setting for a
\* request whose direction it has stalled.
THEOREM RefusalsHarmless == Spec => RefusedRequestsHaveNoEffect
<1>1. HostInv /\ [Next]_vars
        => [Settings(device)' # Settings(device)
              => reply' = <<Acknowledge>> \/ StalledYetSet \/ BusReset]_vars
  BY StepGood DEF GoodStep
<1> QED
  BY <1>1, HostRecord, PTL DEF Spec, RefusedRequestsHaveNoEffect

\* NoSilence: every well formed request of a lawful host is answered.
THEOREM AlwaysAnswered == Spec => NoSilence
<1>1. HostInv /\ [Next]_vars => [BusReset \/ reply' # << >>]_vars
  BY StepGood DEF GoodStep
<1> QED
  BY <1>1, HostRecord, PTL DEF Spec, NoSilence

\* RefinesUsbDevice: the three state bits, the address register and the
\* configuration byte implement the device states of a host's view.
THEOREM DeviceRefinement == Spec => RefinesUsbDevice
<1>1. Init => USB!Init
  BY DEF Init, USB!Init, PowerOnDevice
<1>2. HostInv /\ [Next]_vars => [USB!Next]_(USB!vars)
  <2>1. ASSUME UNCHANGED vars PROVE UNCHANGED USB!vars
    BY <2>1 DEF vars, USB!vars
  <2> QED
    BY <2>1, StepGood DEF GoodStep
<1> QED
  BY <1>1, <1>2, HostRecord, PTL DEF Spec, RefinesUsbDevice, USB!Spec
=============================================================================
