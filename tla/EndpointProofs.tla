--------------------------- MODULE EndpointProofs ---------------------------
(***************************************************************************)
(* Proofs about the function of the device, endpoints 1 and 2.             *)
(*                                                                         *)
(* LedFunction: the counter behind the endpoints, for any size of the      *)
(* counter, any error code and any pace of the host: the handler with its  *)
(* double read and double clear keeps the promise of LedService.           *)
(*                                                                         *)
(* Enumeration: how a host finds the endpoints, for any addresses, lengths *)
(* of its reads, strings and halts: what it opens is what the descriptors  *)
(* announce, and which of it config_endpoint has set up.                   *)
(***************************************************************************)
EXTENDS LedFunction, Enumeration, Chapter9Proofs, FiniteSetTheorems, TLAPS

\* A packet is on its way, the handler has taken it, or its answer is ready.
Asked == ep02 = Empty /\ ep01 = sent /\ isr \in {"out", "ep02", "again", "clear", "read"}
Taken == /\ ep02 = Empty /\ ep01 = "empty" /\ isr \in {"bulk", "decide", "write"}
         /\ isr # "write" => bbuf \in FirstByte(sent)
Answered == ep02 # Empty /\ ep01 = "empty" /\ isr \in {"out", "ep02", "again"}

Phases ==
  /\ host = "waiting" => sent \in Packets /\ (Asked \/ Taken \/ Answered)
  /\ host = "idle" => ep01 = "empty" /\ ep02 = Empty /\ isr \in {"out", "ep02", "again"}

\* The chip reports endpoint 1 only for a packet that is there, and except
\* while the handler is about to read it, or after it was overtaken, always.
Reported ==
  /\ "EP01" \in pending => ep01 # "empty" /\ isr # "read"
  /\ ep01 # "empty" /\ isr # "read" /\ overtaken = 0 => "EP01" \in pending

IInv == TypeOK /\ Phases /\ Reported
-----------------------------------------------------------------------------
LEMMA Modular == \A n \in Values : (n + 1) % Modulo \in Values
  BY LedAssumption DEF Values

LEMMA CountType == ASSUME counter \in Values, NEW r \in Requests PROVE Count(r) \in Values
<1>1. 0 \in Values /\ ErrorCode \in Values
  BY LedAssumption DEF Values
<1> QED
  BY <1>1, Modular DEF Count, Requests

LEMMA InitIInv == Init => IInv
  BY LedAssumption
     DEF Init, IInv, TypeOK, Phases, Reported, Values, Empty, Asked, Taken, Answered

LEMMA IInvStep == IInv /\ [Next]_vars => IInv'
<1> SUFFICES ASSUME IInv, [Next]_vars PROVE IInv'
  OBVIOUS
<1> USE DEF IInv, TypeOK, Phases, Reported, Asked, Taken, Answered
<1>e. /\ Empty \notin Values
      /\ "empty" \notin Packets
      /\ \A r \in Requests : r \in Packets
  <2>1. Empty \notin Values
    BY LedAssumption DEF Empty, Values
  <2>2. "empty" \notin Packets
    BY DEF Packets, Requests
  <2>3. \A r \in Requests : r \in Packets
    BY DEF Packets
  <2> QED
    BY <2>1, <2>2, <2>3
<1>1. CASE WritePort1
  BY <1>1, <1>e DEF WritePort1
<1>2. CASE ReadPort2
  BY <1>2, <1>e DEF ReadPort2
<1>3. CASE Enter
  BY <1>3, <1>e DEF Enter
<1>4. CASE ClearInterrupt
  BY <1>4, <1>e DEF ClearInterrupt
<1>5. CASE ReadEndpoint
  <2>1. \A p : FirstByte(p) \subseteq Requests
    BY DEF FirstByte
  <2>2. host = "waiting" /\ Asked
    BY <1>5 DEF ReadEndpoint
  <2>3. /\ bbuf' \in FirstByte(sent) /\ bbuf' \in Requests
        /\ ep01' = "empty" /\ isr' = "bulk" /\ pending' = pending
        /\ "EP01" \notin pending'
    BY <1>5, <2>1, <2>2 DEF ReadEndpoint
  <2> QED
    BY <1>5, <1>e, <2>2, <2>3 DEF ReadEndpoint
<1>6. CASE ReadBulkEndpoint
  BY <1>6, <1>e DEF ReadBulkEndpoint, Requests
<1>7. CASE Decide
  <2>1. counter' \in Values
    BY <1>7, CountType DEF Decide
  <2> QED
    BY <1>7, <1>e, <2>1 DEF Decide
<1>8. CASE WriteEndpoint
  BY <1>8, <1>e DEF WriteEndpoint
<1>9. CASE ClearAgain
  BY <1>9, <1>e DEF ClearAgain, AfterEp01
<1>10. CASE Isr_Ep02Done
  BY <1>10, <1>e DEF Isr_Ep02Done
<1>11. CASE Trace
  BY <1>11, <1>e, Modular DEF Trace
<1>12. CASE Leave
  BY <1>12, <1>e DEF Leave
<1>13. CASE UNCHANGED vars
  BY <1>13 DEF vars
<1> QED
  BY <1>1, <1>2, <1>3, <1>4, <1>5, <1>6, <1>7, <1>8, <1>9, <1>10, <1>11, <1>12, <1>13
     DEF Next, Isr_Ep01Done

\* The invariant is inductive.
THEOREM LedInductive == Spec => []IInv
  BY InitIInv, IInvStep, PTL DEF Spec

\* The variables of the handler, the chip and the host keep their types.
THEOREM LedTypeCorrect == Spec => []TypeOK
<1>1. IInv => TypeOK
  BY DEF IInv
<1> QED
  BY LedInductive, <1>1, PTL

\* A packet is left without an interrupt only if it came before the second
\* clear of Isr_Ep01Done.
THEOREM DeafOnlyThen == Spec => []DeafOnlyWhenOvertaken
<1>1. IInv => DeafOnlyWhenOvertaken
  BY DEF IInv, Reported, DeafOnlyWhenOvertaken
<1> QED
  BY LedInductive, <1>1, PTL
-----------------------------------------------------------------------------
(* The handler implements LedService *)

LEMMA Stutter ==
  ASSUME counter' = counter, request' = request, answer' = answer
  PROVE  [LED!ServiceNext]_LED!serviceVars
  BY DEF LED!serviceVars

LEMMA RefinementInit == IInv /\ Init => LED!ServiceInit
  BY DEF IInv, TypeOK, Init, LED!ServiceInit, request, answer, LED!Values, Values,
         LED!None, Empty

LEMMA RefinementStep == IInv /\ IInv' /\ [Next]_vars => [LED!ServiceNext]_LED!serviceVars
<1> SUFFICES ASSUME IInv, IInv', [Next]_vars PROVE [LED!ServiceNext]_LED!serviceVars
  OBVIOUS
<1> USE DEF IInv, TypeOK, Phases, Asked, Taken, Answered
<1>e. /\ Empty \notin Values
      /\ LED!None = Empty /\ LED!Packets = Packets
  <2>1. Empty \notin Values
    BY LedAssumption DEF Empty, Values
  <2>2. LED!None = Empty /\ LED!Packets = Packets
    BY DEF LED!None, Empty, LED!Packets, Packets, LED!Requests, Requests
  <2> QED
    BY <2>1, <2>2
<1>1. CASE WritePort1
  <2>1. /\ host = "idle" /\ ep02 = Empty /\ isr # "write"
        /\ request = "none" /\ answer = LED!None
    BY <1>1, <1>e DEF WritePort1, request, answer
  <2>2. request' \in LED!Packets /\ counter' = counter /\ answer' = answer
    BY <1>1, <1>e, <2>1 DEF WritePort1, request, answer
  <2> QED
    BY <2>1, <2>2 DEF LED!Ask, LED!ServiceNext
<1>2. CASE ReadPort2
  <2>1. /\ answer # LED!None /\ answer' = LED!None
        /\ request' = request /\ counter' = counter
    BY <1>2, <1>e DEF ReadPort2, request, answer
  <2> QED
    BY <2>1 DEF LED!Receive, LED!ServiceNext
<1>3. CASE Enter
  <2>1. counter' = counter /\ request' = request /\ answer' = answer
    BY <1>3 DEF Enter, request, answer
  <2> QED
    BY <2>1, Stutter
<1>4. CASE ClearInterrupt
  <2>1. counter' = counter /\ request' = request /\ answer' = answer
    BY <1>4 DEF ClearInterrupt, request, answer
  <2> QED
    BY <2>1, Stutter
<1>5. CASE ReadEndpoint
  <2>1. counter' = counter /\ request' = request /\ answer' = answer
    BY <1>5 DEF ReadEndpoint, request, answer
  <2> QED
    BY <2>1, Stutter
<1>6. CASE ReadBulkEndpoint
  <2>1. counter' = counter /\ request' = request /\ answer' = answer
    BY <1>6 DEF ReadBulkEndpoint, request, answer
  <2> QED
    BY <2>1, Stutter
<1>7. CASE Decide
  <2>1. host = "waiting" /\ ep02 = Empty /\ request = sent /\ sent \in Packets
    BY <1>7, <1>e DEF Decide, request
  <2>2. request # "none"
    BY <2>1 DEF Packets, Requests
  <2>3. request' = "none" /\ answer' = counter'
    BY <1>7 DEF Decide, request, answer
  <2>4. \E r \in LED!Meanings(request) : counter' = LED!After(r, counter)
    <3>1. bbuf \in LED!Meanings(request)
      BY <1>7, <2>1 DEF Decide, FirstByte, LED!Meanings, LED!Requests, Requests
    <3>2. counter' = LED!After(bbuf, counter)
      BY <1>7 DEF Decide, Count, LED!After
    <3> QED
      BY <3>1, <3>2
  <2> QED
    BY <2>2, <2>3, <2>4 DEF LED!Reply, LED!ServiceNext
<1>8. CASE WriteEndpoint
  <2>1. counter' = counter /\ request' = request /\ answer' = answer
    BY <1>8, <1>e DEF WriteEndpoint, request, answer
  <2> QED
    BY <2>1, Stutter
<1>9. CASE ClearAgain
  <2>1. counter' = counter /\ request' = request /\ answer' = answer
    BY <1>9 DEF ClearAgain, AfterEp01, request, answer
  <2> QED
    BY <2>1, Stutter
<1>10. CASE Isr_Ep02Done
  <2>1. counter' = counter /\ request' = request /\ answer' = answer
    BY <1>10 DEF Isr_Ep02Done, request, answer
  <2> QED
    BY <2>1, Stutter
<1>11. CASE Trace
  <2>1. counter' = (counter + 1) % Modulo /\ request' = request /\ answer' = answer
    BY <1>11 DEF Trace, request, answer
  <2> QED
    BY <2>1 DEF LED!Traced, LED!ServiceNext
<1>12. CASE Leave
  <2>1. counter' = counter /\ request' = request /\ answer' = answer
    BY <1>12 DEF Leave, request, answer
  <2> QED
    BY <2>1, Stutter
<1>13. CASE UNCHANGED vars
  <2>1. counter' = counter /\ request' = request /\ answer' = answer
    BY <1>13 DEF vars, request, answer
  <2> QED
    BY <2>1, Stutter
<1> QED
  BY <1>1, <1>2, <1>3, <1>4, <1>5, <1>6, <1>7, <1>8, <1>9, <1>10, <1>11, <1>12, <1>13
     DEF Next, Isr_Ep01Done

\* Whatever the pace of the host, every request gets at most one answer, in
\* order, and it is the counter after that request.
THEOREM LedImplementsService == Spec => RefinesLedService
<1>1. Init => LED!ServiceInit
  BY InitIInv, RefinementInit
<1>2. IInv /\ IInv' /\ [Next]_vars => [LED!ServiceNext]_LED!serviceVars
  BY RefinementStep
<1> QED
  BY <1>1, <1>2, LedInductive, PTL DEF Spec, RefinesLedService, LED!Service
-----------------------------------------------------------------------------
(* Enumeration: the descriptors *)

LEMMA DescriptorLengths ==
  /\ Len(ConfigDescr_a) = 6 /\ ConfigDescr_a[1].length = 9 /\ ConfigDescr_a[2].length = 9
  /\ \A j \in 3..6 : ConfigDescr_a[j].length = 7
<1>1. \A number, dir, packet : Endpoint(number, dir, packet).length = 7
  BY DEF Endpoint
<1> QED
  BY <1>1 DEF ConfigDescr_a

\* Where each descriptor of the configuration ends.
LEMMA Offsets ==
  /\ Bytes(0) = 0 /\ Bytes(1) = 9 /\ Bytes(2) = 18 /\ Bytes(3) = 25 /\ Bytes(4) = 32
  /\ Bytes(5) = 39 /\ Bytes(6) = 46
<1> DEFINE P(f) == f = [j \in 0..6 |-> IF j = 0 THEN 0
                                       ELSE f[j - 1] + ConfigDescr_a[j].length]
           g == [j \in 0..6 |-> CASE j = 0 -> 0 [] j = 1 -> 9 [] j = 2 -> 18 [] j = 3 -> 25
                                  [] j = 4 -> 32 [] j = 5 -> 39 [] j = 6 -> 46]
           h == CHOOSE f : P(f)
<1>1. P(g)
  BY DescriptorLengths
<1>2. P(h)
  BY <1>1
<1>3. \A k : Bytes(k) = h[k]
  BY DescriptorLengths DEF Bytes
<1> HIDE DEF h
<1>4. /\ h[0] = 0 /\ \A j \in 1..6 : h[j] = h[j - 1] + ConfigDescr_a[j].length
  BY <1>2
<1>5. h[1] = 9 /\ h[2] = 18
  BY <1>4, DescriptorLengths
<1>6. h[3] = 25 /\ h[4] = 32
  BY <1>4, <1>5, DescriptorLengths
<1>7. h[5] = 39 /\ h[6] = 46
  BY <1>4, <1>6, DescriptorLengths
<1> QED
  BY <1>3, <1>4, <1>5, <1>6, <1>7

Prefix(k) == SubSeq(ConfigDescr_a, 1, k)

\* Of any number of bytes a host gets whole descriptors, the first ones.
LEMMA ReceivedPrefix == ASSUME NEW n \in Nat PROVE \E k \in 0..6 : Received(n) = Prefix(k)
<1> DEFINE Fits(k) == Bytes(k) <= n /\ (k < Len(ConfigDescr_a) => Bytes(k + 1) > n)
<1>1. \E k \in 0..Len(ConfigDescr_a) : Fits(k)
  <2>1. CASE n < 9
    BY <2>1, Offsets, DescriptorLengths
  <2>2. CASE 9 <= n /\ n < 18
    BY <2>2, Offsets, DescriptorLengths
  <2>3. CASE 18 <= n /\ n < 25
    BY <2>3, Offsets, DescriptorLengths
  <2>4. CASE 25 <= n /\ n < 32
    BY <2>4, Offsets, DescriptorLengths
  <2>5. CASE 32 <= n /\ n < 39
    BY <2>5, Offsets, DescriptorLengths
  <2>6. CASE 39 <= n /\ n < 46
    BY <2>6, Offsets, DescriptorLengths
  <2>7. CASE n >= 46
    BY <2>7, Offsets, DescriptorLengths
  <2> QED
    BY <2>1, <2>2, <2>3, <2>4, <2>5, <2>6, <2>7
<1> HIDE DEF Fits
<1>2. (CHOOSE k \in 0..Len(ConfigDescr_a) : Fits(k)) \in 0..6
  BY <1>1, DescriptorLengths
<1> QED
  BY <1>2 DEF Received, Prefix, Fits

LEMMA WholeConfiguration == Prefix(6) = ConfigDescr_a
<1>1. ConfigDescr_a \in Seq({ConfigDescr_a[i] : i \in 1..6})
  BY DEF ConfigDescr_a
<1> QED
  BY <1>1, DescriptorLengths, SubSeqFull DEF Prefix

LEMMA ReceivedAll == Received(46) = ConfigDescr_a
<1> DEFINE Fits(k) == Bytes(k) <= 46 /\ (k < Len(ConfigDescr_a) => Bytes(k + 1) > 46)
<1>1. Fits(6)
  BY Offsets, DescriptorLengths
<1>2. ASSUME NEW k \in 0..6, Fits(k) PROVE k = 6
  BY <1>2, Offsets, DescriptorLengths
<1> HIDE DEF Fits
<1>3. (CHOOSE k \in 0..Len(ConfigDescr_a) : Fits(k)) = 6
  BY <1>1, <1>2, DescriptorLengths
<1>4. Received(46) = Prefix(6)
  BY <1>3 DEF Received, Fits, Prefix
<1> QED
  BY <1>4, WholeConfiguration

\* What the host reads of a descriptor that is there.
LEMMA PrefixFields ==
  ASSUME NEW k \in 0..6
  PROVE  /\ Len(Prefix(k)) = k
         /\ k >= 1 => Prefix(k)[1].total = 46 /\ Prefix(k)[1].value = 1
         /\ Prefix(k) # <<>> => k >= 1
<1>1. ConfigDescr_a \in Seq({ConfigDescr_a[i] : i \in 1..6})
  BY DEF ConfigDescr_a
<1>2. /\ Len(Prefix(k)) = k /\ \A i \in 1..k : Prefix(k)[i] = ConfigDescr_a[i]
  BY <1>1, DescriptorLengths DEF Prefix
<1>3. /\ ConfigDescr_a[1].total = 46 /\ ConfigDescr_a[1].value = 1
  BY DEF ConfigDescr_a
<1>4. k = 0 => Prefix(k) = <<>>
  BY <1>1 DEF Prefix
<1> QED
  BY <1>2, <1>3, <1>4

\* Min of two numbers.
LEMMA Smaller == ASSUME NEW m \in Nat, NEW n \in Nat
                 PROVE  Min({m, n}) = IF m <= n THEN m ELSE n
  BY DEF Min
-----------------------------------------------------------------------------
(* Enumeration: what the handlers do to the device of the host *)

Cleared == [device EXCEPT !.stalled = @ \ EP0]

LEMMA ClearedType ==
  ASSUME device \in DeviceType
  PROVE  /\ Cleared \in DeviceType
         /\ Cleared.default = device.default /\ Cleared.address = device.address
         /\ Cleared.configured = device.configured
         /\ Cleared.configuration = device.configuration
         /\ Cleared.usbAddress = device.usbAddress
  BY DEF Cleared, DeviceType

LEMMA HandledType ==
  ASSUME device \in DeviceType, NEW r \in RequestType
  PROVE  Handled(r).device \in DeviceType
  BY ClearedType, HandleReply DEF Handled, Cleared, GoodReply

\* The descriptor of any configuration is the same one, cut to what is asked.
LEMMA ConfigurationData ==
  ASSUME NEW c \in 0..24, NEW n \in Nat
  PROVE  Data(GetDescriptor(512 + c, n)) = IF n <= 46 THEN n ELSE 46
<1> DEFINE r == GetDescriptor(512 + c, n)
<1>1. r.kind = "GetDescriptor" /\ r.value = 512 + c /\ r.length = n
  BY DEF GetDescriptor, Request
<1>2. (512 + c) \div 256 = 2
  OBVIOUS
<1> HIDE DEF r
<1>3. Handled(r) = Chap9_GetDescriptor(r, Cleared)
  BY <1>1 DEF Handled, Handle, Cleared
<1>4. Handled(r).ops = <<Burst(46)>>
  BY <1>1, <1>2, <1>3, SizeAssumption DEF Chap9_GetDescriptor, Reply
<1>5. Data(r) = Min({n, 46})
  BY <1>1, <1>4 DEF Data, Burst
<1> QED
  BY <1>5, Smaller DEF r

LEMMA AddressAssigned ==
  ASSUME device \in DeviceType, device.default = 1, NEW a \in 1..127
  PROVE  LET d == Handled(Set("SetAddress", a)).device
         IN d \in DeviceType /\ d.usbAddress = a
<1> DEFINE r == Set("SetAddress", a)
<1>1. r.kind = "SetAddress" /\ r.value = a /\ r \in RequestType
  BY DEF Set, Request, RequestType, Kinds
<1>2. a % 128 = a /\ a # 0
  OBVIOUS
<1> HIDE DEF r
<1>3. Handled(r) = SetAddress(r, Cleared)
  BY <1>1 DEF Handled, Handle, Chap9_SetAddress, Cleared
<1>4. SetAddress(r, Cleared) =
        Reply([Cleared EXCEPT !.default = 0, !.address = 1, !.usbAddress = a],
              <<Acknowledge>>)
  BY <1>1, <1>2, ClearedType DEF SetAddress
<1>5. Handled(r).device =
        [Cleared EXCEPT !.default = 0, !.address = 1, !.usbAddress = a]
  BY <1>3, <1>4 DEF Reply
<1>6. Handled(r).device.usbAddress = a
  BY <1>5, ClearedType DEF DeviceType
<1> QED
  BY <1>1, <1>6, HandledType DEF r

LEMMA ConfigurationSelected ==
  ASSUME device \in DeviceType, NEW v \in {0, 1}
  PROVE  LET d == Handled(Set("SetConfiguration", v)).device
         IN /\ d \in DeviceType /\ d.usbAddress = device.usbAddress
            /\ v = 1 => d.configured = 1 /\ d.configuration = 1
<1> DEFINE r == Set("SetConfiguration", v)
<1>1. /\ r.kind = "SetConfiguration" /\ r.value = v /\ r.index = 0 /\ r.length = 0
      /\ r \in RequestType
  BY DEF Set, Request, RequestType, Kinds
<1> HIDE DEF r
<1>2. Handled(r) = Chap9_SetConfiguration(r, Cleared)
  BY <1>1 DEF Handled, Handle, Cleared
<1>3. Handled(r).device \in DeviceType
  BY <1>1, HandledType
<1>4. v = 1 => Handled(r).device = [Cleared EXCEPT !.configuration = 1, !.address = 0,
                                                  !.configured = 1]
  BY <1>1, <1>2 DEF Chap9_SetConfiguration, Reply
<1>5. v = 0 => \E x : Handled(r).device = [Cleared EXCEPT !.configuration = 0, !.address = 1,
                                                         !.configured = x]
  <2>1. v = 0 =>
          Handled(r).device = [Cleared EXCEPT !.configuration = 0, !.address = 1,
                                 !.configured = IF Cleared.address = 1 THEN @ ELSE 0]
    BY <1>1, <1>2 DEF Chap9_SetConfiguration, Reply
  <2> QED
    BY <2>1
<1>6. v = 1 => /\ Handled(r).device.usbAddress = device.usbAddress
               /\ Handled(r).device.configured = 1 /\ Handled(r).device.configuration = 1
  BY <1>4, ClearedType DEF DeviceType
<1>7. v = 0 => Handled(r).device.usbAddress = device.usbAddress
  BY <1>5, ClearedType DEF DeviceType
<1> QED
  BY <1>3, <1>6, <1>7 DEF r

\* The other requests touch neither the address nor the configuration.
Kept(d) == /\ d.usbAddress = device.usbAddress
           /\ d.configured = device.configured
           /\ d.configuration = device.configuration

KeptReply(h) == Kept(h.device)

LEMMA KeptReplies == ASSUME NEW d, Kept(d), NEW ops PROVE KeptReply(Reply(d, ops))
  BY DEF KeptReply, Reply

LEMMA OthersKeep == ASSUME device \in DeviceType, NEW r \in Others
                    PROVE  Handled(r).device \in DeviceType /\ Kept(Handled(r).device)
<1> DEFINE e == IF Cleared.address = 1 /\ r.index # 0 THEN EP0IN ELSE ChipEndpoint(r.index)
<1>1. /\ r \in RequestType
      /\ r.kind \in {"SetInterface", "SetFeature", "ClearFeature"}
  BY HostAssumption
     DEF Others, Set, Request, RequestType, Kinds, USB_FEATURE_REMOTE_WAKEUP,
         USB_FEATURE_ENDPOINT_STALL
<1>2. /\ Kept(Cleared) /\ Kept([Cleared EXCEPT !.alt = r.value])
      /\ Kept([Cleared EXCEPT !.remote_wakeup = 0])
      /\ Kept([Cleared EXCEPT !.remote_wakeup = 1])
      /\ Kept([Cleared EXCEPT !.stalled = @ \ {ChipEndpoint(r.index)}])
      /\ Kept([Cleared EXCEPT !.stalled = @ \ {EP0IN}])
      /\ Kept([Cleared EXCEPT !.stalled = @ \cup {e}])
  BY ClearedType DEF Kept, DeviceType
<1>3. r.kind = "SetInterface" => KeptReply(Chap9_SetInterface(r, Cleared))
  BY <1>2, KeptReplies DEF Chap9_SetInterface
<1>4. r.kind = "SetFeature" => KeptReply(Chap9_SetFeature(r, Cleared))
  BY <1>2, KeptReplies DEF Chap9_SetFeature
<1>5. r.kind = "ClearFeature" => KeptReply(Chap9_ClearFeature(r, Cleared))
  BY <1>2, KeptReplies DEF Chap9_ClearFeature
<1>6. KeptReply(Handled(r))
  BY <1>1, <1>3, <1>4, <1>5 DEF Handled, Handle, Cleared
<1> QED
  BY <1>1, <1>6, HandledType DEF KeptReply

LEMMA ReadKeeps == ASSUME device \in DeviceType, NEW r, r.kind = "GetDescriptor"
                   PROVE  Handled(r).device \in DeviceType /\ Kept(Handled(r).device)
<1>1. Handled(r).device = Cleared
  BY DEF Handled, Handle, Cleared, Chap9_GetDescriptor, Reply
<1> QED
  BY <1>1, ClearedType DEF Kept

-----------------------------------------------------------------------------
(* Enumeration: what the host knows at each of its steps *)

EnumTypeOK ==
  /\ step \in {"address", "lost", "device", "header", "all", "select", "done"}
  /\ device \in DeviceType /\ fifo = config_endpoint
  /\ \E k \in 0..6 : known = Prefix(k)

\* The device takes an address when the host gives it one, and has it ever after.
AddressHeld ==
  /\ step = "address" => device.default = 1
  /\ step \in {"device", "header", "all", "select", "done"} => device.usbAddress # 0

\* From its header the host knows how long the configuration is, then all of it.
SizeKnown == /\ step \in {"all", "select"} => size = 46
             /\ step \in {"select", "done"} => known = ConfigDescr_a

PipesOpen ==
  step = "done" =>
    /\ pipes = {<<1, "in", 8>>, <<1, "out", 8>>, <<2, "in", 8>>, <<2, "out", 8>>}
    /\ device.configured = 1 /\ device.configuration = 1

EInv == EnumTypeOK /\ AddressHeld /\ SizeKnown /\ PipesOpen

LEMMA ResetType == ASSUME device \in DeviceType
                   PROVE  LET d == [AfterBusReset(device) EXCEPT !.usbAddress = 0]
                          IN  d \in DeviceType /\ d.default = 1
<1>1. AfterBusReset(device) \in DeviceType /\ AfterBusReset(device).default = 1
  BY DEF AfterBusReset, DeviceType
<1> QED
  BY <1>1 DEF DeviceType

LEMMA NothingKnown == <<>> = Prefix(0)
  BY SubSeqEmpty DEF Prefix

LEMMA EnumInitEInv == EnumInit => EInv
<1>1. PowerOnDevice \in DeviceType /\ PowerOnDevice.default = 1
  BY DEF PowerOnDevice, DeviceType, ChipEndpoints
<1> QED
  BY <1>1, NothingKnown
     DEF EnumInit, EInv, EnumTypeOK, AddressHeld, SizeKnown, PipesOpen

\* The endpoints the host finds in the whole configuration.
LEMMA DescribedPipes ==
  {<<ConfigDescr_a[i].number, ConfigDescr_a[i].dir, ConfigDescr_a[i].packet>> :
      i \in {j \in 1..Len(ConfigDescr_a) : ConfigDescr_a[j].type = "endpoint"}}
  = {<<1, "in", 8>>, <<1, "out", 8>>, <<2, "in", 8>>, <<2, "out", 8>>}
<1> DEFINE C == ConfigDescr_a
           pipe(i) == <<C[i].number, C[i].dir, C[i].packet>>
<1>1. {j \in 1..Len(C) : C[j].type = "endpoint"} = {3, 4, 5, 6}
  <2>1. C[1].type # "endpoint" /\ C[2].type # "endpoint"
    BY DEF ConfigDescr_a
  <2>2. \A number, dir, packet : Endpoint(number, dir, packet).type = "endpoint"
    BY DEF Endpoint
  <2>3. \A j \in 3..6 : C[j].type = "endpoint"
    BY <2>2 DEF ConfigDescr_a
  <2> QED
    BY <2>1, <2>3, DescriptorLengths
<1>2. /\ pipe(3) = <<1, "in", 8>> /\ pipe(4) = <<1, "out", 8>>
      /\ pipe(5) = <<2, "in", 8>> /\ pipe(6) = <<2, "out", 8>>
  <2>1. \A number, dir, packet :
          /\ Endpoint(number, dir, packet).number = number
          /\ Endpoint(number, dir, packet).dir = dir
          /\ Endpoint(number, dir, packet).packet = packet
    BY DEF Endpoint
  <2>2. /\ C[3] = Endpoint(1, "in", 8) /\ C[4] = Endpoint(1, "out", 8)
        /\ C[5] = Endpoint(2, "in", 8) /\ C[6] = Endpoint(2, "out", 8)
    BY DEF ConfigDescr_a
  <2> QED
    BY <2>1, <2>2
<1> HIDE DEF C
<1>3. {pipe(i) : i \in {3, 4, 5, 6}} = {pipe(3), pipe(4), pipe(5), pipe(6)}
  OBVIOUS
<1> QED
  BY <1>1, <1>2, <1>3 DEF C

LEMMA LastConfiguration == DeviceDescr.configurations - 1 = 24
  BY DEF DeviceDescr

LEMMA EInvStep == EInv /\ [EnumNext]_enumVars => EInv'
<1> SUFFICES ASSUME EInv, [EnumNext]_enumVars PROVE EInv'
  OBVIOUS
<1>0. device \in DeviceType
  BY DEF EInv, EnumTypeOK
<1>1. CASE AssignAddress
  <2>1. PICK a \in Addresses : device' = Handled(Set("SetAddress", a)).device
    BY <1>1 DEF AssignAddress
  <2>2. a \in 1..127 /\ device.default = 1
    BY <1>1, HostAssumption DEF AssignAddress, EInv, AddressHeld
  <2>3. /\ Handled(Set("SetAddress", a)).device \in DeviceType
        /\ Handled(Set("SetAddress", a)).device.usbAddress = a
    BY <1>0, <2>2, AddressAssigned
  <2>4. device' \in DeviceType /\ device'.usbAddress # 0
    BY <2>1, <2>2, <2>3
  <2>5. step' \in {"device", "lost"} /\ UNCHANGED <<fifo, size, known, pipes>>
    BY <1>1 DEF AssignAddress
  <2> QED
    BY <2>4, <2>5 DEF EInv, EnumTypeOK, AddressHeld, SizeKnown, PipesOpen
<1>2. CASE ReadDevice
  BY <1>2 DEF ReadDevice, EInv, EnumTypeOK, AddressHeld, SizeKnown, PipesOpen
<1>3. CASE ReadHeader
  <2>1. PICK c \in 0..DeviceDescr.configurations - 1, n \in ReadLengths :
          /\ known' = Received(Data(GetDescriptor(512 + c, n)))
          /\ known' # <<>> /\ size' = known'[1].total
    BY <1>3 DEF ReadHeader
  <2>2. Data(GetDescriptor(512 + c, n)) \in Nat
    <3>1. n \in Nat /\ c \in 0..24
      BY HostAssumption, LastConfiguration
    <3> QED
      BY <3>1, ConfigurationData
  <2>3. PICK k \in 0..6 : known' = Prefix(k)
    BY <2>1, <2>2, ReceivedPrefix
  <2>4. size' = 46
    <3>1. k >= 1
      BY <2>1, <2>3, PrefixFields
    <3>2. Prefix(k)[1].total = 46
      BY <3>1, PrefixFields
    <3> QED
      BY <2>1, <2>3, <3>2
  <2>5. /\ step = "header" /\ step' = "all"
        /\ UNCHANGED <<device, fifo, pipes>>
    BY <1>3 DEF ReadHeader
  <2> QED
    BY <2>3, <2>4, <2>5 DEF EInv, EnumTypeOK, AddressHeld, SizeKnown, PipesOpen
<1>4. CASE ReadAll
  <2>1. PICK c \in 0..DeviceDescr.configurations - 1 :
          known' = Received(Data(GetDescriptor(512 + c, size)))
    BY <1>4 DEF ReadAll
  <2>2. size = 46 /\ step = "all"
    BY <1>4 DEF ReadAll, EInv, SizeKnown
  <2>3. Data(GetDescriptor(512 + c, 46)) = 46
    <3>1. c \in 0..24
      BY LastConfiguration
    <3> QED
      BY <3>1, ConfigurationData
  <2>4. known' = ConfigDescr_a /\ known' = Prefix(6)
    BY <2>1, <2>2, <2>3, ReceivedAll, WholeConfiguration
  <2>5. step' = "select" /\ UNCHANGED <<device, fifo, size, pipes>>
    BY <1>4 DEF ReadAll
  <2> QED
    BY <2>2, <2>4, <2>5 DEF EInv, EnumTypeOK, AddressHeld, SizeKnown, PipesOpen
<1>5. CASE SelectLost \/ Select
  <2>1. step = "select" /\ known = ConfigDescr_a
    BY <1>5 DEF SelectLost, Select, EInv, SizeKnown
  <2>2. known[1].value = 1
    BY <2>1 DEF ConfigDescr_a
  <2>3. device' = Handled(Set("SetConfiguration", 1)).device
    BY <1>5, <2>2 DEF SelectLost, Select, Selecting
  <2>4. device.usbAddress # 0
    BY <2>1 DEF EInv, AddressHeld
  <2>5. /\ device' \in DeviceType /\ device'.usbAddress # 0
        /\ device'.configured = 1 /\ device'.configuration = 1
    BY <1>0, <2>3, <2>4, ConfigurationSelected
  <2>6. CASE SelectLost
    <3>1. UNCHANGED <<fifo, step, size, known, pipes>>
      BY <2>6 DEF SelectLost
    <3> QED
      BY <2>1, <2>5, <3>1 DEF EInv, EnumTypeOK, AddressHeld, SizeKnown, PipesOpen
  <2>7. CASE Select
    <3>1. pipes' = {<<1, "in", 8>>, <<1, "out", 8>>, <<2, "in", 8>>, <<2, "out", 8>>}
      BY <2>1, <2>7, DescribedPipes DEF Select
    <3>2. step' = "done" /\ UNCHANGED <<fifo, size, known>>
      BY <2>7 DEF Select
    <3> QED
      BY <2>1, <2>5, <3>1, <3>2 DEF EInv, EnumTypeOK, AddressHeld, SizeKnown, PipesOpen
  <2> QED
    BY <1>5, <2>6, <2>7
<1>6. CASE Reselect
  <2>1. device' = Handled(Set("SetConfiguration", 0)).device
    BY <1>6 DEF Reselect, Selecting
  <2>2. device.usbAddress # 0
    BY <1>6 DEF Reselect, EInv, AddressHeld
  <2>3. device' \in DeviceType /\ device'.usbAddress # 0
    BY <1>0, <2>1, <2>2, ConfigurationSelected
  <2>4. step' = "header" /\ known' = <<>> /\ UNCHANGED fifo
    BY <1>6 DEF Reselect
  <2> QED
    BY <2>3, <2>4, NothingKnown DEF EInv, EnumTypeOK, AddressHeld, SizeKnown, PipesOpen
<1>7. CASE ReadString
  <2>1. PICK i \in Strings : device' = Handled(GetDescriptor(768 + i, 255)).device
    BY <1>7 DEF ReadString
  <2>2. PICK r : device' = Handled(r).device /\ r.kind = "GetDescriptor"
    <3>1. GetDescriptor(768 + i, 255).kind = "GetDescriptor"
      BY DEF GetDescriptor, Request
    <3> QED
      BY <2>1, <3>1
  <2>3. device' \in DeviceType /\ Kept(device')
    BY <1>0, <2>2, ReadKeeps
  <2>4. /\ step \in {"header", "done"}
        /\ UNCHANGED <<fifo, step, size, known, pipes>>
    BY <1>7 DEF ReadString
  <2> QED
    BY <2>3, <2>4 DEF EInv, EnumTypeOK, AddressHeld, SizeKnown, PipesOpen, Kept
<1>8. CASE Other
  <2>1. PICK r \in Others : device' = Handled(r).device
    BY <1>8 DEF Other
  <2>2. device' \in DeviceType /\ Kept(device')
    BY <1>0, <2>1, OthersKeep
  <2>3. step = "done" /\ UNCHANGED <<fifo, step, size, known, pipes>>
    BY <1>8 DEF Other
  <2> QED
    BY <2>2, <2>3 DEF EInv, EnumTypeOK, AddressHeld, SizeKnown, PipesOpen, Kept
<1>9. CASE Recover \/ BusReset
  <2>1. Isr_BusReset
    BY <1>9 DEF Recover, BusReset
  <2>2. device' \in DeviceType /\ device'.default = 1
    BY <1>0, <2>1, ResetType DEF Isr_BusReset
  <2>3. fifo' = config_endpoint /\ step' = "address" /\ known' = <<>>
    BY <2>1 DEF Isr_BusReset
  <2> QED
    BY <2>2, <2>3, NothingKnown DEF EInv, EnumTypeOK, AddressHeld, SizeKnown, PipesOpen
<1>10. CASE UNCHANGED enumVars
  BY <1>10 DEF enumVars, EInv, EnumTypeOK, AddressHeld, SizeKnown, PipesOpen
<1> QED
  BY <1>1, <1>2, <1>3, <1>4, <1>5, <1>6, <1>7, <1>8, <1>9, <1>10 DEF EnumNext, Enumerate

THEOREM EnumInductive == EnumSpec => []EInv
  BY EnumInitEInv, EInvStep, PTL DEF EnumSpec

\* Whatever addresses, lengths, halts and losses, the host that is done has
\* opened as many pipes as the interface announces, four; every FIFO of
\* config_endpoint has one of its direction and size, and the two without a
\* FIFO are the IN endpoint 1 and the OUT endpoint 2.  The device is in the
\* configuration selected, under an address.
THEOREM EnumerationAgrees == EnumSpec => []EnumeratedAgrees
<1>1. EInv => EnumeratedAgrees
  <2> SUFFICES ASSUME EInv, step = "done" PROVE EnumeratedAgrees
    BY DEF EnumeratedAgrees
  <2> USE DEF EInv
  <2>1. pipes = {<<1, "in", 8>>, <<1, "out", 8>>, <<2, "in", 8>>, <<2, "out", 8>>}
    BY DEF PipesOpen
  <2>2. fifo = {<<1, "out", 8>>, <<2, "in", 8>>}
    BY DEF EnumTypeOK, config_endpoint
  <2>3. Cardinality(pipes) = 4
    <3> DEFINE A == {<<1, "in", 8>>}
               B == A \cup {<<1, "out", 8>>}
               C == B \cup {<<2, "in", 8>>}
    <3>1. IsFiniteSet(A) /\ Cardinality(A) = 1
      BY FS_Singleton
    <3>2. IsFiniteSet(B) /\ Cardinality(B) = 2
      <4>1. <<1, "out", 8>> \notin A
        OBVIOUS
      <4> HIDE DEF A
      <4> QED
        BY <3>1, <4>1, FS_AddElement
    <3>3. IsFiniteSet(C) /\ Cardinality(C) = 3
      <4>1. <<2, "in", 8>> \notin B
        OBVIOUS
      <4> HIDE DEF B
      <4> QED
        BY <3>2, <4>1, FS_AddElement
    <3>4. Cardinality(C \cup {<<2, "out", 8>>}) = 4
      <4>1. <<2, "out", 8>> \notin C
        OBVIOUS
      <4> HIDE DEF C
      <4> QED
        BY <3>3, <4>1, FS_AddElement
    <3>5. pipes = C \cup {<<2, "out", 8>>}
      BY <2>1
    <3> QED
      BY <3>4, <3>5
  <2>4. known = ConfigDescr_a /\ known[2].endpoints = 4 /\ known[1].value = 1
    BY DEF SizeKnown, ConfigDescr_a
  <2>5. fifo \subseteq pipes /\ pipes \ fifo = {<<1, "in", 8>>, <<2, "out", 8>>}
    BY <2>1, <2>2
  <2> QED
    BY <2>3, <2>4, <2>5 DEF EnumeratedAgrees, PipesOpen, AddressHeld
<1> QED
  BY <1>1, EnumInductive, PTL

=============================================================================
