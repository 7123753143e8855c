------------------------------ MODULE Chapter9 ------------------------------
(***************************************************************************)
(* The request handlers of CHAP_9.c as functions.  A handler is run by     *)
(* DeviceRequest_Handler with the request in ControlData.DeviceRequest; it *)
(* reads and changes the device record and performs operations on          *)
(* endpoint 0.  Here it is an operator from the request r and the device d *)
(* to a reply: the new device and the sequence of endpoint operations.     *)
(*                                                                         *)
(* A request has the fields                                                *)
(*   kind       the entry of StandardDeviceRequest[] it selects            *)
(*   dir        "in" or "out", the direction bit of bmRequestType          *)
(*   recipient  "device", "interface", "endpoint" or "other"               *)
(*   value, index, length   wValue, wIndex and wLength                     *)
(* The device record has the fields                                        *)
(*   default, address, configured   the DEVICE_*_STATE bits                *)
(*   configuration, remote_wakeup   the fields of bD13flags                *)
(*   alt        ALTERNATIVE_SETTING                                        *)
(*   stalled    chip endpoints whose stall bit is set                      *)
(*   usbAddress the chip's address register                                *)
(* Bits and bytes are numbers, as in C.                                    *)
(***************************************************************************)
EXTENDS Integers, Sequences

CONSTANTS
  DeviceDescrSize,      \* sizeof(USB_DEVICE_DESCRIPTOR)
  ConfigDescrSize,      \* sizeof(USB_CONFIGURATION_DESCRIPTOR_a)
  StringDescrSize       \* size of each string descriptor, by index 0..5

ASSUME DescriptorAssumption == /\ DeviceDescrSize \in Nat
                               /\ ConfigDescrSize \in Nat
                               /\ StringDescrSize \in [0..5 -> Nat]

\* Chip endpoint numbers: EPINDEX4EP0_CONTROL_OUT, EPINDEX4EP0_CONTROL_IN, and
\* n+1 for USB endpoint n.
EP0OUT == 0
EP0IN == 1
EP0 == {EP0OUT, EP0IN}
MAX_ENDPOINTS == 15
ChipEndpoints == 0..(MAX_ENDPOINTS + 1)

USB_FEATURE_ENDPOINT_STALL == 0
USB_FEATURE_REMOTE_WAKEUP == 1

Kinds == {"GetStatus", "ClearFeature", "SetFeature", "SetAddress",
          "GetDescriptor", "GetConfiguration", "SetConfiguration",
          "GetInterface", "SetInterface", "Unsupported"}

RequestType == [kind : Kinds, dir : {"in", "out"},
                recipient : {"device", "interface", "endpoint", "other"},
                value : Nat, index : Nat, length : Nat]

DeviceType == [default : {0, 1}, address : {0, 1}, configured : {0, 1},
               configuration : {0, 1}, remote_wakeup : {0, 1}, alt : {0, 1},
               stalled : SUBSET ChipEndpoints, usbAddress : 0..127]

\* The device as main() leaves it for the loop, and as a bus reset leaves it:
\* connect_USB clears all flags, Isr_BusReset sets the state bits.  Neither
\* touches the alternate setting or the stall bits of other endpoints.
PowerOnDevice == [default |-> 1, address |-> 0, configured |-> 0,
                  configuration |-> 0, remote_wakeup |-> 0, alt |-> 0,
                  stalled |-> {}, usbAddress |-> 0]

AfterBusReset_WrongKeepsConfigured(d) ==
  [d EXCEPT !.default = 1, !.address = 0,
            !.configuration = 0, !.remote_wakeup = 0]

AfterBusReset(d) == [d EXCEPT !.default = 1, !.address = 0, !.configured = 0,
                              !.configuration = 0, !.remote_wakeup = 0]

-----------------------------------------------------------------------------
(* Operations on endpoint 0 *)

Stall == [op |-> "stall", len |-> 0, data |-> 0]
Transmit(n, byte) == [op |-> "single", len |-> n, data |-> byte]
Acknowledge == Transmit(0, 0)
Burst(n) == [op |-> "burst", len |-> n, data |-> 0]

OperationType == [op : {"stall", "single", "burst"}, len : Nat, data : 0..3]

Reply(d, ops) == [device |-> d, ops |-> ops]

-----------------------------------------------------------------------------
(* The handlers *)

\* Self-powered, with the remote wakeup bit above it.
StatusByte(d) == 1 + 2 * d.remote_wakeup
HaltByte(d, endpoint) == IF endpoint \in d.stalled THEN 1 ELSE 0

ChipEndpoint_WrongOffset(index) == IF index = 0 THEN EP0OUT ELSE index % 16

\* wIndex = 0 gives endp = -1, else wIndex & MAX_ENDPOINTS; the chip's number
\* is endp + 1.  The direction bit of wIndex is masked away.
ChipEndpoint(index) == IF index = 0 THEN EP0OUT ELSE (index % 16) + 1

Chap9_GetStatus(r, d) ==
  Reply(d,
    IF d.address = 1
    THEN CASE r.recipient = "device" -> <<Transmit(2, StatusByte(d))>>
           [] r.recipient = "endpoint" /\ r.index = 0
                                 -> <<Transmit(2, HaltByte(d, EP0OUT))>>
           [] OTHER -> <<Stall>>
    ELSE CASE r.value # 0 \/ r.length # 2 -> << >>
           [] r.recipient = "device" -> <<Transmit(2, StatusByte(d))>>
           [] r.recipient = "interface" -> <<Transmit(2, 0)>>
           [] r.recipient = "endpoint"
                -> <<Transmit(2, HaltByte(d, ChipEndpoint(r.index)))>>
           [] OTHER -> <<Stall>>)

Chap9_ClearFeature(r, d) ==
  CASE r.length # 0 -> Reply(d, << >>)
    [] r.length = 0 /\ r.recipient = "device" /\ r.value = USB_FEATURE_REMOTE_WAKEUP
         -> Reply([d EXCEPT !.remote_wakeup = 0], <<Acknowledge>>)
    [] /\ r.length = 0 /\ r.recipient = "endpoint"
       /\ r.value = USB_FEATURE_ENDPOINT_STALL
       /\ d.address = 0 \/ r.index = 0
         -> Reply([d EXCEPT !.stalled = @ \ {ChipEndpoint(r.index)}],
                  <<Acknowledge>>)
    [] OTHER -> Reply(d, <<Stall>>)

\* In the address state any endpoint but 0 selects endp = 0, chip endpoint 1;
\* in the other states an unknown endpoint feature clears that stall bit.
Chap9_SetFeature(r, d) ==
  CASE d.address = 0 /\ r.length # 0 -> Reply(d, << >>)
    [] OTHER ->
      CASE r.recipient = "device" /\ r.value = USB_FEATURE_REMOTE_WAKEUP
             -> Reply([d EXCEPT !.remote_wakeup = 1], <<Acknowledge>>)
        [] r.recipient = "endpoint" /\ r.value = USB_FEATURE_ENDPOINT_STALL
             -> Reply([d EXCEPT !.stalled = @ \cup
                         {IF d.address = 1 /\ r.index # 0 THEN EP0IN
                          ELSE ChipEndpoint(r.index)}],
                      <<Acknowledge>>)
        [] /\ r.recipient = "endpoint" /\ d.address = 0
           /\ r.value # USB_FEATURE_ENDPOINT_STALL
             -> Reply([d EXCEPT !.stalled = @ \ {EP0IN}], <<Acknowledge>>)
        [] OTHER -> Reply(d, <<Stall>>)

SetAddress_WrongKeepsDefault(r, d) ==
  LET a == r.value % 128
  IN CASE d.default = 1 /\ a # 0
            -> Reply([d EXCEPT !.address = 1, !.usbAddress = a], <<Acknowledge>>)
       [] d.default = 1 /\ a = 0 -> Reply(d, << >>)
       [] d.default = 0 /\ d.address = 1
            -> Reply([d EXCEPT !.default = IF a = 0 THEN 1 ELSE 0,
                               !.address = IF a = 0 THEN 0 ELSE 1,
                               !.usbAddress = a], <<Acknowledge>>)
       [] OTHER -> Reply([d EXCEPT !.configured = 0, !.address = 0, !.default = 1],
                         <<Acknowledge>>)

\* wValue & DEVICE_ADDRESS_MASK is the address.  Nothing is answered to
\* address 0 in the default state.  A configured device falls back to the
\* default state but keeps its address register.
SetAddress(r, d) ==
  LET a == r.value % 128
  IN CASE d.default = 1 /\ a # 0
            -> Reply([d EXCEPT !.default = 0, !.address = 1, !.usbAddress = a],
                     <<Acknowledge>>)
       [] d.default = 1 /\ a = 0 -> Reply(d, << >>)
       [] d.default = 0 /\ d.address = 1
            -> Reply([d EXCEPT !.default = IF a = 0 THEN 1 ELSE 0,
                               !.address = IF a = 0 THEN 0 ELSE 1,
                               !.usbAddress = a], <<Acknowledge>>)
       [] OTHER -> Reply([d EXCEPT !.configured = 0, !.address = 0, !.default = 1],
                         <<Acknowledge>>)

\* The only handler that looks at Abort before it acts.
Chap9_SetAddress(r, d, abort) == IF abort = 1 THEN Reply(d, << >>) ELSE SetAddress(r, d)

\* wValue is 256 * descriptor type + descriptor index.  The case of the string
\* descriptors has no break: the stall of the default case always follows.
Chap9_GetDescriptor(r, d) ==
  LET type == r.value \div 256
      index == r.value % 256
  IN Reply(d, CASE type = 1 -> <<Burst(DeviceDescrSize)>>
                [] type = 2 -> <<Burst(ConfigDescrSize)>>
                [] type = 3 /\ index \in 0..5
                     -> <<Burst(StringDescrSize[index]), Stall>>
                [] type = 3 /\ index \notin 0..5 -> <<Stall, Stall>>
                [] OTHER -> <<Stall>>)

Chap9_GetConfiguration(r, d) ==
  Reply(d, CASE d.address = 1 -> <<Transmit(1, 0)>>
             [] d.address = 0 /\ r.value = 0 /\ r.index = 0 /\ r.length = 1
                  -> <<Transmit(1, d.configuration)>>
             [] OTHER -> << >>)

SetConfiguration_WrongAlternate(r, d) ==
  IF d.alt = 0 /\ r.value \in {0, 1}
  THEN Reply([d EXCEPT !.configuration = r.value, !.address = 1 - r.value,
                       !.configured = r.value], <<Acknowledge>>)
  ELSE Reply(d, <<Stall>>)

\* Configuration 0 takes the device back to the address state, also when it
\* has no address yet; 1 configures it.  The default bit is never touched.
Chap9_SetConfiguration(r, d) ==
  CASE d.address = 1 /\ (r.index # 0 \/ r.length # 0) -> Reply(d, << >>)
    [] OTHER ->
      CASE r.value = 0
             -> Reply([d EXCEPT !.configuration = 0, !.address = 1,
                         !.configured = IF d.address = 1 THEN @ ELSE 0],
                      <<Acknowledge>>)
        [] r.value = 1
             -> Reply([d EXCEPT !.configuration = 1, !.address = 0,
                         !.configured = 1],
                      <<Acknowledge>>)
        [] OTHER -> Reply(d, <<Stall>>)

Chap9_GetInterface_WrongSilent(r, d) ==
  Reply(d, IF d.address = 0 /\ r.value = 0 /\ r.index = 0 /\ r.length = 1
           THEN <<Transmit(1, d.alt)>> ELSE << >>)

Chap9_GetInterface(r, d) ==
  Reply(d, IF d.address = 0 /\ r.value = 0 /\ r.index = 0 /\ r.length = 1
           THEN <<Transmit(1, d.alt)>> ELSE <<Stall>>)

SetInterface_WrongSetsFirst(r, d) ==
  LET first == IF r.dir = "in" THEN <<Stall>> ELSE << >>
      set == [d EXCEPT !.alt = r.value % 2]
  IN IF d.address = 0 /\ r.value \in {0, 1} /\ r.index = 0
     THEN Reply(set, first \o <<Acknowledge>>)
     ELSE Reply(set, first \o <<Stall>>)

\* A request with the wrong direction is stalled and then handled all the same.
Chap9_SetInterface(r, d) ==
  LET first == IF r.dir = "in" THEN <<Stall>> ELSE << >>
  IN IF d.address = 0 /\ r.value \in {0, 1} /\ r.index = 0
     THEN Reply([d EXCEPT !.alt = r.value], first \o <<Acknowledge>>)
     ELSE Reply(d, first \o <<Stall>>)

\* DeviceRequest_Handler through StandardDeviceRequest[]; every other entry,
\* the empty class table and the reserved vendor entries stall.
Handle(r, d, abort) ==
  CASE r.kind = "GetStatus" -> Chap9_GetStatus(r, d)
    [] r.kind = "ClearFeature" -> Chap9_ClearFeature(r, d)
    [] r.kind = "SetFeature" -> Chap9_SetFeature(r, d)
    [] r.kind = "SetAddress" -> Chap9_SetAddress(r, d, abort)
    [] r.kind = "GetDescriptor" -> Chap9_GetDescriptor(r, d)
    [] r.kind = "GetConfiguration" -> Chap9_GetConfiguration(r, d)
    [] r.kind = "SetConfiguration" -> Chap9_SetConfiguration(r, d)
    [] r.kind = "GetInterface" -> Chap9_GetInterface(r, d)
    [] r.kind = "SetInterface" -> Chap9_SetInterface(r, d)
    [] r.kind = "Unsupported" -> Reply(d, <<Stall>>)
=============================================================================
