---------------------------- MODULE Enumeration ----------------------------
(***************************************************************************)
(* A host enumerates the device: it reads the descriptors of CHAP_9.c as   *)
(* far as it asks for them, walks through what it has received, selects a  *)
(* configuration and opens a pipe for every endpoint described.  The       *)
(* handlers are those of Chapter9; the FIFOs behind the pipes are those    *)
(* config_endpoint sets up.  The host may reset the bus at any point, it   *)
(* sends other requests once it is done, and the acknowledgement of a      *)
(* transfer may be lost, so that the device has done what the host does not*)
(* know of.                                                                *)
(***************************************************************************)
EXTENDS Chapter9, FiniteSetsExt

CONSTANTS
  Addresses,     \* the addresses the host has to assign
  ReadLengths,   \* how much it asks for when it does not know what there is
  Strings,       \* the strings it asks for out of turn
  Halted         \* the endpoints it halts

ASSUME HostAssumption ==
  /\ Addresses \subseteq 1..127
  /\ ReadLengths \subseteq Nat /\ Strings \subseteq 0..255 /\ Halted \subseteq Nat

VARIABLES
  device,      \* the device record of Chapter9
  fifo,        \* the endpoints of the chip that are enabled
  step,        \* what the host does next
  size,        \* length of the configuration as far as the host knows it
  known,       \* the descriptors of the configuration it has received
  pipes        \* the endpoints it has opened

enumVars == <<device, fifo, step, size, known, pipes>>
-----------------------------------------------------------------------------
(* The descriptors *)

Endpoint(number, dir, packet) ==
  [length |-> 7, type |-> "endpoint", number |-> number, dir |-> dir, packet |-> packet]

\* One configuration with one interface and four endpoints of 8 bytes.
ConfigDescr_a ==
  <<[length |-> 9, type |-> "configuration", total |-> 46, value |-> 1],
    [length |-> 9, type |-> "interface", endpoints |-> 4],
    Endpoint(1, "in", 8), Endpoint(1, "out", 8), Endpoint(2, "in", 8), Endpoint(2, "out", 8)>>

\* bNumConfigurations is 0x19.  The string indices of all descriptors are 0,
\* which names no string.
DeviceDescr == [length |-> 18, configurations |-> 25]

\* The lengths of the string descriptors: a head of two bytes and the array for
\* the text, which strProduct does not fill.
strLanguage == 2 + 2
strManufacturer == 2 + 54
strProduct == 2 + 64
strSerialNum == 2 + 24
strConfiguration == 2 + 16
strInterface == 2 + 22

\* STR_INDEX_LANGUAGE to STR_INDEX_INTERFACE.
StringDescr ==
  [i \in 0..5 |-> <<strLanguage, strManufacturer, strProduct,
                    strSerialNum, strConfiguration, strInterface>>[i + 1]]

\* The bytes of the first k descriptors of the configuration.
Bytes(k) ==
  LET upTo[j \in 0..Len(ConfigDescr_a)] ==
        IF j = 0 THEN 0 ELSE upTo[j - 1] + ConfigDescr_a[j].length
  IN upTo[k]

ASSUME SizeAssumption ==
  /\ DeviceDescrSize = DeviceDescr.length
  /\ ConfigDescrSize = 46 /\ Bytes(Len(ConfigDescr_a)) = ConfigDescrSize
  /\ StringDescrSize = StringDescr

\* The descriptors that are complete in the first n bytes.
Received(n) ==
  SubSeq(ConfigDescr_a, 1,
         CHOOSE k \in 0..Len(ConfigDescr_a) :
           Bytes(k) <= n /\ (k < Len(ConfigDescr_a) => Bytes(k + 1) > n))

config_endpoint_WrongDirection == {<<1, "in", 8>>, <<2, "out", 8>>}

\* config_endpoint: the endpoints with D13REG_EPCNFG_FIFO_EN, endpoint 0 apart.
\* "port1 is OUT", "port2 is IN".
config_endpoint == {<<1, "out", 8>>, <<2, "in", 8>>}
-----------------------------------------------------------------------------
(* The host *)

EnumInit ==
  /\ device = PowerOnDevice
  /\ fifo = config_endpoint
  /\ step = "address" /\ size = 0 /\ known = <<>> /\ pipes = {}

Request(kind, dir, recipient, value, index, length) ==
  [kind |-> kind, dir |-> dir, recipient |-> recipient, value |-> value,
   index |-> index, length |-> length]
GetDescriptor(value, length) == Request("GetDescriptor", "in", "device", value, 0, length)
Set(kind, value) == Request(kind, "out", "device", value, 0, 0)

\* The device runs the handler of a request; the host sees its operations.
Handled(r) == Handle(r, [device EXCEPT !.stalled = @ \ EP0], 0)
Acknowledges(r) == Handled(r).ops = <<Acknowledge>>
\* Length of the data the host receives: what is there, but no more than asked.
Data(r) == IF Len(Handled(r).ops) = 1 /\ Handled(r).ops[1].op = "burst"
           THEN Min({r.length, Handled(r).ops[1].len}) ELSE 0

AssignAddress ==
  /\ step = "address"
  /\ \E a \in Addresses :
       Acknowledges(Set("SetAddress", a)) /\ device' = Handled(Set("SetAddress", a)).device
  /\ step' \in {"device", "lost"}
  /\ UNCHANGED <<fifo, size, known, pipes>>

\* The first read of the device descriptor, of as much as the host pleases.
ReadDevice ==
  /\ step = "device"
  /\ \E n \in ReadLengths : Data(GetDescriptor(256, n)) \in 8..18
  /\ step' = "header"
  /\ UNCHANGED <<device, fifo, size, known, pipes>>

\* The header of one of the configurations the device says it has, and perhaps
\* more.
ReadHeader ==
  /\ step = "header"
  /\ \E c \in 0..DeviceDescr.configurations - 1, n \in ReadLengths :
       /\ known' = Received(Data(GetDescriptor(512 + c, n)))
       /\ known' # <<>> /\ size' = known'[1].total
  /\ step' = "all"
  /\ UNCHANGED <<device, fifo, pipes>>

ReadAll ==
  /\ step = "all"
  /\ \E c \in 0..DeviceDescr.configurations - 1 :
       known' = Received(Data(GetDescriptor(512 + c, size)))
  /\ step' = "select"
  /\ UNCHANGED <<device, fifo, size, pipes>>

\* SET_CONFIGURATION with the value the configuration has for itself, once
\* more if the acknowledgement is lost; the host opens a pipe for every endpoint
\* it has read of.
Selecting(value) == /\ Acknowledges(Set("SetConfiguration", value))
                    /\ device' = Handled(Set("SetConfiguration", value)).device
SelectLost ==
  /\ step = "select" /\ Selecting(known[1].value)
  /\ UNCHANGED <<fifo, step, size, known, pipes>>
Select ==
  /\ step = "select" /\ Selecting(known[1].value)
  /\ pipes' = {<<known[i].number, known[i].dir, known[i].packet>> :
                 i \in {j \in 1..Len(known) : known[j].type = "endpoint"}}
  /\ step' = "done"
  /\ UNCHANGED <<fifo, size, known>>

\* The host goes back to another configuration.
Reselect ==
  /\ step = "done" /\ Selecting(0)
  /\ step' = "header" /\ size' = 0 /\ known' = <<>> /\ pipes' = {}
  /\ UNCHANGED fifo

\* The requests of a configured device: alternate setting, remote wakeup and
\* the halt of an endpoint.
Others ==
     {Request("SetInterface", "out", "interface", a, 0, 0) : a \in {0, 1}}
  \cup {Set(k, USB_FEATURE_REMOTE_WAKEUP) : k \in {"SetFeature", "ClearFeature"}}
  \cup {Request(k, "out", "endpoint", USB_FEATURE_ENDPOINT_STALL, e, 0) :
          k \in {"SetFeature", "ClearFeature"}, e \in Halted}

Other ==
  /\ step = "done"
  /\ \E r \in Others : Acknowledges(r) /\ device' = Handled(r).device
  /\ UNCHANGED <<fifo, step, size, known, pipes>>

\* A host that asks for a string nobody has named, a language or an index beyond
\* the last: a stall follows whatever is sent, so that it gets nothing.
ReadString ==
  /\ step \in {"header", "done"}
  /\ \E i \in Strings : device' = Handled(GetDescriptor(768 + i, 255)).device
  /\ UNCHANGED <<fifo, step, size, known, pipes>>

Isr_BusReset ==
  /\ device' = [AfterBusReset(device) EXCEPT !.usbAddress = 0]
  /\ fifo' = config_endpoint
  /\ step' = "address" /\ size' = 0 /\ known' = <<>> /\ pipes' = {}

\* The host does not know whether the device has taken its address.
Recover == step = "lost" /\ Isr_BusReset

BusReset == step # "lost" /\ Isr_BusReset

Enumerate == AssignAddress \/ Recover \/ ReadDevice \/ ReadHeader \/ ReadAll \/ Select
EnumNext == Enumerate \/ SelectLost \/ Reselect \/ ReadString \/ Other \/ BusReset

EnumSpec == EnumInit /\ [][EnumNext]_enumVars

\* The host goes on with what it has begun.
EnumFairSpec == EnumSpec /\ WF_enumVars(Enumerate)
-----------------------------------------------------------------------------
(* Properties *)

\* When the host is done it has opened a pipe for each of the endpoints the
\* interface announces.  Those with a FIFO (config_endpoint) are among them with
\* direction and packet size, and are all but two, announced and never enabled:
\* the IN endpoint 1 and the OUT endpoint 2, which no program uses (WritePort1,
\* ReadPort2).  The device has an address and is in the configuration selected.
EnumeratedAgrees ==
  step = "done" =>
    /\ Cardinality(pipes) = known[2].endpoints
    /\ fifo \subseteq pipes
    /\ pipes \ fifo = {<<1, "in", 8>>, <<2, "out", 8>>}
    /\ device.configured = 1 /\ device.configuration = known[1].value
    /\ device.usbAddress # 0

\* However often the bus was reset, once neither the host nor a loss sets it
\* back any more the host gets through once again, also when it has been done
\* before: no alternate setting, halt, address or configuration that the resets
\* have left behind makes a handler refuse a request.
SetBack == BusReset \/ SelectLost \/ Reselect \/ step' = "lost"
EnumerationConcludes == <>[][~SetBack]_enumVars => []<>(step = "done")
=============================================================================
