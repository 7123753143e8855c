--------------------------- MODULE MCControlPipe ---------------------------
(* Values of the constants of ControlPipe.  Endpoint 0 packets carry two    *)
(* bytes, the data buffer holds one, and the descriptors are an exact       *)
(* multiple of the packet size, more than one packet, and a single packet.  *)
EXTENDS ControlPipe

R(kind, dir, recipient, value, index, length) ==
  [kind |-> kind, dir |-> dir, recipient |-> recipient,
   value |-> value, index |-> index, length |-> length]

MCStringDescrSize == [i \in 0..5 |-> 1]

GetConfig == R("GetDescriptor", "in", "device", 512, 0, 5)     \* 4 bytes of 5
GetConfigExact == R("GetDescriptor", "in", "device", 512, 0, 4)
GetString == R("GetDescriptor", "in", "device", 769, 0, 4)     \* stalled after 1
GetInterface == R("GetInterface", "in", "interface", 0, 0, 1)
SetAddress5 == R("SetAddress", "out", "device", 5, 0, 0)
WriteByte == R("Unsupported", "out", "device", 0, 0, 1)        \* data, then a stall
WriteLong == R("Unsupported", "out", "device", 0, 0, 3)        \* too long
BadGetStatus == R("GetStatus", "in", "device", 1, 0, 2)        \* never answered

\* A request that changes the device, with a handler that does not test Abort.
Configure == {R("SetConfiguration", "out", "device", 1, 0, 0)}
=============================================================================
