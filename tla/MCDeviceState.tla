--------------------------- MODULE MCDeviceState ---------------------------
(* Requests for the device state run: each handler with the arguments its  *)
(* branches tell apart, well formed for a host, SetInterface also in the   *)
(* wrong direction.                                                        *)
EXTENDS DeviceState

R(kind, dir, recipient, value, index, length) ==
  [kind |-> kind, dir |-> dir, recipient |-> recipient,
   value |-> value, index |-> index, length |-> length]

MCFunctions == {1, 2}

MCRequests ==
     {R("GetStatus", "in", c, 0, 0, 2) : c \in {"device", "interface", "other"}}
  \cup {R("GetStatus", "in", "endpoint", 0, e, 2) : e \in MCFunctions}
  \cup {R(k, "out", "device", f, 0, 0) : k \in {"SetFeature", "ClearFeature"}, f \in {1, 2}}
  \cup {R(k, "out", "endpoint", f, e, 0) :
          k \in {"SetFeature", "ClearFeature"}, f \in {0, 3}, e \in MCFunctions}
  \cup {R("SetAddress", "out", "device", a, 0, 0) : a \in {0, 5, 9}}
  \cup {R("GetDescriptor", "in", "device", v, 0, 18) : v \in {256, 512, 769, 776, 1024}}
  \cup {R("GetConfiguration", "in", "device", 0, 0, 1)}
  \cup {R("SetConfiguration", "out", "device", c, 0, 0) : c \in {0, 1, 2}}
  \cup {R("GetInterface", "in", "interface", 0, 0, 1)}
  \cup {R("SetInterface", d, "interface", a, 0, 0) : d \in {"in", "out"}, a \in {0, 1, 2}}
  \cup {R("Unsupported", "out", "device", 0, 0, 0)}
MCStringDescrSize == [i \in 0..5 |-> 4 + i]
=============================================================================
