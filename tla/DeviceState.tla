---------------------------- MODULE DeviceState ----------------------------
(***************************************************************************)
(* The device that the handlers of Chapter9 maintain, seen by a host that  *)
(* enumerates it: one control transfer at a time, in an order the host may *)
(* rely on.  The host keeps its own record of what it was acknowledged,    *)
(* and what the device later reports must agree with it.                   *)
(***************************************************************************)
EXTENDS Chapter9

CONSTANTS
  Requests,       \* requests the host sends
  Functions       \* USB numbers of the endpoints in use, 1 and 2 on the board

\* The form the standard requests have: the handlers meet some requests of
\* another form with silence.
WellFormed(r) ==
  /\ r.kind \in {"ClearFeature", "SetFeature", "SetConfiguration"} => r.length = 0
  /\ r.kind = "SetAddress" => r.value \in 0..127
  /\ r.kind = "GetStatus" => r.value = 0 /\ r.length = 2
  /\ r.kind = "GetConfiguration" => r.value = 0 /\ r.index = 0 /\ r.length = 1
  /\ r.kind = "SetConfiguration" => r.index = 0

ASSUME HostAssumption == /\ \A r \in Requests : r \in RequestType /\ WellFormed(r)
                         /\ Functions \subseteq 1..MAX_ENDPOINTS

VARIABLES
  device,     \* the device record of Chapter9
  request,    \* the last request ...
  reply,      \* ... and the endpoint operations it was answered with
  host        \* what the host was acknowledged since the last bus reset

vars == <<device, request, reply, host>>

\* Halt state of an endpoint the host has not set since the reset.
Unknown == 2

FreshHost == [state |-> "default", address |-> 0, configuration |-> 0,
              wakeup |-> 0, halt |-> [e \in Functions |-> Unknown]]

HostType == [state : {"default", "address", "configured"}, address : 0..127,
             configuration : {0, 1}, wakeup : {0, 1},
             halt : [Functions -> {0, 1, Unknown}]]

TypeOK == /\ device \in DeviceType
          /\ request \in Requests
          /\ reply \in Seq(OperationType)
          /\ host \in HostType

Init == /\ device = PowerOnDevice
        /\ request \in Requests
        /\ reply = << >>
        /\ host = FreshHost

\* What a host keeping to the enumeration order sends: addresses before a
\* configuration is selected, configurations once there is an address, and
\* endpoint halts only for the endpoints of the selected configuration.
Lawful(r) ==
  /\ r.kind = "SetAddress" => \/ host.state = "default" /\ r.value # 0
                              \/ host.state = "address"
  /\ r.kind = "SetConfiguration" => host.state \in {"address", "configured"}
  /\ r.recipient = "endpoint" => host.state = "configured" /\ r.index \in Functions

\* The host's record after r was acknowledged.
Acknowledged(r) ==
  CASE r.kind = "SetAddress"
         -> [host EXCEPT !.state = IF r.value = 0 THEN "default" ELSE "address",
                         !.address = r.value]
    [] r.kind = "SetConfiguration"
         -> [host EXCEPT !.state = IF r.value = 0 THEN "address" ELSE "configured",
                         !.configuration = r.value]
    [] /\ r.kind \in {"SetFeature", "ClearFeature"} /\ r.recipient = "device"
       /\ r.value = USB_FEATURE_REMOTE_WAKEUP
         -> [host EXCEPT !.wakeup = IF r.kind = "SetFeature" THEN 1 ELSE 0]
    [] /\ r.kind \in {"SetFeature", "ClearFeature"} /\ r.recipient = "endpoint"
       /\ r.value = USB_FEATURE_ENDPOINT_STALL
         -> [host EXCEPT !.halt[r.index] = IF r.kind = "SetFeature" THEN 1 ELSE 0]
    [] OTHER -> host

\* One control transfer: the SETUP packet clears the stall of endpoint 0 in
\* the chip, the handler runs, and a stall operation sets it again.
Transfer(r) ==
  LET d == [device EXCEPT !.stalled = @ \ EP0]
      h == Handle(r, d, 0)
  IN /\ Lawful(r)
     /\ request' = r
     /\ reply' = h.ops
     /\ device' = IF Stall \in {h.ops[i] : i \in 1..Len(h.ops)}
                  THEN [h.device EXCEPT !.stalled = @ \cup EP0] ELSE h.device
     /\ host' = IF h.ops = <<Acknowledge>> THEN Acknowledged(r) ELSE host

\* Isr_BusReset.  The chip takes address 0 on a reset; it may or may not drop
\* the stall bits, which the driver leaves alone.
BusReset == /\ \E kept \in {{}, device.stalled} :
                 device' = [AfterBusReset(device) EXCEPT !.stalled = kept,
                                                         !.usbAddress = 0]
            /\ host' = FreshHost
            /\ reply' = << >>
            /\ UNCHANGED request

Next == BusReset \/ \E r \in Requests : Transfer(r)

Spec == Init /\ [][Next]_vars
-----------------------------------------------------------------------------
(* Properties *)

\* The three state bits are exclusive and name the state the host was led to:
\* none of the handlers that set one bit forgets to clear another.
StateBitsAgree ==
  /\ device.default = 1 <=> host.state = "default"
  /\ device.address = 1 <=> host.state = "address"
  /\ device.configured = 1 <=> host.state = "configured"

\* What GET_CONFIGURATION and GET_STATUS report is what the host was last
\* acknowledged, through every sequence of addresses, configurations, features
\* and resets.  (A status byte is 1 plus twice the remote wakeup bit.)
ReportsAgree ==
  reply # << >> /\ reply[1].op = "single" =>
    /\ request.kind = "GetConfiguration" => reply[1].data = host.configuration
    /\ request.kind = "GetStatus" /\ request.recipient = "device"
         => reply[1].data = 1 + 2 * host.wakeup
    /\ request.kind = "GetStatus" /\ request.recipient = "endpoint"
         => host.halt[request.index] \in {reply[1].data, Unknown}

\* Whenever the state bits, the configuration, the wakeup bit, the alternate
\* setting or the stall bit of a function endpoint change, the request was
\* acknowledged, or the bus was reset: what was refused leaves no trace.  There
\* is one exception: SetInterface stalls a request in the wrong direction and
\* sets the alternate setting all the same, and nothing but that (CHAP_9.c:941).
Settings(d) == <<d.default, d.address, d.configured, d.configuration,
                 d.remote_wakeup, d.alt, d.stalled \ EP0>>
StalledYetSet ==
  /\ request'.kind = "SetInterface" /\ request'.dir = "in"
  /\ reply' = <<Stall, Acknowledge>>
  /\ Settings(device)' = Settings([device EXCEPT !.alt = request'.value])
RefusedRequestsHaveNoEffect ==
  [][Settings(device)' # Settings(device)
       => reply' = <<Acknowledge>> \/ StalledYetSet \/ BusReset]_vars

\* No request of a lawful host is met with silence, which would leave it
\* polling until it times out.
NoSilence == [][BusReset \/ reply' # << >>]_vars

\* The device states follow the state machine the host relies on.
USB == INSTANCE UsbDevice WITH
         state <- CASE device.configured = 1 -> "configured"
                    [] device.configured = 0 /\ device.address = 1 -> "address"
                    [] OTHER -> "default",
         address <- device.usbAddress,
         configuration <- device.configuration
RefinesUsbDevice == USB!Spec
=============================================================================
