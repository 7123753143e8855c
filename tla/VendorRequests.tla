--------------------------- MODULE VendorRequests ---------------------------
(***************************************************************************)
(* The vendor requests of the device: EnableIsoMode (ISO.c), the register  *)
(* requests and the DMA set-up (D13BUS.c), and the reserved entries of     *)
(* VendorDeviceRequest.  The data of a control write goes to a buffer of   *)
(* 16 bytes, which keeps what earlier transfers have left there.           *)
(*                                                                         *)
(* The host waits for a quiet device before it sends a SETUP packet, so    *)
(* that Abort stays FALSE and each handler runs undisturbed; ControlPipe   *)
(* has the interleavings.                                                  *)
(***************************************************************************)
EXTENDS Integers

CONSTANT MaxTransfers      \* bound: transfers the host starts

ASSUME TransfersAssumption == MaxTransfers \in Nat

VARIABLES
  DCP_state, DeviceRequest, wLength, wCount,
  dataBuffer,                                \* dataBuffer[i]: the transfer byte i is from
  IsoMode, ISO_state, IsoDisable,            \* ISO.c
  setup_dma, uSize,                          \* D13BUS.c
  inFifo,        \* the packet in the IN FIFO of endpoint 0
  ep06,          \* 1 if the FIFO of endpoint 6 has been validated
  host,          \* the request the host has under way, or NoRequest
  outcome,       \* what the host has seen of it
  transfer,      \* how many it has started
  cut            \* history: 1 if a bus reset has come after the last mode request

device == <<DCP_state, DeviceRequest, wLength, wCount, dataBuffer, IsoMode,
            ISO_state, IsoDisable, setup_dma, uSize, inFifo, ep06>>
vars == <<device, host, outcome, transfer, cut>>
-----------------------------------------------------------------------------
MAX_CONTROLDATA_SIZE == 16
EP0_PACKET_SIZE == 64
MAX_VENDOR_REQUEST == 15
DMA_BUFFER_SIZE == 65536
MAX_USHORT == 65535
USHORT == 0..MAX_USHORT
ISO_FLAGS == {"ISO_IN", "ISO_OUT", "ISO_LOOP"}

Packets == {"empty", "zero length", "one byte"}
Packet(n) == IF n = 0 THEN "zero length" ELSE "one byte"

NoRequest == [req |-> "none"]

\* sel: wIndex and wValue are those the register request is for.
Vendor(req, dir, sel, mode, length) ==
  [req |-> req, dir |-> dir, sel |-> sel, mode |-> mode, length |-> length]

\* One request for every way through the handlers.
IsoRequests == {Vendor(0, d, FALSE, m, n) : d \in {"in", "out"}, m \in SUBSET ISO_FLAGS, n \in {0, 2}}
ReservedRequests == {Vendor(q, d, FALSE, {}, 0) : q \in {1, 2, 15}, d \in {"in", "out"}}
ReadRequests == {Vendor(12, "in", s, {}, n) : s \in BOOLEAN, n \in {0, 1, 2}}
WriteRequests == {Vendor(12, "out", s, {}, n) : s \in BOOLEAN, n \in {0, 1, 6, 16, 17}}
Requests == IsoRequests \cup ReservedRequests \cup ReadRequests \cup WriteRequests

TypeOK ==
  /\ DCP_state \in {"IDLE", "DATAOUT", "REQUESTPROC", "HANDSHAKE", "SETUPPROC", "STALL"}
  /\ DeviceRequest \in Requests \cup {NoRequest}
  /\ wLength \in 0..17 /\ wCount \in 0..MAX_CONTROLDATA_SIZE
  /\ dataBuffer \in [0..MAX_CONTROLDATA_SIZE - 1 -> 0..MaxTransfers]
  /\ IsoMode \subseteq ISO_FLAGS /\ ISO_state \in ISO_FLAGS \cup {"off"}
  /\ IsoDisable \in {0, 1} /\ setup_dma \in {0, 1} /\ uSize \in USHORT
  /\ inFifo \in Packets /\ ep06 \in {0, 1}
  /\ host \in Requests \cup {NoRequest}
  /\ outcome \in {"none", "done", "stalled"} /\ transfer \in 0..MaxTransfers
  /\ cut \in {0, 1}

Init ==
  /\ DCP_state = "IDLE" /\ DeviceRequest = NoRequest /\ wLength = 0 /\ wCount = 0
  /\ dataBuffer = [i \in 0..MAX_CONTROLDATA_SIZE - 1 |-> 0]
  /\ IsoMode = {} /\ ISO_state = "off" /\ IsoDisable = 1
  /\ setup_dma = 0 /\ uSize = 0 /\ inFifo = "empty" /\ ep06 = 0
  /\ host = NoRequest /\ outcome = "none" /\ transfer = 0 /\ cut = 0
-----------------------------------------------------------------------------
(* The SETUP stage *)

TakesData_WrongBound(n) == n <= MAX_CONTROLDATA_SIZE + 1

\* The length of the data of a control write that the buffer has room for.
TakesData(n) == n <= MAX_CONTROLDATA_SIZE

\* An IN request with bRequest 0 and bmRequestType 0xc0 is given the state of
\* one that has been answered.
StateAfterSetup(r) ==
  CASE r.dir = "in" /\ r.req = 0 -> "HANDSHAKE"
    [] r.dir = "in" /\ r.req # 0 -> "REQUESTPROC"
    [] r.dir = "out" /\ r.length = 0 -> "REQUESTPROC"
    [] r.dir = "out" /\ r.length > 0 -> IF TakesData(r.length) THEN "DATAOUT" ELSE "STALL"

SetupToken_Handler ==
  /\ DCP_state = "SETUPPROC"
  /\ DeviceRequest' = host
  /\ wLength' = host.length /\ wCount' = 0
  /\ DCP_state' = StateAfterSetup(host)
  /\ UNCHANGED <<dataBuffer, IsoMode, ISO_state, IsoDisable, setup_dma, uSize, inFifo, ep06,
                 host, outcome, transfer, cut>>

\* Isr_Ep00RxDone in DATAOUT: the limit is the size of a packet, not what the
\* buffer has left.  Bytes past its end are counted but kept out of the model.
DataReceived(packet) ==
  /\ dataBuffer' = [i \in DOMAIN dataBuffer |->
                      IF wCount <= i /\ i < wCount + packet THEN transfer ELSE dataBuffer[i]]
  /\ wCount' = wCount + packet
  /\ DCP_state' = IF packet # EP0_PACKET_SIZE \/ wCount + packet >= wLength
                  THEN "REQUESTPROC" ELSE DCP_state
-----------------------------------------------------------------------------
(* The handlers *)

isoVars == <<IsoMode, ISO_state, IsoDisable, ep06>>
dmaVars == <<setup_dma, uSize>>

\* Chap9_StallEP0, Chap9_SingleTransmitEP0 and D13Bus_SingleTransmitEP0.
StallEP0 == DCP_state' = "STALL" /\ UNCHANGED <<inFifo, wLength, wCount>>
SingleTransmitEP0(n) ==
  /\ inFifo' = Packet(n) /\ wLength' = n /\ wCount' = n /\ DCP_state' = "HANDSHAKE"
Silent == DCP_state' = "IDLE" /\ UNCHANGED <<inFifo, wLength, wCount>>

EnableIsoMode_WrongLoopLast ==
  /\ UNCHANGED dmaVars
  /\ IF wLength = 0
     THEN /\ IsoMode' = DeviceRequest.mode
          /\ ISO_state' = IF "ISO_OUT" \in IsoMode' THEN "ISO_OUT"
                          ELSE IF "ISO_IN" \in IsoMode' THEN "ISO_IN"
                          ELSE IF "ISO_LOOP" \in IsoMode' THEN "ISO_LOOP" ELSE ISO_state
          /\ IsoDisable' = IF IsoMode' = {} THEN IsoDisable ELSE 0
          /\ ep06' = IF "ISO_IN" \in IsoMode' THEN 1 ELSE ep06
          /\ SingleTransmitEP0(0)
     ELSE IsoMode' = {} /\ StallEP0 /\ UNCHANGED <<ISO_state, IsoDisable, ep06>>

EnableIsoMode_WrongOffSilent ==
  /\ UNCHANGED dmaVars
  /\ IF wLength = 0 /\ DeviceRequest.mode # {}
     THEN /\ IsoMode' = DeviceRequest.mode /\ ISO_state' = CHOOSE f \in IsoMode' : TRUE
          /\ IsoDisable' = 0 /\ ep06' = IF "ISO_IN" \in IsoMode' THEN 1 ELSE ep06
          /\ SingleTransmitEP0(0)
     ELSE IsoMode' = {} /\ Silent /\ UNCHANGED <<ISO_state, IsoDisable, ep06>>

\* IsoMode is taken back before the length is looked at.  Loop excludes the
\* other two, IN comes after OUT; a mode that is off leaves ISO_state alone.
EnableIsoMode ==
  /\ UNCHANGED dmaVars
  /\ IF wLength = 0
     THEN /\ IsoMode' = DeviceRequest.mode
          /\ ISO_state' = IF "ISO_LOOP" \in IsoMode' THEN "ISO_LOOP"
                          ELSE IF "ISO_IN" \in IsoMode' THEN "ISO_IN"
                          ELSE IF "ISO_OUT" \in IsoMode' THEN "ISO_OUT" ELSE ISO_state
          /\ IsoDisable' = IF IsoMode' = {} THEN IsoDisable ELSE 0
          /\ ep06' = IF "ISO_IN" \in IsoMode' /\ "ISO_LOOP" \notin IsoMode' THEN 1 ELSE ep06
          /\ SingleTransmitEP0(0)
     ELSE IsoMode' = {} /\ StallEP0 /\ UNCHANGED <<ISO_state, IsoDisable, ep06>>

\* The parameter block is copied over ioRequest; its size is 16 bits wide.
setup_dma_request ==
  /\ uSize' \in {0, MAX_USHORT}
  /\ IF uSize' > DMA_BUFFER_SIZE THEN StallEP0 /\ UNCHANGED setup_dma
     ELSE setup_dma' = 1 /\ Silent

read_write_register_WrongLength ==
  /\ UNCHANGED isoVars
  /\ IF DeviceRequest.dir = "out" /\ DeviceRequest.sel /\ DeviceRequest.length > 0
     THEN setup_dma_request ELSE Silent /\ UNCHANGED dmaVars

\* Reading answers with the firmware version or stalls; writing never answers.
read_write_register ==
  /\ UNCHANGED isoVars
  /\ CASE DeviceRequest.dir = "in" /\ DeviceRequest.sel /\ DeviceRequest.length = 1
            -> SingleTransmitEP0(1) /\ UNCHANGED dmaVars
       [] DeviceRequest.dir = "in" /\ ~(DeviceRequest.sel /\ DeviceRequest.length = 1)
            -> StallEP0 /\ UNCHANGED dmaVars
       [] DeviceRequest.dir = "out" /\ DeviceRequest.sel /\ DeviceRequest.length = 6
            -> setup_dma_request
       [] OTHER -> Silent /\ UNCHANGED dmaVars

\* VendorDeviceRequest: D13Bus_ControlEntry, reserved and what lies beyond the
\* table stall.
DeviceRequest_Handler ==
  /\ DCP_state = "REQUESTPROC"
  /\ CASE DeviceRequest.req = 0 -> EnableIsoMode
       [] DeviceRequest.req = 12 /\ 12 < MAX_VENDOR_REQUEST -> read_write_register
       [] OTHER -> StallEP0 /\ UNCHANGED <<isoVars, dmaVars>>
  /\ cut' = IF DeviceRequest.req = 0 THEN 0 ELSE cut
  /\ UNCHANGED <<DeviceRequest, dataBuffer, host, outcome, transfer>>
-----------------------------------------------------------------------------
(* The host, the chip and the interrupt handlers between them *)

Quiet == DCP_state \notin {"SETUPPROC", "REQUESTPROC"}

\* The host has given up the transfer before, or has seen it end.  A SETUP
\* packet empties the IN FIFO.
HostSetup ==
  /\ Quiet /\ transfer < MaxTransfers
  /\ \E r \in Requests : host' = r
  /\ transfer' = transfer + 1 /\ outcome' = "none"
  /\ inFifo' = "empty" /\ DCP_state' = "SETUPPROC"
  /\ UNCHANGED <<DeviceRequest, wLength, wCount, dataBuffer, isoVars, dmaVars, cut>>

\* The data stage: as much as a packet holds of what is left.
HostOut ==
  /\ DCP_state = "DATAOUT" /\ outcome = "none"
  /\ \E n \in 1..EP0_PACKET_SIZE :
       /\ n = EP0_PACKET_SIZE \/ n = host.length - wCount
       /\ n <= host.length - wCount
       /\ DataReceived(n)
  /\ UNCHANGED <<DeviceRequest, wLength, isoVars, dmaVars, inFifo, host, outcome, transfer, cut>>

\* The host takes the packet and ends the transfer: Isr_Ep00TxDone for a
\* status packet, Isr_Ep00RxDone after data.
HostIn ==
  /\ inFifo # "empty" /\ DCP_state = "HANDSHAKE" /\ outcome = "none"
  /\ inFifo' = "empty" /\ DCP_state' = "IDLE" /\ outcome' = "done"
  /\ UNCHANGED <<DeviceRequest, wLength, wCount, dataBuffer, isoVars, dmaVars, host, transfer, cut>>

HostStalled ==
  /\ DCP_state = "STALL" /\ host # NoRequest /\ outcome = "none"
  /\ outcome' = "stalled"
  /\ UNCHANGED <<device, host, transfer, cut>>

\* bD13flags.value = 0; config_endpoint empties the FIFOs.
connect_USB ==
  /\ DCP_state' = "IDLE" /\ ISO_state' = "off" /\ setup_dma' = 0
  /\ inFifo' = "empty" /\ ep06' = 0

\* Isr_BusReset leaves IsoMode, IsoDisable and the buffer as they are.
HostBusReset ==
  /\ Quiet /\ host # NoRequest
  /\ connect_USB
  /\ host' = NoRequest /\ outcome' = "none" /\ cut' = 1
  /\ UNCHANGED <<DeviceRequest, wLength, wCount, dataBuffer, IsoMode, IsoDisable, uSize, transfer>>

Progress == SetupToken_Handler \/ DeviceRequest_Handler \/ HostOut \/ HostIn \/ HostStalled
Next == Progress \/ HostSetup \/ HostBusReset

Spec == Init /\ [][Next]_vars /\ WF_vars(Progress)
-----------------------------------------------------------------------------
(* Properties *)

\* The bytes setup_dma_request copies have come with this transfer.
OwnBytes == \A k \in 0..5 : dataBuffer[k] = transfer

\* A step that copies a parameter block or promises a transfer, as a reset does
\* not, takes six bytes of its own transfer and none that an earlier one has
\* left in the buffer (D13BUS.c:104).
ParametersOwn ==
  [][uSize' # uSize \/ setup_dma' > setup_dma => OwnBytes]_<<uSize, setup_dma>>

\* The requests that are never answered: the IN request 0, which is taken for
\* answered at once, and every write of a register, also an accepted one.
Unanswered(r) ==
  \/ r.dir = "in" /\ r.req = 0
  \/ r.dir = "out" /\ r.req = 12 /\ r.length <= MAX_CONTROLDATA_SIZE

\* All others are, unless the host gives them up, whatever was given up,
\* refused or left unanswered before.
RequestAnswered ==
  \A t \in 1..MaxTransfers :
    (transfer = t /\ host # NoRequest /\ ~Unanswered(host))
      ~> (outcome # "none" \/ transfer # t \/ host = NoRequest)

\* Whatever sequence of modes was requested and refused, a mode that is on is
\* the one ISO_state names, with loop before IN before OUT, and the transfers
\* are not disabled.  A bus reset takes ISO_state back and leaves the mode on
\* (MAINLOOP.c:311); it takes the next mode request to mend that.
IsoAgrees ==
  IsoMode # {} =>
    /\ IsoDisable = 0
    /\ cut = 1 => ISO_state = "off"
    /\ cut = 0 =>
         /\ ISO_state \in IsoMode
         /\ "ISO_LOOP" \in IsoMode => ISO_state = "ISO_LOOP"
         /\ ISO_state = "ISO_OUT" => IsoMode = {"ISO_OUT"}
=============================================================================
