---------------------------- MODULE ControlPipe ----------------------------
(***************************************************************************)
(* The default control pipe: the main loop of main.c with                  *)
(* SetupToken_Handler and DeviceRequest_Handler, interrupted by usb_isr,   *)
(* both driving endpoint 0 of the ISP1362, and a host that sends control   *)
(* transfers and bus resets.                                               *)
(*                                                                         *)
(* Interrupts are masked between RaiseIRQL and LowerIRQL, which are        *)
(* disable and enable of usb_irq.c.  These do not nest: the first          *)
(* LowerIRQL of a handler ends the masked section the main loop opened     *)
(* around it.  A stretch of code during which interrupts stay masked is    *)
(* one step, except where the chip may change under it in a way that       *)
(* matters; code that runs with interrupts on is split wherever usb_isr    *)
(* may come between two accesses to what it shares.                        *)
(***************************************************************************)
EXTENDS ControlXfer, Chapter9

CONSTANTS
  Requests,               \* the requests the host chooses from
  MaxSetups,              \* bound: SETUP packets sent in a behaviour
  MaxBusResets,           \* bound: bus resets in a behaviour
  MaxSuspends,            \* bound: suspend events in a behaviour
  MAX_CONTROLDATA_SIZE    \* size of ControlData.dataBuffer, 16

ASSUME PipeAssumption ==
  /\ Requests \subseteq RequestType
  /\ MaxSetups \in Nat /\ MaxBusResets \in Nat /\ MaxSuspends \in Nat
  /\ MAX_CONTROLDATA_SIZE \in Nat
  /\ MAX_CONTROLDATA_SIZE < EP0_PACKET_SIZE

VARIABLES
  mpc,          \* where the main loop is
  ops,          \* endpoint 0 operations its handler has still to perform
  ipc,          \* where usb_isr is, "off" when it is not running
  i_st,         \* its copy of the interrupt register
  INT_Enabled,  \* usb_irq.c: 1 when interrupts are on
  DCP_state,    \* bD13flags.bits.DCP_state
  suspend,      \* bD13flags.bits.suspend
  Abort,        \* ControlData.Abort
  serving,      \* which SETUP is in ControlData.DeviceRequest, 0 for none
  wLength,      \* ControlData.wLength
  wCount,       \* ControlData.wCount
  device,       \* the device record of Chapter9
  outFifo,      \* EP0 OUT FIFO: "empty", "setup" or "data"
  outLen,       \* length of the data packet in it
  inFifo,       \* EP0 IN FIFO: the SETUP its packet answers, 0 when empty
  inLen,        \* length of that packet
  locked,       \* 1 from a SETUP packet until AcknowledgeSETUP
  ovwr,         \* the OVWR bit of the endpoint status
  irqs,         \* the chip's interrupt register
  sent,         \* the requests the host has sent so far
  stage,        \* stage of the transfer the host is in
  got,          \* bytes moved in its data stage
  clean,        \* 1 when its SETUP did not break into other work, see Clean
  resets,       \* bus resets so far
  suspends      \* suspend events so far

mainVars == <<mpc, ops>>
isrVars == <<ipc, i_st>>
driverVars == <<INT_Enabled, DCP_state, suspend, Abort, serving, wLength, wCount>>
outVars == <<outFifo, outLen, locked, ovwr>>
inVars == <<inFifo, inLen>>
hostVars == <<sent, stage, got, clean, resets, suspends>>
vars == <<mpc, ops, ipc, i_st, INT_Enabled, DCP_state, suspend, Abort, serving,
          wLength, wCount, device, outFifo, outLen, inFifo, inLen, locked, ovwr,
          irqs, sent, stage, got, clean, resets, suspends>>

Sources == {"BUSRESET", "SUSPEND", "EP0OUT", "EP0IN"}
MainPoints == {"top", "checkSetup", "setup", "decide", "ackTest", "ack",
               "checkRequest", "request", "respond", "commit"}

TypeOK ==
  /\ mpc \in MainPoints /\ ops \in Seq(OperationType)
  /\ ipc \in {"off", "busReset", "suspend", "ep0Out", "ep0In"}
  /\ i_st \subseteq Sources
  /\ INT_Enabled \in {0, 1} /\ DCP_state \in DCPStates
  /\ suspend \in {0, 1} /\ Abort \in {0, 1}
  /\ serving \in 0..MaxSetups
  /\ wLength \in Nat /\ wCount \in Nat
  /\ device \in DeviceType
  /\ outFifo \in {"empty", "setup", "data"} /\ outLen \in 0..EP0_PACKET_SIZE
  /\ inFifo \in 0..MaxSetups /\ inLen \in 0..EP0_PACKET_SIZE
  /\ locked \in {0, 1} /\ ovwr \in {0, 1}
  /\ irqs \subseteq Sources
  /\ sent \in Seq(Requests) /\ Len(sent) <= MaxSetups
  /\ stage \in {"idle", "dataIn", "dataOut", "statusIn", "statusOut"}
  /\ got \in Nat /\ clean \in {0, 1}
  /\ resets \in 0..MaxBusResets /\ suspends \in 0..MaxSuspends

\* main() has reset and reconnected the device and enabled interrupts.
Init ==
  /\ mpc = "top" /\ ops = << >> /\ ipc = "off" /\ i_st = {}
  /\ INT_Enabled = 1 /\ DCP_state = "IDLE" /\ suspend = 0
  /\ Abort = 0 /\ serving = 0 /\ wLength = 0 /\ wCount = 0
  /\ device = PowerOnDevice
  /\ outFifo = "empty" /\ outLen = 0 /\ inFifo = 0 /\ inLen = 0
  /\ locked = 0 /\ ovwr = 0 /\ irqs = {}
  /\ sent = << >> /\ stage = "idle" /\ got = 0 /\ clean = 1
  /\ resets = 0 /\ suspends = 0
-----------------------------------------------------------------------------
(* Chip operations both sides use *)

\* Hal4D13_WriteEndpoint on control IN.  From the arrival of a SETUP packet to
\* its acknowledgement the chip ignores the validation of the packet.
WriteIn(n) == IF locked = 1 THEN UNCHANGED inVars
              ELSE inFifo' = serving /\ inLen' = n

\* D13CMD_EP_CLEAR_BUF on control OUT, ignored likewise.
ClearOut == IF locked = 1 THEN UNCHANGED <<outFifo, outLen>>
            ELSE outFifo' = "empty" /\ outLen' = 0

\* Hal4D13_StallEP0InControlWrite and Hal4D13_StallEP0InControlRead.
Stalled(d) == [d EXCEPT !.stalled = @ \cup EP0]

-----------------------------------------------------------------------------
(* The main loop.  It makes a step only while usb_isr is not running. *)

Main(from) == mpc = from /\ ipc = "off"

\* main.c:67-73: acknowledge a suspend event (suspend_change only reports it).
Top == /\ Main("top")
       /\ suspend' = 0
       /\ mpc' = "checkSetup"
       /\ UNCHANGED <<ops, isrVars, INT_Enabled, DCP_state, Abort, serving, wLength,
                      wCount, device, outVars, inVars, irqs, hostVars>>

\* main.c:74, with interrupts on: an interrupt may follow before line 76.
CheckSetup ==
  /\ Main("checkSetup")
  /\ mpc' = IF DCP_state = "SETUPPROC" THEN "setup" ELSE "checkRequest"
  /\ UNCHANGED <<ops, isrVars, driverVars, device, outVars, inVars, irqs, hostVars>>

SetupToken_WrongKeepsRequest ==
  /\ Main("setup")
  /\ Abort' = 0
  /\ wLength' = 0 /\ wCount' = 0
  /\ ClearOut
  /\ IF outFifo = "setup"
     THEN /\ serving' = IF Abort = 1 THEN serving ELSE Len(sent)
          /\ mpc' = "decide" /\ UNCHANGED ops
     ELSE ops' = <<Stall>> /\ mpc' = "respond" /\ UNCHANGED serving
  /\ UNCHANGED <<isrVars, INT_Enabled, DCP_state, suspend, device, locked, ovwr,
                 inVars, irqs, hostVars>>

\* main.c:76 and SetupToken_Handler up to its first LowerIRQL: read the packet
\* in the FIFO.  Anything but the 8 bytes of a request is stalled (with
\* interrupts on) by Chap9_StallEP0; data packets of this device are shorter.
SetupToken ==
  /\ Main("setup")
  /\ Abort' = 0
  /\ wLength' = 0 /\ wCount' = 0
  /\ ClearOut
  /\ IF outFifo = "setup"
     THEN serving' = Len(sent) /\ mpc' = "decide" /\ UNCHANGED ops
     ELSE ops' = <<Stall>> /\ mpc' = "respond" /\ UNCHANGED serving
  /\ UNCHANGED <<isrVars, INT_Enabled, DCP_state, suspend, device, locked, ovwr,
                 inVars, irqs, hostVars>>

\* A request whose data the host sends and the driver is ready to take.
TakesData(r) == r.dir = "out" /\ r.length \in 1..MAX_CONTROLDATA_SIZE
TooLong(r) == r.dir = "out" /\ r.length > MAX_CONTROLDATA_SIZE

\* SetupToken_Handler from line 178, which runs with interrupts on and with
\* the state still SETUPPROC, to the test in ML_AcknowledgeSETUP.  Only a
\* request with a data stage from the host changes the state before that,
\* and makes the test with interrupts on.
Decide ==
  /\ Main("decide")
  /\ wLength' = sent[serving].length
  /\ wCount' = 0
  /\ IF TakesData(sent[serving])
     THEN DCP_state' = "DATAOUT" /\ UNCHANGED INT_Enabled
     ELSE INT_Enabled' = 0 /\ UNCHANGED DCP_state
  /\ mpc' = "ackTest"
  /\ UNCHANGED <<ops, isrVars, suspend, Abort, serving, device, outVars, inVars,
                 irqs, hostVars>>

Advance_WrongStaysInSetup ==
  /\ DCP_state' = IF TakesData(sent[serving]) \/ sent[serving].dir = "in"
                  THEN DCP_state
                  ELSE IF TooLong(sent[serving]) THEN "STALL" ELSE "REQUESTPROC"
  /\ device' = IF TooLong(sent[serving]) THEN Stalled(device) ELSE device
  /\ INT_Enabled' = 1
  /\ mpc' = "checkRequest"

\* After ML_AcknowledgeSETUP: hand the request to the main loop, or stall it.
Advance ==
  /\ DCP_state' = IF TakesData(sent[serving]) THEN DCP_state
                  ELSE IF TooLong(sent[serving]) THEN "STALL" ELSE "REQUESTPROC"
  /\ device' = IF TooLong(sent[serving]) THEN Stalled(device) ELSE device
  /\ INT_Enabled' = 1
  /\ mpc' = "checkRequest"

\* ML_AcknowledgeSETUP, the test: no acknowledgement when the status shows
\* that another SETUP packet came (reading it clears the bit) or on Abort.
\* The caller cannot tell, and advances all the same.
AckTest ==
  /\ Main("ackTest")
  /\ ovwr' = 0
  /\ IF ovwr = 1 \/ Abort = 1
     THEN Advance
     ELSE mpc' = "ack" /\ UNCHANGED <<INT_Enabled, DCP_state, device>>
  /\ UNCHANGED <<ops, isrVars, suspend, Abort, serving, wLength, wCount,
                 outFifo, outLen, locked, inVars, irqs, hostVars>>

\* Hal4D13_AcknowledgeSETUP and Hal4D13_ClearBuffer.  A SETUP packet that has
\* come since the test is acknowledged and discarded unread.
AckSetup ==
  /\ Main("ack")
  /\ locked' = 0
  /\ outFifo' = "empty" /\ outLen' = 0
  /\ Advance
  /\ UNCHANGED <<ops, isrVars, suspend, Abort, serving, wLength, wCount, ovwr,
                 inVars, irqs, hostVars>>

\* main.c:80, with interrupts on: an interrupt may follow before line 82.
CheckRequest ==
  /\ Main("checkRequest")
  /\ mpc' = IF DCP_state = "REQUESTPROC" /\ Abort = 0 THEN "request" ELSE "top"
  /\ UNCHANGED <<ops, isrVars, driverVars, device, outVars, inVars, irqs, hostVars>>

\* main.c:82-84: the request handler changes the device and leaves operations
\* on endpoint 0 to do; the first of them is done with interrupts masked.
DeviceRequest ==
  /\ Main("request")
  /\ DCP_state' = "IDLE"
  /\ LET h == Handle(sent[serving], device, Abort)
     IN /\ device' = h.device
        /\ ops' = h.ops
        /\ IF h.ops = << >>
           THEN mpc' = "top" /\ UNCHANGED INT_Enabled
           ELSE mpc' = "respond" /\ INT_Enabled' = 0
  /\ UNCHANGED <<isrVars, suspend, Abort, serving, wLength, wCount, outVars,
                 inVars, irqs, hostVars>>

\* The access to the chip of Chap9_SingleTransmitEP0, Chap9_BurstTransmitEP0
\* or one of the stall functions.
Respond ==
  /\ Main("respond")
  /\ LET o == Head(ops)
     IN CASE o.op = "stall" ->
               /\ device' = Stalled(device)
               /\ UNCHANGED <<wLength, wCount, inVars>>
          [] o.op = "single" ->
               /\ IF o.len <= EP0_PACKET_SIZE THEN WriteIn(o.len)
                  ELSE UNCHANGED inVars
               /\ UNCHANGED <<wLength, wCount, device>>
          [] o.op = "burst" ->
               /\ wCount' = 0
               /\ wLength' = BurstLength(wLength, o.len)
               /\ WriteIn(NextPacket(wLength'))
               /\ UNCHANGED device
  /\ mpc' = "commit"
  /\ UNCHANGED <<ops, isrVars, INT_Enabled, DCP_state, suspend, Abort, serving,
                 outVars, irqs, hostVars>>

\* The RaiseIRQL ... LowerIRQL at the end of the same functions: unless the
\* transfer is to be aborted, account for the packet and move the state on.
\* The LowerIRQL turns interrupts on for all that follows.  (After a bad SETUP
\* packet main.c:80 comes next, but no request is due and it falls through.)
Commit ==
  /\ Main("commit")
  /\ LET o == Head(ops)
     IN IF Abort = 1 THEN UNCHANGED <<DCP_state, wLength, wCount>>
        ELSE CASE o.op = "stall" ->
                    DCP_state' = "STALL" /\ UNCHANGED <<wLength, wCount>>
               [] o.op = "single" ->
                    DCP_state' = "HANDSHAKE" /\ wLength' = o.len /\ wCount' = o.len
               [] o.op = "burst" ->
                    /\ DCP_state' = StateAfterPacket(wLength)
                    /\ wCount' = wCount + NextPacket(wLength)
                    /\ UNCHANGED wLength
  /\ INT_Enabled' = 1
  /\ ops' = Tail(ops)
  /\ mpc' = IF Len(ops) = 1 THEN "top" ELSE "respond"
  /\ UNCHANGED <<isrVars, suspend, Abort, serving, device, outVars, inVars, irqs,
                 hostVars>>

MainStep == \/ Top \/ CheckSetup \/ SetupToken \/ Decide \/ AckTest \/ AckSetup
            \/ CheckRequest \/ DeviceRequest \/ Respond \/ Commit

-----------------------------------------------------------------------------
(* usb_isr *)

\* usb_isr returns: enable() of line 87.
ExitIsr == ipc' = "off" /\ INT_Enabled' = 1

\* Lines 37-83: mask interrupts and read the interrupt register, which clears
\* its bits other than those of the endpoints.  One branch of an else-if chain
\* is taken, and endpoints are looked at only when no other bit is set.
IsrEnter ==
  /\ ipc = "off" /\ INT_Enabled = 1 /\ irqs # {}
  /\ INT_Enabled' = 0
  /\ i_st' = irqs
  /\ irqs' = irqs \ {"BUSRESET", "SUSPEND"}
  /\ ipc' = CASE "BUSRESET" \in irqs -> "busReset"
              [] "BUSRESET" \notin irqs /\ "SUSPEND" \in irqs -> "suspend"
              [] irqs \cap {"BUSRESET", "SUSPEND", "EP0OUT"} = {"EP0OUT"} -> "ep0Out"
              [] OTHER -> "ep0In"
  /\ UNCHANGED <<mainVars, DCP_state, suspend, Abort, serving, wLength, wCount,
                 device, outVars, inVars, hostVars>>

\* Isr_BusReset: connect_USB clears all flags.
Isr_BusReset ==
  /\ ipc = "busReset"
  /\ DCP_state' = "IDLE" /\ suspend' = 0
  /\ device' = AfterBusReset(device)
  /\ ExitIsr
  /\ UNCHANGED <<mainVars, i_st, Abort, serving, wLength, wCount, outVars, inVars,
                 irqs, hostVars>>

Isr_SuspendChange ==
  /\ ipc = "suspend"
  /\ suspend' = 1
  /\ ExitIsr
  /\ UNCHANGED <<mainVars, i_st, DCP_state, Abort, serving, wLength, wCount, device,
                 outVars, inVars, irqs, hostVars>>

\* The branch of Isr_Ep00RxDone for a SETUP packet.
SetupReceived ==
  /\ Abort' = IF DCP_state = "REQUESTPROC" THEN 1 ELSE Abort
  /\ DCP_state' = "SETUPPROC"
  /\ UNCHANGED <<wCount, outFifo, outLen, device>>

\* Its branches for a data packet: take data that is awaited (a full packet
\* leaves more to come), end a handshake, stall what nobody waits for.
DataReceived ==
  /\ CASE DCP_state = "DATAOUT" ->
            /\ wCount' = wCount + outLen
            /\ DCP_state' = IF outLen # EP0_PACKET_SIZE \/ wCount' >= wLength
                            THEN "REQUESTPROC" ELSE "DATAOUT"
            /\ ClearOut
            /\ UNCHANGED device
       [] DCP_state = "HANDSHAKE" ->
            DCP_state' = "IDLE" /\ UNCHANGED <<wCount, outFifo, outLen, device>>
       [] DCP_state = "IDLE" ->
            /\ DCP_state' = "STALL"
            /\ device' = Stalled(device)
            /\ UNCHANGED <<wCount, outFifo, outLen>>
       [] OTHER -> UNCHANGED <<DCP_state, wCount, outFifo, outLen, device>>
  /\ UNCHANGED Abort

Isr_Ep00RxDone_WrongKeepsInterrupt ==
  /\ ipc = "ep0Out"
  /\ ovwr' = 0
  /\ IF outFifo = "setup" THEN SetupReceived ELSE DataReceived
  /\ IF "EP0IN" \in i_st THEN ipc' = "ep0In" /\ UNCHANGED INT_Enabled ELSE ExitIsr
  /\ UNCHANGED <<mainVars, i_st, suspend, serving, wLength, locked, inVars, irqs,
                 hostVars>>

\* Isr_Ep00RxDone: read the status, which clears the interrupt and OVWR.
Isr_Ep00RxDone ==
  /\ ipc = "ep0Out"
  /\ irqs' = irqs \ {"EP0OUT"}
  /\ ovwr' = 0
  /\ IF outFifo = "setup" THEN SetupReceived ELSE DataReceived
  /\ IF "EP0IN" \in i_st THEN ipc' = "ep0In" /\ UNCHANGED INT_Enabled ELSE ExitIsr
  /\ UNCHANGED <<mainVars, i_st, suspend, serving, wLength, locked, inVars, hostVars>>

\* Isr_Ep00TxDone.  Line 200 reads the interrupt register once more and drops
\* what it returns, bus reset and suspend included.
Isr_Ep00TxDone ==
  /\ ipc = "ep0In"
  /\ irqs' = irqs \ {"EP0IN", "BUSRESET", "SUSPEND"}
  /\ IF DCP_state = "DATAIN"
     THEN LET left == wLength - wCount
          IN /\ WriteIn(NextPacket(left))
             /\ wCount' = wCount + NextPacket(left)
             /\ DCP_state' = StateAfterPacket(left)
     ELSE UNCHANGED <<inVars, wCount, DCP_state>>
  /\ ExitIsr
  /\ UNCHANGED <<mainVars, i_st, suspend, Abort, serving, wLength, device, outVars,
                 hostVars>>

IsrStep == \/ IsrEnter \/ Isr_BusReset \/ Isr_SuspendChange
           \/ Isr_Ep00RxDone \/ Isr_Ep00TxDone

-----------------------------------------------------------------------------
(* The host, through the chip.  The chip is not part of this repository: it  *)
(* is modelled from how the driver uses it.                                  *)

\* The device has nothing left to do: no interrupt is pending or in service,
\* and the main loop goes round without finding work.
Quiet == /\ mpc \in {"top", "checkSetup", "checkRequest"} /\ ipc = "off"
         /\ irqs = {}
         /\ DCP_state # "SETUPPROC" /\ (DCP_state = "REQUESTPROC" => Abort = 1)

Current == sent[Len(sent)]

\* The transfer that starts is clean if the device is quiet, or if it follows
\* a clean one the host has seen to its end.  After a request whose handler
\* goes on once it has answered (a string descriptor is followed by a stall)
\* the host must have waited for the device to be quiet.
Clean == \/ Quiet
         \/ /\ stage = "idle" /\ clean = 1
            /\ sent # << >> => TooLong(Current) \/ Len(Handle(Current, device, 0).ops) <= 1

\* A SETUP packet is always accepted: it replaces what is in the OUT FIFO,
\* flushes the IN FIFO and ends a stall.  OVWR records that the one before it
\* had not been acknowledged.
HostSetup(r) ==
  /\ Len(sent) < MaxSetups
  /\ sent' = Append(sent, r)
  /\ stage' = CASE r.length = 0 -> "statusIn"
                [] r.length > 0 /\ r.dir = "in" -> "dataIn"
                [] OTHER -> "dataOut"
  /\ got' = 0
  /\ clean' = IF Clean THEN 1 ELSE 0
  /\ outFifo' = "setup" /\ outLen' = 0
  /\ ovwr' = IF locked = 1 THEN 1 ELSE ovwr
  /\ locked' = 1
  /\ inFifo' = 0 /\ inLen' = 0
  /\ device' = [device EXCEPT !.stalled = @ \ EP0]
  /\ irqs' = irqs \cup {"EP0OUT"}
  /\ UNCHANGED <<mainVars, isrVars, driverVars, resets, suspends>>

EP0Stalled == device.stalled \cap EP0 # {}

\* An IN token: data, until a short packet or the last byte, or the status of
\* a transfer without data to the host.
HostIn ==
  /\ stage \in {"dataIn", "statusIn"}
  /\ ~EP0Stalled /\ inFifo # 0
  /\ inFifo' = 0 /\ inLen' = 0
  /\ IF stage = "dataIn"
     THEN /\ got' = got + inLen
          /\ stage' = IF inLen < EP0_PACKET_SIZE \/ got' >= Current.length
                      THEN "statusOut" ELSE "dataIn"
     ELSE stage' = "idle" /\ UNCHANGED got
  /\ irqs' = irqs \cup {"EP0IN"}
  /\ UNCHANGED <<mainVars, isrVars, driverVars, device, outVars, sent, clean,
                 resets, suspends>>

\* An OUT token with data, or with the zero length packet of a status stage.
\* The chip answers NAK while its FIFO is in use.
HostOut ==
  /\ stage \in {"dataOut", "statusOut"}
  /\ ~EP0Stalled /\ outFifo = "empty" /\ locked = 0
  /\ outFifo' = "data"
  /\ IF stage = "dataOut"
     THEN /\ outLen' = NextPacket(Current.length - got)
          /\ got' = got + outLen'
          /\ stage' = IF got' = Current.length THEN "statusIn" ELSE "dataOut"
     ELSE outLen' = 0 /\ stage' = "idle" /\ UNCHANGED got
  /\ irqs' = irqs \cup {"EP0OUT"}
  /\ UNCHANGED <<mainVars, isrVars, driverVars, device, locked, ovwr, inVars, sent,
                 clean, resets, suspends>>

\* Any token answered by STALL ends the transfer.
HostStalled ==
  /\ stage # "idle" /\ EP0Stalled
  /\ stage' = "idle"
  /\ UNCHANGED <<mainVars, isrVars, driverVars, device, outVars, inVars, irqs, sent,
                 got, clean, resets, suspends>>

HostBusReset ==
  /\ resets < MaxBusResets
  /\ resets' = resets + 1
  /\ stage' = "idle" /\ got' = 0 /\ clean' = 0
  /\ outFifo' = "empty" /\ outLen' = 0 /\ inFifo' = 0 /\ inLen' = 0
  /\ locked' = 0 /\ ovwr' = 0
  /\ device' = [device EXCEPT !.stalled = @ \ EP0, !.usbAddress = 0]
  /\ irqs' = (irqs \ {"EP0OUT", "EP0IN"}) \cup {"BUSRESET"}
  /\ UNCHANGED <<mainVars, isrVars, driverVars, sent, suspends>>

HostSuspend ==
  /\ suspends < MaxSuspends
  /\ suspends' = suspends + 1
  /\ irqs' = irqs \cup {"SUSPEND"}
  /\ UNCHANGED <<mainVars, isrVars, driverVars, device, outVars, inVars, sent, stage,
                 got, clean, resets>>

HostStep == \/ \E r \in Requests : HostSetup(r)
            \/ HostIn \/ HostOut \/ HostStalled \/ HostBusReset \/ HostSuspend

-----------------------------------------------------------------------------
Next == MainStep \/ IsrStep \/ HostStep

Spec == Init /\ [][Next]_vars

\* The processor keeps executing, an interrupt that stays enabled and pending
\* is taken, and a host goes on with the transfer it has started.  Nothing
\* makes the host start one.
Fairness == /\ WF_vars(MainStep)
            /\ WF_vars(IsrStep)
            /\ WF_vars(HostIn) /\ WF_vars(HostOut) /\ WF_vars(HostStalled)

FairSpec == Spec /\ Fairness
-----------------------------------------------------------------------------
(* Properties *)

\* The bytes the handlers have for a request with a data stage to the host.
Available(r) ==
  CASE r.kind = "GetDescriptor" /\ r.value \div 256 = 1 -> DeviceDescrSize
    [] r.kind = "GetDescriptor" /\ r.value \div 256 = 2 -> ConfigDescrSize
    [] r.kind = "GetDescriptor" /\ r.value \div 256 = 3 -> StringDescrSize[r.value % 256]
    [] r.kind = "GetStatus" -> 2
    [] OTHER -> 1

\* A request the driver refuses with a stall, and one it reacts to at all.
Refused(r) == TooLong(r) \/ \E i \in DOMAIN Handle(r, device, 0).ops :
                               Handle(r, device, 0).ops[i] = Stall
Reacts(r) == TooLong(r) \/ Handle(r, device, 0).ops # << >>

\* No transfer is answered with what was prepared for another: a packet in
\* the IN FIFO belongs to the transfer the host is in.  Transfers given up
\* half way, bus resets and interrupted handlers before it must leave
\* nothing behind once the device is quiet.
AnswersCurrent == clean = 1 /\ inFifo # 0 => inFifo = Len(sent)

\* A host that has finished its data stage has all the bytes it can have: the
\* split into packets by two writers, the main loop and usb_isr, loses and
\* repeats none, and an early end is recognised as one.
RightLength ==
  clean = 1 /\ stage = "statusOut" =>
    /\ got <= Current.length /\ got <= Available(Current)
    /\ got \in {Current.length, Available(Current)}

\* Endpoint 0 answers STALL to a clean transfer only if the driver refuses
\* its request: no stall is left over from an earlier transfer, and none
\* comes from an interrupt that finds the state machine elsewhere.
StallsOnlyWhenRefused ==
  clean = 1 /\ stage # "idle" /\ EP0Stalled => Refused(Current)

\* What Isr_Ep00TxDone continues never lies past the end of the data, in
\* whatever order SETUP packets, resets and handlers met.
InBounds == DCP_state \in {"DATAIN", "HANDSHAKE"} => wCount <= wLength

\* A clean transfer with a request the driver reacts to is brought to an end,
\* unless the host itself gives it up.
TransferConcludes ==
  \A n \in 1..MaxSetups :
    (Len(sent) = n /\ stage # "idle" /\ clean = 1 /\ Reacts(Current))
      ~> (stage = "idle" \/ Len(sent) > n)

\* Main loop and interrupts do not keep each other busy: the device becomes
\* quiet again after everything the host does.
Settles == []<>Quiet

\* COMMON.h:104 says of ControlData.Abort: "Indicate this transfer shall be
\* aborted ASAP".  A request that is to be aborted by the time its handler runs
\* changes nothing in the device and is not answered.
AbortedRequestNotExecuted ==
  [][mpc = "request" /\ mpc' # "request" /\ Abort = 1
       => device' = device /\ ops' = << >>]_vars
=============================================================================
