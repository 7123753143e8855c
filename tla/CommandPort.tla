---------------------------- MODULE CommandPort ----------------------------
(***************************************************************************)
(* The functions of HAL4D13.c and the one command port they share.         *)
(*                                                                         *)
(* Every function writes a command to the command port of the ISP1362 and  *)
(* then moves the words of that command through the data port.  The chip   *)
(* remembers only the last command, so a usb_isr that comes between the    *)
(* command and its words makes them go to another register.  What keeps    *)
(* this from happening is disable and enable of IrqLock, which the handlers*)
(* use unevenly: most of them end their section before they are done.      *)
(*                                                                         *)
(* A context runs a sequence of calls, each of which is a HAL function (one*)
(* command and its words), disable, enable, or a choice the program takes  *)
(* from what it read.  The variables and actions of the lock are those of  *)
(* IrqLock.                                                                *)
(***************************************************************************)
EXTENDS IrqLock, Sequences

CONSTANTS
  FifoWords,      \* bound: words of a packet in an endpoint FIFO
  MaxEndpoint     \* the last endpoint of the chip (14 in the code)

ASSUME PortAssumption == FifoWords \in Nat /\ MaxEndpoint \in Nat

VARIABLES
  port,          \* what the chip has latched: a command, the words since it
  todo,          \* todo[c]: the calls context c has not finished
  pos,           \* pos[c]: command and words of the first of them done so far
  prog,          \* prog[c]: the handler context c is in
  reg,           \* what the configuration registers of the chip hold
  acquired,      \* 1 once usb_isr is registered
  regular,       \* regular[c]: 1 if usb_isr found INT_Enabled = 1
  intact         \* 1 as long as no word went to another command's register

portVars == <<port, todo, pos, prog, reg, acquired, regular, intact>>
-----------------------------------------------------------------------------
(* The functions of HAL4D13.c *)

\* The endpoints as the command set counts them (EPINDEX4EP*), and the chip
\* itself for commands that are not for an endpoint.
EP0OUT == 0
EP0IN == 1
EP01 == 2
EP02 == 3
EP06 == 7
Chip == -1

Code(code, ep) == [code |-> code, ep |-> ep]
Call(do, cmd, words, value) ==
  [do |-> do, cmd |-> cmd, words |-> words, value |-> value]

NoCommand == Code("none", Chip)
Command(code, ep) == <<Call("command", Code(code, ep), 0, "none")>>
Reads(code, ep, words) == <<Call("read", Code(code, ep), words, "none")>>
Writes(code, ep, words, value) == <<Call("write", Code(code, ep), words, value)>>
RaiseIRQL == <<Call("disable", NoCommand, 0, "none")>>
LowerIRQL == <<Call("enable", NoCommand, 0, "none")>>

\* The length word, then the packet.  Despite its name ReadEndpointWOClearBuffer
\* ends with the command to clear the buffer.
ReadEndpoint(ep) == Reads("RD_FIFO", ep, 1 + FifoWords) \o Command("CLEAR_BUF", ep)
ReadEndpointWOClearBuffer(ep) == ReadEndpoint(ep)
WriteEndpoint(ep) ==
  Writes("WR_FIFO", ep, 1 + FifoWords, "packet") \o Command("VALID_BUF", ep)
ClearBuffer(ep) == Command("CLEAR_BUF", ep)
ValidBuffer(ep) == Command("VALID_BUF", ep)
StatusWInteruptClear(ep) == Reads("RDSTS_CLRINT", ep, 1)
StatusWOInteruptClear(ep) == Reads("RDSTS", ep, 1)
LockDevice == Writes("LOCK", Chip, 1, "unlocked")
ReadInterruptRegister == Reads("INT_SRC", Chip, 2)
SetDevConfig(value) == Writes("WR_CNFG", Chip, 1, value)
SetMode(value) == Writes("WR_MODE", Chip, 1, value)
SetIntEnable == Writes("WR_INTEN", Chip, 2, "set")
SetEndpointConfig(ep) == Writes("WR_EPCNFG", ep, 1, "set")
SetEndpointStatus(stalled, ep) == Command(IF stalled THEN "WR_STS" ELSE "CLR_STALL", ep)
StallEP0InControlWrite == SetEndpointStatus(TRUE, EP0IN) \o SetEndpointStatus(TRUE, EP0OUT)
StallEP0InControlRead == SetEndpointStatus(TRUE, EP0OUT) \o SetEndpointStatus(TRUE, EP0IN)
GetAddress == Reads("RD_ADDR", Chip, 1)
SetAddressEnable == Writes("WR_ADDR", Chip, 1, "set")
ReadChipID == Reads("RD_CHIPID", Chip, 1)
ResetDevice == Command("RESET", Chip)

IntEn == Code("WR_INTEN", Chip)
Mode == Code("WR_MODE", Chip)
DevConfig == Code("WR_CNFG", Chip)
Registers == {IntEn, Mode, DevConfig} \cup {Code("WR_EPCNFG", e) : e \in 0..MaxEndpoint + 1}

\* What the registers hold once the device is set up and connected.
Configured ==
  [r \in Registers |-> IF r = Mode THEN "connected"
                       ELSE IF r = DevConfig THEN "powered" ELSE "set"]
-----------------------------------------------------------------------------
(* MAINLOOP.c, CHAP_9.c, D13BUS.c, ISO.c: the calls each handler makes *)

config_endpoint ==
  [e \in 1..MaxEndpoint + 2 |-> Head(SetEndpointConfig(e - 1))]
    \o SetIntEnable \o SetDevConfig("powered")

disconnect_USB == SetDevConfig("off") \o SetMode("disconnected")

connect_USB == RaiseIRQL \o config_endpoint \o LowerIRQL \o SetMode("connected")

reconnect_USB == disconnect_USB \o connect_USB

\* ML_AcknowledgeSETUP returns after the status of an endpoint that was
\* overwritten, and when the transfer is to be aborted.
AcknowledgeSETUP ==
  {StatusWOInteruptClear(EP0OUT),
   StatusWOInteruptClear(EP0OUT) \o Command("ACK_SETUP", Chip) \o ClearBuffer(EP0OUT)}

\* Chap9_StallEP0 and its two variants, Chap9_SingleTransmitEP0,
\* Chap9_BurstTransmitEP0: the chip first, then the state in a section.
StallEP0 == {s \o RaiseIRQL \o LowerIRQL :
               s \in {StallEP0InControlWrite, StallEP0InControlRead}}
TransmitEP0 == WriteEndpoint(EP0IN) \o RaiseIRQL \o LowerIRQL

Answer == {TransmitEP0} \cup StallEP0

\* SetupToken_Handler after it has read the packet: what it does for an IN
\* request or one without data, for an OUT request, for one whose data is too
\* long, and for a packet that is not 8 bytes.
SetupDirect == {RaiseIRQL \o a \o LowerIRQL : a \in AcknowledgeSETUP}
SetupDataOut == {RaiseIRQL \o LowerIRQL \o a : a \in AcknowledgeSETUP}
SetupTooLong == {RaiseIRQL \o a \o StallEP0InControlWrite \o LowerIRQL : a \in AcknowledgeSETUP}
SetupToken_Handler_WrongLate(rest) ==
  RaiseIRQL \o LowerIRQL \o ReadEndpointWOClearBuffer(EP0OUT) \o rest
SetupToken_Handler(rest) ==
  RaiseIRQL \o ReadEndpointWOClearBuffer(EP0OUT) \o LowerIRQL \o rest

\* The handlers that answer at most once, some of them not at all when a field
\* is wrong; for endpoint 0 and, as one of the others, endpoint 1.
GetStatus ==
  {<<>>} \cup Answer \cup {StatusWOInteruptClear(e) \o TransmitEP0 : e \in {EP0OUT, EP01}}
ClearFeature ==
  {<<>>, SetEndpointStatus(FALSE, EP0OUT) \o TransmitEP0,
   SetEndpointStatus(FALSE, EP01) \o SetEndpointStatus(FALSE, EP01) \o TransmitEP0} \cup Answer
SetFeature ==
  {<<>>} \cup Answer \cup {SetEndpointStatus(s, EP01) \o TransmitEP0 : s \in BOOLEAN}
GetConfiguration == {<<>>, TransmitEP0}
SetConfiguration == {<<>>} \cup Answer
GetInterface == Answer

\* Chap9_SetAddress: nothing when the transfer is aborted or the address is 0
\* in the default state, no register when the state is neither.
SetAddress ==
  {RaiseIRQL \o RaiseIRQL \o set \o LowerIRQL \o LowerIRQL \o GetAddress :
     set \in {<<>>, TransmitEP0, SetAddressEnable \o TransmitEP0}}

\* The case of the string descriptors falls through to the stall.
GetDescriptor == Answer \cup {TransmitEP0 \o s : s \in StallEP0}

\* A request of the wrong direction is stalled and then answered.
SetInterface == {s \o a : s \in StallEP0, a \in Answer}

\* EnableIsoMode: loop or OUT close and open a section, IN validates EP06.
EnableIsoMode ==
  {TransmitEP0, RaiseIRQL \o LowerIRQL \o TransmitEP0,
   ValidBuffer(EP06) \o TransmitEP0,
   RaiseIRQL \o LowerIRQL \o ValidBuffer(EP06) \o TransmitEP0}

\* The entry 1 of the vendor table, the reserved ones and what lies beyond it.
ControlEntry == StallEP0

\* Reading a register answers, writing one does not, except that a DMA request
\* may be refused within a section of its own.
setup_dma_request == StallEP0 \cup {RaiseIRQL \o LowerIRQL}
read_write_register ==
  {<<>>} \cup Answer \cup {RaiseIRQL \o r \o LowerIRQL : r \in setup_dma_request}

Named(name, programs) == {[name |-> name, calls |-> p] : p \in programs}

DeviceRequest_Handler ==
  UNION {GetStatus, ClearFeature, SetFeature, GetConfiguration, SetConfiguration, GetInterface,
         GetDescriptor, ControlEntry, read_write_register}

\* What the main loop runs, each in the section of the loop.  The suspend
\* handler touches no register.
MainLoop ==
  Named("SetupToken", {SetupToken_Handler(r) : r \in SetupDirect \cup SetupTooLong \cup StallEP0})
    \cup Named("SetupDataOut", {SetupToken_Handler(r) : r \in SetupDataOut})
    \cup Named("DeviceRequest", DeviceRequest_Handler)
    \cup Named("SetAddress", SetAddress)
    \cup Named("SetInterface", SetInterface)
    \cup Named("EnableIsoMode", EnableIsoMode)
-----------------------------------------------------------------------------
(* ISR.c *)

Isr_BusReset == reconnect_USB \o config_endpoint

Isr_Ep00RxDone ==
  {StatusWInteruptClear(EP0OUT) \o r :
     r \in {<<>>, ReadEndpoint(EP0OUT), StallEP0InControlWrite}}
Isr_Ep00TxDone ==
  {ReadInterruptRegister \o StatusWInteruptClear(EP0IN) \o w :
     w \in {<<>>, WriteEndpoint(EP0IN), StallEP0InControlRead}}
Isr_Ep01Done ==
  StatusWInteruptClear(EP01) \o ReadEndpoint(EP01) \o ReadEndpoint(EP01)
    \o WriteEndpoint(EP02) \o StatusWInteruptClear(EP01)
Isr_Ep02Done == StatusWInteruptClear(EP02)

\* The events whose handlers touch no register: suspend, short packet, end of a
\* DMA transfer, start of a frame.
Isr_Others == <<>>

\* The chain of usb_isr: one of the device events, or the endpoints in order.
\* A resume unlocks the chip.
Events ==
  Named("BusReset", {Isr_BusReset})
    \cup Named("Event", {Isr_Others, LockDevice})
    \cup Named("Endpoints",
               {o \o i \o e : o \in {<<>>} \cup Isr_Ep00RxDone,
                              i \in {<<>>} \cup Isr_Ep00TxDone,
                              e \in {<<>>, Isr_Ep01Done, Isr_Ep02Done, Isr_Ep01Done \o Isr_Ep02Done}})

\* usb_isr up to the point where it knows what has happened.
usb_isr == RaiseIRQL \o LockDevice \o ReadInterruptRegister

Boot_WrongResetLast ==
  RaiseIRQL \o disconnect_USB \o reconnect_USB \o ResetDevice
    \o ReadChipID \o <<Call("acquire", NoCommand, 0, "none")>> \o LowerIRQL

\* main before the loop: the chip is set up before usb_isr is registered.
Boot ==
  RaiseIRQL \o disconnect_USB \o ResetDevice \o reconnect_USB
    \o ReadChipID \o <<Call("acquire", NoCommand, 0, "none")>> \o LowerIRQL
-----------------------------------------------------------------------------
(* The state machine *)

Idle == todo[0] = <<>> /\ pos[0] = 0

PortInit ==
  /\ Init
  /\ port = [cmd |-> NoCommand, words |-> 0]
  /\ todo = [c \in Contexts |-> IF c = 0 THEN Boot ELSE <<>>]
  /\ pos = [c \in Contexts |-> 0]
  /\ prog = [c \in Contexts |-> IF c = 0 THEN "Boot" ELSE "none"]
  /\ reg = [r \in Registers |-> "reset"]
  /\ acquired = 0
  /\ regular = [c \in Contexts |-> 0]
  /\ intact = 1

Busy == todo[level] # <<>>
Current == Head(todo[level])
Finish == /\ todo' = [todo EXCEPT ![level] = Tail(@)]
          /\ pos' = [pos EXCEPT ![level] = 0]

\* disable() and enable() statement by statement; the call is over when the
\* section of the lock is open, or closed.
FinishWhen(over) == IF over THEN Finish ELSE UNCHANGED <<todo, pos>>
Masking ==
  /\ Busy /\ Current.do = "disable"
  /\ Disable \/ Mask \/ FlagOff
  /\ FinishWhen(open' # open)
  /\ UNCHANGED <<port, prog, reg, acquired, regular, intact>>
Unmasking ==
  /\ Busy /\ Current.do = "enable"
  /\ Enable \/ Unmask \/ FlagOn
  /\ FinishWhen(open' # open)
  /\ UNCHANGED <<port, prog, reg, acquired, regular, intact>>

\* USB_DC_CMD_WRITE: the chip forgets the command before.  A reset takes effect
\* at once.
SelectCommand ==
  /\ Busy /\ Current.do \in {"command", "read", "write"} /\ pos[level] = 0
  /\ port' = [cmd |-> Current.cmd, words |-> 0]
  /\ IF Current.words = 0 THEN Finish
     ELSE pos' = [pos EXCEPT ![level] = 1] /\ UNCHANGED todo
  /\ reg' = IF Current.cmd.code = "RESET" THEN [x \in Registers |-> "reset"] ELSE reg
  /\ UNCHANGED vars /\ UNCHANGED <<prog, acquired, regular, intact>>

\* The port is where the call in progress has left it.
OnCourse(c) ==
  port = [cmd |-> Head(todo[c]).cmd, words |-> pos[c] - 1]

\* USB_DC_DATA_READ, USB_DC_DATA_WRITE: a word of whatever command the chip
\* has latched.  A register takes its value with the last word; what it makes
\* of a word that was meant for another command is the chip's affair.
MoveWord ==
  /\ Busy /\ pos[level] > 0
  /\ port' = [port EXCEPT !.words = @ + 1]
  /\ LET last == pos[level] = Current.words
     IN /\ IF last THEN Finish
           ELSE pos' = [pos EXCEPT ![level] = @ + 1] /\ UNCHANGED todo
        /\ IF OnCourse(level)
           THEN /\ reg' = IF last /\ Current.do = "write" /\ Current.cmd \in Registers
                          THEN [reg EXCEPT ![Current.cmd] = Current.value] ELSE reg
                /\ UNCHANGED intact
           ELSE /\ reg' \in IF Current.do = "write" /\ port.cmd \in Registers
                            THEN {reg, [reg EXCEPT ![port.cmd] = "spoiled"]} ELSE {reg}
                /\ intact' = IF Current.do = "write" THEN 0 ELSE intact
  /\ UNCHANGED vars /\ UNCHANGED <<prog, acquired, regular>>

\* Hal4D13_AcquireD13: usb_isr is registered.
AcquireD13 ==
  /\ Busy /\ Current.do = "acquire"
  /\ acquired' = 1
  /\ Finish
  /\ UNCHANGED vars /\ UNCHANGED <<port, prog, reg, regular, intact>>

\* The processor enters usb_isr.
Enter ==
  /\ acquired = 1
  /\ Interrupt
  /\ todo' = [todo EXCEPT ![level'] = usb_isr]
  /\ pos' = [pos EXCEPT ![level'] = 0]
  /\ prog' = [prog EXCEPT ![level'] = "usb_isr"]
  /\ regular' = [regular EXCEPT ![level'] = INT_Enabled]
  /\ UNCHANGED <<port, reg, acquired, intact>>

\* usb_isr has read the interrupt register and goes where it says.
Dispatch ==
  /\ level > 0 /\ ~Busy /\ prog[level] = "usb_isr"
  /\ \E e \in Events :
       /\ todo' = [todo EXCEPT ![level] = e.calls \o LowerIRQL]
       /\ prog' = [prog EXCEPT ![level] = e.name]
  /\ UNCHANGED vars /\ UNCHANGED <<port, pos, reg, acquired, regular, intact>>

Return ==
  /\ level > 0 /\ ~Busy /\ prog[level] # "usb_isr"
  /\ ReturnFromInterrupt
  /\ prog' = [prog EXCEPT ![level] = "none"]
  /\ regular' = [regular EXCEPT ![level] = 0]
  /\ UNCHANGED <<port, todo, pos, reg, acquired, intact>>

\* The main loop has seen a state that one of its handlers is for.
Serve ==
  /\ level = 0 /\ ~Busy
  /\ \E h \in MainLoop :
       /\ todo' = [todo EXCEPT ![0] = RaiseIRQL \o h.calls \o LowerIRQL]
       /\ prog' = [prog EXCEPT ![0] = h.name]
  /\ UNCHANGED vars /\ UNCHANGED <<port, pos, reg, acquired, regular, intact>>

PortNext == \/ Masking \/ Unmasking \/ SelectCommand \/ MoveWord \/ AcquireD13
            \/ Enter \/ Dispatch \/ Return \/ Serve

PortSpec == PortInit /\ [][PortNext]_<<vars, portVars>>
-----------------------------------------------------------------------------
(* Properties *)

\* A command and its words that a section protects go together: whatever
\* interrupts, in whatever window of disable or enable, never comes between
\* them (RaiseIRQL and LowerIRQL of MAINLOOP.c, CHAP_9.c, ISR.c).
SectionsIntact == Busy /\ shut[level] = 1 /\ pos[level] > 0 => OnCourse(level)

\* A usb_isr that found INT_Enabled set is never interrupted itself, although
\* connect_USB calls enable() in the middle of the bus reset: disable() has
\* saved the processor's masked state and enable() restores that.
RegularRunsAlone == \A c \in 1..MaxLevel : c < level => regular[c] = 0

\* The handlers that move words without protection: the acknowledgement of an
\* OUT request, the address SetAddress prints, the second answer of
\* SetInterface, the answer of EnableIsoMode, and a bus reset that came between
\* the two statements of enable().  No other handler loses a word.
StraysKnown ==
  Busy /\ pos[level] > 0 /\ ~OnCourse(level) =>
    prog[level] \in {"SetupDataOut", "SetAddress", "SetInterface", "EnableIsoMode", "BusReset"}

\* The registers hold what config_endpoint, connect_USB and the bus reset give
\* them: whenever the main loop waits, if no word has been written astray, and
\* whatever has gone astray, after a bus reset that usb_isr entered regularly.
\* Not the boot, not a bus reset in a bus reset, not an interrupt at any point
\* leaves them half done.
ChipConfigured ==
  (\/ level = 0 /\ Idle /\ intact = 1
   \/ level > 0 /\ ~Busy /\ prog[level] = "BusReset" /\ regular[level] = 1)
    => reg = Configured
=============================================================================
