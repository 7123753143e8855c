# Verification of the ISP1362 USB device for the SCARTS/SPARC board

The repository adds a USB device to the SCARTS processor (formerly SPEAR II): a
driver in C for the Philips ISP1362 device controller, a boot loader and a demo
application, a bus bridge and other extension modules in VHDL, the processor
core with its AMBA connection, and vendored IP. The program logic of its own is
in the driver; this directory models and checks the driver as a whole, from the
command port to the requests, and the two other programs of the board.

The driver is in the repository twice: the program for a NIOS processor it was
taken from (`src/DE2_115_NIOS_DEVICE_LED/software/DE2_115_NIOS_DEVICE_LED/`) and
the port (`src/sparc_usb_ISP1362/workspace/hwsw_de2-115/application/ISP1362_driver/`).
The handlers, the main loop, the command layer and the masking are the same in
both, most of them to the line. `CommandPort` and `LedFunction` are mapped to the
NIOS program, the other modules to the port, so that both copies are referred
to; what is shown holds for either. Paths below are relative to the port's
directory (sources in `src/`, headers in `include/`), where nothing else is said.

## The system

| Component | State | Operations | Hard behaviour |
|---|---|---|---|
| Main loop, `main.c`, `MAINLOOP.c` | `bD13flags`, `ControlData`, device state bits | poll the flags; read a SETUP packet; hand a request to its handler | everything it tests is changed by `usb_isr`; most of the SETUP handling runs with interrupts on |
| Interrupt handlers, `ISR.c` | the same variables | bus reset, suspend, EP0 OUT and IN, EP1, EP2 | one branch per interrupt; registers that clear when read; a continuation of what the main loop started |
| Requests, `CHAP_9.c` | device state bits, configuration, remote wakeup, alternate setting, stall bits | 9 standard requests, data and stall responses | the same facts in several variables; silent returns; a missing `break` |
| Interrupt masking, `usb_irq.c` | `INT_Enabled`, `status` | `disable`, `enable` (`RaiseIRQL`, `LowerIRQL`) | does not nest; not atomic; used inside the handler too |
| Command layer, `HAL4D13.c` | one command port and one data port of the chip | a command, then its words; FIFO reads and writes | a command forgets the one before; words go to the command latched last; bytes and words of odd packets |
| Endpoints 1 and 2, `ISR.c:240`, host program `Unit1.cpp` | LED counter, `RESET_BITS` | receive a packet, count, answer on endpoint 2, leave the main loop | double read and double clear; the trace of another handler counts too |
| Descriptors, `CHAP_9.c:52-394` | constant | read by the host piece by piece | lengths and links between them; what they announce against what `config_endpoint` sets up |
| Vendor, DMA, isochronous, `D13BUS.c`, `ISO.c` | `dataBuffer`, `ioRequest`, `IsoMode`, `ISO_state` | `EnableIsoMode`, register read and write, DMA set-up | two variables for one mode; a buffer that keeps old data; requests that are never answered |
| Boot loader, `bootloader/main.c` | line buffer, S-record | read a line, program code or data memory, jump | 8-bit counters over lines of any length |
| Demo application, timer and interrupt controller, `application/src/`, `ext_timer.vhd`, `sysc.vhd` | timer registers, interrupt line, buttons, LEDs | set up, take the interrupt, follow the buttons | an interrupt enabled before its handle is set; word accesses to byte registers; acknowledge against edge detection |
| Bridge, MiniUART, key matrix, ... (VHDL) | register files, state machines | processor reads and writes, one clock edge | pulses that can be missed, unclocked registers |
| AHB master (VHDL) | burst state machine | transfers, wait states, retries | slave answers in any order |

Main loop and handlers share memory and the chip. The host speaks to the chip
only; the chip raises interrupts; `usb_isr` sets `DCP_state` (and on occasion
`Abort`), by which the main loop learns of a SETUP packet; the main loop runs
the request and writes the first packet; `usb_isr` writes those after it.

## Modules

| Module | What it is |
|---|---|
| `ControlXfer` | states of the pipe and the arithmetic of packets, shared by the others |
| `ControlRead` | abstract: what the data stage of a control read promises the host |
| `DataStage` | one control read: `Chap9_BurstTransmitEP0`, `Isr_Ep00TxDone`, `Isr_Ep00RxDone`; implements `ControlRead` |
| `DataStageProofs` | its proofs |
| `Chapter9` | every handler of `CHAP_9.c` as a function of request and device, with the endpoint operations it performs |
| `Chapter9Proofs` | what every handler returns, for all requests and devices |
| `UsbDevice` | abstract: the device states a host relies on |
| `DeviceState`, `MCDeviceState`, `DeviceStateProofs` | a host that enumerates the device and keeps its own record; implements `UsbDevice`; its proofs |
| `ControlPipe` | main loop and `usb_isr` interleaved, with a host that may give up transfers, reset and suspend |
| `ControlService` | abstract: a control transfer as a transaction on the settings of the device |
| `ControlAnswers`, `ControlPipeProofs` | `ControlPipe` with a history variable for the answer decided on; implements `ControlService`; the proofs of both |
| `MCControlPipe`, `MCControlPipeHosts` | the constants of `ControlPipe`, and the two manners of a host that are checked |
| `IrqLock` | `disable()` and `enable()` statement by statement, under nested interrupts |
| `CommandPort`, `CommandPortProofs` | every call sequence of the driver on the command and data port, inside and outside the sections of `IrqLock`, which it implements; the proofs of both |
| `FifoAccess` | the functions that move packets between a buffer and a FIFO, word by word |
| `LedService` | abstract: what the counter behind endpoints 1 and 2 promises |
| `LedFunction` | the handlers of endpoints 1 and 2 with chip, host program and the end of the main loop; implements `LedService` |
| `Enumeration`, `MCEnumeration` | a host that reads and believes the descriptors, on the handlers of `Chapter9` |
| `EndpointProofs` | the proofs of `LedFunction` and `Enumeration` |
| `VendorRequests` | vendor requests, their parameter buffer and the isochronous mode |
| `BufferProofs` | the proofs of `FifoAccess` and `VendorRequests` |
| `SRecordLoader`, `MCSRecordLoader` | the boot loader, for any image of lines that fit its buffer, and the lines of its run |
| `TimerDemo` | the demo application with its timer, the interrupt controller and the data bus |
| `BoardProofs` | the proofs of `TimerDemo` and `SRecordLoader` |

An operator called `X_Wrong...` is what a plausible slip in the code would make
of `X`. No specification uses one; each is there to show that a property fails
when the code is wrong in that way.

### ControlPipe in detail

`mpc` says where the main loop is, `ipc` where the handler is; main loop steps
need `ipc = "off"`. The correspondence:

| Code | Action |
|---|---|
| `main.c:60-73` | `Top` |
| `main.c:74` / `:80` (tests with interrupts on) | `CheckSetup` / `CheckRequest` |
| `main.c:76`, `SetupToken_Handler` to its first `LowerIRQL` | `SetupToken` |
| the rest of it, up to and including the test in `ML_AcknowledgeSETUP` | `Decide`, `AckTest` |
| `Hal4D13_AcknowledgeSETUP`, `Hal4D13_ClearBuffer`, state change | `AckSetup` |
| `main.c:82-84` and the handler up to its first chip access | `DeviceRequest` |
| the chip access and the accounting of `Chap9_...EP0` | `Respond`, `Commit` |
| `usb_isr` to its dispatch, and each handler | `IsrEnter`, `Isr_...` |

Because `disable`/`enable` do not nest, interrupts are on again after the first
`LowerIRQL` of a handler: `INT_Enabled` in the model follows the code there, and
a handler with two operations on endpoint 0 (a string descriptor, a
`SetInterface` in the wrong direction) performs the second one interruptibly.

The chip is external and modelled from how the driver uses it: a SETUP packet
is always accepted, replaces the OUT FIFO, flushes the IN FIFO, ends a stall and
locks both FIFOs until it is acknowledged; `OVWR` records one that came before
the last was acknowledged; reading the interrupt register clears the bus reset
and suspend bits; reading the endpoint status with clear clears the endpoint's
interrupt and `OVWR`.

Simplifications: a data packet is never 8 bytes long, so that it is not taken
for a request; the contents of packets are their transfer and their length;
`disconnect_USB` inside a bus reset is not seen by the host; the interrupt may
come as late as it likes after it is unmasked, which includes every timing the
processor can produce; endpoint interrupts other than endpoint 0 do not occur.

A transfer is *clean* if its SETUP packet was sent to a quiet device (no
interrupt pending, no work for the main loop) or after a clean transfer that
the host had seen to its end. A host that polls endpoint 0 as the USB
specification wants and waits a while before it retries produces only clean
transfers. For those, the answers must be right, whatever happened before. For
the others the code makes no promise, and the run `abort` and the hazards in
`PROJECT.json` show how they go wrong:

* a SETUP packet between `main.c:80` and `:82` is lost and the aborted request
  executed, for all but `SetAddress`, whose handler tests `Abort` once more
  (`CHAP_9.c:714`; run `abort`, with `SetConfiguration`);
* a SETUP packet between the two halves of `ML_AcknowledgeSETUP` is discarded
  unread;
* after a string descriptor the missing `break` at `CHAP_9.c:833` stalls
  endpoint 0, possibly in the next transfer. `Clean` therefore asks a host to
  wait for a quiet device after such a request.

### ControlService in detail

`ControlService` is the pipe as a host program thinks of it: a request, one
execution of it, its answer. `settings` is the device record without the stall
bits of endpoint 0, `answer` what the driver has decided to say: whether data or an
acknowledgement come (`granted`), whether a stall comes (`refused`; after a string
descriptor both), how many bytes, and whether the handler goes on when the host
is done. For an orderly host (`clean`) a transfer is executed exactly once before it
ends, on the settings its predecessors have left, the data stage ends with
`answer.length` bytes, and what stalls is what the answer refuses. Once the host is
out of order its transfers mean nothing, but every change of the settings is still
a whole request it has sent, or a bus reset.

The driver has no variable for the answer; it is spread over the operations not
yet done, `wLength`, `DCP_state`, the FIFO and the stall bits. `ControlAnswers`
adds a history variable that is set when `main.c:84` calls the handler or
`MAINLOOP.c:224` refuses, to the value `Chapter9` has for the request and the
settings then. It restricts no step of `ControlPipe`.

### CommandPort in detail

The ISP1362 has one command port and one data port. A command is written to the
first and its words go through the second, so two contexts that use the chip at
the same time mix their words. Every function of `HAL4D13.c` is an operator that
gives its sequence of calls, every handler of the driver the sequence it makes,
with `disable` and `enable` where the code has them, and the state machine runs
these sequences: one access to a port, or one statement of `disable` or `enable`,
at a time, with `usb_isr` entered wherever the processor allows it, also inside
another `usb_isr`. Branches on data are alternatives.

What is shown: a command in a section keeps its words; the five places that can
lose one are those that use the port after an inner `LowerIRQL` (`MAINLOOP.c:216`,
the address `SetAddress` reads back and prints at `CHAP_9.c:771`, `CHAP_9.c:942-960`, `ISO.c:29-71`) and a bus reset that was let in
between the two statements of `enable()`, and the configuration of the chip is
right whenever the main loop waits, unless a word was written astray, and again
after the next bus reset. The model does not say what the chip makes of such a
word: it may spoil the register, or not.

### The other components

* `LedFunction`: each step of `Isr_Ep01Done` is an access to the chip, and host
  and chip go on between any two. The abstract request is outstanding until the
  counter has changed, and the abstract answer exists from there on. The handler
  clears the interrupt at its start and at its end; a packet sent in between,
  possible only for a host that writes before `usb_isr` has returned, is left in
  the endpoint without an interrupt (`overtaken`). The counter is a bit field the
  trace of `Isr_Ep00RxDone` increments too (`Trace`), and the service says so.
* `FifoAccess`: a byte is named by packet and place; buffers and FIFO start with
  contents that are no byte of any packet, so a byte that was not moved shows.
* `Enumeration`: the host trusts `bLength`, `wTotalLength` and `bNumEndpoints` as
  it received them, through the handlers of `Chapter9`, and may lose an
  acknowledgement, reset, go back and choose again, also after it was done and
  has set alternate settings and halts; `EnumerationConcludes` says that it gets
  to the end again from there. Which addresses it
  assigns, how much it asks for while it does not know the lengths, the strings it
  asks for out of turn and the endpoints it halts are constants.
* `VendorRequests`: each byte of the data buffer is the number of the transfer
  that brought it, so that leftovers show. The host waits for a quiet device
  before it sends a SETUP packet; the interleavings are those of `ControlPipe`.
  A bus reset clears the flags (`connect_USB`: `ISO_state`, `setup_dma`) and leaves
  `IsoMode` on. The history variable `cut` remembers that until the next request
  for a mode, and `IsoAgrees` says what holds before and after.
* `SRecordLoader`: whole lines as the tool chain writes them (`Written`: a line fits
  the buffer of 80 characters, code comes in whole words), in any order, with
  other records between them; bytes are named by record and place. Which lines,
  how many, and the size of both memories are constants.
* `TimerDemo`: every step of the program is one clock of timer and controller at
  least in order; prescaler 0 and a small match value stand for theirs. A word
  access at any address writes the word unshifted and reads the addressed byte
  into the lowest place, as `scarts.vhd:575-660` has it.

## Runs

| Run | Module, config | Shows | Bounds |
|---|---|---|---|
| `data_stage` | `DataStage`, `MCDataStage.cfg` | no stall, termination, implements `ControlRead` and with it exact delivery | packets of 3 bytes, lengths and sizes 0..10: shorter, exact and longer multiples up to four packets |
| `device_state` | `MCDeviceState` | state bits, reports, refused requests, no silence, implements `UsbDevice` | 2 addresses and 0, configurations 0..2, 2 endpoints, all handlers and all their branches for well formed requests, `SetInterface` in both directions |
| `control_pipe` | `MCControlPipeHosts` | answers are current and of the right length, stalls only for refused requests, implements `ControlService`, transfers conclude, the device settles | packets of 2 bytes, descriptors of 1 and 4 bytes, data buffer of 1 byte, three SETUP packets. Polite host: 7 kinds of transfer, a suspend event anywhere. Impatient host: 4 kinds, one of them never answered, given up at any point, one bus reset at any point |
| `abort` | `MCControlPipe`, `_Abort` | violated: `AbortedRequestNotExecuted` | two SETUP packets |
| `command_port` | `CommandPort`, `MCCommandPort.cfg` | sections exclude and keep their words, interrupts come back, strays known, chip configured | two nested `usb_isr` over the main loop, four open sections, one word per packet, endpoints 0 and 1 of the 15 that are configured in a row |
| `led_function` | `LedFunction`, `MCLedFunction.cfg` | implements `LedService`, requests are answered, deaf only when overtaken | a counter of 8 values, error code inside it |
| `enumeration` | `MCEnumeration` | the pipes the host opens against the announcement and the FIFOs of the chip, enumeration concludes after every setback | the descriptors of the device, every configuration index it announces, the lowest and the highest address, first reads of 8, 9, 18 and 64 bytes (less than a header, one descriptor, two, all), strings 0, 3, 5 and 6 out of turn, both endpoints halted |
| `vendor_requests` | `VendorRequests`, `MCVendorRequests.cfg` | parameters stay in the buffer and belong to their request, isochronous mode named by `ISO_state` until a bus reset and from the next mode request on, requests answered | lengths 0, 1, 6, 16 and 17 around the bound of 16, every combination of modes, consecutive transfers given up anywhere |
| `srecord_loader` | `MCSRecordLoader` | every byte at its place, the loader jumps | three records before the last, payloads of 0, 1, 2, 32 and 33 bytes (the longest of a line), overlapping addresses |
| `fifo_access` | `FifoAccess`, `MCFifoAccess.cfg` | packets read and written byte for byte, words fit | two packets, a FIFO of 6 bytes, every size, limit and length |
| `timer_demo` | `TimerDemo`, `MCTimerDemo.cfg` | `isr` serves, one interrupt, requests end, buttons followed | match value 3, three buttons |
| `timer_start` | `TimerDemo`, `MCTimerDemo_Start.cfg` | violated: `StartTimerStarts` | the same |

`CHECK_DEADLOCK FALSE` is set where a system stops: the data stage ends, the
numbers of SETUP packets, transfers and packets are bounded, the main loop ends
after `RESET_BITS`, the loader jumps.

The bounds are enough because a transfer interacts only with the one before it
(one `DeviceRequest`, one FIFO per direction, one `Abort` flag), which three SETUP
packets exhaust; the arithmetic of packets distinguishes only less than, exactly
and more than a packet; a third `usb_isr` on top finds the lock as the second
found it. The theorems remove the bounds from every safety property.

### Fairness

`ControlPipe!Fairness`: the main loop keeps executing (it is the only program),
`usb_isr` is entered when an interrupt stays pending and enabled and then runs
to its end, and a host goes on with a transfer it has started (it polls). All
are weak. Nothing obliges the host to start a transfer, to give one up, to reset
or to suspend. `DataStage!Fairness` is the same for one transfer.
`LedFunction!FairSpec`: `usb_isr` is entered and runs, the main loop looks at
`RESET_BITS`, and the host polls endpoint 2; it need not send, and the trace of
the control pipe need not occur. `VendorRequests`: driver and host go on with a
transfer that is under way (`Progress`). `Enumeration`: the host goes on with its
sequence; the property speaks of runs in which it is set back only finitely
often. `SRecordLoader`: the sender sends its file and the program runs.
`TimerDemo`: the processor runs; nobody has to press a button.

### Findings

`abort`: `COMMON.h:104` describes `ControlData.Abort` as "Indicate this transfer
shall be aborted ASAP". TLC finds the interleaving in which the main loop has
passed the test at `main.c:80`, `usb_isr` sets `Abort` and `SETUPPROC`, line 83
overwrites `SETUPPROC`, so that the new SETUP packet is not looked at, and line 84
executes the aborted request: a `SetConfiguration`, which configures the device.
`SetAddress` alone would have been stopped, by its own test at `CHAP_9.c:714`.
Masking before the test of line 80 would remove it.

`timer_start`: `timer.h:16` describes `START_TIMER` as "bit to start inst_timer".
`TIMER_CONF_REG` is a `volatile int` at offset 3 of the timer. The bus reads the
byte at offset 3 into the lowest place of the word and writes the word unshifted,
so `start_timer` sets bit 0 of byte 0, the interrupt bit of the status register,
and never bit 0 of byte 3. The timer does not start; the interrupt the demo shows
on its LED is the one the program raised itself. A byte access would remove it.

Met while modelling, and without a run of their own:

* The host program takes an answer of 0xcc for an error (`Unit1.cpp:33`), and the
  counter reaches 0xcc by counting (`ISR.c:250`).
* The host program calls request 0x99 "Reconnect USB" (`Unit1.cpp:65`); the device
  disconnects and leaves its main loop for good (`main.c:62-66`).
* `CHAP_9.c:90` announces four endpoints beside the comment "uses 2 endpoints";
  `config_endpoint` has FIFOs for EP01 OUT and EP02 IN only. `EnumeratedAgrees`
  says that these are among the four pipes the host opens, and names the two
  others, EP01 IN and EP02 OUT, as the only ones without a FIFO.
* `SetInterface` with direction IN is stalled and carried out (`CHAP_9.c:941-960`):
  `StalledYetSet` names it as the exception of `RefusedRequestsHaveNoEffect`.
* A bus reset clears `ISO_state` and not `IsoMode` (`MAINLOOP.c:311`): a mode is on
  and not named until the next request for a mode (`cut` in `IsoAgrees`).
* Every string index of the descriptors is 0, so a host that follows them never
  asks for a string and does not meet the missing `break` at `CHAP_9.c:833`.
* Writing a vendor register is never answered (`D13BUS.c:90-99`), nor is the IN
  request 0 (`MAINLOOP.c:186`); `Unanswered` in `VendorRequests` names them.
* `WriteEndpoint` writes a word more than an odd packet has; `FifoFits` names the
  one length for which that is a word more than the FIFO has.

## Proofs

Every safety property a passing run checks, and every refinement, is also a
theorem, for every value of the constants. Assumptions are the named `ASSUME`s
of the modules (positive packet size, natural bounds, well formed requests and
lines); TLC evaluates them in the runs. Two theorems of `ControlPipeProofs` have a
hypothesis on the host's requests besides, see there. The proofs do not use the
bounds of `ControlPipe`, `CommandPort` and `SRecordLoader` other than as types.

* `DataStageProofs`: the inductive invariant `IInv` adds to the checked
  properties that before the handler has run nothing has moved
  (`BeforeHandler`), that afterwards `wLength` is what is due and `wCount` is a
  whole number of full packets unless the stage is over (`AfterHandler`), and
  that an IN interrupt means an empty FIFO. From it: types, conservation, exact
  delivery, progress of the data stage, absence of stalls, and that every step
  is a step of `ControlRead` or a stutter, for every packet size, request and
  descriptor length.

* `Chapter9Proofs`: `HandleReply` says of `DeviceRequest_Handler`, for every
  request and every device state, that the device stays well typed and that
  only the first operation on endpoint 0 can start a data stage.

* `DeviceStateProofs`: `HostInv` joins the types and `StateBitsAgree` with
  `RecordAgrees`, which relates what the host was acknowledged (address,
  configuration, halted endpoints, remote wakeup) to the bits and bytes the driver
  and the chip keep it in. `GoodStep` collects what one
  request may do (it refuses and changes nothing, or it answers and both records
  change alike, or it is `StalledYetSet`); a lemma shows it of each handler, and `GoodAnswer` that what is
  sent is what the host expects. From it `ReportsAgree`, `NoSilence`,
  `RefusedRequestsHaveNoEffect` and the refinement of `UsbDevice`, for every set of
  well formed requests.

* `ControlPipeProofs` has five parts.
  1. Types and `InBounds`. `InBounds` alone is not inductive: the packet written by
     `Chap9_BurstTransmitEP0` is accounted for in a later step, where an interrupt
     in between could have moved `wCount`. `BurstMasked` says that interrupts are
     off from the choice of a descriptor to that accounting, although
     `disable`/`enable` do not nest; it rests on `Operating` (a burst is always the
     first operation of a handler, before any `LowerIRQL`; from `HandleReply`).
     `Served` says that `DeviceRequest` holds a request whenever it is used, `Sent`
     the same of the host's data.
  2. `CleanInv`: a clean transfer is in one of five phases, whatever the transfers
     before it left behind: *unheard* (the SETUP packet is in the FIFO and its
     interrupt pending; what is left of the transfer before cannot stall this one,
     and a request of it that was not executed is marked `Abort`), *heard* (`usb_isr`
     has set `SETUPPROC` and the main loop is on its way to it), *read* (`ControlData`
     holds the request, which is not yet acknowledged), *ready* (acknowledged; its
     data are awaited, have come, or it waits for `DeviceRequest_Handler`, with
     nothing in the IN FIFO and no `Abort`), *answered* (the handler was called, or
     the request refused unseen). From it `AnswersCurrent`, and
     `CleanRequestsExecuted`: the request of a clean transfer is executed as it was
     sent; what run `abort` finds happens to the others only.
  3. `StallsKnown`: whatever may stall endpoint 0 from now on (an operation not yet
     performed, a halt already noted, a stall the host has seen) is one the
     request justifies. `StallsExplained` follows with no hypothesis: a clean
     transfer is stalled if it is refused or if it is itself a `SetFeature` that
     halts an endpoint. The second is real: `CHAP_9.c` may halt endpoint 0, and in
     the address state halts it whatever endpoint the request names. A host
     that sends none (`NoHalts`, as in the runs) has `StallsOnlyWhenRefused`.
  4. `DataKnown`: how far the data stage of a clean read has come, told from each
     of its places (the packet in the FIFO, `wCount` of the handler's
     continuation, the operation chosen but not performed, the one performed but
     not accounted for). It holds of every host: what the host gets is `Due`, the
     bytes the driver sends for the request. They are the bytes the host can
     have, which is `RightLength`, for hosts that read only what can be read and
     at least two bytes of a status (`WellAsked`, as in the runs): the driver
     sends both bytes of a status whatever the length asked for.
  5. The refinement of `ControlService`, for every host. `AnswerKnown` says that there
     is no answer while the request of a clean transfer is on its way to its
     handler, and that afterwards whatever is in the pipe, or will be by an
     operation still to be done, is `Promised` by the answer. `Handable` says of all
     transfers that a request with more data than the buffer holds does not get to
     its handler (`LongRequestsRefused`), without which the answer of the service
     would not be that of `CHAP_9.c`. A group of lemmas says that the handlers look
     at and change the settings only, whatever endpoint 0 is stalled for, so that
     executing on the settings and executing on the device agree. On top of these
     and of parts 1 to 4, each action is shown to be one step of the service or a
     stutter (`..._Serves`), and `ControlRefinement` follows.

* `CommandPortProofs` has four parts, each for every depth of nesting, number of
  endpoints and packet length.
  1. The lock. `ExclusionInv` says that whoever believes `INT_Enabled = 0` runs with
     interrupts off and that a handler about to return has left the flag at 1;
     `MainInv` that `status` holds "on" whenever the main loop is about to use it.
     From them: sections exclude handlers, and interrupts come back.
  2. The port. `LockIsUsed`: every run of the command port is a run of `IrqLock`,
     whose invariant therefore holds. On top of it `CourseInv`: the context that
     executes is where the port is whenever it is in a section that is shut,
     because what it was interrupted by would have needed interrupts on;
     `RegularInv`: a handler that found `INT_Enabled = 1` has saved a masked state,
     so that the `enable()` inside `connect_USB` gives back a masked state.
  3. The words that go astray. `Protected` is a property of programs: every call
     with words lies between a `disable()` and the next `enable()`. It is shown of
     every sequence of the driver but the five `StraysKnown` names and the start-up
     sequence, which has registered no `usb_isr` yet when it moves words
     (`BootAlone`), and kept as a program is executed (`InSections`); so only those
     five can meet another command.
  4. The configuration. `Mends` is another property of programs: every register
     is set by it, and set again after any call that can spoil it. It is shown of
     the bus reset and the start-up sequence piece by piece. `ConfigInv` says that
     a register that is not as configured is still owed by a program on the stack,
     unless a word went astray, and by the bus reset itself if that is regular.

* `EndpointProofs`: of `LedFunction`, an invariant that relates the place of the
  handler, the interrupt bit and the FIFO (a packet in the endpoint has its
  interrupt, or the handler is still before its last read, or it has been
  overtaken). From it `DeafOnlyWhenOvertaken` and, step by step, the refinement of
  `LedService`, for every range of the counter and every error code. Of
  `Enumeration`, `EInv`: whatever the host has read is a prefix of the configuration
  (`ReceivedPrefix`: no number of bytes makes it see half a descriptor or one out of
  place), from the first header on it knows the total length, so that the next
  read is whole; `AddressHeld`: the device is in the default state whenever the host
  gives it an address, and keeps the address through everything the host does
  afterwards. The last needs what each handler does to the device (`OthersKeep`,
  `ConfigurationSelected`, `HandleReply` for the types). From it
  `EnumeratedAgrees`, for every set of addresses, lengths, strings and endpoints.

* `BufferProofs`: of `VendorRequests`, that the fill of the buffer stays below the
  announced length, which is at most 16, and what lies below the fill is of the
  present transfer; so the parameters are a request's own. That `ISO_state` names the
  isochronous mode, but for the time from a bus reset to the next mode request
  (`cut`), is inductive with the types. Of `FifoAccess`, that what was read
  (written) so far is the first part of the packet, and the rest untouched; in
  steps of two bytes with an odd end. For every FIFO size and number of packets.

* `BoardProofs`: of `TimerDemo`, `ServiceInv`. The timer never runs (`NeverRuns`), so
  the one interrupt is the one the program raised, and `SetUp` and `OneRequest` say
  through which phases it goes, from its request to its acknowledgement; `LedsSet`
  says what `isr` has lit by then. From it `IsrServes` and `OneInterrupt`. Of
  `SRecordLoader`, `LoadInv`: `DataLoaded` and `CodeLoaded` say how much of the present
  line has been copied, byte by byte and word by word, that everything else in
  the memories is of the last line before it that covers the place (`LastOnes`:
  there is one), and that no 8-bit counter has wrapped, which holds for a line
  that fits the buffer. From it `LoadedRight`, for
  images of every length.

TLC finds the inductive invariants to hold on the constants of the runs, too.

Only model-checked is everything under fairness (`TransferFinishes`,
`TransferConcludes`, `Settles`, `EveryRequestAnswered`, `EnumerationConcludes`,
`RequestAnswered`, `LoaderJumps`, `RequestsEnd`, `ButtonsSeen`): the proof system does
not reason about `ENABLED`.

## Not modelled, and the plan

What could come next, in this order: the bridge `ext_ISP1362.vhd` (its registers
are only partly clocked and its interrupt flag is a pulse; both are hazards in
`PROJECT.json` without a property), the key matrix with its debouncer, the
MiniUART, the AHB master against a slave that waits and retries.

Left out for good: display and debug output, the isochronous and DMA transfers
(their interrupts are never enabled; `ISR.c:287-321` is not reached), functions
nothing calls (`stop_timer`, `LockDevice`, the isochronous FIFO functions), the
instruction pipeline of the SCARTS core, vendored and generated IP (GRLIB's
configuration headers are a fifth of the C and C++ lines of the repository), the
texts of string descriptors, S-records cut off on the way.
