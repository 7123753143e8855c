----------------------------- MODULE TimerDemo ------------------------------
(***************************************************************************)
(* The demo application of the SCARTS board: main.c, timer.c and           *)
(* but_sw_led.c on the timer module and the interrupt controller of the    *)
(* core.                                                                   *)
(*                                                                         *)
(* Each step of the program is an access to a module or a few instructions *)
(* between two of them; the timer and the controller are clocked with every*)
(* step.  A register of a module is the set of the bits that are 1.  The   *)
(* bus takes a 32-bit access at any address: it writes all four bytes of   *)
(* the word as they are, and reads the word with the byte addressed copied *)
(* to the lowest place.  TIMER_CONF_REG is such an access at offset 3.     *)
(***************************************************************************)
EXTENDS Integers

CONSTANT Match          \* ticks of the timer (50000000 in the code)

ASSUME MatchAssumption == Match \in Nat \ {0}

VARIABLES
  pc,            \* where main is
  isr,           \* where isr is, or "none"
  word,          \* bytes 0..3 of the timer: status, custom, config, custom
  match,         \* its match register
  counter,       \* its counter
  handle,        \* timer_handle.baseAddress
  loaded,        \* the word main has read from the timer
  reg,           \* the byte isr has read from it
  registered,    \* 1 once isr is registered
  unmasked,      \* 1 once its line is unmasked
  gie,           \* 1 while interrupts are enabled globally
  line,          \* the interrupt line one clock ago
  pending,       \* the flag of the line in the controller
  taken,         \* interrupts taken, up to 2 (specification only)
  io03, io45,    \* the registers of the LEDs
  pressed,       \* the buttons that are pressed
  keys, keys_old \* the variables of main

timer == <<word, match, counter>>
controller == <<line, pending>>
setup == <<handle, registered, unmasked>>
leds == <<io03, io45>>
buttons == <<pressed, keys, keys_old>>
vars == <<pc, isr, timer, loaded, reg, gie, controller, setup, taken, leds, buttons>>
-----------------------------------------------------------------------------
(* The timer and the controller, external to the program's C code *)

Bits == 0..31
STATUS == 0
CONFIG == 2
CUSTOM == 3
STA_INT == 0
STA_RDY == 1
CONF_INTA == 0
CONF_OUTD == 3
START_TIMER == 0
STOP_TIMER == 1

TIMER_BADDR == "timer"
Null == "null"

\* A clock of the timer whose registers have just been written with w: the
\* acknowledgement of the clock before takes the interrupt back, a running
\* timer that has reached the match value raises it.
Clock(w, m) ==
  LET acknowledged == CONF_INTA \in word[CONFIG]
      running == START_TIMER \in word[CUSTOM]
      reached == running /\ counter = match
      status == {STA_RDY}
                  \cup IF reached \/ (STA_INT \in w[STATUS] /\ ~acknowledged) THEN {STA_INT} ELSE {}
      config == (w[CONFIG] \ IF acknowledged THEN {CONF_INTA} ELSE {}) \cup {CONF_OUTD}
  IN /\ word' = [w EXCEPT ![STATUS] = status, ![CONFIG] = config]
     /\ match' = m
     /\ counter' = IF running THEN (IF reached THEN counter ELSE counter + 1)
                   ELSE IF STOP_TIMER \in word[CUSTOM] THEN 0 ELSE counter

\* The controller keeps a rising edge of the line until it is taken.
Request == STA_INT \in word[STATUS]
Edge_WrongLevel == Request
Edge == Request /\ line = 0
Detect ==
  /\ line' = IF Request THEN 1 ELSE 0
  /\ pending' = IF Edge THEN 1 ELSE pending
Accept == pending = 1 /\ unmasked = 1 /\ gie = 1

\* A clock without an access to the timer.
Tick == Clock(word, match) /\ Detect

\* volatile int at an address that is 3 modulo 4.
LoadWord == [k \in 0..3 |-> IF k = 0 THEN word[3] ELSE word[k]]
Low(w) == w[0]

Init ==
  /\ pc = "boot" /\ isr = "none"
  /\ word = [k \in 0..3 |-> {}] /\ match = 0 /\ counter = 0
  /\ loaded = [k \in 0..3 |-> {}] /\ reg = {}
  /\ handle = Null /\ registered = 0 /\ unmasked = 0 /\ gie = 0
  /\ line = 0 /\ pending = 0 /\ taken = 0
  /\ io03 = {} /\ io45 = {}
  /\ pressed = {} /\ keys = {} /\ keys_old = {}
-----------------------------------------------------------------------------
(* main *)

Main(from, to) == pc = from /\ pc' = to /\ isr = "none" /\ ~Accept
Rest == UNCHANGED <<isr, reg, gie, taken, leds>>

Boot == Main("boot", "register") /\ Tick /\ Rest /\ UNCHANGED <<loaded, setup, buttons>>

\* REGISTER_INTERRUPT, UMASKI, SEI: in this order, and before the timer has a
\* handle.
RegisterInterrupt ==
  /\ Main("register", "unmask") /\ Tick
  /\ registered' = 1
  /\ Rest /\ UNCHANGED <<loaded, handle, unmasked, buttons>>
UnmaskInterrupt ==
  /\ Main("unmask", "enable") /\ Tick
  /\ unmasked' = 1
  /\ Rest /\ UNCHANGED <<loaded, handle, registered, buttons>>
EnableInterrupts ==
  /\ Main("enable", "match") /\ Tick
  /\ gie' = 1
  /\ UNCHANGED <<isr, reg, taken, leds, loaded, setup, buttons>>

\* config_timer: the match value, then the prescaler, which stays 0.
config_timer ==
  \/ /\ Main("match", "prescale")
     /\ Clock(word, Match) /\ Detect
     /\ Rest /\ UNCHANGED <<loaded, setup, buttons>>
  \/ /\ Main("prescale", "handle") /\ Tick
     /\ Rest /\ UNCHANGED <<loaded, setup, buttons>>

timer_initHandle_WrongMissing ==
  Main("handle", "stop") /\ Tick /\ Rest /\ UNCHANGED <<loaded, setup, buttons>>
timer_initHandle ==
  /\ Main("handle", "stop") /\ Tick
  /\ handle' = TIMER_BADDR
  /\ Rest /\ UNCHANGED <<loaded, registered, unmasked, buttons>>

\* start_timer: two assignments to the word, each a load and a store.
Load(from, to) ==
  /\ Main(from, to) /\ Tick
  /\ loaded' = LoadWord
  /\ Rest /\ UNCHANGED <<setup, buttons>>
Store(from, to, value) ==
  /\ Main(from, to)
  /\ Clock(value, match) /\ Detect
  /\ Rest /\ UNCHANGED <<loaded, setup, buttons>>
start_timer ==
  \/ Load("stop", "stopped")
  \/ Store("stopped", "start", [loaded EXCEPT ![0] = Low(loaded) \ {STOP_TIMER}])
  \/ Load("start", "started")
  \/ Store("started", "scan", [loaded EXCEPT ![0] = Low(loaded) \cup {START_TIMER}])
-----------------------------------------------------------------------------
(* The loop of main *)

\* getButtonStatus reads the register once for each button.
getButtonStatus(b, from, to) ==
  /\ Main(from, to) /\ Tick
  /\ keys' = (IF b = 0 THEN {} ELSE keys) \cup (pressed \cap {b})
  /\ Rest /\ UNCHANGED <<loaded, setup, pressed, keys_old>>
Scan ==
  \/ getButtonStatus(0, "scan", "button1")
  \/ getButtonStatus(1, "button1", "button2")
  \/ getButtonStatus(2, "button2", "compare")

\* Every change prints a line for each button that is pressed.
Compare ==
  /\ Main("compare", IF keys # keys_old THEN "print" ELSE "keep") /\ Tick
  /\ Rest /\ UNCHANGED <<loaded, setup, buttons>>
ShowButtons == Main("print", "keep") /\ Tick /\ Rest /\ UNCHANGED <<loaded, setup, buttons>>

\* The switches are read into led_port, which nothing uses.
Keep_WrongOnlyNew ==
  /\ Main("keep", "scan") /\ Tick
  /\ keys_old' = keys_old \cup keys
  /\ Rest /\ UNCHANGED <<loaded, setup, pressed, keys>>
Keep ==
  /\ Main("keep", "scan") /\ Tick
  /\ keys_old' = keys
  /\ Rest /\ UNCHANGED <<loaded, setup, pressed, keys>>
-----------------------------------------------------------------------------
(* isr *)

\* setLeds: the LEDs are the bits from 21 of one register and the bits below 16
\* of the next.  A LED is named by the bit of its mask.
G_LED0 == 18
DATA_IO_0_3(on) == {b + 21 : b \in on} \cap Bits
DATA_IO_4_5(on) == {b - 11 : b \in on} \cap 0..15
Lit == {b - 21 : b \in io03 \cap 21..31} \cup {b + 11 : b \in io45}

\* The processor takes the interrupt at once when the controller offers it.
Enter ==
  /\ isr = "none" /\ Accept
  /\ isr' = "io03" /\ gie' = 0
  /\ taken' = IF taken = 2 THEN 2 ELSE taken + 1
  /\ Clock(word, match)
  /\ line' = (IF Request THEN 1 ELSE 0) /\ pending' = 0
  /\ UNCHANGED <<pc, loaded, reg, setup, leds, buttons>>

Isr(from, to) == isr = from /\ isr' = to /\ UNCHANGED <<pc, loaded, setup, taken, buttons>>

setLeds ==
  \/ Isr("io03", "io45") /\ Tick /\ io03' = DATA_IO_0_3({G_LED0}) /\ UNCHANGED <<io45, reg, gie>>
  \/ Isr("io45", "load") /\ Tick /\ io45' = DATA_IO_4_5({G_LED0}) /\ UNCHANGED <<io03, reg, gie>>

\* timer_irq_ack: a byte of the timer, if the handle is for the timer.
timer_irq_ack_WrongBit ==
  \/ Isr("load", "store") /\ Tick /\ reg' = word[CONFIG] /\ UNCHANGED <<gie, leds>>
  \/ /\ Isr("store", "return") /\ Detect
     /\ Clock([word EXCEPT ![CONFIG] = reg \cup {STOP_TIMER}], match)
     /\ UNCHANGED <<reg, gie, leds>>
timer_irq_ack ==
  \/ /\ Isr("load", "store") /\ Tick
     /\ reg' = IF handle = TIMER_BADDR THEN word[CONFIG] ELSE {}
     /\ UNCHANGED <<gie, leds>>
  \/ /\ Isr("store", "return") /\ Detect
     /\ Clock(IF handle = TIMER_BADDR THEN [word EXCEPT ![CONFIG] = reg \cup {CONF_INTA}] ELSE word, match)
     /\ UNCHANGED <<reg, gie, leds>>

Return == Isr("return", "none") /\ Tick /\ gie' = 1 /\ UNCHANGED <<reg, leds>>

\* Somebody presses or releases a button.
Press ==
  /\ \E b \in 0..2 : pressed' = IF b \in pressed THEN pressed \ {b} ELSE pressed \cup {b}
  /\ UNCHANGED <<pc, isr, timer, loaded, reg, gie, controller, setup, taken, leds, keys, keys_old>>

Processor ==
  \/ Boot \/ RegisterInterrupt \/ UnmaskInterrupt \/ EnableInterrupts
  \/ config_timer \/ timer_initHandle \/ start_timer
  \/ Scan \/ Compare \/ ShowButtons \/ Keep
  \/ Enter \/ setLeds \/ timer_irq_ack \/ Return

Next == Processor \/ Press

\* The processor runs; nobody has to touch a button.
Spec == Init /\ [][Next]_vars /\ WF_vars(Processor)
-----------------------------------------------------------------------------
(* Properties *)

\* Whenever isr returns it has lit its LED, which takes two registers, and
\* acknowledged the timer: although interrupts are enabled before
\* timer_initHandle, nothing raises the line before start_timer.
IsrServes ==
  isr = "return" =>
    /\ Lit = {G_LED0}
    /\ registered = 1 /\ handle = TIMER_BADDR /\ CONF_INTA \in word[CONFIG]

\* The line the program has raised itself is taken back by one acknowledgement,
\* and in time: no interrupt is taken for it again.
OneInterrupt == taken <= 1

\* A request does not stay up for ever.
RequestsEnd == []<>(~Request)

\* A button that is held is seen, and one that is let go is forgotten.
ButtonsSeen ==
  \A b \in 0..2 : /\ <>[](b \in pressed) => <>[](b \in keys_old)
                  /\ <>[](b \notin pressed) => <>[](b \notin keys_old)

\* What timer.h says: bit 0 of TIMER_CONF_REG is the "bit to start inst_timer".
StartTimerStarts == pc = "scan" => START_TIMER \in word[CUSTOM]
=============================================================================
