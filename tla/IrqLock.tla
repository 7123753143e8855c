------------------------------ MODULE IrqLock ------------------------------
(***************************************************************************)
(* disable() and enable() of usb_irq.c, which the main loop and usb_isr    *)
(* use (as RaiseIRQL and LowerIRQL) around what they share.  The pair does *)
(* not nest: a second disable() does nothing, and the first enable() turns *)
(* interrupts on for the rest of the enclosing section.  Both contexts use *)
(* the same variables INT_Enabled and status, and an interrupt may come    *)
(* between any two of their statements.                                    *)
(*                                                                         *)
(* Context 0 is the main loop, context n + 1 a run of usb_isr that has     *)
(* interrupted context n.  The processor clears its interrupt enable bit   *)
(* on entry and a return from the interrupt sets it again; this and        *)
(* alt_irq_disable_all/alt_irq_enable_all are not part of the repository.  *)
(***************************************************************************)
EXTENDS Integers

CONSTANTS
  MaxLevel,     \* bound: runs of usb_isr on top of each other
  MaxOpen       \* bound: sections a context has open inside each other

ASSUME LockAssumption == MaxLevel \in Nat /\ MaxOpen \in Nat \ {0}

VARIABLES
  PIE,           \* interrupt enable bit of the processor
  INT_Enabled,   \* usb_irq.c
  status,        \* usb_irq.c: what alt_irq_disable_all returned
  level,         \* the context that is executing
  at,            \* at[c]: where context c is in disable or enable
  open,          \* open[c]: its calls of disable without their enable
  shut,          \* shut[c]: 1 from a disable to the next enable in context c
  begun          \* begun[c]: 1 once it has called disable

vars == <<PIE, INT_Enabled, status, level, at, open, shut, begun>>

Contexts == 0..MaxLevel

TypeOK ==
  /\ PIE \in {0, 1} /\ INT_Enabled \in {0, 1} /\ status \in {0, 1}
  /\ level \in Contexts
  /\ at \in [Contexts -> {"run", "mask", "flagOff", "unmask", "flagOn"}]
  /\ open \in [Contexts -> 0..MaxOpen]
  /\ shut \in [Contexts -> {0, 1}]
  /\ begun \in [Contexts -> {0, 1}]

Init ==
  /\ PIE = 1 /\ INT_Enabled = 1 /\ status = 1
  /\ level = 0
  /\ at = [c \in Contexts |-> "run"]
  /\ open = [c \in Contexts |-> 0]
  /\ shut = [c \in Contexts |-> 0]
  /\ begun = [c \in Contexts |-> 0]

\* disable() has returned: a section is open in which interrupts are masked.
Opened == /\ open' = [open EXCEPT ![level] = @ + 1]
          /\ shut' = [shut EXCEPT ![level] = 1]
          /\ begun' = [begun EXCEPT ![level] = 1]

\* disable(), the test of INT_Enabled; if it is 0 there is nothing to do.
Disable ==
  /\ at[level] = "run" /\ open[level] < MaxOpen
  /\ IF INT_Enabled = 1
     THEN at' = [at EXCEPT ![level] = "mask"] /\ UNCHANGED <<open, shut, begun>>
     ELSE UNCHANGED at /\ Opened
  /\ UNCHANGED <<PIE, INT_Enabled, status, level>>

Mask_WrongLate ==
  /\ at[level] = "mask"
  /\ status' = PIE
  /\ at' = [at EXCEPT ![level] = "flagOff"]
  /\ UNCHANGED <<PIE, INT_Enabled, level, open, shut, begun>>

\* status = alt_irq_disable_all()
Mask ==
  /\ at[level] = "mask"
  /\ status' = PIE /\ PIE' = 0
  /\ at' = [at EXCEPT ![level] = "flagOff"]
  /\ UNCHANGED <<INT_Enabled, level, open, shut, begun>>

FlagOff_WrongKeepsFlag ==
  /\ at[level] = "flagOff"
  /\ at' = [at EXCEPT ![level] = "run"]
  /\ Opened
  /\ UNCHANGED <<PIE, INT_Enabled, status, level>>

\* INT_Enabled = 0
FlagOff ==
  /\ at[level] = "flagOff"
  /\ INT_Enabled' = 0
  /\ at' = [at EXCEPT ![level] = "run"]
  /\ Opened
  /\ UNCHANGED <<PIE, status, level>>

\* enable(), the test of INT_Enabled.  From here on the section is no longer
\* protected, whether or not it was the outermost one.
Enable ==
  /\ at[level] = "run" /\ open[level] > 0
  /\ shut' = [shut EXCEPT ![level] = 0]
  /\ IF INT_Enabled = 0
     THEN at' = [at EXCEPT ![level] = "unmask"] /\ UNCHANGED open
     ELSE open' = [open EXCEPT ![level] = @ - 1] /\ UNCHANGED at
  /\ UNCHANGED <<PIE, INT_Enabled, status, level, begun>>

Unmask_WrongOn ==
  /\ at[level] = "unmask"
  /\ PIE' = 1
  /\ at' = [at EXCEPT ![level] = "flagOn"]
  /\ UNCHANGED <<INT_Enabled, status, level, open, shut, begun>>

\* alt_irq_enable_all(status)
Unmask ==
  /\ at[level] = "unmask"
  /\ PIE' = status
  /\ at' = [at EXCEPT ![level] = "flagOn"]
  /\ UNCHANGED <<INT_Enabled, status, level, open, shut, begun>>

FlagOn_WrongKeepsFlag ==
  /\ at[level] = "flagOn"
  /\ at' = [at EXCEPT ![level] = "run"]
  /\ open' = [open EXCEPT ![level] = @ - 1]
  /\ UNCHANGED <<PIE, INT_Enabled, status, level, shut, begun>>

\* INT_Enabled = 1.  An interrupt may have come since interrupts were unmasked.
FlagOn ==
  /\ at[level] = "flagOn"
  /\ INT_Enabled' = 1
  /\ at' = [at EXCEPT ![level] = "run"]
  /\ open' = [open EXCEPT ![level] = @ - 1]
  /\ UNCHANGED <<PIE, status, level, shut, begun>>

\* The processor enters usb_isr.
Interrupt ==
  /\ PIE = 1 /\ level < MaxLevel
  /\ PIE' = 0
  /\ level' = level + 1
  /\ at' = [at EXCEPT ![level'] = "run"]
  /\ open' = [open EXCEPT ![level'] = 0]
  /\ shut' = [shut EXCEPT ![level'] = 0]
  /\ begun' = [begun EXCEPT ![level'] = 0]
  /\ UNCHANGED <<INT_Enabled, status>>

\* usb_isr returns, after the enable() that ends its section.
ReturnFromInterrupt ==
  /\ level > 0 /\ at[level] = "run" /\ begun[level] = 1 /\ open[level] = 0
  /\ PIE' = 1
  /\ level' = level - 1
  /\ UNCHANGED <<INT_Enabled, status, at, open, shut, begun>>

Next == \/ Disable \/ Mask \/ FlagOff \/ Enable \/ Unmask \/ FlagOn
        \/ Interrupt \/ ReturnFromInterrupt

Spec == Init /\ [][Next]_vars
-----------------------------------------------------------------------------
(* Properties *)

\* Between disable() and the next enable() no usb_isr runs, in the main loop
\* and in usb_isr itself, although a disable() that finds INT_Enabled = 0 masks
\* nothing and an interrupt may find it 0 with interrupts on.
SectionsExclude == \A c \in Contexts : c < level => shut[c] = 0

\* When the main loop has left its section, interrupts are on and INT_Enabled
\* says so: no interleaving with usb_isr, which overwrites status and
\* INT_Enabled, loses the enable and leaves the device deaf.
InterruptsComeBack ==
  level = 0 /\ at[0] = "run" /\ shut[0] = 0 => PIE = 1 /\ INT_Enabled = 1
=============================================================================
