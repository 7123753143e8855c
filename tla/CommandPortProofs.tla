------------------------- MODULE CommandPortProofs -------------------------
(***************************************************************************)
(* Proofs about usb_irq.c for any nesting of interrupts and sections, then *)
(* about the command port for any packet size and number of endpoints.     *)
(*                                                                         *)
(* That a section keeps its words together holds for any programs of the   *)
(* handlers: it rests on the lock alone.  Which handlers lose a word, and  *)
(* that the registers come out complete, depends on the programs, of which *)
(* two things are used: in a protected program every call with words lies  *)
(* between a disable() and the next enable() (Kept), and a program that    *)
(* leaves the chip configured sets every register after it spoiled it      *)
(* (Mends).  Both are kept by putting programs one after the other, so they*)
(* are shown of the handlers piece by piece, and by taking a call away, so *)
(* they hold of what is left of a program at any time.                     *)
(***************************************************************************)
EXTENDS CommandPort, SequenceTheorems, TLAPS

\* Inside a disable() there is room for its section, inside an enable() there
\* is one to close.
OpenBounds == \A c \in Contexts :
                /\ at[c] \in {"mask", "flagOff"} => open[c] < MaxOpen
                /\ at[c] \in {"unmask", "flagOn"} => open[c] > 0

TypeInv == TypeOK /\ OpenBounds

\* INT_Enabled = 0 is believed by the next disable(): then interrupts are off.
FlagIsMasked == at[level] = "run" /\ INT_Enabled = 0 => PIE = 0

\* A protected section, or a disable() past its mask, runs with interrupts off.
ShutIsMasked == shut[level] = 1 \/ at[level] = "flagOff" => PIE = 0

\* The enable() that opens the mask has ended the section.
OpeningIsNotShut == at[level] \in {"unmask", "flagOn"} => shut[level] = 0

\* A context can be interrupted only where interrupts may be on.
InterruptedOpen == \A c \in Contexts : c < level => shut[c] = 0 /\ at[c] # "flagOff"

\* A usb_isr about to return leaves INT_Enabled = 1.
ReturnsEnabled ==
  at[level] = "run" /\ begun[level] = 1 /\ open[level] = 0 => INT_Enabled = 1

ExclusionInv == /\ FlagIsMasked /\ ShutIsMasked /\ OpeningIsNotShut
                /\ InterruptedOpen /\ ReturnsEnabled

\* When the main loop itself runs, the three variables are a function of where
\* it is; `status` holds "on" from the mask to the unmask.
MainInv ==
  /\ level > 0 => at[0] # "unmask"
  /\ level = 0 =>
       /\ at[0] = "run" /\ shut[0] = 0 => PIE = 1 /\ INT_Enabled = 1
       /\ at[0] = "run" /\ shut[0] = 1 => INT_Enabled = 0 /\ status = 1
       /\ at[0] = "mask" => PIE = 1 /\ INT_Enabled = 1 /\ shut[0] = 0
       /\ at[0] \in {"flagOff", "unmask"} => status = 1 /\ PIE = 0
       /\ at[0] = "flagOn" => PIE = 1

IInv == TypeInv /\ ExclusionInv /\ MainInv
-----------------------------------------------------------------------------
LEMMA InitIInv == Init => IInv
  BY LockAssumption DEF Init, IInv, TypeInv, OpenBounds, ExclusionInv, MainInv,
     TypeOK, Contexts, FlagIsMasked, ShutIsMasked, OpeningIsNotShut,
     InterruptedOpen, ReturnsEnabled

LEMMA TypeStep == TypeInv /\ [Next]_vars => TypeInv'
<1> SUFFICES ASSUME TypeInv, [Next]_vars PROVE TypeInv'
  OBVIOUS
<1> USE LockAssumption DEF TypeInv, TypeOK, OpenBounds, Contexts
<1>1. CASE Disable
  <2>1. open[level] < MaxOpen => open[level] + 1 \in 0..MaxOpen
    OBVIOUS
  <2> QED
    BY <1>1, <2>1 DEF Disable, Opened
<1>2. CASE Mask
  BY <1>2 DEF Mask
<1>3. CASE FlagOff
  BY <1>3 DEF FlagOff, Opened
<1>4. CASE Enable
  <2>1. open[level] > 0 => open[level] - 1 \in 0..MaxOpen
    OBVIOUS
  <2>2. CASE INT_Enabled = 0
    BY <1>4, <2>2 DEF Enable
  <2>3. CASE INT_Enabled # 0
    BY <1>4, <2>1, <2>3 DEF Enable
  <2> QED
    BY <2>2, <2>3
<1>5. CASE Unmask
  BY <1>5 DEF Unmask
<1>6. CASE FlagOn
  BY <1>6 DEF FlagOn
<1>7. CASE Interrupt
  BY <1>7 DEF Interrupt
<1>8. CASE ReturnFromInterrupt
  BY <1>8 DEF ReturnFromInterrupt
<1>9. CASE UNCHANGED vars
  BY <1>9 DEF vars
<1> QED
  BY <1>1, <1>2, <1>3, <1>4, <1>5, <1>6, <1>7, <1>8, <1>9 DEF Next

LEMMA ExclusionStep == TypeInv /\ ExclusionInv /\ [Next]_vars => ExclusionInv'
<1> SUFFICES ASSUME TypeInv, ExclusionInv, [Next]_vars PROVE ExclusionInv'
  OBVIOUS
<1> USE LockAssumption DEF TypeInv, TypeOK, OpenBounds, Contexts, ExclusionInv,
        FlagIsMasked, ShutIsMasked, OpeningIsNotShut, InterruptedOpen, ReturnsEnabled
<1>1. CASE Disable
  BY <1>1 DEF Disable, Opened
<1>2. CASE Mask
  BY <1>2 DEF Mask
<1>3. CASE FlagOff
  BY <1>3 DEF FlagOff, Opened
<1>4. CASE Enable
  BY <1>4 DEF Enable
<1>5. CASE Unmask
  BY <1>5 DEF Unmask
<1>6. CASE FlagOn
  BY <1>6 DEF FlagOn
<1>7. CASE Interrupt
  BY <1>7 DEF Interrupt
<1>8. CASE ReturnFromInterrupt
  BY <1>8 DEF ReturnFromInterrupt
<1>9. CASE UNCHANGED vars
  BY <1>9 DEF vars
<1> QED
  BY <1>1, <1>2, <1>3, <1>4, <1>5, <1>6, <1>7, <1>8, <1>9 DEF Next

LEMMA MainStep == IInv /\ [Next]_vars => MainInv'
<1> SUFFICES ASSUME TypeInv, ExclusionInv, MainInv, [Next]_vars PROVE MainInv'
  BY DEF IInv
<1> USE LockAssumption DEF TypeInv, TypeOK, OpenBounds, Contexts, MainInv
<1>1. CASE Disable
  BY <1>1 DEF Disable, Opened
<1>2. CASE Mask
  BY <1>2 DEF Mask
<1>3. CASE FlagOff
  BY <1>3 DEF FlagOff, Opened
<1>4. CASE Enable
  BY <1>4 DEF Enable, ExclusionInv, ShutIsMasked
<1>5. CASE Unmask
  BY <1>5 DEF Unmask
<1>6. CASE FlagOn
  BY <1>6 DEF FlagOn, ExclusionInv, OpeningIsNotShut
<1>7. CASE Interrupt
  BY <1>7 DEF Interrupt
<1>8. CASE ReturnFromInterrupt
  BY <1>8 DEF ReturnFromInterrupt, ExclusionInv, InterruptedOpen, ReturnsEnabled
<1>9. CASE UNCHANGED vars
  BY <1>9 DEF vars
<1> QED
  BY <1>1, <1>2, <1>3, <1>4, <1>5, <1>6, <1>7, <1>8, <1>9 DEF Next
-----------------------------------------------------------------------------
\* The invariant is inductive.
THEOREM Inductive == Spec => []IInv
<1>1. IInv /\ [Next]_vars => IInv'
  BY TypeStep, ExclusionStep, MainStep DEF IInv
<1> QED
  BY InitIInv, <1>1, PTL DEF Spec

\* The variables of usb_irq.c and of the contexts keep their types; calls of
\* disable() and enable() stay paired.
THEOREM TypeCorrect == Spec => []TypeOK
<1>1. IInv => TypeOK
  BY DEF IInv, TypeInv
<1> QED
  BY Inductive, <1>1, PTL

\* No usb_isr runs between a disable() and the next enable().
THEOREM Exclusion == Spec => []SectionsExclude
<1>1. IInv => SectionsExclude
  BY DEF IInv, ExclusionInv, InterruptedOpen, SectionsExclude
<1> QED
  BY Inductive, <1>1, PTL

\* Outside its sections the main loop always has interrupts on.
THEOREM NotDeaf == Spec => []InterruptsComeBack
<1>1. IInv => InterruptsComeBack
  BY DEF IInv, MainInv, InterruptsComeBack
<1> QED
  BY Inductive, <1>1, PTL
-----------------------------------------------------------------------------
(* The command port *)

allVars == <<vars, portVars>>

\* What a context has done of a call is a command and some of its words.
PortTypeInv ==
  /\ DOMAIN todo = Contexts /\ todo = [c \in Contexts |-> todo[c]]
  /\ pos \in [Contexts -> Nat]
  /\ regular \in [Contexts -> {0, 1}]
  /\ port = [cmd |-> port.cmd, words |-> port.words] /\ port.words \in Nat

InCall == \A c \in Contexts :
            pos[c] > 0 => todo[c] # <<>> /\ Head(todo[c]).do \in {"command", "read", "write"}

\* In a section the port belongs to the call in progress.
OwnPort == shut[level] = 1 /\ pos[level] > 0 => OnCourse(level)

CourseInv == PortTypeInv /\ InCall /\ OwnPort

\* A usb_isr that was entered regularly has saved the masked state and runs
\* with interrupts off to its end.
RegularMasked ==
  regular[level] = 1 /\ level > 0 =>
    /\ PIE = 0
    /\ at[level] \in {"flagOff", "unmask"} => status = 0
    /\ INT_Enabled = 0 => status = 0

RegularInv == regular \in [Contexts -> {0, 1}] /\ RegularMasked /\ RegularRunsAlone
-----------------------------------------------------------------------------
\* Every step of the command port is a step of the lock or leaves it alone.
LEMMA PortStepIsLockStep == PortNext => [Next]_vars
<1> SUFFICES ASSUME PortNext PROVE [Next]_vars
  OBVIOUS
<1>1. CASE Masking
  BY <1>1 DEF Masking, Next
<1>2. CASE Unmasking
  BY <1>2 DEF Unmasking, Next
<1>3. CASE SelectCommand
  BY <1>3 DEF SelectCommand
<1>4. CASE MoveWord
  BY <1>4 DEF MoveWord
<1>5. CASE AcquireD13
  BY <1>5 DEF AcquireD13
<1>6. CASE Enter
  BY <1>6 DEF Enter, Next
<1>7. CASE Dispatch
  BY <1>7 DEF Dispatch
<1>8. CASE Return
  BY <1>8 DEF Return, Next
<1>9. CASE Serve
  BY <1>9 DEF Serve
<1> QED
  BY <1>1, <1>2, <1>3, <1>4, <1>5, <1>6, <1>7, <1>8, <1>9 DEF PortNext

LEMMA PortRefinesLock == [PortNext]_allVars => [Next]_vars
<1>1. UNCHANGED allVars => UNCHANGED vars
  BY DEF allVars
<1> QED
  BY <1>1, PortStepIsLockStep

LEMMA LockStep == IInv /\ [PortNext]_allVars => IInv'
  BY PortRefinesLock, TypeStep, ExclusionStep, MainStep DEF IInv
-----------------------------------------------------------------------------
LEMMA FinishType ==
  ASSUME PortTypeInv, level \in Contexts, Finish
  PROVE  /\ DOMAIN todo' = Contexts /\ todo' = [c \in Contexts |-> todo'[c]]
         /\ pos' \in [Contexts -> Nat]
         /\ pos'[level] = 0
         /\ \A c \in Contexts : c # level => todo'[c] = todo[c] /\ pos'[c] = pos[c]
  BY DEF PortTypeInv, Finish

PortType(p) == p = [cmd |-> p.cmd, words |-> p.words] /\ p.words \in Nat

\* When a call is over nothing is in progress.
LEMMA FinishCourse ==
  ASSUME PortTypeInv, InCall, level \in Contexts, Finish,
         level' = level, regular' = regular, PortType(port')
  PROVE  CourseInv'
<1>1. pos'[level'] = 0
  BY FinishType
<1>2. PortTypeInv'
  BY FinishType DEF PortTypeInv, PortType
<1>3. InCall'
  BY FinishType DEF InCall
<1>4. OwnPort'
  BY <1>1 DEF OwnPort
<1> QED
  BY <1>2, <1>3, <1>4 DEF CourseInv

LEMMA CourseStep == IInv /\ CourseInv /\ [PortNext]_allVars => CourseInv'
<1> SUFFICES ASSUME IInv, CourseInv, [PortNext]_allVars PROVE CourseInv'
  OBVIOUS
<1> USE LockAssumption, PortAssumption
<1>1. level \in Contexts /\ shut \in [Contexts -> {0, 1}] /\ open \in [Contexts -> 0..MaxOpen]
  BY DEF IInv, TypeInv, TypeOK
<1>2. \A c \in Contexts : c < level => shut[c] = 0
  BY DEF IInv, ExclusionInv, InterruptedOpen
<1>3. PortTypeInv /\ InCall /\ OwnPort
  BY DEF CourseInv
<1>4. CASE Masking \/ Unmasking
  <2>1. /\ UNCHANGED <<port, regular, level>>
        /\ todo[level] # <<>> /\ Head(todo[level]).do \in {"disable", "enable"}
        /\ Finish \/ UNCHANGED <<todo, pos>>
    BY <1>4 DEF Masking, Unmasking, FinishWhen, Busy, Current, Disable, Mask, FlagOff,
                Enable, Unmask, FlagOn
  <2>2. pos[level] = 0
    <3>1. Head(todo[level]).do \notin {"command", "read", "write"}
      BY <2>1
    <3>2. ~(pos[level] > 0) /\ pos[level] \in Nat
      BY <1>1, <1>3, <3>1 DEF InCall, PortTypeInv
    <3> QED
      BY <3>2
  <2>3. CASE Finish
    BY <1>1, <1>3, <2>1, <2>3, FinishCourse DEF PortTypeInv, PortType
  <2>4. CASE UNCHANGED <<todo, pos>>
    BY <1>1, <1>3, <2>1, <2>2, <2>4 DEF CourseInv, PortTypeInv, InCall, OwnPort
  <2> QED
    BY <2>1, <2>3, <2>4
<1>5. CASE SelectCommand
  <2>1. /\ level' = level /\ shut' = shut /\ regular' = regular
        /\ port' = [cmd |-> Head(todo[level]).cmd, words |-> 0]
        /\ todo[level] # <<>> /\ Head(todo[level]).do \in {"command", "read", "write"}
    BY <1>5 DEF SelectCommand, vars, Busy, Current
  <2>2. CASE Finish
    <3>1. PortType(port')
      BY <1>3, <2>1 DEF PortType, PortTypeInv
    <3> QED
      BY <1>1, <1>3, <2>1, <2>2, <3>1, FinishCourse
  <2>3. CASE pos' = [pos EXCEPT ![level] = 1] /\ UNCHANGED todo
    BY <1>1, <1>3, <2>1, <2>3 DEF CourseInv, PortTypeInv, InCall, OwnPort, OnCourse
  <2> QED
    BY <1>5, <2>2, <2>3 DEF SelectCommand
<1>6. CASE MoveWord
  <2>1. /\ level' = level /\ shut' = shut /\ regular' = regular
        /\ port' = [port EXCEPT !.words = @ + 1]
        /\ pos[level] > 0
    BY <1>6 DEF MoveWord, vars
  <2>2. CASE Finish
    <3>1. PortType(port')
      BY <1>3, <2>1 DEF PortType, PortTypeInv
    <3> QED
      BY <1>1, <1>3, <2>1, <2>2, <3>1, FinishCourse
  <2>3. CASE pos' = [pos EXCEPT ![level] = @ + 1] /\ UNCHANGED todo
    BY <1>1, <1>3, <2>1, <2>3 DEF CourseInv, PortTypeInv, InCall, OwnPort, OnCourse
  <2> QED
    BY <1>6, <2>2, <2>3 DEF MoveWord
<1>7. CASE AcquireD13
  <2>1. Finish /\ level' = level /\ regular' = regular /\ PortType(port')
    BY <1>3, <1>7 DEF AcquireD13, vars, PortType, PortTypeInv
  <2> QED
    BY <1>1, <1>3, <2>1, FinishCourse
<1>8. CASE Enter
  <2>1. /\ level' = level + 1 /\ level' \in Contexts /\ port' = port
        /\ INT_Enabled \in {0, 1}
        /\ pos' = [pos EXCEPT ![level'] = 0]
        /\ todo' = [todo EXCEPT ![level'] = usb_isr]
        /\ regular' = [regular EXCEPT ![level'] = INT_Enabled]
    BY <1>1, <1>8 DEF Enter, Interrupt, Contexts, IInv, TypeInv, TypeOK
  <2>2. pos' \in [Contexts -> Nat] /\ pos'[level'] = 0
    BY <1>3, <2>1 DEF PortTypeInv
  <2>3. PortTypeInv'
    BY <1>3, <2>1, <2>2 DEF PortTypeInv
  <2>4. InCall'
    BY <1>3, <2>1, <2>2 DEF InCall, PortTypeInv
  <2>5. OwnPort'
    BY <2>2 DEF OwnPort
  <2> QED
    BY <2>3, <2>4, <2>5 DEF CourseInv
<1>9. CASE Dispatch
  <2>1. /\ level' = level /\ shut' = shut /\ regular' = regular /\ port' = port
        /\ pos' = pos /\ todo[level] = <<>>
        /\ \E p : todo' = [todo EXCEPT ![level] = p]
    BY <1>9 DEF Dispatch, vars, Busy
  <2>2. pos[level] = 0
    BY <1>1, <1>3, <2>1 DEF InCall, PortTypeInv
  <2> QED
    BY <1>1, <1>3, <2>1, <2>2 DEF CourseInv, PortTypeInv, InCall, OwnPort
<1>10. CASE Return
  <2>1. /\ level > 0 /\ level' = level - 1 /\ shut' = shut /\ port' = port
        /\ pos' = pos /\ todo' = todo
        /\ regular' = [regular EXCEPT ![level] = 0]
    BY <1>10 DEF Return, ReturnFromInterrupt
  <2>2. level' \in Contexts /\ shut'[level'] = 0
    BY <1>1, <1>2, <2>1 DEF Contexts
  <2> QED
    BY <1>1, <1>3, <2>1, <2>2 DEF CourseInv, PortTypeInv, InCall, OwnPort
<1>11. CASE Serve
  <2>1. /\ level' = level /\ shut' = shut /\ regular' = regular /\ port' = port
        /\ pos' = pos /\ todo[0] = <<>> /\ level = 0
        /\ \E p : todo' = [todo EXCEPT ![0] = p]
    BY <1>11 DEF Serve, vars, Busy
  <2>2. pos[0] = 0
    BY <1>1, <1>3, <2>1 DEF InCall, PortTypeInv
  <2> QED
    BY <1>1, <1>3, <2>1, <2>2 DEF CourseInv, PortTypeInv, InCall, OwnPort
<1>12. CASE UNCHANGED allVars
  BY <1>3, <1>12 DEF allVars, vars, portVars, CourseInv, PortTypeInv, InCall, OwnPort, OnCourse
<1> QED
  BY <1>4, <1>5, <1>6, <1>7, <1>8, <1>9, <1>10, <1>11, <1>12 DEF PortNext

LEMMA RegularStep == IInv /\ RegularInv /\ [PortNext]_allVars => RegularInv'
<1> SUFFICES ASSUME IInv, RegularInv, [PortNext]_allVars PROVE RegularInv'
  OBVIOUS
<1> USE LockAssumption DEF Contexts, RegularInv, RegularMasked, RegularRunsAlone
<1>1. TypeOK
  BY DEF IInv, TypeInv
<1>2. CASE Masking
  <2>1. regular' = regular /\ (Disable \/ Mask \/ FlagOff)
    BY <1>2 DEF Masking
  <2>2. CASE Disable
    BY <1>1, <2>1, <2>2 DEF Disable, Opened, TypeOK
  <2>3. CASE Mask
    BY <1>1, <2>1, <2>3 DEF Mask, TypeOK
  <2>4. CASE FlagOff
    BY <1>1, <2>1, <2>4 DEF FlagOff, Opened, TypeOK
  <2> QED
    BY <2>1, <2>2, <2>3, <2>4
<1>3. CASE Unmasking
  <2>1. regular' = regular /\ (Enable \/ Unmask \/ FlagOn)
    BY <1>3 DEF Unmasking
  <2>2. CASE Enable
    BY <1>1, <2>1, <2>2 DEF Enable, TypeOK
  <2>3. CASE Unmask
    BY <1>1, <2>1, <2>3 DEF Unmask, TypeOK
  <2>4. CASE FlagOn
    BY <1>1, <2>1, <2>4 DEF FlagOn, TypeOK
  <2> QED
    BY <2>1, <2>2, <2>3, <2>4
<1>4. CASE SelectCommand \/ MoveWord \/ AcquireD13 \/ Dispatch \/ Serve
  BY <1>4 DEF SelectCommand, MoveWord, AcquireD13, Dispatch, Serve, vars
<1>5. CASE Enter
  BY <1>1, <1>5 DEF Enter, Interrupt, TypeOK
<1>6. CASE Return
  BY <1>1, <1>6 DEF Return, ReturnFromInterrupt, TypeOK
<1>7. CASE UNCHANGED allVars
  BY <1>7 DEF allVars, vars, portVars
<1> QED
  BY <1>2, <1>3, <1>4, <1>5, <1>6, <1>7 DEF PortNext
-----------------------------------------------------------------------------
LEMMA PortInitInv == PortInit => IInv /\ CourseInv /\ RegularInv
<1> SUFFICES ASSUME PortInit PROVE IInv /\ CourseInv /\ RegularInv
  OBVIOUS
<1>1. IInv
  BY InitIInv DEF PortInit
<1>2. CourseInv
  BY LockAssumption DEF PortInit, Init, CourseInv, PortTypeInv, InCall, OwnPort, Contexts
<1>3. RegularInv
  BY LockAssumption DEF PortInit, Init, RegularInv, RegularMasked, RegularRunsAlone, Contexts
<1> QED
  BY <1>1, <1>2, <1>3

THEOREM PortInductive == PortSpec => [](IInv /\ CourseInv /\ RegularInv)
<1> DEFINE J == IInv /\ CourseInv /\ RegularInv
<1>1. PortInit => J
  BY PortInitInv
<1>2. J /\ [PortNext]_allVars => J'
  BY LockStep, CourseStep, RegularStep
<1> QED
  BY <1>1, <1>2, PTL DEF PortSpec, allVars

\* Every run of the driver uses the lock as the lock's specification says, so
\* what is proved of disable() and enable() holds of the driver.
THEOREM LockIsUsed == PortSpec => Spec
<1>1. PortInit => Init
  BY DEF PortInit
<1> QED
  BY <1>1, PortRefinesLock, PTL DEF PortSpec, Spec, allVars

\* No interrupt comes between a command and its words inside a section.
THEOREM SectionsKeepThePort == PortSpec => []SectionsIntact
<1>1. CourseInv => SectionsIntact
  BY DEF CourseInv, OwnPort, SectionsIntact
<1> QED
  BY PortInductive, <1>1, PTL

\* No usb_isr that found INT_Enabled set is interrupted.
THEOREM RegularUndisturbed == PortSpec => []RegularRunsAlone
<1>1. RegularInv => RegularRunsAlone
  BY DEF RegularInv
<1> QED
  BY PortInductive, <1>1, PTL
-----------------------------------------------------------------------------
(* The programs of the handlers *)

\* The calls a program is made of; those that do not end a section, those
\* without words, those before the chip's interrupt has a handler.
Codes == {"none", "RD_FIFO", "WR_FIFO", "CLEAR_BUF", "VALID_BUF", "RDSTS", "RDSTS_CLRINT",
          "LOCK", "INT_SRC", "ACK_SETUP", "WR_STS", "CLR_STALL", "RD_ADDR", "WR_ADDR",
          "RD_CHIPID", "WR_CNFG", "WR_MODE", "WR_INTEN", "WR_EPCNFG", "RESET"}
Values == {"none", "packet", "unlocked", "powered", "off", "connected", "disconnected", "set"}
CallType ==
  {x \in [do : {"command", "read", "write", "disable", "enable", "acquire"},
          cmd : [code : Codes, ep : Int], words : Nat, value : Values] :
     x.do \in {"disable", "enable", "acquire"} => x.words = 0}
Shutting == {x \in CallType : x.do # "enable"}
Wordless == {x \in CallType : x.words = 0}
Early == {x \in CallType : x.do # "acquire"}

\* Every call with words comes after a disable() and before the next enable(),
\* in a context that has a section open when b = 1.
Protected(s, b) ==
  \A k \in 1..Len(s) : s[k].words > 0 =>
    /\ \A m \in 1..k - 1 : s[m].do = "enable"
         => \E j \in m + 1..k - 1 : s[j].do = "disable"
    /\ b = 1 \/ \E j \in 1..k - 1 : s[j].do = "disable"

\* The programs that are protected so.
Kept(b) == {s \in Seq(CallType) : Protected(s, b)}

LEMMA CallSets ==
  ASSUME NEW s
  PROVE  /\ s \in Seq(Shutting) => s \in Seq(CallType) /\ \A k \in 1..Len(s) : s[k].do # "enable"
         /\ s \in Seq(Wordless) => s \in Seq(CallType) /\ \A k \in 1..Len(s) : s[k].words = 0
         /\ s \in Seq(Early) => s \in Seq(CallType) /\ \A k \in 1..Len(s) : s[k].do # "acquire"
<1>1. Shutting \subseteq CallType /\ Wordless \subseteq CallType /\ Early \subseteq CallType
  BY DEF Shutting, Wordless, Early
<1>2. ASSUME s \in Seq(Shutting)
      PROVE  s \in Seq(CallType) /\ \A k \in 1..Len(s) : s[k].do # "enable"
  <2>1. s \in Seq(CallType)
    BY <1>1, <1>2, SeqMonotonic
  <2>2. \A k \in 1..Len(s) : s[k] \in Shutting
    BY <1>2, ElementOfSeq
  <2> QED
    BY <2>1, <2>2 DEF Shutting
<1>3. ASSUME s \in Seq(Wordless)
      PROVE  s \in Seq(CallType) /\ \A k \in 1..Len(s) : s[k].words = 0
  <2>1. s \in Seq(CallType)
    BY <1>1, <1>3, SeqMonotonic
  <2>2. \A k \in 1..Len(s) : s[k] \in Wordless
    BY <1>3, ElementOfSeq
  <2> QED
    BY <2>1, <2>2 DEF Wordless
<1>4. ASSUME s \in Seq(Early)
      PROVE  s \in Seq(CallType) /\ \A k \in 1..Len(s) : s[k].do # "acquire"
  <2>1. s \in Seq(CallType)
    BY <1>1, <1>4, SeqMonotonic
  <2>2. \A k \in 1..Len(s) : s[k] \in Early
    BY <1>4, ElementOfSeq
  <2> QED
    BY <2>1, <2>2 DEF Early
<1> QED
  BY <1>2, <1>3, <1>4

\* What appending a program to another does to the calls.
LEMMA Joined ==
  ASSUME NEW s \in Seq(CallType), NEW t \in Seq(CallType)
  PROVE  /\ s \o t \in Seq(CallType)
         /\ Len(s) \in Nat /\ Len(t) \in Nat /\ Len(s \o t) = Len(s) + Len(t)
         /\ \A k \in 1..Len(s) : (s \o t)[k] = s[k] /\ k \in 1..Len(s \o t)
         /\ \A k \in 1..Len(t) : /\ (s \o t)[Len(s) + k] = t[k]
                                 /\ Len(s) + k \in 1..Len(s \o t)
         /\ \A k \in 1..Len(s \o t) :
              k \in 1..Len(s) \/ \E i \in 1..Len(t) : k = Len(s) + i
<1>1. Len(s) \in Nat /\ Len(t) \in Nat
  BY LenProperties
<1>2. /\ s \o t \in Seq(CallType) /\ Len(s \o t) = Len(s) + Len(t)
      /\ \A k \in 1..Len(s) + Len(t) :
           (s \o t)[k] = IF k <= Len(s) THEN s[k] ELSE t[k - Len(s)]
  BY ConcatProperties
<1>3. \A k \in 1..Len(s) : (s \o t)[k] = s[k] /\ k \in 1..Len(s \o t)
  BY <1>1, <1>2
<1>4. \A k \in 1..Len(t) : Len(s) + k \in 1..Len(s) + Len(t) /\ ~(Len(s) + k <= Len(s))
                           /\ Len(s) + k - Len(s) = k
  BY <1>1
<1>5. \A k \in 1..Len(t) : (s \o t)[Len(s) + k] = t[k] /\ Len(s) + k \in 1..Len(s \o t)
  BY <1>2, <1>4
<1>6. \A k \in 1..Len(s \o t) :
        k \in 1..Len(s) \/ \E i \in 1..Len(t) : k = Len(s) + i
  <2> SUFFICES ASSUME NEW k \in 1..Len(s \o t), k \notin 1..Len(s)
               PROVE  \E i \in 1..Len(t) : k = Len(s) + i
    OBVIOUS
  <2>1. k - Len(s) \in 1..Len(t) /\ k = Len(s) + (k - Len(s))
    BY <1>1, <1>2
  <2> QED
    BY <2>1
<1> QED
  BY <1>1, <1>2, <1>3, <1>5, <1>6

\* A program of one call.
LEMMA CallIn ==
  ASSUME NEW do \in {"command", "read", "write", "disable", "enable", "acquire"},
         NEW code \in Codes, NEW ep \in Int, NEW words \in Nat, NEW value \in Values,
         do \in {"disable", "enable", "acquire"} => words = 0
  PROVE  Call(do, Code(code, ep), words, value) \in CallType
  BY DEF Call, Code, CallType

LEMMA OneCall ==
  ASSUME NEW S, NEW x \in S
  PROVE  <<x>> \in Seq(S) /\ Len(<<x>>) = 1 /\ <<x>>[1] = x
  OBVIOUS

LEMMA LockCalls ==
  /\ RaiseIRQL \in Seq(Shutting) /\ RaiseIRQL \in Seq(Wordless) /\ RaiseIRQL \in Seq(Early)
  /\ Len(RaiseIRQL) = 1 /\ RaiseIRQL[1].do = "disable"
  /\ LowerIRQL \in Seq(Wordless) /\ LowerIRQL \in Seq(Early)
<1>1. Chip \in Int /\ "none" \in Codes /\ "none" \in Values
  <2>1. Chip \in Int
    BY DEF Chip
  <2>2. "none" \in Codes /\ "none" \in Values
    BY DEF Codes, Values
  <2> QED
    BY <2>1, <2>2
<1>2. /\ Call("disable", NoCommand, 0, "none") \in CallType
      /\ Call("enable", NoCommand, 0, "none") \in CallType
  BY <1>1, CallIn DEF NoCommand
<1>3. /\ Call("disable", NoCommand, 0, "none") \in Shutting \cap Wordless \cap Early
      /\ Call("enable", NoCommand, 0, "none") \in Wordless \cap Early
  BY <1>2 DEF Shutting, Wordless, Early, Call
<1>4. Call("disable", NoCommand, 0, "none").do = "disable"
  BY DEF Call
<1> QED
  BY <1>3, <1>4, OneCall DEF RaiseIRQL, LowerIRQL

\* Programs without words need no section; programs that end no section only
\* one around them.
LEMMA KeptWordless == ASSUME NEW b PROVE Seq(Wordless) \subseteq Kept(b)
<1> SUFFICES ASSUME NEW s \in Seq(Wordless) PROVE s \in Kept(b)
  OBVIOUS
<1>1. s \in Seq(CallType) /\ \A k \in 1..Len(s) : s[k].words = 0
  BY CallSets
<1>2. \A k \in 1..Len(s) : ~(s[k].words > 0)
  BY <1>1
<1> QED
  BY <1>1, <1>2 DEF Kept, Protected

LEMMA KeptShutting == Seq(Shutting) \subseteq Kept(1)
<1> SUFFICES ASSUME NEW s \in Seq(Shutting) PROVE s \in Kept(1)
  OBVIOUS
<1>1. s \in Seq(CallType) /\ \A k \in 1..Len(s) : s[k].do # "enable"
  BY CallSets
<1>2. \A k \in 1..Len(s) : \A m \in 1..k - 1 : m \in 1..Len(s)
  BY <1>1, LenProperties
<1> QED
  BY <1>1, <1>2 DEF Kept, Protected

LEMMA KeptMore == Kept(0) \subseteq Kept(1)
  BY DEF Kept, Protected

LEMMA KeptJoin ==
  ASSUME NEW b \in {0, 1}, NEW s \in Kept(b), NEW t \in Kept(0)
  PROVE  s \o t \in Kept(b)
<1>0. s \in Seq(CallType) /\ t \in Seq(CallType) /\ Protected(s, b) /\ Protected(t, 0)
  BY DEF Kept
<1>a. /\ s \o t \in Seq(CallType)
      /\ Len(s) \in Nat /\ Len(t) \in Nat /\ Len(s \o t) = Len(s) + Len(t)
      /\ \A k \in 1..Len(s) : (s \o t)[k] = s[k]
      /\ \A k \in 1..Len(t) : (s \o t)[Len(s) + k] = t[k]
      /\ \A k \in 1..Len(s \o t) : k \in 1..Len(s) \/ \E i \in 1..Len(t) : k = Len(s) + i
  BY <1>0, Joined
<1> DEFINE st == s \o t
<1> HIDE DEF st
<1>b. /\ st \in Seq(CallType) /\ Len(st) = Len(s) + Len(t)
      /\ \A k \in 1..Len(s) : st[k] = s[k]
      /\ \A k \in 1..Len(t) : st[Len(s) + k] = t[k]
      /\ \A k \in 1..Len(st) : k \in 1..Len(s) \/ \E i \in 1..Len(t) : k = Len(s) + i
  BY <1>a DEF st
<1>d. \A k \in 1..Len(t) : st[Len(s) + k] = t[k]
  BY <1>b
<1>1. ASSUME NEW k \in 1..Len(s), st[k].words > 0
      PROVE  /\ \A m \in 1..k - 1 : st[m].do = "enable"
                  => \E j \in m + 1..k - 1 : st[j].do = "disable"
             /\ b = 1 \/ \E j \in 1..k - 1 : st[j].do = "disable"
  <2>1. \A m \in 1..k - 1 : m \in 1..Len(s) /\ st[m] = s[m]
    BY <1>a, <1>b
  <2>2. \A m \in 1..k - 1 : \A j \in m + 1..k - 1 : j \in 1..k - 1
    BY <1>a
  <2>3. /\ \A m \in 1..k - 1 : s[m].do = "enable"
             => \E j \in m + 1..k - 1 : s[j].do = "disable"
        /\ b = 1 \/ \E j \in 1..k - 1 : s[j].do = "disable"
    BY <1>0, <1>1, <1>b DEF Protected
  <2> QED
    BY <2>1, <2>2, <2>3
<1>2. ASSUME NEW i \in 1..Len(t), st[Len(s) + i].words > 0
      PROVE  /\ \A m \in 1..(Len(s) + i) - 1 : st[m].do = "enable"
                  => \E j \in m + 1..(Len(s) + i) - 1 : st[j].do = "disable"
             /\ b = 1 \/ \E j \in 1..(Len(s) + i) - 1 : st[j].do = "disable"
  <2>0. t[i].words > 0
    BY <1>2, <1>b
  <2>1. /\ \A m \in 1..i - 1 : t[m].do = "enable"
             => \E j \in m + 1..i - 1 : t[j].do = "disable"
        /\ \E j \in 1..i - 1 : t[j].do = "disable"
    BY <1>0, <2>0 DEF Protected
  <2>2. PICK j \in 1..i - 1 : t[j].do = "disable"
    BY <2>1
  <2>3. j \in 1..Len(t) /\ Len(s) + j \in 1..(Len(s) + i) - 1
    BY <1>a
  <2>4. st[Len(s) + j].do = "disable"
    BY <1>b, <2>2, <2>3
  <2>5. ASSUME NEW m \in 1..(Len(s) + i) - 1, st[m].do = "enable"
        PROVE  \E l \in m + 1..(Len(s) + i) - 1 : st[l].do = "disable"
    <3>1. CASE m <= Len(s)
      <4>1. Len(s) + j \in m + 1..(Len(s) + i) - 1
        BY <1>a, <3>1
      <4> QED
        BY <4>1, <2>4
    <3>2. CASE ~(m <= Len(s))
      <4>0. m - Len(s) \in 1..i - 1 /\ m = Len(s) + (m - Len(s))
        BY <1>a, <3>2
      <4>1. PICK n \in 1..i - 1 : m = Len(s) + n
        BY <4>0
      <4>2. n \in 1..Len(t)
        BY <1>a
      <4>3. t[n].do = "enable"
        BY <1>d, <2>5, <4>1, <4>2
      <4>4. PICK l \in n + 1..i - 1 : t[l].do = "disable"
        BY <2>1, <4>3
      <4>5. l \in 1..Len(t) /\ Len(s) + l \in m + 1..(Len(s) + i) - 1
        BY <1>a, <4>1
      <4>6. st[Len(s) + l].do = "disable"
        BY <1>d, <4>4, <4>5
      <4> QED
        BY <4>5, <4>6
    <3> QED
      BY <3>1, <3>2
  <2> QED
    BY <2>3, <2>4, <2>5
<1>3. Protected(st, b)
  <2> DEFINE Safe(k) == /\ \A m \in 1..k - 1 : st[m].do = "enable"
                             => \E j \in m + 1..k - 1 : st[j].do = "disable"
                        /\ b = 1 \/ \E j \in 1..k - 1 : st[j].do = "disable"
  <2>1. \A k \in 1..Len(s) : st[k].words > 0 => Safe(k)
    BY <1>1
  <2>2. \A i \in 1..Len(t) : st[Len(s) + i].words > 0 => Safe(Len(s) + i)
    BY <1>2
  <2>3. ASSUME NEW k \in 1..Len(st), st[k].words > 0 PROVE Safe(k)
    <3> HIDE DEF Safe
    <3> QED
      BY <1>b, <2>1, <2>2, <2>3
  <2> QED
    BY <2>3 DEF Protected
<1> QED
  BY <1>b, <1>3 DEF Kept, st

LEMMA KeptAfterShutting ==
  ASSUME NEW s \in Seq(Shutting), NEW t \in Kept(1)
  PROVE  s \o t \in Kept(1)
<1>0. /\ s \in Seq(CallType) /\ t \in Seq(CallType) /\ Protected(t, 1)
      /\ \A k \in 1..Len(s) : s[k].do # "enable"
  BY CallSets DEF Kept
<1>a. /\ s \o t \in Seq(CallType)
      /\ Len(s) \in Nat /\ Len(t) \in Nat /\ Len(s \o t) = Len(s) + Len(t)
      /\ \A k \in 1..Len(s) : (s \o t)[k] = s[k]
      /\ \A k \in 1..Len(t) : (s \o t)[Len(s) + k] = t[k]
      /\ \A k \in 1..Len(s \o t) : k \in 1..Len(s) \/ \E i \in 1..Len(t) : k = Len(s) + i
  BY <1>0, Joined
<1> DEFINE st == s \o t
<1> HIDE DEF st
<1>b. /\ st \in Seq(CallType) /\ Len(st) = Len(s) + Len(t)
      /\ \A k \in 1..Len(s) : st[k] = s[k]
      /\ \A k \in 1..Len(t) : st[Len(s) + k] = t[k]
      /\ \A k \in 1..Len(st) : k \in 1..Len(s) \/ \E i \in 1..Len(t) : k = Len(s) + i
  BY <1>a DEF st
<1>d. \A k \in 1..Len(t) : st[Len(s) + k] = t[k]
  BY <1>b
<1>1. ASSUME NEW k \in 1..Len(st), st[k].words > 0, NEW m \in 1..k - 1, st[m].do = "enable"
      PROVE  \E l \in m + 1..k - 1 : st[l].do = "disable"
  <2>1. ~(m <= Len(s)) /\ m \in Int /\ k \in Int
    BY <1>0, <1>a, <1>b, <1>1
  <2>2. k - Len(s) \in 1..Len(t) /\ m - Len(s) \in 1..(k - Len(s)) - 1
        /\ m = Len(s) + (m - Len(s)) /\ k = Len(s) + (k - Len(s))
    BY <1>a, <1>b, <2>1
  <2>3. PICK i \in 1..Len(t) : k = Len(s) + i
    BY <2>2
  <2>4. PICK n \in 1..i - 1 : m = Len(s) + n
    <3>1. k - Len(s) = i
      BY <1>a, <2>3
    <3> QED
      BY <2>2, <3>1
  <2>5. n \in 1..Len(t)
    BY <1>a
  <2>6. t[i].words > 0 /\ t[n].do = "enable"
    BY <1>d, <1>1, <2>3, <2>4, <2>5
  <2>7. PICK l \in n + 1..i - 1 : t[l].do = "disable"
    BY <1>0, <2>6 DEF Protected
  <2>8. l \in 1..Len(t) /\ Len(s) + l \in m + 1..k - 1
    BY <1>a, <2>3, <2>4
  <2>9. st[Len(s) + l].do = "disable"
    BY <1>d, <2>7, <2>8
  <2> QED
    BY <2>8, <2>9
<1>2. Protected(st, 1)
  BY <1>1 DEF Protected
<1> QED
  BY <1>b, <1>2 DEF Kept, st

\* A disable() protects what follows it.
LEMMA KeptRaise ==
  ASSUME NEW b, NEW t \in Kept(1)
  PROVE  RaiseIRQL \o t \in Kept(b)
<1> DEFINE s == RaiseIRQL
<1>0. s \in Seq(Shutting) /\ Len(s) = 1 /\ s[1].do = "disable"
  BY LockCalls DEF s
<1> HIDE DEF s
<1>1. s \o t \in Kept(1)
  BY <1>0, KeptAfterShutting
<1>2. /\ t \in Seq(CallType) /\ s \in Seq(CallType) 
      /\ \A k \in 1..Len(s) : s[k].words = 0
  <2>1. RaiseIRQL \in Seq(Wordless)
    BY LockCalls
  <2> QED
    BY <2>1, CallSets DEF Kept, s
<1>3. (s \o t)[1] = s[1] /\ (s \o t)[1].words = 0
  <2>1. \A k \in 1..Len(s) : (s \o t)[k] = s[k]
    BY <1>2, Joined
  <2> QED
    BY <1>0, <1>2, <2>1
<1>4. \A k \in 1..Len(s \o t) : (s \o t)[k].words > 0 => 1 \in 1..k - 1
  <2>1. Len(s \o t) \in Nat
    BY <1>2, Joined, LenProperties
  <2>2. \A k \in 1..Len(s \o t) : k # 1 => 1 \in 1..k - 1
    BY <2>1
  <2> QED
    BY <1>3, <2>2
<1>5. Protected(s \o t, b)
  BY <1>0, <1>1, <1>3, <1>4 DEF Kept, Protected
<1> QED
  BY <1>1, <1>5 DEF Kept, s

\* Calls that leave the configuration registers alone, those of them that are
\* functions of HAL4D13.c, and those that move no words.
ConfigCodes == {"WR_INTEN", "WR_MODE", "WR_CNFG", "WR_EPCNFG", "RESET"}
Plain == {x \in CallType : x.cmd.code \notin ConfigCodes}
Moves == {x \in Plain : x.do \in {"command", "read", "write"}}
Signals == {x \in Plain : x.words = 0}

\* The programs of plain calls that are protected.
Clean(b) == Kept(b) \cap Seq(Plain)

LEMMA PlainSets ==
  /\ Seq(Moves) \subseteq Seq(Shutting) /\ Seq(Moves) \subseteq Seq(Plain)
  /\ Seq(Moves) \subseteq Seq(Early)
  /\ Seq(Signals) \subseteq Seq(Wordless) /\ Seq(Signals) \subseteq Seq(Plain)
  /\ Seq(Plain) \subseteq Seq(CallType)
<1>1. /\ Moves \subseteq Shutting /\ Moves \subseteq Plain /\ Moves \subseteq Early
      /\ Signals \subseteq Wordless /\ Signals \subseteq Plain /\ Plain \subseteq CallType
  BY DEF Moves, Signals, Plain, Shutting, Early, Wordless
<1> QED
  BY <1>1, SeqMonotonic

LEMMA PlainJoin ==
  ASSUME NEW S \in {Plain, Moves, Signals}, NEW s \in Seq(S), NEW t \in Seq(S)
  PROVE  s \o t \in Seq(S)
  BY ConcatProperties

LEMMA CleanSets ==
  /\ \A b \in {0, 1} : Seq(Signals) \subseteq Clean(b)
  /\ Seq(Moves) \subseteq Clean(1)
  /\ Clean(0) \subseteq Clean(1)
  BY KeptWordless, KeptShutting, KeptMore, PlainSets DEF Clean

LEMMA CleanJoin ==
  ASSUME NEW b \in {0, 1}, NEW s \in Clean(b), NEW t \in Clean(0)
  PROVE  s \o t \in Clean(b)
  BY KeptJoin, PlainJoin DEF Clean

LEMMA CleanAfterMoves ==
  ASSUME NEW s \in Seq(Moves), NEW t \in Clean(1)
  PROVE  s \o t \in Clean(1)
<1>1. s \in Seq(Shutting) /\ s \in Seq(Plain)
  BY PlainSets
<1> QED
  BY <1>1, KeptAfterShutting, PlainJoin DEF Clean

LEMMA LockSignals == RaiseIRQL \in Seq(Signals) /\ LowerIRQL \in Seq(Signals)
<1>1. Chip \in Int /\ "none" \in Codes /\ "none" \in Values
  BY DEF Chip, Codes, Values
<1>2. /\ Call("disable", NoCommand, 0, "none") \in CallType
      /\ Call("enable", NoCommand, 0, "none") \in CallType
  BY <1>1, CallIn DEF NoCommand
<1>3. /\ Call("disable", NoCommand, 0, "none") \in Signals
      /\ Call("enable", NoCommand, 0, "none") \in Signals
  BY <1>2 DEF Signals, Plain, Call, NoCommand, Code, ConfigCodes
<1> QED
  BY <1>3, OneCall DEF RaiseIRQL, LowerIRQL

LEMMA CleanRaise ==
  ASSUME NEW b \in {0, 1}, NEW t \in Clean(1)
  PROVE  RaiseIRQL \o t \in Clean(b)
<1>1. RaiseIRQL \in Seq(Plain)
  BY LockSignals, PlainSets
<1> QED
  BY <1>1, KeptRaise, PlainJoin DEF Clean
-----------------------------------------------------------------------------
\* The functions of HAL4D13.c, as the handlers use them.
LEMMA PlainCalls ==
  ASSUME NEW code \in Codes \ ConfigCodes, NEW ep \in Int
  PROVE  /\ Command(code, ep) \in Seq(Moves) /\ Command(code, ep) \in Seq(Signals)
         /\ \A words \in Nat, value \in Values : /\ Reads(code, ep, words) \in Seq(Moves)
                                 /\ Writes(code, ep, words, value) \in Seq(Moves)
<1>1. "none" \in Values /\ 0 \in Nat
  BY DEF Values
<1>2. ASSUME NEW do \in {"command", "read", "write"}, NEW words \in Nat, NEW value \in Values
      PROVE  /\ Call(do, Code(code, ep), words, value) \in Moves
             /\ words = 0 => Call(do, Code(code, ep), words, value) \in Signals
  <2>1. Call(do, Code(code, ep), words, value) \in CallType
    BY CallIn
  <2> QED
    BY <2>1 DEF Moves, Signals, Plain, Call, Code
<1> QED
  BY <1>1, <1>2, OneCall DEF Command, Reads, Writes

LEMMA CodesUsed ==
  /\ {"RD_FIFO", "WR_FIFO", "CLEAR_BUF", "VALID_BUF", "RDSTS", "RDSTS_CLRINT",
      "LOCK", "INT_SRC", "ACK_SETUP", "WR_STS", "CLR_STALL", "RD_ADDR", "WR_ADDR",
      "RD_CHIPID"} \subseteq Codes \ ConfigCodes
  /\ {"packet", "unlocked", "set", "none"} \subseteq Values
  /\ {EP0OUT, EP0IN, EP01, EP02, EP06, Chip} \subseteq Int
  /\ 1 + FifoWords \in Nat
<1>2. {"RD_FIFO", "WR_FIFO", "CLEAR_BUF", "VALID_BUF", "RDSTS", "RDSTS_CLRINT",
      "LOCK", "INT_SRC", "ACK_SETUP", "WR_STS", "CLR_STALL", "RD_ADDR", "WR_ADDR",
      "RD_CHIPID"} \subseteq Codes \ ConfigCodes
  BY DEF Codes, ConfigCodes
<1>3. {EP0OUT, EP0IN, EP01, EP02, EP06, Chip} \subseteq Int
  BY DEF EP0OUT, EP0IN, EP01, EP02, EP06, Chip
<1>4. 1 + FifoWords \in Nat
  BY PortAssumption
<1> QED
  BY <1>2, <1>3, <1>4 DEF Values

LEMMA Functions ==
  ASSUME NEW ep \in {EP0OUT, EP0IN, EP01, EP02, EP06}
  PROVE  /\ ReadEndpoint(ep) \in Seq(Moves) /\ ReadEndpointWOClearBuffer(ep) \in Seq(Moves)
         /\ WriteEndpoint(ep) \in Seq(Moves)
         /\ ClearBuffer(ep) \in Seq(Moves)
         /\ ValidBuffer(ep) \in Seq(Moves)
         /\ StatusWInteruptClear(ep) \in Seq(Moves)
         /\ StatusWOInteruptClear(ep) \in Seq(Moves)
         /\ \A b \in BOOLEAN : /\ SetEndpointStatus(b, ep) \in Seq(Signals)
                               /\ SetEndpointStatus(b, ep) \in Seq(Moves)
<1>0. ep \in Int
  BY CodesUsed
<1>1. Command("CLEAR_BUF", ep) \in Seq(Moves) /\ Command("VALID_BUF", ep) \in Seq(Moves)
  BY <1>0, CodesUsed, PlainCalls
<1>2. Reads("RD_FIFO", ep, 1 + FifoWords) \in Seq(Moves)
  BY <1>0, CodesUsed, PlainCalls
<1>3. Writes("WR_FIFO", ep, 1 + FifoWords, "packet") \in Seq(Moves)
  BY <1>0, CodesUsed, PlainCalls
<1>4. Reads("RDSTS_CLRINT", ep, 1) \in Seq(Moves) /\ Reads("RDSTS", ep, 1) \in Seq(Moves)
  BY <1>0, CodesUsed, PlainCalls
<1>5. \A b \in BOOLEAN : /\ SetEndpointStatus(b, ep) \in Seq(Signals)
                         /\ SetEndpointStatus(b, ep) \in Seq(Moves)
  <2>1. /\ Command("WR_STS", ep) \in Seq(Moves) /\ Command("WR_STS", ep) \in Seq(Signals)
        /\ Command("CLR_STALL", ep) \in Seq(Moves) /\ Command("CLR_STALL", ep) \in Seq(Signals)
    BY <1>0, CodesUsed, PlainCalls
  <2> QED
    BY <2>1 DEF SetEndpointStatus
<1>6. ReadEndpoint(ep) \in Seq(Moves)
  BY <1>1, <1>2, PlainJoin DEF ReadEndpoint
<1>7. WriteEndpoint(ep) \in Seq(Moves)
  BY <1>1, <1>3, PlainJoin DEF WriteEndpoint
<1> QED
  BY <1>1, <1>4, <1>5, <1>6, <1>7
     DEF ReadEndpointWOClearBuffer, ClearBuffer, ValidBuffer, StatusWInteruptClear,
         StatusWOInteruptClear

LEMMA ChipFunctions ==
  /\ LockDevice \in Seq(Moves) /\ ReadInterruptRegister \in Seq(Moves)
  /\ GetAddress \in Seq(Moves) /\ SetAddressEnable \in Seq(Moves) /\ ReadChipID \in Seq(Moves)
  /\ Command("ACK_SETUP", Chip) \in Seq(Moves)
<1>0. Chip \in Int
  BY CodesUsed
<1>1. /\ Writes("LOCK", Chip, 1, "unlocked") \in Seq(Moves)
      /\ Writes("WR_ADDR", Chip, 1, "set") \in Seq(Moves)
  BY <1>0, CodesUsed, PlainCalls
<1>2. /\ Reads("INT_SRC", Chip, 2) \in Seq(Moves) /\ Reads("RD_ADDR", Chip, 1) \in Seq(Moves)
      /\ Reads("RD_CHIPID", Chip, 1) \in Seq(Moves)
  BY <1>0, CodesUsed, PlainCalls
<1>3. Command("ACK_SETUP", Chip) \in Seq(Moves)
  BY <1>0, CodesUsed, PlainCalls
<1> QED
  BY <1>1, <1>2, <1>3 DEF LockDevice, SetAddressEnable, ReadInterruptRegister, GetAddress,
     ReadChipID
-----------------------------------------------------------------------------
\* What the handlers do last.
LEMMA Answers ==
  /\ \A a \in AcknowledgeSETUP : a \in Seq(Moves)
  /\ StallEP0InControlWrite \in Seq(Signals) /\ StallEP0InControlWrite \in Seq(Moves)
  /\ StallEP0InControlRead \in Seq(Signals) /\ StallEP0InControlRead \in Seq(Moves)
  /\ \A s \in StallEP0 : s \in Seq(Signals)
  /\ TransmitEP0 \in Clean(1)
  /\ \A s \in Answer : s \in Clean(1)
<1>1. \A a \in AcknowledgeSETUP : a \in Seq(Moves)
  <2>1. /\ StatusWOInteruptClear(EP0OUT) \in Seq(Moves) /\ ClearBuffer(EP0OUT) \in Seq(Moves)
        /\ Command("ACK_SETUP", Chip) \in Seq(Moves)
    BY Functions, ChipFunctions
  <2> QED
    BY <2>1, PlainJoin DEF AcknowledgeSETUP
<1>2. /\ StallEP0InControlWrite \in Seq(Signals) /\ StallEP0InControlWrite \in Seq(Moves)
      /\ StallEP0InControlRead \in Seq(Signals) /\ StallEP0InControlRead \in Seq(Moves)
  <2>1. \A ep \in {EP0IN, EP0OUT} : /\ SetEndpointStatus(TRUE, ep) \in Seq(Signals)
                                    /\ SetEndpointStatus(TRUE, ep) \in Seq(Moves)
    BY Functions
  <2> QED
    BY <2>1, PlainJoin DEF StallEP0InControlWrite, StallEP0InControlRead
<1>3. \A s \in StallEP0 : s \in Seq(Signals)
  <2> SUFFICES ASSUME NEW s \in {StallEP0InControlWrite, StallEP0InControlRead}
               PROVE  s \o RaiseIRQL \o LowerIRQL \in Seq(Signals)
    BY DEF StallEP0
  <2>1. s \o RaiseIRQL \in Seq(Signals)
    BY <1>2, LockSignals, PlainJoin
  <2> QED
    BY <2>1, LockSignals, PlainJoin
<1>4. TransmitEP0 \in Clean(1)
  <2>1. WriteEndpoint(EP0IN) \in Clean(1)
    BY Functions, CleanSets
  <2>2. RaiseIRQL \in Clean(0) /\ LowerIRQL \in Clean(0)
    BY LockSignals, CleanSets
  <2>3. WriteEndpoint(EP0IN) \o RaiseIRQL \in Clean(1)
    BY <2>1, <2>2, CleanJoin
  <2> QED
    BY <2>2, <2>3, CleanJoin DEF TransmitEP0
<1>5. \A s \in Answer : s \in Clean(1)
  BY <1>3, <1>4, CleanSets DEF Answer
<1> QED
  BY <1>1, <1>2, <1>3, <1>4, <1>5

Strays == {"SetupDataOut", "SetAddress", "SetInterface", "EnableIsoMode", "BusReset"}

\* A section around a program, and the two calls of one that does nothing.
LEMMA Sections ==
  /\ \A s \in Clean(1), b \in {0, 1} : RaiseIRQL \o s \o LowerIRQL \in Clean(b)
  /\ \A s \in Seq(Plain) : RaiseIRQL \o s \o LowerIRQL \in Seq(Plain)
  /\ RaiseIRQL \o LowerIRQL \in Seq(Signals)
  /\ <<>> \in Seq(Signals) /\ <<>> \in Seq(Moves)
<1>1. \A b \in {0, 1} : RaiseIRQL \in Clean(b) /\ LowerIRQL \in Clean(b)
  BY LockSignals, CleanSets
<1>2. ASSUME NEW s \in Clean(1), NEW b \in {0, 1}
      PROVE  RaiseIRQL \o s \o LowerIRQL \in Clean(b)
  <2>1. RaiseIRQL \o s \in Clean(b)
    BY CleanRaise
  <2> QED
    BY <1>1, <2>1, CleanJoin
<1>3. ASSUME NEW s \in Seq(Plain)
      PROVE  RaiseIRQL \o s \o LowerIRQL \in Seq(Plain)
  <2>1. RaiseIRQL \in Seq(Plain) /\ LowerIRQL \in Seq(Plain)
    BY LockSignals, PlainSets
  <2>2. RaiseIRQL \o s \in Seq(Plain)
    BY <2>1, PlainJoin
  <2> QED
    BY <2>1, <2>2, PlainJoin
<1> QED
  BY <1>2, <1>3, LockSignals, PlainJoin

\* SetupToken_Handler with whatever comes after its packet.
LEMMA SetupTokens ==
  /\ \A r \in SetupDirect \cup SetupTooLong \cup StallEP0 : SetupToken_Handler(r) \in Clean(1)
  /\ \A r \in SetupDataOut : SetupToken_Handler(r) \in Seq(Plain)
<1> DEFINE p == RaiseIRQL \o ReadEndpointWOClearBuffer(EP0OUT) \o LowerIRQL
<1>1. p \in Clean(1)
  <2>1. ReadEndpointWOClearBuffer(EP0OUT) \in Clean(1)
    BY Functions, CleanSets
  <2> QED
    BY <2>1, Sections
<1>2. \A r : SetupToken_Handler(r) = p \o r
  BY DEF SetupToken_Handler
<1> HIDE DEF p
<1>3. ASSUME NEW r \in SetupDirect PROVE r \in Clean(0)
  <2>1. PICK a \in AcknowledgeSETUP : r = RaiseIRQL \o a \o LowerIRQL
    BY DEF SetupDirect
  <2>2. a \in Clean(1)
    BY Answers, CleanSets
  <2> QED
    BY <2>1, <2>2, Sections
<1>4. ASSUME NEW r \in SetupTooLong PROVE r \in Clean(0)
  <2>1. PICK a \in AcknowledgeSETUP :
           r = RaiseIRQL \o a \o StallEP0InControlWrite \o LowerIRQL
    BY DEF SetupTooLong
  <2>2. a \in Clean(1)
    BY Answers, CleanSets
  <2>3. RaiseIRQL \o a \in Clean(0)
    BY <2>2, CleanRaise
  <2>4. StallEP0InControlWrite \in Clean(0) /\ LowerIRQL \in Clean(0)
    BY Answers, LockSignals, CleanSets
  <2>5. RaiseIRQL \o a \o StallEP0InControlWrite \in Clean(0)
    BY <2>3, <2>4, CleanJoin
  <2> QED
    BY <2>1, <2>4, <2>5, CleanJoin
<1>5. ASSUME NEW r \in StallEP0 PROVE r \in Clean(0)
  BY Answers, CleanSets
<1>6. \A r \in SetupDirect \cup SetupTooLong \cup StallEP0 : p \o r \in Clean(1)
  BY <1>1, <1>3, <1>4, <1>5, CleanJoin
<1>7. ASSUME NEW r \in SetupDataOut PROVE p \o r \in Seq(Plain)
  <2>1. PICK a \in AcknowledgeSETUP : r = RaiseIRQL \o LowerIRQL \o a
    BY DEF SetupDataOut
  <2>2. RaiseIRQL \o LowerIRQL \in Seq(Plain) /\ a \in Seq(Plain)
    BY Sections, Answers, PlainSets
  <2>3. r \in Seq(Plain)
    BY <2>1, <2>2, PlainJoin
  <2> QED
    BY <1>1, <2>3, PlainJoin DEF Clean
<1> QED
  BY <1>2, <1>6, <1>7

\* The handlers that answer or stall a request once, and those of the vendor
\* table.
LEMMA Handlers == \A s \in DeviceRequest_Handler : s \in Clean(1)
<1>0. <<>> \in Clean(1) /\ TransmitEP0 \in Clean(1) /\ \A s \in Answer : s \in Clean(1)
  BY Sections, CleanSets, Answers
<1>1. \A s \in Seq(Moves) : s \o TransmitEP0 \in Clean(1)
  BY Answers, CleanAfterMoves
<1>2. \A b \in BOOLEAN, e \in {EP0OUT, EP01} : SetEndpointStatus(b, e) \in Seq(Moves)
  BY Functions
<1>3. \A s \in GetStatus : s \in Clean(1)
  <2>1. \A e \in {EP0OUT, EP01} : StatusWOInteruptClear(e) \in Seq(Moves)
    BY Functions
  <2> QED
    BY <1>0, <1>1, <2>1 DEF GetStatus
<1>4. \A s \in ClearFeature : s \in Clean(1)
  <2>1. SetEndpointStatus(FALSE, EP0OUT) \o TransmitEP0 \in Clean(1)
    BY <1>1, <1>2
  <2>2. SetEndpointStatus(FALSE, EP01) \o SetEndpointStatus(FALSE, EP01) \in Seq(Moves)
    BY <1>2, PlainJoin
  <2>3. SetEndpointStatus(FALSE, EP01) \o SetEndpointStatus(FALSE, EP01) \o TransmitEP0 \in Clean(1)
    BY <1>1, <2>2
  <2> QED
    BY <1>0, <2>1, <2>3 DEF ClearFeature
<1>5. \A s \in SetFeature : s \in Clean(1)
  BY <1>0, <1>1, <1>2 DEF SetFeature
<1>6. \A s \in GetConfiguration \cup SetConfiguration \cup GetInterface : s \in Clean(1)
  BY <1>0 DEF GetConfiguration, SetConfiguration, GetInterface
<1>7. \A s \in GetDescriptor : s \in Clean(1)
  <2>1. \A s \in StallEP0 : s \in Clean(0)
    BY Answers, CleanSets
  <2>2. \A s \in StallEP0 : TransmitEP0 \o s \in Clean(1)
    BY <1>0, <2>1, CleanJoin
  <2> QED
    BY <1>0, <2>2 DEF GetDescriptor
<1>8. \A s \in ControlEntry : s \in Clean(1)
  BY Answers, CleanSets DEF ControlEntry
<1>9. \A s \in read_write_register : s \in Clean(1)
  <2>1. \A r \in setup_dma_request : r \in Clean(1)
    BY Answers, Sections, CleanSets DEF setup_dma_request
  <2>2. \A r \in setup_dma_request : RaiseIRQL \o r \o LowerIRQL \in Clean(1)
    BY <2>1, Sections
  <2> QED
    BY <1>0, <2>2 DEF read_write_register
<1> QED
  BY <1>3, <1>4, <1>5, <1>6, <1>7, <1>8, <1>9 DEF DeviceRequest_Handler

\* The handlers that lose words use plain calls too.
LEMMA StrayHandlers == \A s \in SetAddress \cup SetInterface \cup EnableIsoMode : s \in Seq(Plain)
<1>0. /\ RaiseIRQL \in Seq(Plain) /\ LowerIRQL \in Seq(Plain) /\ <<>> \in Seq(Plain)
      /\ TransmitEP0 \in Seq(Plain) /\ \A s \in StallEP0 : s \in Seq(Plain)
      /\ \A s \in Answer : s \in Seq(Plain)
      /\ GetAddress \in Seq(Plain) /\ SetAddressEnable \in Seq(Plain)
      /\ ValidBuffer(EP06) \in Seq(Plain)
  BY LockSignals, Sections, Answers, ChipFunctions, Functions, PlainSets DEF Clean
<1>1. \A s, t \in Seq(Plain) : s \o t \in Seq(Plain)
  BY PlainJoin
<1>2. \A s \in SetAddress : s \in Seq(Plain)
  <2>1. \A set \in {<<>>, TransmitEP0, SetAddressEnable \o TransmitEP0} : set \in Seq(Plain)
    BY <1>0, <1>1
  <2>2. \A set \in Seq(Plain) :
          RaiseIRQL \o RaiseIRQL \o set \o LowerIRQL \o LowerIRQL \o GetAddress \in Seq(Plain)
    BY <1>0, <1>1
  <2> QED
    BY <2>1, <2>2 DEF SetAddress
<1>3. \A s \in SetInterface : s \in Seq(Plain)
  <2>1. \A s \in StallEP0, a \in Answer : s \o a \in Seq(Plain)
    BY <1>0, <1>1
  <2> SUFFICES ASSUME NEW p \in SetInterface PROVE p \in Seq(Plain)
    OBVIOUS
  <2>2. PICK s \in StallEP0, a \in Answer : p = s \o a
    BY DEF SetInterface
  <2> QED
    BY <2>1, <2>2
<1>4. \A s \in EnableIsoMode : s \in Seq(Plain)
  BY <1>0, <1>1 DEF EnableIsoMode
<1> QED
  BY <1>2, <1>3, <1>4

\* What the main loop runs.
LEMMA MainLoopPrograms ==
  ASSUME NEW h \in MainLoop
  PROVE  /\ h.calls \in Seq(Plain)
         /\ h.name \notin Strays => h.calls \in Clean(1)
         /\ h.name \notin {"Boot", "BusReset", "usb_isr"}
<1>1. \A name, programs : \A x \in Named(name, programs) :
        x.name = name /\ x.calls \in programs
  BY DEF Named
<1>2. ASSUME h \in Named("SetupToken", {SetupToken_Handler(r) :
                                        r \in SetupDirect \cup SetupTooLong \cup StallEP0})
      PROVE  h.name = "SetupToken" /\ h.calls \in Clean(1)
  BY <1>1, <1>2, SetupTokens
<1>3. ASSUME h \in Named("SetupDataOut", {SetupToken_Handler(r) : r \in SetupDataOut})
      PROVE  h.name = "SetupDataOut" /\ h.calls \in Seq(Plain)
  BY <1>1, <1>3, SetupTokens
<1>4. ASSUME h \in Named("DeviceRequest", DeviceRequest_Handler)
      PROVE  h.name = "DeviceRequest" /\ h.calls \in Clean(1)
  BY <1>1, <1>4, Handlers
<1>5. ASSUME h \in Named("SetAddress", SetAddress)
      PROVE  h.name = "SetAddress" /\ h.calls \in Seq(Plain)
  BY <1>1, <1>5, StrayHandlers
<1>6. ASSUME h \in Named("SetInterface", SetInterface)
      PROVE  h.name = "SetInterface" /\ h.calls \in Seq(Plain)
  BY <1>1, <1>6, StrayHandlers
<1>7. ASSUME h \in Named("EnableIsoMode", EnableIsoMode)
      PROVE  h.name = "EnableIsoMode" /\ h.calls \in Seq(Plain)
  BY <1>1, <1>7, StrayHandlers
<1>8. Clean(1) \subseteq Seq(Plain)
  BY DEF Clean
<1>9. \/ h.name \in {"SetupToken", "DeviceRequest"} /\ h.calls \in Clean(1)
      \/ /\ h.name \in {"SetupDataOut", "SetAddress", "SetInterface", "EnableIsoMode"}
         /\ h.calls \in Seq(Plain)
  BY <1>2, <1>3, <1>4, <1>5, <1>6, <1>7 DEF MainLoop
<1> QED
  BY <1>8, <1>9 DEF Strays

\* What usb_isr does of the events other than a bus reset.
LEMMA EventPrograms ==
  ASSUME NEW e \in Events
  PROVE  \/ e.name = "BusReset" /\ e.calls = Isr_BusReset
         \/ e.name \in {"Event", "Endpoints"} /\ e.calls \in Seq(Moves)
<1>0. \A s, t \in Seq(Moves) : s \o t \in Seq(Moves)
  BY PlainJoin
<1>1. <<>> \in Seq(Moves) /\ LockDevice \in Seq(Moves) /\ ReadInterruptRegister \in Seq(Moves)
  BY Sections, ChipFunctions
<1>2. \A r \in Isr_Ep00RxDone : r \in Seq(Moves)
  <2>1. StatusWInteruptClear(EP0OUT) \in Seq(Moves) /\ ReadEndpoint(EP0OUT) \in Seq(Moves)
    BY Functions
  <2> QED
    BY <1>0, <1>1, <2>1, Answers DEF Isr_Ep00RxDone
<1>3. \A w \in Isr_Ep00TxDone : w \in Seq(Moves)
  <2>1. StatusWInteruptClear(EP0IN) \in Seq(Moves) /\ WriteEndpoint(EP0IN) \in Seq(Moves)
    BY Functions
  <2>2. ReadInterruptRegister \o StatusWInteruptClear(EP0IN) \in Seq(Moves)
    BY <1>0, <1>1, <2>1
  <2>3. \A w \in {<<>>, WriteEndpoint(EP0IN), StallEP0InControlRead} :
          ReadInterruptRegister \o StatusWInteruptClear(EP0IN) \o w \in Seq(Moves)
    BY <1>0, <1>1, <2>1, <2>2, Answers
  <2> QED
    BY <2>3 DEF Isr_Ep00TxDone
<1>4. Isr_Ep01Done \in Seq(Moves) /\ Isr_Ep02Done \in Seq(Moves)
  <2>1. /\ StatusWInteruptClear(EP01) \in Seq(Moves) /\ StatusWInteruptClear(EP02) \in Seq(Moves)
        /\ ReadEndpoint(EP01) \in Seq(Moves) /\ WriteEndpoint(EP02) \in Seq(Moves)
    BY Functions
  <2> QED
    BY <1>0, <2>1 DEF Isr_Ep01Done, Isr_Ep02Done
<1> DEFINE Os == {<<>>} \cup Isr_Ep00RxDone
           Is == {<<>>} \cup Isr_Ep00TxDone
           Xs == {<<>>, Isr_Ep01Done, Isr_Ep02Done, Isr_Ep01Done \o Isr_Ep02Done}
           All == {o \o i \o x : o \in Os, i \in Is, x \in Xs}
<1>a. Events = Named("BusReset", {Isr_BusReset}) \cup Named("Event", {Isr_Others, LockDevice})
                 \cup Named("Endpoints", All)
  BY DEF Events
<1>b. /\ \A o \in Os : o \in Seq(Moves)
      /\ \A i \in Is : i \in Seq(Moves)
      /\ \A x \in Xs : x \in Seq(Moves)
  BY <1>0, <1>1, <1>2, <1>3, <1>4
<1> HIDE DEF Os, Is, Xs
<1>5. \A p \in All : p \in Seq(Moves)
  <2> SUFFICES ASSUME NEW p \in All PROVE p \in Seq(Moves)
    OBVIOUS
  <2>0. PICK o \in Os, i \in Is, x \in Xs : p = o \o i \o x
    OBVIOUS
  <2>1. o \in Seq(Moves) /\ i \in Seq(Moves) /\ x \in Seq(Moves)
    BY <1>b
  <2>2. o \o i \in Seq(Moves)
    BY <1>0, <2>1
  <2> QED
    BY <1>0, <2>0, <2>1, <2>2
<1> HIDE DEF All
<1>6. \A name, programs : \A x \in Named(name, programs) :
        x.name = name /\ x.calls \in programs
  BY DEF Named
<1>7. \A s \in {Isr_Others, LockDevice} : s \in Seq(Moves)
  BY <1>1 DEF Isr_Others
<1>8. ASSUME e \in Named("BusReset", {Isr_BusReset})
      PROVE  e.name = "BusReset" /\ e.calls = Isr_BusReset
  BY <1>6, <1>8
<1>9. ASSUME e \in Named("Event", {Isr_Others, LockDevice})
      PROVE  e.name = "Event" /\ e.calls \in Seq(Moves)
  BY <1>6, <1>7, <1>9
<1>10. ASSUME e \in Named("Endpoints", All)
       PROVE  e.name = "Endpoints" /\ e.calls \in Seq(Moves)
  BY <1>5, <1>6, <1>10
<1>11. \/ e \in Named("BusReset", {Isr_BusReset}) \/ e \in Named("Event", {Isr_Others, LockDevice})
       \/ e \in Named("Endpoints", All)
  BY <1>a
<1> QED
  <2>1. CASE e \in Named("BusReset", {Isr_BusReset})
    BY <1>8, <2>1
  <2>2. CASE e \in Named("Event", {Isr_Others, LockDevice})
    BY <1>9, <2>2
  <2>3. CASE e \in Named("Endpoints", All)
    BY <1>10, <2>3
  <2> QED
    BY <1>11, <2>1, <2>2, <2>3

-----------------------------------------------------------------------------
\* The types of programs, and how far each context is in a call.
ProgramTypes ==
  /\ todo \in [Contexts -> Seq(CallType)]
  /\ prog = [c \in Contexts |-> prog[c]]
  /\ acquired \in {0, 1}
  /\ \A c \in Contexts : pos[c] > 0 => pos[c] <= Head(todo[c]).words

\* Before usb_isr is registered there is only the boot, and after that the boot
\* moves no words.
BootAlone ==
  /\ acquired = 0 =>
       /\ level = 0 /\ prog[0] = "Boot"
       /\ pos[0] > 0 => OnCourse(0)
       /\ \E k \in 1..Len(todo[0]) : todo[0][k].do = "acquire"
       /\ \A k, m \in 1..Len(todo[0]) :
            todo[0][k].do = "acquire" /\ m > k => todo[0][m].words = 0
  /\ acquired = 1 /\ prog[0] = "Boot" => todo[0] \in Seq(Wordless)

\* The programs that lose no words keep them in sections, and usb_isr is in
\* one when it knows what has happened.
Section(c) ==
  /\ prog[c] \notin Strays \cup {"Boot"} => todo[c] \in Kept(shut[c])
  /\ prog[c] = "usb_isr" =>
       /\ todo[c] \in Seq(Shutting)
       /\ shut[c] = 1 \/ \E k \in 1..Len(todo[c]) : todo[c][k].do = "disable"
  /\ c > 0 => prog[c] # "Boot"

InSections == \A c \in 0..level : Section(c)

StrayInv == ProgramTypes /\ BootAlone /\ InSections
-----------------------------------------------------------------------------
LEMMA Dropped ==
  ASSUME NEW S, NEW s \in Seq(S), s # <<>>
  PROVE  /\ Len(s) \in Nat /\ Len(s) > 0 /\ Head(s) = s[1] /\ Head(s) \in S
         /\ Tail(s) \in Seq(S) /\ Len(Tail(s)) = Len(s) - 1
         /\ \A k \in 1..Len(Tail(s)) : Tail(s)[k] = s[k + 1] /\ k + 1 \in 1..Len(s)
<1>1. Len(s) \in Nat /\ Len(s) > 0 /\ Head(s) = s[1]
  BY EmptySeq, LenProperties
<1>2. /\ Head(s) \in S /\ Tail(s) \in Seq(S) /\ Len(Tail(s)) = Len(s) - 1
      /\ \A k \in 1..Len(Tail(s)) : Tail(s)[k] = s[k + 1]
  BY HeadTailProperties
<1>3. \A k \in 1..Len(Tail(s)) : k + 1 \in 1..Len(s)
  BY <1>1, <1>2
<1> QED
  BY <1>1, <1>2, <1>3

\* What is left of a protected program when its first call is over.
LEMMA TailKept ==
  ASSUME NEW b \in {0, 1}, NEW s \in Kept(b), s # <<>>
  PROVE  /\ Head(s).do \notin {"disable", "enable"} => Tail(s) \in Kept(b)
         /\ Head(s).do = "disable" => Tail(s) \in Kept(1)
         /\ Head(s).do = "enable" => s \in Kept(0) /\ Tail(s) \in Kept(0)
         /\ Head(s).words > 0 => b = 1
<1> DEFINE t == Tail(s)
<1>0. s \in Seq(CallType) /\ Protected(s, b)
  BY DEF Kept
<1>1. /\ Len(s) \in Nat /\ Len(s) > 0 /\ Head(s) = s[1]
      /\ t \in Seq(CallType) /\ Len(t) = Len(s) - 1
      /\ \A k \in 1..Len(t) : t[k] = s[k + 1]
      /\ \A k \in 1..Len(t) : k + 1 \in 1..Len(s)
  BY <1>0, Dropped
<1> HIDE DEF t
<1>2. Head(s).words > 0 => b = 1
  <2>1. 1 \in 1..Len(s) /\ \A j \in 1..1 - 1 : FALSE
    BY <1>1
  <2> QED
    BY <1>0, <1>1, <2>1 DEF Protected
<1>3. ASSUME NEW k \in 1..Len(t), t[k].words > 0
      PROVE  /\ \A m \in 1..k - 1 : t[m].do = "enable"
                  => \E j \in m + 1..k - 1 : t[j].do = "disable"
             /\ s[1].do = "enable" => \E j \in 1..k - 1 : t[j].do = "disable"
             /\ \/ b = 1
                \/ s[1].do = "disable"
                \/ \E j \in 1..k - 1 : t[j].do = "disable"
  <2>1. /\ \A m \in 1..k : s[m].do = "enable"
             => \E j \in m + 1..k : s[j].do = "disable"
        /\ b = 1 \/ \E j \in 1..k : s[j].do = "disable"
    <3>1. k + 1 \in 1..Len(s) /\ s[k + 1].words > 0 /\ (k + 1) - 1 = k
      BY <1>1, <1>3
    <3> QED
      BY <1>0, <3>1 DEF Protected
  <2>2. \A m \in 1..k - 1 : t[m] = s[m + 1]
    <3>1. \A m \in 1..k - 1 : m \in 1..Len(t)
      BY <1>1
    <3> QED
      BY <1>1, <3>1
  <2>3. \A j \in 2..k : j - 1 \in 1..k - 1 /\ (j - 1) + 1 = j
    OBVIOUS
  <2>4. \A j \in 2..k : t[j - 1] = s[j]
    BY <2>2, <2>3
  <2>5. ASSUME NEW m \in 1..k - 1, t[m].do = "enable"
        PROVE  \E j \in m + 1..k - 1 : t[j].do = "disable"
    <3>1. m + 1 \in 1..k /\ s[m + 1].do = "enable"
      BY <2>2, <2>5
    <3>2. PICK j \in (m + 1) + 1..k : s[j].do = "disable"
      BY <2>1, <3>1
    <3>3. j \in 2..k /\ j - 1 \in m + 1..k - 1
      OBVIOUS
    <3> QED
      BY <2>4, <3>2, <3>3
  <2>6. ASSUME s[1].do = "enable" PROVE \E j \in 1..k - 1 : t[j].do = "disable"
    <3>0. 1 \in 1..k
      OBVIOUS
    <3>1. PICK j \in 1 + 1..k : s[j].do = "disable"
      BY <2>1, <2>6, <3>0
    <3>2. j \in 2..k
      OBVIOUS
    <3> QED
      BY <2>3, <2>4, <3>1, <3>2
  <2>7. ASSUME b # 1, s[1].do # "disable" PROVE \E j \in 1..k - 1 : t[j].do = "disable"
    <3>1. PICK j \in 1..k : s[j].do = "disable"
      BY <2>1, <2>7
    <3>2. j \in 2..k
      BY <2>7, <3>1
    <3> QED
      BY <2>3, <2>4, <3>1, <3>2
  <2> QED
    BY <2>5, <2>6, <2>7
<1>4. Head(s).do \notin {"disable", "enable"} => t \in Kept(b)
  BY <1>1, <1>3 DEF Kept, Protected
<1>5. Head(s).do = "disable" => t \in Kept(1)
  BY <1>1, <1>3 DEF Kept, Protected
<1>6. ASSUME Head(s).do = "enable" PROVE s \in Kept(0) /\ t \in Kept(0)
  <2>1. t \in Kept(0)
    BY <1>1, <1>3, <1>6 DEF Kept, Protected
  <2>2. \A k \in 1..Len(s) : s[k].words > 0 => k = 1 \/ 1 \in 1..k - 1
    BY <1>1
  <2>3. s[1].do = "enable" /\ 1 \in 1..Len(s)
    BY <1>1, <1>6
  <2>4. s[1].words = 0
    BY <1>0, <2>3, ElementOfSeq DEF CallType
  <2>5. ASSUME NEW k \in 1..Len(s), s[k].words > 0
        PROVE  \E j \in 1..k - 1 : s[j].do = "disable"
    <3>1. 1 \in 1..k - 1
      BY <2>2, <2>4, <2>5
    <3>2. PICK j \in 1 + 1..k - 1 : s[j].do = "disable"
      BY <1>0, <2>3, <2>5, <3>1 DEF Protected
    <3>3. j \in 1..k - 1
      OBVIOUS
    <3> QED
      BY <3>2, <3>3
  <2>6. s \in Kept(0)
    BY <1>0, <2>5 DEF Kept, Protected
  <2> QED
    BY <2>1, <2>6
<1> QED
  BY <1>2, <1>4, <1>5, <1>6 DEF t
-----------------------------------------------------------------------------
\* disable() and enable(): the call goes on, or is over and has done its work.
LEMMA MaskingEffect ==
  ASSUME IInv, Masking
  PROVE  /\ level' = level
         /\ UNCHANGED <<port, prog, reg, acquired, regular, intact>>
         /\ todo[level] # <<>> /\ Head(todo[level]).do = "disable"
         /\ \/ UNCHANGED <<todo, pos, shut>>
            \/ Finish /\ shut' = [shut EXCEPT ![level] = 1]
<1>0. open \in [Contexts -> 0..MaxOpen] /\ level \in Contexts
  BY DEF IInv, TypeInv, TypeOK
<1>1. Opened => open' # open /\ shut' = [shut EXCEPT ![level] = 1]
  <2>1. open[level] \in 0..MaxOpen
    BY <1>0
  <2>2. open[level] + 1 # open[level]
    BY <2>1, LockAssumption
  <2> QED
    BY <1>0, <2>2 DEF Opened
<1>2. CASE Disable
  BY <1>1, <1>2 DEF Masking, Busy, Current, FinishWhen, Disable
<1>3. CASE Mask
  BY <1>3 DEF Masking, Busy, Current, FinishWhen, Mask
<1>4. CASE FlagOff
  BY <1>1, <1>4 DEF Masking, Busy, Current, FinishWhen, FlagOff
<1> QED
  BY <1>2, <1>3, <1>4 DEF Masking

LEMMA UnmaskingEffect ==
  ASSUME IInv, Unmasking
  PROVE  /\ level' = level
         /\ UNCHANGED <<port, prog, reg, acquired, regular, intact>>
         /\ todo[level] # <<>> /\ Head(todo[level]).do = "enable"
         /\ UNCHANGED <<todo, pos>> \/ Finish
         /\ shut' = [shut EXCEPT ![level] = 0]
<1>0. shut \in [Contexts -> {0, 1}] /\ level \in Contexts /\ OpeningIsNotShut
  BY DEF IInv, TypeInv, TypeOK, ExclusionInv
<1>1. CASE Enable
  BY <1>1 DEF Unmasking, Busy, Current, FinishWhen, Enable
<1>2. CASE Unmask
  BY <1>0, <1>2 DEF Unmasking, Busy, Current, FinishWhen, Unmask, OpeningIsNotShut
<1>3. CASE FlagOn
  BY <1>0, <1>3 DEF Unmasking, Busy, Current, FinishWhen, FlagOn, OpeningIsNotShut
<1> QED
  BY <1>1, <1>2, <1>3 DEF Unmasking

\* A call to the chip: its command or one of its words, the last of which ends
\* the call.
LEMMA ChipEffect ==
  ASSUME IInv, CourseInv, ProgramTypes, SelectCommand \/ MoveWord
  PROVE  /\ UNCHANGED vars /\ UNCHANGED <<prog, acquired, regular>>
         /\ todo[level] # <<>> /\ Head(todo[level]).do \in {"command", "read", "write"}
         /\ \/ Finish
            \/ /\ UNCHANGED todo /\ pos' = [pos EXCEPT ![level] = @ + 1]
               /\ pos[level] + 1 <= Head(todo[level]).words
               /\ pos[level] = 0 \/ OnCourse(level) => OnCourse(level)'
<1>0. /\ level \in Contexts /\ pos \in [Contexts -> Nat]
      /\ todo \in [Contexts -> Seq(CallType)]
      /\ port = [cmd |-> port.cmd, words |-> port.words] /\ port.words \in Nat
      /\ \A c \in Contexts :
            pos[c] > 0 => todo[c] # <<>> /\ Head(todo[c]).do \in {"command", "read", "write"}
      /\ \A c \in Contexts : pos[c] > 0 => pos[c] <= Head(todo[c]).words
  BY DEF IInv, TypeInv, TypeOK, CourseInv, PortTypeInv, InCall, ProgramTypes
<1>a. todo[level] # <<>> => Head(todo[level]).words \in Nat
  <2>1. todo[level] \in Seq(CallType)
    BY <1>0
  <2>2. todo[level] # <<>> => Head(todo[level]) \in CallType
    BY <2>1, Dropped
  <2> QED
    BY <2>2 DEF CallType
<1>1. CASE SelectCommand
  <2>1. /\ UNCHANGED vars /\ UNCHANGED <<prog, acquired, regular>>
        /\ todo[level] # <<>> /\ Head(todo[level]).do \in {"command", "read", "write"}
        /\ pos[level] = 0
        /\ port' = [cmd |-> Head(todo[level]).cmd, words |-> 0]
        /\ IF Head(todo[level]).words = 0 THEN Finish
           ELSE pos' = [pos EXCEPT ![level] = 1] /\ UNCHANGED todo
    BY <1>1 DEF SelectCommand, Busy, Current
  <2>2. CASE Head(todo[level]).words = 0
    BY <2>1, <2>2
  <2>3. CASE Head(todo[level]).words # 0
    <3>1. pos' = [pos EXCEPT ![level] = 1] /\ UNCHANGED todo /\ level' = level
      BY <2>1, <2>3 DEF vars
    <3>2. pos' = [pos EXCEPT ![level] = @ + 1] /\ pos'[level] = 1
      BY <1>0, <2>1, <3>1
    <3>3. pos[level] + 1 <= Head(todo[level]).words
      BY <1>a, <2>1, <2>3
    <3>4. OnCourse(level)'
      BY <2>1, <3>1, <3>2 DEF OnCourse
    <3> QED
      BY <2>1, <3>1, <3>2, <3>3, <3>4
  <2> QED
    BY <2>2, <2>3
<1>2. CASE MoveWord
  <2>1. /\ UNCHANGED vars /\ UNCHANGED <<prog, acquired, regular>>
        /\ todo[level] # <<>> /\ pos[level] > 0
        /\ port' = [port EXCEPT !.words = @ + 1]
        /\ IF pos[level] = Head(todo[level]).words THEN Finish
           ELSE pos' = [pos EXCEPT ![level] = @ + 1] /\ UNCHANGED todo
    BY <1>2 DEF MoveWord, Busy, Current
  <2>2. CASE pos[level] = Head(todo[level]).words
    BY <1>0, <2>1, <2>2
  <2>3. CASE pos[level] # Head(todo[level]).words
    <3>1. pos' = [pos EXCEPT ![level] = @ + 1] /\ UNCHANGED todo /\ level' = level
      BY <2>1, <2>3 DEF vars
    <3>2. pos'[level] = pos[level] + 1 /\ pos[level] \in Nat
      BY <1>0, <3>1
    <3>3. pos[level] + 1 <= Head(todo[level]).words
      BY <1>0, <1>a, <2>1, <2>3, <3>2
    <3>4. OnCourse(level) => OnCourse(level)'
      <4> SUFFICES ASSUME port = [cmd |-> Head(todo[level]).cmd, words |-> pos[level] - 1]
                   PROVE  port' = [cmd |-> Head(todo[level]).cmd, words |-> pos'[level] - 1]
        BY <3>1 DEF OnCourse
      <4>1. port' = [cmd |-> port.cmd, words |-> port.words + 1]
        BY <1>0, <2>1
      <4>2. port.words + 1 = pos'[level] - 1
        BY <3>2
      <4> QED
        BY <4>1, <4>2
    <3> QED
      BY <1>0, <2>1, <3>1, <3>3, <3>4
  <2> QED
    BY <2>2, <2>3
<1> QED
  BY <1>1, <1>2

\* What a step of the current context has to leave behind.
LEMMA SectionsStep ==
  ASSUME InSections, level' = level, prog' = prog,
         \A c \in 0..level : c # level => todo'[c] = todo[c] /\ shut'[c] = shut[c],
         Section(level)'
  PROVE  InSections'
<1>1. ASSUME NEW c \in 0..level, c # level PROVE Section(c)'
  <2>1. Section(c) /\ todo'[c] = todo[c] /\ shut'[c] = shut[c] /\ prog'[c] = prog[c]
    BY <1>1 DEF InSections
  <2> QED
    BY <2>1 DEF Section
<1>2. \A c \in 0..level' : c = level' \/ (c \in 0..level /\ c # level)
  OBVIOUS
<1> QED
  BY <1>1, <1>2 DEF InSections

\* The first call of the current context is over.
LEMMA SectionFinish ==
  ASSUME IInv, CourseInv, StrayInv, Finish, level' = level, prog' = prog,
         todo[level] # <<>>,
         \/ Head(todo[level]).do \notin {"disable", "enable"} /\ shut' = shut
         \/ Head(todo[level]).do = "disable" /\ shut' = [shut EXCEPT ![level] = 1]
         \/ Head(todo[level]).do = "enable" /\ shut' = [shut EXCEPT ![level] = 0]
  PROVE  InSections'
<1>0. /\ level \in Contexts /\ shut \in [Contexts -> {0, 1}] /\ level \in 0..level
      /\ todo \in [Contexts -> Seq(CallType)] /\ Section(level)
      /\ \A c \in 0..level : c \in Contexts
  <2>1. level \in Nat /\ level \in 0..MaxLevel
    BY LockAssumption DEF IInv, TypeInv, TypeOK, Contexts
  <2>2. level \in 0..level /\ \A c \in 0..level : c \in Contexts
    BY <2>1, LockAssumption DEF Contexts
  <2> QED
    BY <2>2 DEF IInv, TypeInv, TypeOK, StrayInv, ProgramTypes, InSections
<1>1. todo[level] \in Seq(CallType) /\ todo' = [todo EXCEPT ![level] = Tail(@)]
  BY <1>0 DEF Finish
<1> DEFINE s == todo[level]
<1>2. /\ todo'[level] = Tail(s)
      /\ \A c \in 0..level : c # level => todo'[c] = todo[c] /\ shut'[c] = shut[c]
  BY <1>0, <1>1
<1>3. prog[level] \notin Strays \cup {"Boot"} => Tail(s) \in Kept(shut'[level])
  <2> SUFFICES ASSUME prog[level] \notin Strays \cup {"Boot"} PROVE Tail(s) \in Kept(shut'[level])
    OBVIOUS
  <2>1. s \in Kept(shut[level]) /\ shut[level] \in {0, 1}
    BY <1>0 DEF Section
  <2>2. /\ Head(s).do \notin {"disable", "enable"} => Tail(s) \in Kept(shut[level])
        /\ Head(s).do = "disable" => Tail(s) \in Kept(1)
        /\ Head(s).do = "enable" => Tail(s) \in Kept(0)
    BY <2>1, TailKept
  <2> QED
    BY <1>0, <2>2
<1>4. ASSUME prog[level] = "usb_isr"
      PROVE  /\ Tail(s) \in Seq(Shutting)
             /\ shut'[level] = 1 \/ \E k \in 1..Len(Tail(s)) : Tail(s)[k].do = "disable"
  <2>1. /\ s \in Seq(Shutting) /\ s # <<>>
        /\ shut[level] = 1 \/ \E k \in 1..Len(s) : s[k].do = "disable"
    BY <1>0, <1>4 DEF Section
  <2>2. /\ Len(s) \in Nat /\ Len(s) > 0 /\ Head(s) = s[1] /\ Head(s) \in Shutting
        /\ Tail(s) \in Seq(Shutting) /\ Len(Tail(s)) = Len(s) - 1
        /\ \A k \in 1..Len(Tail(s)) : Tail(s)[k] = s[k + 1]
    BY <2>1, Dropped
  <2>3. Head(s).do # "enable"
    BY <2>2 DEF Shutting
  <2>4. CASE Head(s).do = "disable"
    BY <1>0, <2>2, <2>4
  <2>5. CASE Head(s).do # "disable"
    <3>1. shut' = shut
      BY <2>3, <2>5
    <3>2. ASSUME NEW k \in 1..Len(s), s[k].do = "disable"
          PROVE  \E j \in 1..Len(Tail(s)) : Tail(s)[j].do = "disable"
      <4>1. k # 1
        BY <2>2, <2>5, <3>2
      <4>2. k - 1 \in 1..Len(Tail(s)) /\ (k - 1) + 1 = k
        BY <2>2, <4>1
      <4> QED
        BY <2>2, <3>2, <4>2
    <3> QED
      BY <2>1, <2>2, <3>1, <3>2
  <2> QED
    BY <2>4, <2>5
<1>5. Section(level)'
  BY <1>0, <1>2, <1>3, <1>4 DEF Section
<1> QED
  BY <1>2, <1>5, SectionsStep DEF StrayInv

LEMMA ProgramsFinish ==
  ASSUME IInv, CourseInv, StrayInv, Finish, level' = level, prog' = prog,
         acquired' \in {0, 1}, todo[level] # <<>>
  PROVE  /\ ProgramTypes'
         /\ acquired' = acquired /\ Head(todo[level]).do # "acquire" => BootAlone'
<1>0. /\ level \in Contexts /\ 0 \in Contexts
      /\ todo \in [Contexts -> Seq(CallType)] /\ pos \in [Contexts -> Nat]
      /\ prog = [c \in Contexts |-> prog[c]]
      /\ \A c \in Contexts : pos[c] > 0 => pos[c] <= Head(todo[c]).words
      /\ BootAlone
  BY LockAssumption DEF IInv, TypeInv, TypeOK, Contexts, StrayInv, ProgramTypes, CourseInv,
     PortTypeInv
<1>1. todo[level] \in Seq(CallType) /\ todo' = [todo EXCEPT ![level] = Tail(@)]
      /\ pos' = [pos EXCEPT ![level] = 0]
  BY <1>0 DEF Finish
<1>2. Tail(todo[level]) \in Seq(CallType)
  BY <1>1, Dropped
<1>3. ProgramTypes'
  BY <1>0, <1>1, <1>2 DEF ProgramTypes
<1>4. ASSUME acquired' = acquired, Head(todo[level]).do # "acquire"
      PROVE  BootAlone'
  <2>1. ASSUME acquired = 0
        PROVE  /\ level = 0 /\ prog[0] = "Boot" /\ pos'[0] = 0
               /\ \E k \in 1..Len(todo'[0]) : todo'[0][k].do = "acquire"
               /\ \A k, m \in 1..Len(todo'[0]) :
                    todo'[0][k].do = "acquire" /\ m > k => todo'[0][m].words = 0
    <3> DEFINE s == todo[0]
    <3>1. /\ level = 0 /\ prog[0] = "Boot"
          /\ \E k \in 1..Len(s) : s[k].do = "acquire"
          /\ \A k, m \in 1..Len(s) : s[k].do = "acquire" /\ m > k => s[m].words = 0
      BY <1>0, <2>1 DEF BootAlone
    <3>2. todo'[0] = Tail(s) /\ pos'[0] = 0 /\ s \in Seq(CallType) /\ s # <<>>
          /\ Head(s).do # "acquire"
      BY <1>0, <1>1, <1>4, <3>1
    <3>3. /\ Len(s) \in Nat /\ Len(s) > 0 /\ Head(s) = s[1] /\ Len(Tail(s)) = Len(s) - 1
          /\ \A k \in 1..Len(Tail(s)) : Tail(s)[k] = s[k + 1] /\ k + 1 \in 1..Len(s)
      BY <3>2, Dropped
    <3>4. PICK k \in 1..Len(s) : s[k].do = "acquire"
      BY <3>1
    <3>5. k # 1
      BY <3>2, <3>3, <3>4
    <3>6. k - 1 \in 1..Len(Tail(s)) /\ (k - 1) + 1 = k
      BY <3>3, <3>5
    <3>7. Tail(s)[k - 1].do = "acquire"
      BY <3>3, <3>4, <3>6
    <3>8. ASSUME NEW i \in 1..Len(Tail(s)), NEW m \in 1..Len(Tail(s)),
                 Tail(s)[i].do = "acquire", m > i
          PROVE  Tail(s)[m].words = 0
      <4>1. i + 1 \in 1..Len(s) /\ m + 1 \in 1..Len(s) /\ m + 1 > i + 1
        BY <3>3, <3>8
      <4>2. s[i + 1].do = "acquire"
        BY <3>3, <3>8
      <4>3. s[m + 1].words = 0
        BY <3>1, <4>1, <4>2
      <4> QED
        BY <3>3, <4>3
    <3> QED
      BY <3>1, <3>2, <3>6, <3>7, <3>8
  <2>2. ASSUME acquired = 1, prog[0] = "Boot" PROVE todo'[0] \in Seq(Wordless)
    <3>1. todo[0] \in Seq(Wordless)
      BY <1>0, <2>2 DEF BootAlone
    <3>2. todo[level] # <<>> /\ level = 0 => Tail(todo[0]) \in Seq(Wordless)
      BY <3>1, Dropped
    <3>3. CASE level = 0
      BY <1>0, <1>1, <3>2, <3>3
    <3>4. CASE level # 0
      BY <1>0, <1>1, <3>1, <3>4
    <3> QED
      BY <3>3, <3>4
  <2> QED
    BY <1>4, <2>1, <2>2 DEF BootAlone
<1> QED
  BY <1>3, <1>4

\* A step that leaves the programs alone.
LEMMA StraySame ==
  ASSUME StrayInv, UNCHANGED <<todo, prog, acquired, level, pos, port>>,
         shut' = shut
  PROVE  StrayInv'
<1>1. InSections'
  BY DEF StrayInv, InSections, Section
<1>2. BootAlone'
  BY DEF StrayInv, BootAlone, OnCourse
<1>3. ProgramTypes'
  BY DEF StrayInv, ProgramTypes
<1> QED
  BY <1>1, <1>2, <1>3 DEF StrayInv

LEMMA Retyped ==
  ASSUME NEW S, NEW T, NEW s \in Seq(S), \A k \in 1..Len(s) : s[k] \in T
  PROVE  s \in Seq(T)
<1>1. Len(s) \in Nat /\ s \in [1..Len(s) -> S]
  BY LenProperties
<1>2. s \in [1..Len(s) -> T]
  BY <1>1
<1> QED
  BY <1>1, <1>2

LEMMA IsrPrograms ==
  /\ usb_isr \in Seq(CallType) /\ usb_isr \in Seq(Shutting) /\ usb_isr \in Seq(Plain)
  /\ usb_isr \in Kept(0) /\ \E k \in 1..Len(usb_isr) : usb_isr[k].do = "disable"
<1> DEFINE t == LockDevice \o ReadInterruptRegister
<1>1. LockDevice \in Seq(Moves) /\ ReadInterruptRegister \in Seq(Moves) /\ t \in Seq(Moves)
  BY ChipFunctions, PlainJoin
<1>2. /\ RaiseIRQL \in Seq(Shutting) /\ RaiseIRQL \in Seq(CallType) /\ RaiseIRQL \in Seq(Plain)
      /\ Len(RaiseIRQL) = 1 /\ RaiseIRQL[1].do = "disable"
  BY LockCalls, LockSignals, PlainSets
<1>3. RaiseIRQL \o LockDevice \o ReadInterruptRegister = RaiseIRQL \o t
  BY <1>1, <1>2, PlainSets, ConcatAssociative
<1>4. usb_isr = RaiseIRQL \o t
  BY <1>3 DEF usb_isr
<1> HIDE DEF t
<1>5. t \in Clean(1)
  BY <1>1, CleanSets
<1>6. RaiseIRQL \o t \in Clean(0)
  BY <1>5, CleanRaise
<1>7. RaiseIRQL \o t \in Seq(Shutting)
  <2>1. t \in Seq(Shutting)
    BY <1>1, PlainSets
  <2> QED
    BY <1>2, <2>1, ConcatProperties
<1>8. t \in Seq(CallType)
  BY <1>1, PlainSets
<1>9. 1 \in 1..Len(RaiseIRQL \o t) /\ (RaiseIRQL \o t)[1] = RaiseIRQL[1]
  <2>1. 1 \in 1..Len(RaiseIRQL)
    BY <1>2
  <2> QED
    BY <1>2, <1>8, <2>1, Joined
<1> QED
  BY <1>2, <1>4, <1>6, <1>7, <1>9 DEF Clean, Kept

\* The calls that write the configuration registers are calls.
LEMMA ConfigCalls ==
  /\ config_endpoint \in Seq(Early) /\ connect_USB \in Seq(Early)
  /\ disconnect_USB \in Seq(Early) /\ reconnect_USB \in Seq(Early)
  /\ ResetDevice \in Seq(Early) /\ Isr_BusReset \in Seq(Early)
<1>0. /\ Chip \in Int /\ ConfigCodes \subseteq Codes
      /\ {"none", "set", "powered", "off", "connected", "disconnected"} \subseteq Values
  BY CodesUsed DEF Codes, ConfigCodes, Values
<1>1. ASSUME NEW code \in ConfigCodes, NEW ep \in Int, NEW words \in Nat, NEW value \in Values,
             NEW do \in {"command", "write"}
      PROVE  Call(do, Code(code, ep), words, value) \in Early
  <2>1. Call(do, Code(code, ep), words, value) \in CallType
    BY <1>0, CallIn
  <2> QED
    BY <2>1 DEF Early, Call
<1>2. /\ SetIntEnable \in Seq(Early) /\ ResetDevice \in Seq(Early)
      /\ \A v \in {"powered", "off"} : SetDevConfig(v) \in Seq(Early)
      /\ \A v \in {"connected", "disconnected"} : SetMode(v) \in Seq(Early)
  <2>1. /\ Call("write", Code("WR_INTEN", Chip), 2, "set") \in Early
        /\ Call("command", Code("RESET", Chip), 0, "none") \in Early
        /\ \A v \in {"powered", "off"} : Call("write", Code("WR_CNFG", Chip), 1, v) \in Early
        /\ \A v \in {"connected", "disconnected"} :
             Call("write", Code("WR_MODE", Chip), 1, v) \in Early
    BY <1>0, <1>1 DEF ConfigCodes
  <2> QED
    BY <2>1, OneCall DEF SetIntEnable, ResetDevice, SetDevConfig, SetMode, Writes, Command
<1> DEFINE f == [e \in 1..MaxEndpoint + 2 |-> Head(SetEndpointConfig(e - 1))]
<1>3. f \in Seq(Early)
  <2>1. \A e \in 1..MaxEndpoint + 2 : Head(SetEndpointConfig(e - 1)) \in Early
    <3> SUFFICES ASSUME NEW e \in 1..MaxEndpoint + 2
                 PROVE  Head(SetEndpointConfig(e - 1)) \in Early
      OBVIOUS
    <3>1. e - 1 \in Int
      OBVIOUS
    <3>2. Call("write", Code("WR_EPCNFG", e - 1), 1, "set") \in Early
      BY <1>0, <1>1, <3>1 DEF ConfigCodes
    <3>3. Head(SetEndpointConfig(e - 1)) = Call("write", Code("WR_EPCNFG", e - 1), 1, "set")
      BY DEF SetEndpointConfig, Writes
    <3> QED
      BY <3>2, <3>3
  <2>2. MaxEndpoint + 2 \in Nat
    BY PortAssumption
  <2>3. f \in [1..MaxEndpoint + 2 -> Early]
    BY <2>1
  <2> HIDE DEF f
  <2> QED
    BY <2>2, <2>3
<1> HIDE DEF f
<1>4. \A s, t \in Seq(Early) : s \o t \in Seq(Early)
  BY ConcatProperties
<1>5. config_endpoint \in Seq(Early)
  BY <1>2, <1>3, <1>4 DEF config_endpoint, f
<1>6. disconnect_USB \in Seq(Early)
  BY <1>2, <1>4 DEF disconnect_USB
<1>7. connect_USB \in Seq(Early)
  BY <1>2, <1>4, <1>5, LockCalls DEF connect_USB
<1> QED
  BY <1>2, <1>4, <1>5, <1>6, <1>7 DEF reconnect_USB, Isr_BusReset

\* The boot registers usb_isr when it has done its work.
LEMMA BootProgram ==
  /\ Boot \in Seq(CallType)
  /\ \E k \in 1..Len(Boot) : Boot[k].do = "acquire"
  /\ \A k, m \in 1..Len(Boot) : Boot[k].do = "acquire" /\ m > k => Boot[m].words = 0
<1> DEFINE p == RaiseIRQL \o disconnect_USB \o ResetDevice \o reconnect_USB \o ReadChipID
           x == Call("acquire", NoCommand, 0, "none")
           a == <<x>>
<1>1. p \in Seq(Early)
  <2>1. ReadChipID \in Seq(Early)
    BY ChipFunctions, PlainSets
  <2>2. \A s, t \in Seq(Early) : s \o t \in Seq(Early)
    BY ConcatProperties
  <2> QED
    BY <2>1, <2>2, ConfigCalls, LockCalls
<1>2. Boot = p \o a \o LowerIRQL
  BY DEF Boot
<1>3. x \in CallType /\ x.do = "acquire" /\ x.words = 0
  <2>1. Chip \in Int /\ "none" \in Codes /\ "none" \in Values
    BY CodesUsed DEF Codes
  <2>2. x \in CallType
    BY <2>1, CallIn DEF NoCommand
  <2> QED
    BY <2>2 DEF Call
<1>4. a \in Seq(CallType) /\ Len(a) = 1 /\ a[1].do = "acquire"
  BY <1>3, OneCall
<1>5. LowerIRQL \in Seq(CallType) /\ \A k \in 1..Len(LowerIRQL) : LowerIRQL[k].words = 0
  BY LockCalls, CallSets
<1>6. p \in Seq(CallType) /\ \A k \in 1..Len(p) : p[k].do # "acquire"
  BY <1>1, CallSets
<1> DEFINE pa == p \o a
<1> HIDE DEF p, x, a
<1>7. /\ pa \in Seq(CallType) /\ Len(p) \in Nat /\ Len(pa) = Len(p) + 1
      /\ \A k \in 1..Len(p) : pa[k] = p[k]
      /\ pa[Len(p) + 1] = a[1]
  <2>1. /\ pa \in Seq(CallType) /\ Len(p) \in Nat /\ Len(pa) = Len(p) + Len(a)
        /\ \A k \in 1..Len(p) : pa[k] = p[k]
        /\ \A k \in 1..Len(a) : pa[Len(p) + k] = a[k]
    BY <1>4, <1>6, Joined
  <2>2. 1 \in 1..Len(a)
    BY <1>4
  <2>3. pa[Len(p) + 1] = a[1]
    BY <2>1, <2>2
  <2> QED
    BY <1>4, <2>1, <2>3
<1> HIDE DEF pa
<1> DEFINE n == Len(pa)
<1>8. /\ Boot \in Seq(CallType) /\ n \in Nat /\ Len(LowerIRQL) \in Nat
      /\ Len(Boot) = n + Len(LowerIRQL)
      /\ \A k \in 1..n : Boot[k] = pa[k] /\ k \in 1..Len(Boot)
      /\ \A k \in 1..Len(LowerIRQL) : Boot[n + k] = LowerIRQL[k]
      /\ \A k \in 1..Len(Boot) : k \in 1..n \/ \E i \in 1..Len(LowerIRQL) : k = n + i
  BY <1>2, <1>5, <1>7, Joined DEF pa
<1>9. n \in 1..n /\ Boot[n].do = "acquire"
  <2>1. n = Len(p) + 1
    BY <1>7
  <2>2. n \in 1..n
    BY <1>7, <2>1
  <2>3. Boot[n] = pa[n]
    BY <1>8, <2>2
  <2> QED
    BY <1>4, <1>7, <2>1, <2>2, <2>3
<1>10. \A k \in 1..Len(Boot) : k < n => Boot[k].do # "acquire"
  <2> SUFFICES ASSUME NEW k \in 1..Len(Boot), k < n PROVE Boot[k].do # "acquire"
    OBVIOUS
  <2>1. k \in 1..n /\ k \in 1..Len(p)
    BY <1>7, <1>8
  <2>2. Boot[k] = p[k]
    BY <1>7, <1>8, <2>1
  <2> QED
    BY <1>6, <2>1, <2>2
<1>11. \A m \in 1..Len(Boot) : m > n => Boot[m].words = 0
  <2> SUFFICES ASSUME NEW m \in 1..Len(Boot), m > n PROVE Boot[m].words = 0
    OBVIOUS
  <2>1. m \notin 1..n
    BY <1>8
  <2>2. PICK i \in 1..Len(LowerIRQL) : m = n + i
    BY <1>8, <2>1
  <2>3. Boot[n + i] = LowerIRQL[i]
    BY <1>8
  <2> QED
    BY <1>5, <2>2, <2>3
<1>12. ASSUME NEW k \in 1..Len(Boot), NEW m \in 1..Len(Boot), Boot[k].do = "acquire", m > k
       PROVE  Boot[m].words = 0
  <2>1. ~(k < n)
    BY <1>10, <1>12
  <2>2. m > n
    BY <1>8, <1>12, <2>1
  <2> QED
    BY <1>11, <2>2
<1> QED
  BY <1>8, <1>9, <1>12

-----------------------------------------------------------------------------
LEMMA StrayInit == PortInit => StrayInv
<1> SUFFICES ASSUME PortInit PROVE StrayInv
  OBVIOUS
<1>0. /\ level = 0 /\ acquired = 0 /\ 0 \in Contexts
      /\ todo = [c \in Contexts |-> IF c = 0 THEN Boot ELSE <<>>]
      /\ pos = [c \in Contexts |-> 0]
      /\ prog = [c \in Contexts |-> IF c = 0 THEN "Boot" ELSE "none"]
  BY LockAssumption DEF PortInit, Init, Contexts
<1>1. ProgramTypes
  <2>1. <<>> \in Seq(CallType)
    BY EmptySeq
  <2> QED
    BY <1>0, <2>1, BootProgram DEF ProgramTypes
<1>2. BootAlone
  BY <1>0, BootProgram DEF BootAlone
<1>3. InSections
  <2>1. \A c \in 0..level : c = 0
    BY <1>0
  <2>2. prog[0] = "Boot"
    BY <1>0
  <2> QED
    BY <2>1, <2>2 DEF InSections, Section
<1> QED
  BY <1>1, <1>2, <1>3 DEF StrayInv

LEMMA StrayStep == IInv /\ CourseInv /\ StrayInv /\ [PortNext]_allVars => StrayInv'
<1> SUFFICES ASSUME IInv, CourseInv, StrayInv, [PortNext]_allVars PROVE StrayInv'
  OBVIOUS
<1>0. /\ level \in Contexts /\ 0 \in Contexts /\ level \in 0..level /\ level \in Nat
      /\ \A c \in 0..level : c \in Contexts
      /\ shut \in [Contexts -> {0, 1}]
      /\ todo \in [Contexts -> Seq(CallType)] /\ pos \in [Contexts -> Nat]
      /\ prog = [c \in Contexts |-> prog[c]] /\ acquired \in {0, 1}
      /\ \A c \in Contexts : pos[c] > 0 => pos[c] <= Head(todo[c]).words
      /\ ProgramTypes /\ BootAlone /\ InSections /\ PortTypeInv /\ InCall
  <2>1. level \in 0..MaxLevel
    BY DEF IInv, TypeInv, TypeOK, Contexts
  <2>2. level \in Nat /\ level \in 0..level /\ 0 \in Contexts /\ \A c \in 0..level : c \in Contexts
    BY <2>1, LockAssumption DEF Contexts
  <2> QED
    BY <2>2 DEF IInv, TypeInv, TypeOK, StrayInv, ProgramTypes, CourseInv, PortTypeInv
<1>a. todo[level] = <<>> => pos[level] = 0
  BY <1>0 DEF InCall
<1>1. CASE Masking
  <2>1. /\ level' = level
        /\ UNCHANGED <<port, prog, reg, acquired, regular, intact>>
        /\ todo[level] # <<>> /\ Head(todo[level]).do = "disable"
        /\ \/ UNCHANGED <<todo, pos, shut>>
           \/ Finish /\ shut' = [shut EXCEPT ![level] = 1]
    BY <1>1, MaskingEffect
  <2>2. CASE UNCHANGED <<todo, pos, shut>>
    BY <2>1, <2>2, StraySame
  <2>3. CASE Finish /\ shut' = [shut EXCEPT ![level] = 1]
    <3>1. InSections'
      BY <2>1, <2>3, SectionFinish
    <3>2. ProgramTypes' /\ BootAlone'
      BY <1>0, <2>1, <2>3, ProgramsFinish
    <3> QED
      BY <3>1, <3>2 DEF StrayInv
  <2> QED
    BY <2>1, <2>2, <2>3
<1>2. CASE Unmasking
  <2>1. /\ level' = level
        /\ UNCHANGED <<port, prog, reg, acquired, regular, intact>>
        /\ todo[level] # <<>> /\ Head(todo[level]).do = "enable"
        /\ UNCHANGED <<todo, pos>> \/ Finish
        /\ shut' = [shut EXCEPT ![level] = 0]
    BY <1>2, UnmaskingEffect
  <2>2. CASE UNCHANGED <<todo, pos>>
    <3>1. ProgramTypes'
      BY <2>1, <2>2, <1>0 DEF ProgramTypes
    <3>2. BootAlone'
      BY <2>1, <2>2, <1>0 DEF BootAlone, OnCourse
    <3>3. Section(level)'
      <4>1. prog[level] \notin Strays \cup {"Boot"} => todo[level] \in Kept(0)
        <5>1. Section(level) /\ shut[level] \in {0, 1}
          BY <1>0 DEF InSections
        <5> QED
          BY <2>1, <5>1, TailKept DEF Section
      <4>2. prog[level] # "usb_isr"
        <5>1. Section(level)
          BY <1>0 DEF InSections
        <5>2. todo[level] \in Seq(Shutting) => Head(todo[level]) \in Shutting
          BY <2>1, Dropped
        <5> QED
          BY <2>1, <5>1, <5>2 DEF Section, Shutting
      <4>3. Section(level)
        BY <1>0 DEF InSections
      <4> QED
        BY <1>0, <2>1, <2>2, <4>1, <4>2, <4>3 DEF Section
    <3>4. InSections'
      BY <1>0, <2>1, <2>2, <3>3, SectionsStep
    <3> QED
      BY <3>1, <3>2, <3>4 DEF StrayInv
  <2>3. CASE Finish
    <3>1. InSections'
      BY <2>1, <2>3, SectionFinish
    <3>2. ProgramTypes' /\ BootAlone'
      BY <1>0, <2>1, <2>3, ProgramsFinish
    <3> QED
      BY <3>1, <3>2 DEF StrayInv
  <2> QED
    BY <2>1, <2>2, <2>3
<1>3. CASE SelectCommand \/ MoveWord
  <2>1. /\ UNCHANGED vars /\ UNCHANGED <<prog, acquired, regular>>
        /\ todo[level] # <<>> /\ Head(todo[level]).do \in {"command", "read", "write"}
        /\ \/ Finish
           \/ /\ UNCHANGED todo /\ pos' = [pos EXCEPT ![level] = @ + 1]
              /\ pos[level] + 1 <= Head(todo[level]).words
              /\ pos[level] = 0 \/ OnCourse(level) => OnCourse(level)'
    BY <1>0, <1>3, ChipEffect
  <2>2. level' = level /\ shut' = shut
    BY <2>1 DEF vars
  <2>3. CASE Finish
    <3>1. InSections'
      BY <2>1, <2>2, <2>3, SectionFinish
    <3>2. ProgramTypes' /\ BootAlone'
      BY <1>0, <2>1, <2>2, <2>3, ProgramsFinish
    <3> QED
      BY <3>1, <3>2 DEF StrayInv
  <2>4. CASE /\ UNCHANGED todo /\ pos' = [pos EXCEPT ![level] = @ + 1]
             /\ pos[level] + 1 <= Head(todo[level]).words
             /\ pos[level] = 0 \/ OnCourse(level) => OnCourse(level)'
    <3>1. ProgramTypes'
      BY <1>0, <2>1, <2>4 DEF ProgramTypes
    <3>2. BootAlone'
      <4>0. pos[level] = 0 \/ pos[level] > 0
        BY <1>0
      <4>1. level = 0 /\ (pos[0] > 0 => OnCourse(0)) => OnCourse(0)'
        BY <2>2, <2>4, <4>0 DEF OnCourse
      <4> QED
        BY <1>0, <2>1, <2>2, <2>4, <4>1 DEF BootAlone
    <3>3. InSections'
      BY <1>0, <2>1, <2>2, <2>4 DEF InSections, Section
    <3> QED
      BY <3>1, <3>2, <3>3 DEF StrayInv
  <2> QED
    BY <2>1, <2>3, <2>4
<1>4. CASE AcquireD13
  <2>1. /\ level' = level /\ shut' = shut /\ prog' = prog /\ acquired' = 1
        /\ todo[level] # <<>> /\ Head(todo[level]).do = "acquire" /\ Finish
    BY <1>4 DEF AcquireD13, Busy, Current, vars
  <2>2. InSections'
    BY <2>1, SectionFinish
  <2>3. ProgramTypes'
    BY <2>1, ProgramsFinish
  <2>4. BootAlone'
    <3>1. SUFFICES ASSUME prog[0] = "Boot" PROVE todo'[0] \in Seq(Wordless)
      BY <2>1 DEF BootAlone
    <3>2. todo' = [todo EXCEPT ![level] = Tail(@)]
      BY <2>1 DEF Finish
    <3>3. CASE acquired = 1
      <4>1. todo[0] \in Seq(Wordless)
        BY <1>0, <3>1, <3>3 DEF BootAlone
      <4>2. level = 0 => Tail(todo[0]) \in Seq(Wordless)
        BY <2>1, <4>1, Dropped
      <4> QED
        BY <1>0, <3>2, <4>1, <4>2
    <3>4. CASE acquired = 0
      <4> DEFINE s == todo[0]
      <4>1. /\ level = 0
            /\ \A k, m \in 1..Len(s) : s[k].do = "acquire" /\ m > k => s[m].words = 0
        BY <1>0, <3>4 DEF BootAlone
      <4>2. s \in Seq(CallType) /\ s # <<>> /\ todo'[0] = Tail(s) /\ Head(s).do = "acquire"
        BY <1>0, <2>1, <3>2, <4>1
      <4>3. /\ Len(s) \in Nat /\ Len(s) > 0 /\ Head(s) = s[1] /\ Tail(s) \in Seq(CallType)
            /\ \A k \in 1..Len(Tail(s)) : Tail(s)[k] = s[k + 1] /\ k + 1 \in 1..Len(s)
        BY <4>2, Dropped
      <4>4. \A m \in 1..Len(Tail(s)) : Tail(s)[m].words = 0
        <5> SUFFICES ASSUME NEW m \in 1..Len(Tail(s)) PROVE Tail(s)[m].words = 0
          OBVIOUS
        <5>1. 1 \in 1..Len(s) /\ m + 1 \in 1..Len(s) /\ m + 1 > 1
          BY <4>3
        <5>2. s[m + 1].words = 0
          BY <4>1, <4>2, <4>3, <5>1
        <5> QED
          BY <4>3, <5>2
      <4>5. \A m \in 1..Len(Tail(s)) : Tail(s)[m] \in Wordless
        BY <4>3, <4>4, ElementOfSeq DEF Wordless
      <4>6. Tail(s) \in Seq(Wordless)
        BY <4>3, <4>5, Retyped
      <4> QED
        BY <4>2, <4>6
    <3> QED
      BY <1>0, <3>3, <3>4
  <2> QED
    BY <2>2, <2>3, <2>4 DEF StrayInv
<1>5. CASE Enter
  <2>1. /\ level' = level + 1 /\ level' \in Contexts /\ acquired = 1 /\ acquired' = 1
        /\ shut' = [shut EXCEPT ![level'] = 0]
        /\ todo' = [todo EXCEPT ![level'] = usb_isr]
        /\ pos' = [pos EXCEPT ![level'] = 0]
        /\ prog' = [prog EXCEPT ![level'] = "usb_isr"]
    <3>1. level' = level + 1 /\ level < MaxLevel /\ acquired = 1
      BY <1>5 DEF Enter, Interrupt
    <3>2. level' \in Contexts
      BY <1>0, <3>1, LockAssumption DEF Contexts
    <3> QED
      BY <1>5, <3>1, <3>2 DEF Enter, Interrupt
  <2>2. ProgramTypes'
    <3>1. /\ todo' \in [Contexts -> Seq(CallType)]
          /\ prog' = [c \in Contexts |-> prog'[c]]
      BY <1>0, <2>1, IsrPrograms
    <3>2. \A c \in Contexts : c # level' => pos'[c] = pos[c] /\ todo'[c] = todo[c]
      <4>1. \A c \in Contexts : c # level' => todo'[c] = todo[c]
        BY <1>0, <2>1
      <4>2. \A c \in Contexts : c # level' => pos'[c] = pos[c]
        BY <1>0, <2>1
      <4> QED
        BY <4>1, <4>2
    <3>3. pos'[level'] = 0
      BY <1>0, <2>1
    <3>4. \A c \in Contexts : pos'[c] > 0 => pos'[c] <= Head(todo'[c]).words
      <4> SUFFICES ASSUME NEW c \in Contexts, pos'[c] > 0
                   PROVE  pos'[c] <= Head(todo'[c]).words
        OBVIOUS
      <4>1. c # level'
        BY <3>3
      <4> QED
        BY <1>0, <3>2, <4>1
    <3> QED
      BY <2>1, <3>1, <3>4 DEF ProgramTypes
  <2>3. level' # 0
    BY <1>0, <2>1
  <2>4. BootAlone'
    BY <1>0, <2>1, <2>3 DEF BootAlone
  <2>5. InSections'
    <3>1. ASSUME NEW c \in 0..level PROVE Section(c)'
      <4>1. c \in Contexts /\ c # level'
        BY <1>0, <2>1
      <4>2. todo'[c] = todo[c] /\ prog'[c] = prog[c] /\ shut'[c] = shut[c]
        BY <1>0, <2>1, <4>1
      <4>3. Section(c)
        BY <1>0 DEF InSections
      <4> QED
        BY <4>2, <4>3 DEF Section
    <3>2. Section(level)'
      <4>1. todo'[level'] = usb_isr /\ shut'[level'] = 0 /\ prog'[level'] = "usb_isr"
        BY <1>0, <2>1
      <4> QED
        BY <4>1, IsrPrograms DEF Section
    <3>3. \A c \in 0..level' : c = level' \/ c \in 0..level
      BY <1>0, <2>1
    <3> QED
      BY <3>1, <3>2, <3>3 DEF InSections
  <2> QED
    BY <2>2, <2>4, <2>5 DEF StrayInv
<1>6. CASE Dispatch
  <2>1. PICK e \in Events :
          /\ todo' = [todo EXCEPT ![level] = e.calls \o LowerIRQL]
          /\ prog' = [prog EXCEPT ![level] = e.name]
    BY <1>6 DEF Dispatch
  <2>2. /\ level > 0 /\ todo[level] = <<>> /\ prog[level] = "usb_isr"
        /\ UNCHANGED <<port, pos, acquired, level, shut>>
    BY <1>6 DEF Dispatch, Busy, vars
  <2>3. /\ e.calls \o LowerIRQL \in Seq(CallType) /\ e.name \notin {"Boot", "usb_isr"}
        /\ e.name \notin Strays => e.calls \o LowerIRQL \in Kept(1)
    <3>1. CASE e.name = "BusReset" /\ e.calls = Isr_BusReset
      <4>1. e.calls \in Seq(CallType) /\ LowerIRQL \in Seq(CallType)
        BY <3>1, ConfigCalls, LockCalls, CallSets
      <4> QED
        BY <3>1, <4>1, ConcatProperties DEF Strays
    <3>2. CASE e.name \in {"Event", "Endpoints"} /\ e.calls \in Seq(Moves)
      <4>1. e.calls \in Clean(1) /\ LowerIRQL \in Clean(0)
        BY <3>2, CleanSets, LockSignals
      <4>2. e.calls \o LowerIRQL \in Clean(1)
        BY <4>1, CleanJoin
      <4> QED
        BY <3>2, <4>2 DEF Clean, Kept
    <3> QED
      BY <3>1, <3>2, EventPrograms
  <2>4. ProgramTypes'
    <3>1. /\ todo' \in [Contexts -> Seq(CallType)]
          /\ prog' = [c \in Contexts |-> prog'[c]]
          /\ pos' = pos /\ acquired' = acquired
          /\ \A c \in Contexts : c # level => todo'[c] = todo[c]
      BY <1>0, <2>1, <2>2, <2>3
    <3>2. \A c \in Contexts : pos'[c] > 0 => pos'[c] <= Head(todo'[c]).words
      BY <1>0, <1>a, <2>2, <3>1
    <3> QED
      BY <1>0, <3>1, <3>2 DEF ProgramTypes
  <2>5. BootAlone'
    BY <1>0, <2>1, <2>2, <2>3 DEF BootAlone
  <2>6. shut[level] = 1
    <3>1. Section(level)
      BY <1>0 DEF InSections
    <3>2. \A k \in 1..Len(<<>>) : FALSE
      BY EmptySeq
    <3> QED
      BY <2>2, <3>1, <3>2 DEF Section
  <2>7. Section(level)'
    BY <1>0, <2>1, <2>2, <2>3, <2>6 DEF Section
  <2>8. InSections'
    <3>1. ASSUME NEW c \in 0..level, c # level PROVE Section(c)'
      <4>1. Section(c) /\ todo'[c] = todo[c] /\ prog'[c] = prog[c] /\ shut'[c] = shut[c]
        BY <1>0, <2>1, <2>2, <3>1 DEF InSections
      <4> QED
        BY <4>1 DEF Section
    <3> QED
      BY <2>2, <2>7, <3>1 DEF InSections
  <2> QED
    BY <2>4, <2>5, <2>8 DEF StrayInv
<1>7. CASE Return
  <2>1. /\ level > 0 /\ level' = level - 1
        /\ UNCHANGED <<port, todo, pos, acquired, shut>>
        /\ prog' = [prog EXCEPT ![level] = "none"]
    BY <1>7 DEF Return, ReturnFromInterrupt
  <2>2. ProgramTypes'
    BY <1>0, <2>1 DEF ProgramTypes
  <2>3. BootAlone'
    BY <1>0, <2>1 DEF BootAlone
  <2>4. ASSUME NEW c \in 0..level' PROVE Section(c)'
    <3>1. c \in 0..level /\ c # level
      BY <1>0, <2>1
    <3>2. Section(c) /\ prog'[c] = prog[c]
      BY <1>0, <2>1, <3>1 DEF InSections
    <3> QED
      BY <2>1, <3>2 DEF Section
  <2> QED
    BY <2>2, <2>3, <2>4 DEF StrayInv, InSections
<1>8. CASE Serve
  <2>1. PICK h \in MainLoop :
          /\ todo' = [todo EXCEPT ![0] = RaiseIRQL \o h.calls \o LowerIRQL]
          /\ prog' = [prog EXCEPT ![0] = h.name]
    BY <1>8 DEF Serve
  <2>2. /\ level = 0 /\ todo[0] = <<>>
        /\ UNCHANGED <<port, pos, acquired, level, shut>>
    BY <1>8 DEF Serve, Busy, vars
  <2> DEFINE p == RaiseIRQL \o h.calls \o LowerIRQL
  <2>3. /\ p \in Seq(CallType) /\ h.name \notin {"Boot", "usb_isr"}
        /\ h.name \notin Strays => \A b \in {0, 1} : p \in Kept(b)
    <3>1. /\ h.calls \in Seq(Plain) /\ h.name \notin {"Boot", "usb_isr"}
          /\ h.name \notin Strays => h.calls \in Clean(1)
      BY MainLoopPrograms
    <3>2. p \in Seq(CallType)
      BY <3>1, Sections, PlainSets
    <3>3. h.name \notin Strays => \A b \in {0, 1} : p \in Kept(b)
      BY <3>1, Sections DEF Clean
    <3> QED
      BY <3>1, <3>2, <3>3
  <2> HIDE DEF p
  <2>4. todo'[0] = p /\ prog'[0] = h.name
    BY <1>0, <2>1 DEF p
  <2>5. ProgramTypes'
    <3>1. todo' = [todo EXCEPT ![0] = p]
      BY <2>1 DEF p
    <3> QED
      <4>1. /\ todo' \in [Contexts -> Seq(CallType)]
            /\ prog' = [c \in Contexts |-> prog'[c]]
            /\ pos' = pos /\ acquired' = acquired
            /\ \A c \in Contexts : c # level => todo'[c] = todo[c]
        BY <1>0, <2>1, <2>2, <2>3, <3>1
      <4>2. \A c \in Contexts : pos'[c] > 0 => pos'[c] <= Head(todo'[c]).words
        BY <1>0, <1>a, <2>2, <4>1
      <4> QED
        BY <1>0, <4>1, <4>2 DEF ProgramTypes
  <2>6. acquired = 1
    <3>1. \A k \in 1..Len(<<>>) : FALSE
      BY EmptySeq
    <3> QED
      BY <1>0, <2>2, <3>1 DEF BootAlone
  <2>7. BootAlone'
    BY <2>2, <2>3, <2>4, <2>6 DEF BootAlone
  <2>8. InSections'
    <3>1. \A c \in 0..level' : c = 0
      BY <2>2
    <3>2. shut[0] \in {0, 1}
      BY <1>0
    <3> QED
      BY <2>2, <2>3, <2>4, <3>1, <3>2 DEF InSections, Section
  <2> QED
    BY <2>5, <2>7, <2>8 DEF StrayInv
<1>9. CASE UNCHANGED allVars
  BY <1>9, StraySame DEF allVars, vars, portVars
<1> QED
  BY <1>1, <1>2, <1>3, <1>4, <1>5, <1>6, <1>7, <1>8, <1>9 DEF PortNext

\* The invariant is inductive beside that of the lock and of the port.
THEOREM StrayInductive == PortSpec => []StrayInv
<1>1. (IInv /\ CourseInv /\ RegularInv) /\ StrayInv /\ [PortNext]_allVars => StrayInv'
  BY StrayStep
<1> QED
  BY StrayInit, <1>1, PortInductive, PTL DEF PortSpec, allVars

\* Only the programs named there move a word that meets another command.
THEOREM StraysAreKnown == PortSpec => []StraysKnown
<1>1. IInv /\ CourseInv /\ StrayInv => StraysKnown
  <2> SUFFICES ASSUME IInv, CourseInv, StrayInv, Busy, pos[level] > 0, ~OnCourse(level),
                      prog[level] \notin Strays
               PROVE  FALSE
    BY DEF StraysKnown, Strays
  <2>1. /\ level \in Contexts /\ level \in 0..level /\ shut \in [Contexts -> {0, 1}]
        /\ todo \in [Contexts -> Seq(CallType)] /\ pos \in [Contexts -> Nat]
        /\ pos[level] <= Head(todo[level]).words /\ todo[level] # <<>>
        /\ Section(level) /\ acquired \in {0, 1}
    <3>1. level \in 0..MaxLevel
      BY DEF IInv, TypeInv, TypeOK, Contexts
    <3>2. level \in 0..level
      BY <3>1, LockAssumption
    <3> QED
      BY <3>2 DEF IInv, TypeInv, TypeOK, StrayInv, ProgramTypes, CourseInv, PortTypeInv,
                  InSections, Busy
  <2>2. Head(todo[level]).words > 0
    <3>1. todo[level] \in Seq(CallType)
      BY <2>1
    <3>2. Head(todo[level]) \in CallType
      BY <2>1, <3>1, Dropped
    <3>3. Head(todo[level]).words \in Nat /\ pos[level] \in Nat
      BY <2>1, <3>2 DEF CallType
    <3> QED
      BY <2>1, <3>3
  <2>3. CASE prog[level] = "Boot"
    <3>1. level = 0
      <4>1. level = 0 \/ level \in 1..level
        BY <2>1
      <4>2. Section(level)
        BY <2>1
      <4> QED
        BY <2>1, <2>3, <4>2 DEF Section
    <3>2. acquired = 1
      BY <2>1, <3>1 DEF StrayInv, BootAlone
    <3>3. todo[0] \in Seq(Wordless)
      BY <2>3, <3>1, <3>2 DEF StrayInv, BootAlone
    <3>4. Head(todo[0]) \in Wordless
      BY <2>1, <3>1, <3>3, Dropped
    <3> QED
      BY <2>2, <3>1, <3>4 DEF Wordless
  <2>4. CASE prog[level] # "Boot"
    <3>1. todo[level] \in Kept(shut[level]) /\ shut[level] \in {0, 1}
      BY <2>1, <2>4 DEF Section
    <3>2. shut[level] = 1
      BY <2>1, <2>2, <3>1, TailKept
    <3> QED
      BY <3>2 DEF CourseInv, OwnPort
  <2> QED
    BY <2>3, <2>4
<1> QED
  BY PortInductive, StrayInductive, <1>1, PTL

-----------------------------------------------------------------------------
(* The configuration registers *)

\* The call that gives register r its value, and those that take it away.
Sets(x, r) == x.do = "write" /\ x.words > 0 /\ x.cmd = r /\ x.value = Configured[r]
Spoils(x, r) == \/ x.cmd.code = "RESET"
                \/ x.do = "write" /\ x.cmd = r /\ x.value # Configured[r]

\* The program still sets register r; it sets again every register it spoils.
Owes(s, r) == \E k \in 1..Len(s) : Sets(s[k], r)
Repairs(s) == \A r \in Registers, k \in 1..Len(s) :
                Spoils(s[k], r) => \E m \in 1..Len(s) : m > k /\ Sets(s[m], r)

\* The program leaves the chip configured, whatever it was before.
Mends(s) == s \in Seq(CallType) /\ Repairs(s) /\ \A r \in Registers : Owes(s, r)

Harmless == {x \in CallType : \A r \in Registers : ~Spoils(x, r)}

\* What is still to be written to the chip.
RegType == reg = [r \in Registers |-> reg[r]]
RepairInv == \A c \in 0..level : Repairs(todo[c])
OwedInv ==
  intact = 1 => \A r \in Registers :
                  reg[r] = Configured[r] \/ \E c \in 0..level : Owes(todo[c], r)
RegularOwed ==
  level > 0 /\ regular[level] = 1 =>
    /\ pos[level] > 0 => OnCourse(level)
    /\ prog[level] = "BusReset" =>
         \A r \in Registers : reg[r] = Configured[r] \/ Owes(todo[level], r)

ConfigInv == RegType /\ RepairInv /\ OwedInv /\ RegularOwed
-----------------------------------------------------------------------------
LEMMA OwesJoin ==
  ASSUME NEW s \in Seq(CallType), NEW t \in Seq(CallType), NEW r
  PROVE  Owes(s, r) \/ Owes(t, r) => Owes(s \o t, r)
<1>1. /\ \A k \in 1..Len(s) : (s \o t)[k] = s[k] /\ k \in 1..Len(s \o t)
      /\ \A k \in 1..Len(t) : /\ (s \o t)[Len(s) + k] = t[k]
                              /\ Len(s) + k \in 1..Len(s \o t)
  BY Joined
<1>2. ASSUME NEW k \in 1..Len(s), Sets(s[k], r) PROVE Owes(s \o t, r)
  <2>1. Sets((s \o t)[k], r) /\ k \in 1..Len(s \o t)
    BY <1>1, <1>2
  <2> QED
    BY <2>1 DEF Owes
<1>3. ASSUME NEW k \in 1..Len(t), Sets(t[k], r) PROVE Owes(s \o t, r)
  <2>1. Sets((s \o t)[Len(s) + k], r) /\ Len(s) + k \in 1..Len(s \o t)
    BY <1>1, <1>3
  <2> QED
    BY <2>1 DEF Owes
<1> QED
  BY <1>2, <1>3 DEF Owes

LEMMA HarmlessCalls ==
  ASSUME NEW s \in Seq(Harmless)
  PROVE  /\ s \in Seq(CallType)
         /\ \A k \in 1..Len(s), r \in Registers : ~Spoils(s[k], r)
         /\ Repairs(s)
<1>1. s \in Seq(CallType)
  <2>1. Harmless \subseteq CallType
    BY DEF Harmless
  <2> QED
    BY <2>1, SeqMonotonic
<1>2. \A k \in 1..Len(s), r \in Registers : ~Spoils(s[k], r)
  <2>1. \A k \in 1..Len(s) : s[k] \in Harmless
    BY ElementOfSeq
  <2> QED
    BY <2>1 DEF Harmless
<1> QED
  BY <1>1, <1>2 DEF Repairs

\* A program that leaves the chip configured does so after any other.
LEMMA MendsLast ==
  ASSUME NEW s \in Seq(CallType), NEW t, Mends(t)
  PROVE  Mends(s \o t)
<1>0. t \in Seq(CallType) /\ Repairs(t) /\ \A r \in Registers : Owes(t, r)
  BY DEF Mends
<1>1. /\ s \o t \in Seq(CallType) /\ Len(s) \in Nat /\ Len(t) \in Nat
      /\ \A k \in 1..Len(t) : /\ (s \o t)[Len(s) + k] = t[k]
                              /\ Len(s) + k \in 1..Len(s \o t)
      /\ \A k \in 1..Len(s \o t) :
           k \in 1..Len(s) \/ \E i \in 1..Len(t) : k = Len(s) + i
  BY <1>0, Joined
<1>2. \A r \in Registers : Owes(s \o t, r)
  BY <1>0, OwesJoin
<1>3. ASSUME NEW r \in Registers, NEW k \in 1..Len(s \o t), Spoils((s \o t)[k], r)
      PROVE  \E m \in 1..Len(s \o t) : m > k /\ Sets((s \o t)[m], r)
  <2>1. CASE k \in 1..Len(s)
    <3>1. PICK m \in 1..Len(t) : Sets(t[m], r)
      BY <1>0 DEF Owes
    <3>2. Len(s) + m \in 1..Len(s \o t) /\ (s \o t)[Len(s) + m] = t[m]
      BY <1>1
    <3>3. Len(s) + m > k
      BY <1>1, <2>1
    <3> QED
      BY <3>1, <3>2, <3>3
  <2>2. CASE k \notin 1..Len(s)
    <3>1. PICK i \in 1..Len(t) : k = Len(s) + i
      BY <1>1, <2>2
    <3>2. Spoils(t[i], r)
      BY <1>1, <1>3, <3>1
    <3>3. PICK m \in 1..Len(t) : m > i /\ Sets(t[m], r)
      BY <1>0, <3>2 DEF Repairs
    <3>4. Len(s) + m \in 1..Len(s \o t) /\ (s \o t)[Len(s) + m] = t[m]
      BY <1>1
    <3>5. Len(s) + m > k
      BY <1>1, <3>1, <3>3
    <3> QED
      BY <3>3, <3>4, <3>5
  <2> QED
    BY <2>1, <2>2
<1> QED
  BY <1>1, <1>2, <1>3 DEF Mends, Repairs

\* Calls that spoil nothing may follow.
LEMMA MendsFirst ==
  ASSUME NEW s, NEW t \in Seq(Harmless), Mends(s)
  PROVE  Mends(s \o t)
<1>0. /\ s \in Seq(CallType) /\ Repairs(s) /\ \A r \in Registers : Owes(s, r)
      /\ t \in Seq(CallType) /\ \A k \in 1..Len(t), r \in Registers : ~Spoils(t[k], r)
  BY HarmlessCalls DEF Mends
<1>1. /\ s \o t \in Seq(CallType) /\ Len(s) \in Nat /\ Len(t) \in Nat
      /\ \A k \in 1..Len(s) : (s \o t)[k] = s[k] /\ k \in 1..Len(s \o t)
      /\ \A k \in 1..Len(t) : (s \o t)[Len(s) + k] = t[k]
      /\ \A k \in 1..Len(s \o t) :
           k \in 1..Len(s) \/ \E i \in 1..Len(t) : k = Len(s) + i
  BY <1>0, Joined
<1>2. \A r \in Registers : Owes(s \o t, r)
  BY <1>0, OwesJoin
<1>3. ASSUME NEW r \in Registers, NEW k \in 1..Len(s \o t), Spoils((s \o t)[k], r)
      PROVE  \E m \in 1..Len(s \o t) : m > k /\ Sets((s \o t)[m], r)
  <2>1. k \in 1..Len(s)
    <3> SUFFICES ASSUME NEW i \in 1..Len(t), k = Len(s) + i PROVE FALSE
      BY <1>1
    <3>1. Spoils(t[i], r)
      BY <1>1, <1>3
    <3> QED
      BY <1>0, <3>1
  <2>2. Spoils(s[k], r)
    BY <1>1, <1>3, <2>1
  <2>3. PICK m \in 1..Len(s) : m > k /\ Sets(s[m], r)
    BY <1>0, <2>1, <2>2 DEF Repairs
  <2>4. m \in 1..Len(s \o t) /\ (s \o t)[m] = s[m]
    BY <1>1
  <2> QED
    BY <2>3, <2>4
<1> QED
  BY <1>1, <1>2, <1>3 DEF Mends, Repairs

\* What is left of a program when its first call is over.
LEMMA TailOwes ==
  ASSUME NEW s \in Seq(CallType), s # <<>>
  PROVE  /\ Repairs(s) => Repairs(Tail(s))
         /\ \A r \in Registers :
              /\ Owes(s, r) => Sets(Head(s), r) \/ Owes(Tail(s), r)
              /\ Repairs(s) /\ Spoils(Head(s), r) => Owes(Tail(s), r)
              /\ Owes(Tail(s), r) => Owes(s, r)
<1> DEFINE t == Tail(s)
<1>1. /\ Len(s) \in Nat /\ Len(s) > 0 /\ Head(s) = s[1] /\ Len(t) = Len(s) - 1
      /\ \A k \in 1..Len(t) : t[k] = s[k + 1] /\ k + 1 \in 1..Len(s)
  BY Dropped
<1> HIDE DEF t
<1>2. \A k \in 1..Len(s) : k # 1 => k - 1 \in 1..Len(t) /\ (k - 1) + 1 = k
  BY <1>1
<1>3. \A k \in 1..Len(s) : k # 1 => t[k - 1] = s[k]
  BY <1>1, <1>2
<1>4. ASSUME Repairs(s), NEW r \in Registers, NEW k \in 1..Len(t), Spoils(t[k], r)
      PROVE  \E m \in 1..Len(t) : m > k /\ Sets(t[m], r)
  <2>1. k + 1 \in 1..Len(s) /\ Spoils(s[k + 1], r)
    BY <1>1, <1>4
  <2>2. PICK m \in 1..Len(s) : m > k + 1 /\ Sets(s[m], r)
    BY <1>4, <2>1 DEF Repairs
  <2>3. m # 1 /\ m - 1 > k
    BY <2>2
  <2>4. m - 1 \in 1..Len(t) /\ t[m - 1] = s[m]
    BY <1>2, <1>3, <2>3
  <2> QED
    BY <2>2, <2>3, <2>4
<1>5. ASSUME NEW r \in Registers, NEW k \in 1..Len(s), k # 1, Sets(s[k], r)
      PROVE  Owes(t, r)
  <2>1. k - 1 \in 1..Len(t) /\ t[k - 1] = s[k]
    BY <1>2, <1>3, <1>5
  <2>2. Sets(t[k - 1], r)
    BY <1>5, <2>1
  <2> QED
    BY <2>1, <2>2 DEF Owes
<1>6. ASSUME NEW r \in Registers PROVE Owes(s, r) => Sets(Head(s), r) \/ Owes(t, r)
  BY <1>1, <1>5 DEF Owes
<1>7. ASSUME NEW r \in Registers, Repairs(s), Spoils(Head(s), r) PROVE Owes(t, r)
  <2>1. 1 \in 1..Len(s) /\ Spoils(s[1], r)
    BY <1>1, <1>7
  <2>2. PICK m \in 1..Len(s) : m > 1 /\ Sets(s[m], r)
    BY <1>7, <2>1 DEF Repairs
  <2> QED
    BY <1>5, <2>2
<1>8. ASSUME NEW r \in Registers, Owes(t, r) PROVE Owes(s, r)
  <2>1. PICK k \in 1..Len(t) : Sets(t[k], r)
    BY <1>8 DEF Owes
  <2>2. Sets(s[k + 1], r) /\ k + 1 \in 1..Len(s)
    BY <1>1, <2>1
  <2> QED
    BY <2>2 DEF Owes
<1>9. Repairs(s) => Repairs(t)
  BY <1>4 DEF Repairs
<1> QED
  BY <1>6, <1>7, <1>8, <1>9 DEF t

LEMMA NothingOwed == \A r : ~Owes(<<>>, r)
  <1>1. \A k \in 1..Len(<<>>) : FALSE
    BY EmptySeq
  <1> QED
    BY <1>1 DEF Owes
-----------------------------------------------------------------------------
LEMMA RegisterNames ==
  /\ Configured[Mode] = "connected" /\ Configured[DevConfig] = "powered"
  /\ Configured[IntEn] = "set"
  /\ \A e \in 0..MaxEndpoint + 1 : Configured[Code("WR_EPCNFG", e)] = "set"
  /\ {Mode, DevConfig, IntEn} \subseteq Registers
  /\ \A e \in 0..MaxEndpoint + 1 : Code("WR_EPCNFG", e) \in Registers
<1>1. /\ {Mode, DevConfig, IntEn} \subseteq Registers
      /\ \A e \in 0..MaxEndpoint + 1 : Code("WR_EPCNFG", e) \in Registers
  BY DEF Registers
<1>2. /\ Mode.code = "WR_MODE" /\ DevConfig.code = "WR_CNFG" /\ IntEn.code = "WR_INTEN"
      /\ \A e : Code("WR_EPCNFG", e).code = "WR_EPCNFG"
  BY DEF Mode, DevConfig, IntEn, Code
<1>3. DevConfig # Mode /\ IntEn # Mode /\ IntEn # DevConfig
      /\ \A e : Code("WR_EPCNFG", e) # Mode /\ Code("WR_EPCNFG", e) # DevConfig
  BY <1>2
<1>4. \A r \in Registers :
        Configured[r] = IF r = Mode THEN "connected"
                        ELSE IF r = DevConfig THEN "powered" ELSE "set"
  BY DEF Configured
<1> QED
  BY <1>1, <1>3, <1>4

LEMMA PlainHarmless == Plain \subseteq Harmless
<1>1. \A r \in Registers : r.code \in ConfigCodes
  BY DEF Registers, IntEn, Mode, DevConfig, Code, ConfigCodes
<1>2. ASSUME NEW x \in Plain, NEW r \in Registers PROVE ~Spoils(x, r)
  BY <1>1 DEF Plain, Spoils, ConfigCodes
<1> QED
  BY <1>2 DEF Plain, Harmless

\* connect_USB sets every register and spoils none.
LEMMA ConnectMends ==
  /\ config_endpoint \in Seq(Harmless)
  /\ Mends(connect_USB)
<1>0. Chip \in Int /\ {"WR_INTEN", "WR_CNFG", "WR_MODE", "WR_EPCNFG"} \subseteq Codes
      /\ {"set", "powered", "connected"} \subseteq Values
  BY CodesUsed DEF Codes, Values
<1>1. ASSUME NEW code \in {"WR_INTEN", "WR_CNFG", "WR_MODE", "WR_EPCNFG"}, NEW ep \in Int,
             NEW words \in {1, 2}, NEW value \in {"set", "powered", "connected"},
             Code(code, ep) \in Registers, Configured[Code(code, ep)] = value
      PROVE  LET x == Call("write", Code(code, ep), words, value)
             IN  x \in Harmless /\ Sets(x, Code(code, ep))
  <2> DEFINE x == Call("write", Code(code, ep), words, value)
  <2>1. x \in CallType
    BY <1>0, CallIn
  <2>2. /\ x.do = "write" /\ x.cmd = Code(code, ep) /\ x.cmd.code = code
        /\ x.words = words /\ x.value = value
    BY DEF Call, Code
  <2> HIDE DEF x
  <2>3. \A r \in Registers : ~Spoils(x, r)
    BY <1>1, <2>2 DEF Spoils
  <2>4. Sets(x, Code(code, ep))
    BY <1>1, <2>2 DEF Sets
  <2> QED
    BY <2>1, <2>3, <2>4 DEF Harmless, x
<1> DEFINE inten == Call("write", IntEn, 2, "set")
           cnfg == Call("write", DevConfig, 1, "powered")
           mode == Call("write", Mode, 1, "connected")
           epcnfg(e) == Call("write", Code("WR_EPCNFG", e), 1, "set")
           n == MaxEndpoint + 2
           f == [e \in 1..n |-> Head(SetEndpointConfig(e - 1))]
<1>2. /\ inten \in Harmless /\ Sets(inten, IntEn)
      /\ cnfg \in Harmless /\ Sets(cnfg, DevConfig)
      /\ mode \in Harmless /\ Sets(mode, Mode)
  BY <1>0, <1>1, RegisterNames DEF IntEn, DevConfig, Mode
<1>3. \A e \in 0..MaxEndpoint + 1 : epcnfg(e) \in Harmless /\ Sets(epcnfg(e), Code("WR_EPCNFG", e))
  BY <1>0, <1>1, RegisterNames
<1>4. /\ SetIntEnable = <<inten>> /\ SetDevConfig("powered") = <<cnfg>>
      /\ SetMode("connected") = <<mode>>
      /\ \A e : SetEndpointConfig(e) = <<epcnfg(e)>>
  BY DEF SetIntEnable, SetDevConfig, SetMode, SetEndpointConfig, Writes, IntEn, DevConfig, Mode
<1>5. n \in Nat /\ \A e \in 1..n : e - 1 \in 0..MaxEndpoint + 1 /\ f[e] = epcnfg(e - 1)
  <2>1. n \in Nat /\ \A e \in 1..n : e - 1 \in 0..MaxEndpoint + 1
    BY PortAssumption
  <2>2. \A e : Head(<<epcnfg(e)>>) = epcnfg(e)
    OBVIOUS
  <2>3. \A e \in 1..n : f[e] = Head(SetEndpointConfig(e - 1))
    OBVIOUS
  <2> QED
    BY <1>4, <2>1, <2>2, <2>3
<1>6. DOMAIN f = 1..n /\ f = [e \in 1..n |-> f[e]]
  OBVIOUS
<1> HIDE DEF f, inten, cnfg, mode, epcnfg
<1>7. f \in Seq(Harmless) /\ Len(f) = n
  <2>1. f \in [1..n -> Harmless]
    BY <1>3, <1>5, <1>6
  <2> QED
    BY <1>5, <2>1
<1>8. ASSUME NEW e \in 0..MaxEndpoint + 1 PROVE Owes(f, Code("WR_EPCNFG", e))
  <2>1. e + 1 \in 1..n /\ (e + 1) - 1 = e
    BY PortAssumption
  <2>2. f[e + 1] = epcnfg(e)
    BY <1>5, <2>1
  <2>3. Sets(f[e + 1], Code("WR_EPCNFG", e))
    BY <1>3, <2>2
  <2> QED
    BY <1>7, <2>1, <2>3 DEF Owes
<1>9. \A x \in Harmless : <<x>> \in Seq(Harmless) /\ \A r : Sets(x, r) => Owes(<<x>>, r)
  <2>1. \A x \in Harmless : <<x>> \in Seq(Harmless) /\ Len(<<x>>) = 1 /\ <<x>>[1] = x
    BY OneCall
  <2>2. 1 \in 1..1
    OBVIOUS
  <2> QED
    BY <2>1, <2>2 DEF Owes
<1>10. \A s, t \in Seq(Harmless) : s \o t \in Seq(Harmless)
  BY ConcatProperties
<1>11. \A s, t \in Seq(Harmless) : \A r : Owes(s, r) \/ Owes(t, r) => Owes(s \o t, r)
  BY OwesJoin, HarmlessCalls
<1>12. config_endpoint = f \o <<inten>> \o <<cnfg>>
  BY <1>4 DEF config_endpoint, f
<1>13. /\ config_endpoint \in Seq(Harmless)
       /\ \A r \in Registers : r # Mode => Owes(config_endpoint, r)
  <2>1. f \o <<inten>> \in Seq(Harmless) /\ config_endpoint \in Seq(Harmless)
    BY <1>2, <1>7, <1>9, <1>10, <1>12
  <2>2. ASSUME NEW r, Owes(f, r) \/ Owes(<<inten>>, r) \/ Owes(<<cnfg>>, r)
        PROVE  Owes(config_endpoint, r)
    <3>1. Owes(f, r) \/ Owes(<<inten>>, r) => Owes(f \o <<inten>>, r)
      BY <1>2, <1>7, <1>9, <1>11
    <3>2. Owes(f \o <<inten>>, r) \/ Owes(<<cnfg>>, r) => Owes(config_endpoint, r)
      BY <1>2, <1>9, <1>11, <1>12, <2>1
    <3> QED
      BY <2>2, <3>1, <3>2
  <2>3. Owes(<<inten>>, IntEn) /\ Owes(<<cnfg>>, DevConfig)
    BY <1>2, <1>9
  <2> QED
    BY <1>8, <2>1, <2>2, <2>3 DEF Registers
<1>14. connect_USB = RaiseIRQL \o config_endpoint \o LowerIRQL \o <<mode>>
  BY <1>4 DEF connect_USB
<1>15. RaiseIRQL \in Seq(Harmless) /\ LowerIRQL \in Seq(Harmless)
  BY LockSignals, PlainSets, PlainHarmless, SeqMonotonic
<1> DEFINE a == RaiseIRQL \o config_endpoint
           b == a \o LowerIRQL
<1>16. a \in Seq(Harmless) /\ b \in Seq(Harmless) /\ <<mode>> \in Seq(Harmless)
  BY <1>2, <1>9, <1>10, <1>13, <1>15
<1>17. connect_USB \in Seq(Harmless)
  BY <1>10, <1>14, <1>16
<1>18. ASSUME NEW r \in Registers PROVE Owes(connect_USB, r)
  <2>1. Owes(config_endpoint, r) => Owes(a, r)
    BY <1>11, <1>13, <1>15
  <2>2. Owes(a, r) => Owes(b, r)
    BY <1>11, <1>15, <1>16
  <2>3. Owes(b, r) \/ Owes(<<mode>>, r) => Owes(connect_USB, r)
    BY <1>11, <1>14, <1>16
  <2>4. Owes(<<mode>>, Mode)
    BY <1>2, <1>9
  <2> QED
    BY <1>13, <2>1, <2>2, <2>3, <2>4
<1> QED
  BY <1>13, <1>17, <1>18, HarmlessCalls DEF Mends

\* The bus reset and the boot set every register last.
LEMMA ResetPrograms ==
  Mends(Isr_BusReset) /\ Mends(Isr_BusReset \o LowerIRQL) /\ Mends(Boot)
<1>1. /\ Mends(connect_USB) /\ config_endpoint \in Seq(Harmless)
      /\ disconnect_USB \in Seq(CallType) /\ RaiseIRQL \in Seq(CallType)
      /\ ResetDevice \in Seq(CallType)
  BY ConnectMends, ConfigCalls, LockCalls, CallSets
<1>2. LowerIRQL \in Seq(Harmless) /\ ReadChipID \in Seq(Harmless)
  BY LockSignals, ChipFunctions, PlainSets, PlainHarmless, SeqMonotonic
<1>3. <<Call("acquire", NoCommand, 0, "none")>> \in Seq(Harmless)
  <2>1. Chip \in Int /\ "none" \in Codes /\ "none" \in Values
    BY CodesUsed DEF Codes
  <2>2. Call("acquire", NoCommand, 0, "none") \in CallType
    BY <2>1, CallIn DEF NoCommand
  <2>3. Call("acquire", NoCommand, 0, "none") \in Plain
    BY <2>2 DEF Plain, Call, NoCommand, Code, ConfigCodes
  <2>4. Call("acquire", NoCommand, 0, "none") \in Harmless
    BY <2>3, PlainHarmless
  <2> QED
    BY <2>4, OneCall
<1>4. Mends(reconnect_USB)
  BY <1>1, MendsLast DEF reconnect_USB
<1>5. Mends(Isr_BusReset)
  BY <1>1, <1>4, MendsFirst DEF Isr_BusReset
<1>6. Mends(Isr_BusReset \o LowerIRQL)
  BY <1>2, <1>5, MendsFirst
<1>7. Mends(Boot)
  <2> DEFINE p == RaiseIRQL \o disconnect_USB \o ResetDevice
  <2>1. p \in Seq(CallType)
    BY <1>1, ConcatProperties
  <2> HIDE DEF p
  <2>2. Mends(p \o reconnect_USB)
    BY <1>4, <2>1, MendsLast
  <2>3. Mends(p \o reconnect_USB \o ReadChipID)
    BY <1>2, <2>2, MendsFirst
  <2>4. Mends(p \o reconnect_USB \o ReadChipID \o <<Call("acquire", NoCommand, 0, "none")>>)
    BY <1>3, <2>3, MendsFirst
  <2>5. Mends(p \o reconnect_USB \o ReadChipID
                \o <<Call("acquire", NoCommand, 0, "none")>> \o LowerIRQL)
    BY <1>2, <2>4, MendsFirst
  <2> QED
    BY <2>5 DEF Boot, p
<1> QED
  BY <1>5, <1>6, <1>7

\* The programs that leave the registers alone.
LEMMA PlainRepairs == \A s \in Seq(Plain) : Repairs(s)
<1>1. Seq(Plain) \subseteq Seq(Harmless)
  BY PlainHarmless, SeqMonotonic
<1> QED
  BY <1>1, HarmlessCalls
-----------------------------------------------------------------------------
\* What a call over and done with, or a step of it that is not the last, leaves
\* owed by the current context.
OwesRest(r) == reg'[r] = Configured[r] \/ Owes(todo'[level], r)

LEMMA ChipRegisters ==
  ASSUME IInv, CourseInv, StrayInv, RegType, Repairs(todo[level]),
         SelectCommand \/ MoveWord
  PROVE  /\ RegType' /\ Repairs(todo'[level])
         /\ intact' = 1 => intact = 1
         /\ intact' = 1 \/ pos[level] = 0 \/ OnCourse(level) =>
              \A r \in Registers :
                reg[r] = Configured[r] \/ Owes(todo[level], r) => OwesRest(r)
<1> DEFINE s == todo[level]
           x == Head(s)
<1>0. /\ level \in Contexts /\ todo \in [Contexts -> Seq(CallType)]
      /\ s \in Seq(CallType) /\ s # <<>>
  BY ChipEffect DEF StrayInv, ProgramTypes, IInv, TypeInv, TypeOK
<1>1. \/ Finish /\ todo'[level] = Tail(s)
      \/ UNCHANGED todo /\ todo'[level] = s
  BY <1>0, ChipEffect DEF Finish, StrayInv
<1>2. /\ Repairs(Tail(s))
      /\ \A r \in Registers :
           /\ Owes(s, r) => Sets(x, r) \/ Owes(Tail(s), r)
           /\ Spoils(x, r) => Owes(Tail(s), r)
           /\ Owes(Tail(s), r) => Owes(s, r)
  BY <1>0, TailOwes
<1>3. Repairs(todo'[level])
  BY <1>1, <1>2
<1> HIDE DEF s, x
<1>4. CASE SelectCommand
  <2>1. /\ reg' = IF x.cmd.code = "RESET" THEN [r \in Registers |-> "reset"] ELSE reg
        /\ IF x.words = 0 THEN Finish ELSE UNCHANGED todo
        /\ intact' = intact
    BY <1>4 DEF SelectCommand, Current, x, s
  <2>2. RegType'
    BY <2>1 DEF RegType
  <2>3. ASSUME NEW r \in Registers, x.cmd.code = "RESET" PROVE OwesRest(r)
    <3>1. Owes(Tail(s), r) /\ Owes(s, r)
      BY <1>2, <2>3 DEF Spoils
    <3> QED
      BY <1>1, <3>1 DEF OwesRest
  <2>4. ASSUME NEW r \in Registers, x.cmd.code # "RESET",
               reg[r] = Configured[r] \/ Owes(s, r)
        PROVE  OwesRest(r)
    <3>1. reg' = reg
      BY <2>1, <2>4
    <3>2. CASE x.words = 0
      <4>1. ~Sets(x, r) /\ todo'[level] = Tail(s)
        BY <1>0, <2>1, <3>2 DEF Sets, Finish, s
      <4> QED
        BY <1>2, <2>4, <3>1, <4>1 DEF OwesRest
    <3>3. CASE x.words # 0
      <4>1. todo'[level] = s
        BY <2>1, <3>3 DEF s
      <4> QED
        BY <2>4, <3>1, <4>1 DEF OwesRest
    <3> QED
      BY <3>2, <3>3
  <2> QED
    BY <1>3, <2>1, <2>2, <2>3, <2>4 DEF s
<1>5. CASE MoveWord
  <2>1. /\ IF pos[level] = x.words THEN Finish ELSE UNCHANGED todo
        /\ IF OnCourse(level)
           THEN /\ reg' = IF pos[level] = x.words /\ x.do = "write" /\ x.cmd \in Registers
                          THEN [reg EXCEPT ![x.cmd] = x.value] ELSE reg
                /\ intact' = intact
           ELSE /\ reg' \in IF x.do = "write" /\ port.cmd \in Registers
                            THEN {reg, [reg EXCEPT ![port.cmd] = "spoiled"]} ELSE {reg}
                /\ intact' = IF x.do = "write" THEN 0 ELSE intact
        /\ pos[level] > 0
    BY <1>5 DEF MoveWord, Current, x, s
  <2>2. RegType'
    <3>1. \A c, v : RegType =>
            [reg EXCEPT ![c] = v] = [r \in Registers |-> [reg EXCEPT ![c] = v][r]]
      BY DEF RegType
    <3>2. reg' = reg \/ \E c, v : reg' = [reg EXCEPT ![c] = v]
      BY <2>1
    <3> QED
      BY <3>1, <3>2 DEF RegType
  <2>3. intact' = 1 => intact = 1
    BY <2>1
  <2>4. ASSUME intact' = 1 \/ pos[level] = 0 \/ OnCourse(level), NEW r \in Registers,
               reg[r] = Configured[r] \/ Owes(s, r)
        PROVE  OwesRest(r)
    <3>1. OnCourse(level) \/ (~OnCourse(level) /\ x.do # "write")
      BY <2>1, <2>4
    <3>2. CASE ~OnCourse(level) /\ x.do # "write"
      <4>1. reg' = reg
        BY <2>1, <3>2
      <4>2. ~Sets(x, r)
        BY <3>2 DEF Sets
      <4> QED
        BY <1>1, <1>2, <2>4, <4>1, <4>2 DEF OwesRest
    <3>3. CASE OnCourse(level) /\ pos[level] # x.words
      <4>1. reg' = reg /\ todo'[level] = s
        BY <2>1, <3>3 DEF s
      <4> QED
        BY <2>4, <4>1 DEF OwesRest
    <3>4. CASE OnCourse(level) /\ pos[level] = x.words
      <4>1. /\ todo'[level] = Tail(s)
            /\ reg' = IF x.do = "write" /\ x.cmd \in Registers
                      THEN [reg EXCEPT ![x.cmd] = x.value] ELSE reg
        BY <1>0, <2>1, <3>4 DEF Finish, s
      <4>2. CASE x.do = "write" /\ x.cmd = r
        <5>1. reg'[r] = x.value
          BY <4>1, <4>2 DEF RegType
        <5>2. x.value = Configured[r] \/ Spoils(x, r)
          BY <4>2 DEF Spoils
        <5> QED
          BY <1>2, <4>1, <5>1, <5>2 DEF OwesRest
      <4>3. CASE ~(x.do = "write" /\ x.cmd = r)
        <5>1. reg'[r] = reg[r]
          BY <4>1, <4>3 DEF RegType
        <5>2. ~Sets(x, r)
          BY <4>3 DEF Sets
        <5> QED
          BY <1>2, <2>4, <4>1, <5>1, <5>2 DEF OwesRest
      <4> QED
        BY <4>2, <4>3
    <3> QED
      BY <3>1, <3>2, <3>3, <3>4
  <2> QED
    BY <1>3, <2>2, <2>3, <2>4 DEF s
<1> QED
  BY <1>4, <1>5

\* Another call of the current context is over.
LEMMA OtherRegisters ==
  ASSUME IInv, StrayInv, Finish, reg' = reg, Repairs(todo[level]), todo[level] # <<>>,
         Head(todo[level]).do # "write"
  PROVE  /\ Repairs(todo'[level])
         /\ \A r \in Registers :
              reg[r] = Configured[r] \/ Owes(todo[level], r) => OwesRest(r)
<1> DEFINE s == todo[level]
<1>1. s \in Seq(CallType) /\ s # <<>> /\ todo'[level] = Tail(s)
  BY DEF StrayInv, ProgramTypes, IInv, TypeInv, TypeOK, Finish
<1>2. /\ Repairs(Tail(s))
      /\ \A r \in Registers : Owes(s, r) => Sets(Head(s), r) \/ Owes(Tail(s), r)
  BY <1>1, TailOwes
<1>3. \A r \in Registers : ~Sets(Head(s), r)
  BY DEF Sets
<1> QED
  BY <1>1, <1>2, <1>3 DEF OwesRest

\* What a step of the current context has to leave behind.
LEMMA ConfigFrame ==
  ASSUME IInv, ConfigInv, level' = level, prog' = prog, regular' = regular,
         \A c \in 0..level : c # level => todo'[c] = todo[c],
         RegType', Repairs(todo'[level]), intact' = 1 => intact = 1,
         intact' = 1 \/ (level > 0 /\ regular[level] = 1) =>
           \A r \in Registers : reg[r] = Configured[r] \/ Owes(todo[level], r) => OwesRest(r),
         level > 0 /\ regular[level] = 1 => (pos'[level] > 0 => OnCourse(level)')
  PROVE  ConfigInv'
<1>0. level \in 0..level
  <2>1. level \in 0..MaxLevel
    BY DEF IInv, TypeInv, TypeOK, Contexts
  <2> QED
    BY <2>1, LockAssumption
<1>1. RepairInv'
  BY DEF ConfigInv, RepairInv
<1>2. OwedInv'
  <2> SUFFICES ASSUME intact' = 1, NEW r \in Registers
               PROVE  reg'[r] = Configured[r] \/ \E c \in 0..level : Owes(todo'[c], r)
    BY DEF OwedInv
  <2>1. reg[r] = Configured[r] \/ \E c \in 0..level : Owes(todo[c], r)
    BY DEF ConfigInv, OwedInv
  <2>2. CASE reg[r] = Configured[r] \/ Owes(todo[level], r)
    BY <1>0, <2>2 DEF OwesRest
  <2>3. ASSUME NEW c \in 0..level, c # level, Owes(todo[c], r)
        PROVE  Owes(todo'[c], r)
    BY <2>3
  <2> QED
    BY <2>1, <2>2, <2>3
<1>3. RegularOwed'
  <2> SUFFICES ASSUME level > 0, regular[level] = 1
               PROVE  /\ pos'[level] > 0 => OnCourse(level)'
                      /\ prog[level] = "BusReset" =>
                           \A r \in Registers : reg'[r] = Configured[r] \/ Owes(todo'[level], r)
    BY DEF RegularOwed
  <2>1. prog[level] = "BusReset" =>
          \A r \in Registers : reg[r] = Configured[r] \/ Owes(todo[level], r)
    BY DEF ConfigInv, RegularOwed
  <2> QED
    BY <2>1 DEF OwesRest
<1> QED
  BY <1>1, <1>2, <1>3 DEF ConfigInv

LEMMA ConfigInit == PortInit => ConfigInv
<1> SUFFICES ASSUME PortInit PROVE ConfigInv
  OBVIOUS
<1>1. /\ level = 0 /\ todo[0] = Boot /\ reg = [r \in Registers |-> "reset"]
      /\ 0 \in 0..level /\ \A c \in 0..level : c = 0
  BY LockAssumption DEF PortInit, Init, Contexts
<1>2. Repairs(Boot) /\ \A r \in Registers : Owes(Boot, r)
  BY ResetPrograms DEF Mends
<1>3. OwedInv
  BY <1>1, <1>2 DEF OwedInv
<1> QED
  BY <1>1, <1>2, <1>3 DEF ConfigInv, RegType, RepairInv, RegularOwed

LEMMA ConfigStep ==
  IInv /\ CourseInv /\ RegularInv /\ StrayInv /\ ConfigInv /\ [PortNext]_allVars => ConfigInv'
<1> SUFFICES ASSUME IInv, CourseInv, RegularInv, StrayInv, ConfigInv, [PortNext]_allVars
             PROVE  ConfigInv'
  OBVIOUS
<1>0. /\ level \in Contexts /\ level \in 0..level /\ level \in Nat
      /\ \A c \in 0..level : c \in Contexts
      /\ todo \in [Contexts -> Seq(CallType)] /\ pos \in [Contexts -> Nat]
      /\ prog = [c \in Contexts |-> prog[c]] /\ regular \in [Contexts -> {0, 1}]
      /\ RegType /\ RepairInv /\ OwedInv /\ RegularOwed /\ Repairs(todo[level])
  <2>1. level \in 0..MaxLevel
    BY DEF IInv, TypeInv, TypeOK, Contexts
  <2>2. level \in Nat /\ level \in 0..level /\ \A c \in 0..level : c \in Contexts
    BY <2>1, LockAssumption DEF Contexts
  <2> QED
    BY <2>2 DEF IInv, TypeInv, TypeOK, StrayInv, ProgramTypes, CourseInv, PortTypeInv,
                ConfigInv, RepairInv, RegularInv
<1>a. /\ todo[level] = <<>> => pos[level] = 0
      /\ todo[level] # <<>> /\ Head(todo[level]).do \notin {"command", "read", "write"}
           => pos[level] = 0
  BY <1>0 DEF CourseInv, InCall
<1>1. ASSUME level' = level, UNCHANGED <<port, prog, reg, regular, intact>>,
             todo[level] # <<>>, Head(todo[level]).do \in {"disable", "enable"},
             UNCHANGED <<todo, pos>> \/ Finish
      PROVE  ConfigInv'
  <2>1. CASE UNCHANGED <<todo, pos>>
    BY <1>0, <1>1, <2>1 DEF ConfigInv, RegType, RepairInv, OwedInv, RegularOwed, OnCourse
  <2>2. CASE Finish
    <3>1. /\ Repairs(todo'[level])
          /\ \A r \in Registers :
              reg[r] = Configured[r] \/ Owes(todo[level], r) => OwesRest(r)
      BY <1>0, <1>1, <2>2, OtherRegisters
    <3>2. pos'[level] = 0 /\ \A c \in 0..level : c # level => todo'[c] = todo[c]
      BY <1>0, <2>2 DEF Finish
    <3>3. RegType'
      BY <1>0, <1>1 DEF RegType
    <3> QED
      BY <1>1, <3>1, <3>2, <3>3, ConfigFrame
  <2> QED
    BY <1>1, <2>1, <2>2
<1>2. CASE Masking
  <2>1. /\ level' = level
        /\ UNCHANGED <<port, prog, reg, regular, intact>>
        /\ todo[level] # <<>> /\ Head(todo[level]).do = "disable"
        /\ UNCHANGED <<todo, pos>> \/ Finish
    BY <1>2, MaskingEffect
  <2> QED
    BY <1>1, <2>1
<1>3. CASE Unmasking
  <2>1. /\ level' = level
        /\ UNCHANGED <<port, prog, reg, regular, intact>>
        /\ todo[level] # <<>> /\ Head(todo[level]).do = "enable"
        /\ UNCHANGED <<todo, pos>> \/ Finish
    BY <1>3, UnmaskingEffect
  <2> QED
    BY <1>1, <2>1
<1>4. CASE SelectCommand \/ MoveWord
  <2>1. /\ UNCHANGED vars /\ UNCHANGED <<prog, acquired, regular>>
        /\ \/ Finish
           \/ /\ UNCHANGED todo /\ pos' = [pos EXCEPT ![level] = @ + 1]
              /\ pos[level] = 0 \/ OnCourse(level) => OnCourse(level)'
    BY <1>4, ChipEffect DEF StrayInv
  <2>2. level' = level
    BY <2>1 DEF vars
  <2>3. /\ RegType' /\ Repairs(todo'[level])
        /\ intact' = 1 => intact = 1
        /\ intact' = 1 \/ pos[level] = 0 \/ OnCourse(level) =>
             \A r \in Registers :
               reg[r] = Configured[r] \/ Owes(todo[level], r) => OwesRest(r)
    BY <1>0, <1>4, ChipRegisters
  <2>4. \A c \in 0..level : c # level => todo'[c] = todo[c]
    BY <1>0, <2>1 DEF Finish
  <2>5. level > 0 /\ regular[level] = 1 => pos[level] = 0 \/ OnCourse(level)
    BY <1>0 DEF RegularOwed
  <2>6. (level > 0 /\ regular[level] = 1) => (pos'[level] > 0 => OnCourse(level)')
    <3>1. CASE Finish
      <4>1. pos'[level] = 0
        BY <1>0, <3>1 DEF Finish
      <4> QED
        BY <4>1
    <3>2. CASE ~Finish
      BY <2>1, <2>5, <3>2
    <3> QED
      BY <3>1, <3>2
  <2> QED
    BY <2>1, <2>2, <2>3, <2>4, <2>5, <2>6, ConfigFrame
<1>5. CASE AcquireD13
  <2>1. /\ level' = level /\ UNCHANGED <<port, prog, reg, regular, intact>>
        /\ todo[level] # <<>> /\ Head(todo[level]).do = "acquire" /\ Finish
    BY <1>5 DEF AcquireD13, Busy, Current, vars
  <2>2. /\ Repairs(todo'[level])
        /\ \A r \in Registers :
             reg[r] = Configured[r] \/ Owes(todo[level], r) => OwesRest(r)
    BY <1>0, <2>1, OtherRegisters
  <2>3. pos'[level] = 0 /\ \A c \in 0..level : c # level => todo'[c] = todo[c]
    BY <1>0, <2>1 DEF Finish
  <2>4. RegType'
    BY <1>0, <2>1 DEF RegType
  <2> QED
    BY <2>1, <2>2, <2>3, <2>4, ConfigFrame
<1>6. CASE Enter
  <2>1. /\ level' = level + 1 /\ level' \in Contexts /\ UNCHANGED <<reg, intact>>
        /\ todo' = [todo EXCEPT ![level'] = usb_isr]
        /\ pos' = [pos EXCEPT ![level'] = 0]
        /\ prog' = [prog EXCEPT ![level'] = "usb_isr"]
    <3>1. level' = level + 1 /\ level < MaxLevel
      BY <1>6 DEF Enter, Interrupt
    <3>2. level' \in Contexts
      BY <1>0, <3>1, LockAssumption DEF Contexts
    <3> QED
      BY <1>6, <3>1, <3>2 DEF Enter
  <2>2. todo'[level'] = usb_isr /\ pos'[level'] = 0 /\ prog'[level'] = "usb_isr"
    BY <1>0, <2>1
  <2>3. \A c \in 0..level : c \in 0..level' /\ todo'[c] = todo[c]
    <3>1. \A c \in 0..level : c \in Contexts /\ c # level' /\ c \in 0..level'
      BY <1>0, <2>1
    <3> QED
      BY <1>0, <2>1, <3>1
  <2>4. RegType'
    BY <1>0, <2>1 DEF RegType
  <2>5. Repairs(usb_isr)
    BY IsrPrograms, PlainRepairs
  <2>6. RepairInv'
    <3>1. \A c \in 0..level' : c = level' \/ c \in 0..level
      BY <1>0, <2>1
    <3> QED
      BY <1>0, <2>2, <2>3, <2>5, <3>1 DEF RepairInv
  <2>7. OwedInv'
    <3> SUFFICES ASSUME intact = 1, NEW r \in Registers
                 PROVE  reg[r] = Configured[r] \/ \E c \in 0..level' : Owes(todo'[c], r)
      BY <2>1 DEF OwedInv
    <3>1. reg[r] = Configured[r] \/ \E c \in 0..level : Owes(todo[c], r)
      BY <1>0 DEF OwedInv
    <3> QED
      BY <2>3, <3>1
  <2>8. RegularOwed'
    BY <2>2 DEF RegularOwed
  <2> QED
    BY <2>4, <2>6, <2>7, <2>8 DEF ConfigInv
<1>7. CASE Dispatch
  <2>1. PICK e \in Events :
          /\ todo' = [todo EXCEPT ![level] = e.calls \o LowerIRQL]
          /\ prog' = [prog EXCEPT ![level] = e.name]
    BY <1>7 DEF Dispatch
  <2>2. /\ level > 0 /\ todo[level] = <<>>
        /\ UNCHANGED <<port, pos, level, reg, regular, intact>>
    BY <1>7 DEF Dispatch, Busy, vars
  <2>3. /\ todo'[level] = e.calls \o LowerIRQL /\ prog'[level] = e.name
        /\ \A c \in 0..level : c # level => todo'[c] = todo[c]
    BY <1>0, <2>1
  <2>4. /\ Repairs(e.calls \o LowerIRQL)
        /\ e.name = "BusReset" => \A r \in Registers : Owes(e.calls \o LowerIRQL, r)
    <3>1. CASE e.name = "BusReset" /\ e.calls = Isr_BusReset
      BY <3>1, ResetPrograms DEF Mends
    <3>2. CASE e.name \in {"Event", "Endpoints"} /\ e.calls \in Seq(Moves)
      <4>1. e.calls \in Seq(Plain) /\ LowerIRQL \in Seq(Plain)
        BY <3>2, PlainSets, LockSignals
      <4>2. e.calls \o LowerIRQL \in Seq(Plain)
        BY <4>1, PlainJoin
      <4> QED
        BY <3>2, <4>2, PlainRepairs
    <3> QED
      BY <3>1, <3>2, EventPrograms
  <2>5. RegType'
    BY <1>0, <2>2 DEF RegType
  <2>6. RepairInv'
    BY <1>0, <2>2, <2>3, <2>4 DEF RepairInv
  <2>7. OwedInv'
    <3> SUFFICES ASSUME intact = 1, NEW r \in Registers
                 PROVE  reg[r] = Configured[r] \/ \E c \in 0..level : Owes(todo'[c], r)
      BY <2>2 DEF OwedInv
    <3>1. reg[r] = Configured[r] \/ \E c \in 0..level : Owes(todo[c], r)
      BY <1>0 DEF OwedInv
    <3>2. \A c \in 0..level : Owes(todo[c], r) => c # level
      BY <2>2, NothingOwed
    <3> QED
      BY <2>3, <3>1, <3>2
  <2>8. RegularOwed'
    <3>1. ~(pos'[level] > 0)
      BY <1>a, <2>2
    <3> QED
      BY <2>2, <2>3, <2>4, <3>1 DEF RegularOwed
  <2> QED
    BY <2>5, <2>6, <2>7, <2>8 DEF ConfigInv
<1>8. CASE Return
  <2>1. /\ level > 0 /\ level' = level - 1 /\ todo[level] = <<>>
        /\ UNCHANGED <<port, todo, pos, reg, intact>>
        /\ regular' = [regular EXCEPT ![level] = 0]
    BY <1>8 DEF Return, ReturnFromInterrupt, Busy
  <2>2. \A c \in 0..level' : c \in 0..level
    BY <1>0, <2>1
  <2>3. RegType' /\ RepairInv'
    BY <1>0, <2>1, <2>2 DEF RegType, RepairInv
  <2>4. OwedInv'
    <3> SUFFICES ASSUME intact = 1, NEW r \in Registers
                 PROVE  reg[r] = Configured[r] \/ \E c \in 0..level' : Owes(todo[c], r)
      BY <2>1 DEF OwedInv
    <3>1. reg[r] = Configured[r] \/ \E c \in 0..level : Owes(todo[c], r)
      BY <1>0 DEF OwedInv
    <3>2. \A c \in 0..level : Owes(todo[c], r) => c \in 0..level'
      <4>1. \A c \in 0..level : c = level \/ c \in 0..level'
        BY <1>0, <2>1
      <4> QED
        BY <2>1, <4>1, NothingOwed
    <3> QED
      BY <3>1, <3>2
  <2>5. RegularOwed'
    <3>1. level' > 0 => /\ level' \in 1..MaxLevel /\ level' < level
                        /\ level' \in Contexts /\ level' # level
      BY <1>0, <2>1 DEF Contexts
    <3>2. level' > 0 => regular'[level'] = 0
      BY <1>0, <2>1, <3>1 DEF RegularInv, RegularRunsAlone
    <3> QED
      BY <3>2 DEF RegularOwed
  <2> QED
    BY <2>3, <2>4, <2>5 DEF ConfigInv
<1>9. CASE Serve
  <2>1. PICK h \in MainLoop :
          todo' = [todo EXCEPT ![0] = RaiseIRQL \o h.calls \o LowerIRQL]
    BY <1>9 DEF Serve
  <2>2. /\ level = 0 /\ todo[0] = <<>>
        /\ UNCHANGED <<port, pos, level, reg, regular, intact>>
    BY <1>9 DEF Serve, Busy, vars
  <2>3. todo'[0] = RaiseIRQL \o h.calls \o LowerIRQL /\ \A c \in 0..level : c = 0
    BY <1>0, <2>1, <2>2
  <2>4. Repairs(RaiseIRQL \o h.calls \o LowerIRQL)
    BY MainLoopPrograms, Sections, PlainRepairs
  <2>5. RegType' /\ RepairInv' /\ RegularOwed'
    <3>1. RegType'
      BY <1>0, <2>2 DEF RegType
    <3>2. RepairInv'
      BY <2>2, <2>3, <2>4 DEF RepairInv
    <3>3. RegularOwed'
      BY <2>2 DEF RegularOwed
    <3> QED
      BY <3>1, <3>2, <3>3
  <2>6. OwedInv'
    BY <1>0, <2>2, <2>3, NothingOwed DEF OwedInv
  <2> QED
    BY <2>5, <2>6 DEF ConfigInv
<1>10. CASE UNCHANGED allVars
  BY <1>0, <1>10 DEF allVars, vars, portVars, ConfigInv, RegType, RepairInv, OwedInv,
     RegularOwed, OnCourse
<1> QED
  BY <1>2, <1>3, <1>4, <1>5, <1>6, <1>7, <1>8, <1>9, <1>10 DEF PortNext

\* The invariant of the configuration is inductive beside the others.
THEOREM ConfigInductive == PortSpec => []ConfigInv
<1>1. (IInv /\ CourseInv /\ RegularInv) /\ StrayInv /\ ConfigInv /\ [PortNext]_allVars => ConfigInv'
  BY ConfigStep
<1> QED
  BY ConfigInit, <1>1, PortInductive, StrayInductive, PTL DEF PortSpec, allVars

\* The registers are complete whenever the main loop waits and no word has been
\* written astray, and after every bus reset that was entered regularly.
THEOREM ChipStaysConfigured == PortSpec => []ChipConfigured
<1>1. ConfigInv => ChipConfigured
  <2> SUFFICES ASSUME ConfigInv PROVE ChipConfigured
    OBVIOUS
  <2>1. (\A r \in Registers : reg[r] = Configured[r]) => reg = Configured
    BY DEF ConfigInv, RegType, Configured
  <2>2. ASSUME level = 0, Idle, intact = 1 PROVE \A r \in Registers : reg[r] = Configured[r]
    <3>1. \A c \in 0..level : todo[c] = <<>>
      BY <2>2 DEF Idle
    <3> QED
      BY <2>2, <3>1, NothingOwed DEF ConfigInv, OwedInv
  <2>3. ASSUME level > 0, ~Busy, prog[level] = "BusReset", regular[level] = 1
        PROVE  \A r \in Registers : reg[r] = Configured[r]
    BY <2>3, NothingOwed DEF ConfigInv, RegularOwed, Busy
  <2> QED
    BY <2>1, <2>2, <2>3 DEF ChipConfigured
<1> QED
  BY ConfigInductive, <1>1, PTL
=============================================================================
