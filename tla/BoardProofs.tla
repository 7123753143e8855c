---------------------------- MODULE BoardProofs ----------------------------
(***************************************************************************)
(* Proofs about the programs of the SCARTS board: the demo application     *)
(* takes one interrupt of the timer and serves it, whatever the match      *)
(* value, and the boot loader leaves an image of any number of lines where *)
(* its records say.                                                        *)
(***************************************************************************)
EXTENDS SRecordLoader, TimerDemo, TLAPS

-----------------------------------------------------------------------------
(* The interrupt of the timer *)

Setting == {"boot", "register", "unmask", "enable", "match", "prescale",
            "handle", "stop", "stopped", "start", "started"}
Loop == {"scan", "button1", "button2", "compare", "print", "keep"}
Serving == {"io03", "io45", "load", "store", "return"}

BoardTypes ==
  /\ pc \in Setting \cup Loop /\ isr \in Serving \cup {"none"}
  /\ word \in [0..3 -> SUBSET Bits] /\ loaded \in [0..3 -> SUBSET Bits]
  /\ reg \in SUBSET Bits /\ taken \in 0..2
  /\ line \in {0, 1} /\ pending \in {0, 1}

\* Setting the timer up: the custom byte of the word, where the bit that runs
\* the timer is, is never written, and main has done what comes before pc.
NeverRuns == word[CUSTOM] = {} /\ loaded[CUSTOM] = {} /\ loaded[0] = {}
SetUp ==
  /\ pc \notin {"boot", "register"} => registered = 1
  /\ pc \notin {"boot", "register", "unmask", "enable", "match", "prescale", "handle"}
       => handle = TIMER_BADDR
  /\ CONF_INTA \notin loaded[CONFIG] /\ CONF_INTA \notin reg

\* The phases of the one interrupt: not requested, requested, detected, served,
\* acknowledged, over.
Acknowledged == CONF_INTA \in word[CONFIG]
OneRequest ==
  \/ /\ pc \in Setting /\ isr = "none" /\ taken = 0
     /\ ~Request /\ line = 0 /\ pending = 0 /\ ~Acknowledged
  \/ /\ pc \in Loop /\ isr = "none" /\ taken = 0
     /\ Request /\ line = pending /\ ~Acknowledged
  \/ /\ pc \in Loop /\ isr \in Serving \ {"return"} /\ taken = 1
     /\ Request /\ line = 1 /\ pending = 0 /\ ~Acknowledged
  \/ /\ pc \in Loop /\ isr = "return" /\ taken = 1
     /\ Request /\ line = 1 /\ pending = 0 /\ Acknowledged
  \/ /\ pc \in Loop /\ isr = "none" /\ taken = 1
     /\ ~Request /\ pending = 0 /\ ~Acknowledged

\* The LEDs that isr has set.
LedsSet == /\ io03 = {}
           /\ isr \in {"load", "store", "return"} => io45 = {G_LED0 - 11}

ServiceInv == BoardTypes /\ NeverRuns /\ SetUp /\ OneRequest /\ LedsSet

Words == [0..3 -> SUBSET Bits]

\* A clock of a timer that is not running: the request stays up until it is
\* acknowledged, the acknowledgement for one clock.
LEMMA Clocked ==
  ASSUME BoardTypes, NeverRuns, NEW w \in Words, w[CUSTOM] = {}, NEW m, Clock(w, m)
  PROVE  /\ word' \in Words /\ word'[CUSTOM] = {}
         /\ STA_INT \in word'[STATUS] <=> STA_INT \in w[STATUS] /\ ~Acknowledged
         /\ CONF_INTA \in word'[CONFIG] <=> CONF_INTA \in w[CONFIG] /\ ~Acknowledged
<1> DEFINE status == {STA_RDY} \cup IF STA_INT \in w[STATUS] /\ ~Acknowledged
                                    THEN {STA_INT} ELSE {}
           config == (w[CONFIG] \ IF Acknowledged THEN {CONF_INTA} ELSE {})
                       \cup {CONF_OUTD}
<1>1. START_TIMER \notin word[CUSTOM]
  BY DEF NeverRuns
<1>2. word' = [w EXCEPT ![STATUS] = status, ![CONFIG] = config]
  BY <1>1 DEF Clock, Acknowledged
<1>3. /\ status \in SUBSET Bits /\ config \in SUBSET Bits
      /\ STA_INT \in status <=> STA_INT \in w[STATUS] /\ ~Acknowledged
      /\ CONF_INTA \in config <=> CONF_INTA \in w[CONFIG] /\ ~Acknowledged
  BY DEF Words, Bits, STA_RDY, STA_INT, CONF_INTA, CONF_OUTD, CONFIG
<1> HIDE DEF status, config
<1> QED
  BY <1>2, <1>3 DEF Words, STATUS, CONFIG, CUSTOM

\* What ServiceInv says of a step of main that sets nothing else.
LEMMA Interruptible ==
  ASSUME ServiceInv, isr = "none", isr' = isr, taken' = taken,
         Detect, NEW w \in Words, w[CUSTOM] = {}, NEW m, Clock(w, m),
         CONF_INTA \in w[CONFIG] => Acknowledged,
         \/ pc \in Setting /\ pc' \in Setting /\ STA_INT \notin w[STATUS]
         \/ pc \in Setting /\ pc' \in Loop /\ STA_INT \in w[STATUS]
         \/ pc \in Loop /\ pc' \in Loop /\ w = word
  PROVE  /\ OneRequest' /\ word' \in Words /\ word'[CUSTOM] = {}
         /\ line' \in {0, 1} /\ pending' \in {0, 1}
<1>1. /\ word' \in Words /\ word'[CUSTOM] = {}
      /\ Request' <=> STA_INT \in w[STATUS] /\ ~Acknowledged
      /\ Acknowledged' <=> CONF_INTA \in w[CONFIG] /\ ~Acknowledged
  BY Clocked DEF ServiceInv, Request, Acknowledged
<1>2. /\ line' = IF Request THEN 1 ELSE 0
      /\ pending' = IF Request /\ line = 0 THEN 1 ELSE pending
      /\ line \in {0, 1} /\ pending \in {0, 1} /\ pc \in Setting \cup Loop
  BY DEF Detect, Edge, ServiceInv, BoardTypes
<1>3. \A s \in Setting : s \notin Loop
  BY DEF Setting, Loop
<1>4. OneRequest'
  <2>1. CASE pc \in Setting
    <3>1. taken = 0 /\ ~Request /\ line = 0 /\ pending = 0 /\ ~Acknowledged
      BY <1>3, <2>1 DEF ServiceInv, OneRequest
    <3> QED
      BY <1>1, <1>2, <1>3, <2>1, <3>1 DEF OneRequest
  <2>2. CASE pc \in Loop
    <3>1. \/ taken = 0 /\ Request /\ line = pending /\ ~Acknowledged
          \/ taken = 1 /\ ~Request /\ pending = 0 /\ ~Acknowledged
      BY <1>3, <2>2 DEF ServiceInv, OneRequest, Serving
    <3>2. pc' \in Loop /\ w = word
      BY <1>3, <2>2
    <3>3. Request' = Request /\ ~Acknowledged'
      BY <1>1, <3>1, <3>2 DEF Request
    <3> QED
      BY <1>2, <3>1, <3>2, <3>3 DEF OneRequest
  <2> QED
    BY <1>2, <2>1, <2>2
<1> QED
  BY <1>1, <1>2, <1>4

LEMMA NoService ==
  ASSUME ServiceInv, isr = "none", isr' = isr, io03' = io03, io45' = io45
  PROVE  LedsSet'
  BY DEF ServiceInv, LedsSet

\* A step of main without an access to the timer.
LEMMA Unaccessed ==
  ASSUME ServiceInv, NEW from, NEW to, Main(from, to), Tick,
         \/ from \in Setting /\ to \in Setting
         \/ from \in Loop /\ to \in Loop,
         UNCHANGED <<isr, taken, io03, io45, reg>>,
         loaded' = loaded \/ loaded' = LoadWord
  PROVE  BoardTypes' /\ NeverRuns' /\ OneRequest' /\ LedsSet'
         /\ (loaded' # loaded => ~Acknowledged)
<1>1. pc = from /\ pc' = to /\ isr = "none" /\ isr' = "none"
  BY DEF Main
<1>2. word \in Words /\ word[CUSTOM] = {} /\ Clock(word, match) /\ Detect
  BY DEF Tick, ServiceInv, BoardTypes, NeverRuns, Words
<1>3. \A s \in Setting : s \notin Loop
  BY DEF Setting, Loop
<1>4. pc \in Setting => ~Request
  BY <1>3 DEF ServiceInv, OneRequest
<1>5. CONF_INTA \in word[CONFIG] => Acknowledged
  BY DEF Acknowledged
<1>6. ~Acknowledged
  BY <1>1 DEF ServiceInv, OneRequest, Serving
<1>7. /\ OneRequest' /\ word' \in Words /\ word'[CUSTOM] = {}
      /\ line' \in {0, 1} /\ pending' \in {0, 1}
  <2>1. CASE from \in Setting /\ to \in Setting
    BY <1>1, <1>2, <1>4, <1>5, <2>1, Interruptible DEF Request
  <2>2. CASE from \in Loop /\ to \in Loop
    BY <1>1, <1>2, <1>5, <2>2, Interruptible
  <2> QED
    BY <2>1, <2>2
<1>8. /\ loaded' \in [0..3 -> SUBSET Bits]
      /\ loaded'[CUSTOM] = {} /\ loaded'[0] = {}
  <2>1. LoadWord \in [0..3 -> SUBSET Bits] /\ LoadWord[CUSTOM] = {} /\ LoadWord[0] = {}
    BY <1>2 DEF LoadWord, CUSTOM, Words
  <2> QED
    BY <2>1 DEF ServiceInv, BoardTypes, NeverRuns
<1>9. BoardTypes'
  BY <1>1, <1>7, <1>8 DEF ServiceInv, BoardTypes, Words
<1>10. LedsSet'
  BY <1>1, NoService
<1> QED
  BY <1>6, <1>7, <1>8, <1>9, <1>10 DEF NeverRuns

\* An access to the timer by main, which is setting it up.
LEMMA Accessed ==
  ASSUME ServiceInv, NEW from \in Setting, NEW to, Main(from, to), Detect,
         NEW w \in Words, w[CUSTOM] = {}, NEW m, Clock(w, m),
         CONF_INTA \notin w[CONFIG],
         \/ to \in Setting /\ STA_INT \notin w[STATUS]
         \/ to \in Loop /\ STA_INT \in w[STATUS],
         UNCHANGED <<isr, taken, io03, io45, reg, loaded>>
  PROVE  BoardTypes' /\ NeverRuns' /\ OneRequest' /\ LedsSet'
<1>1. pc = from /\ pc' = to /\ isr = "none" /\ isr' = "none"
  BY DEF Main
<1>2. /\ OneRequest' /\ word' \in Words /\ word'[CUSTOM] = {}
      /\ line' \in {0, 1} /\ pending' \in {0, 1}
  BY <1>1, Interruptible
<1>3. BoardTypes'
  BY <1>1, <1>2 DEF ServiceInv, BoardTypes, Words
<1> QED
  BY <1>1, <1>2, <1>3, NoService DEF NeverRuns, ServiceInv

LEMMA ServiceInit == Init => ServiceInv
<1> SUFFICES ASSUME Init PROVE ServiceInv
  OBVIOUS
<1> USE DEF Init
<1>1. BoardTypes
  BY DEF BoardTypes, Setting
<1>2. NeverRuns /\ SetUp /\ LedsSet
  BY DEF NeverRuns, SetUp, LedsSet, CUSTOM, CONFIG
<1>3. OneRequest
  BY DEF OneRequest, Setting, Request, Acknowledged, STATUS, CONFIG
<1> QED
  BY <1>1, <1>2, <1>3 DEF ServiceInv

LEMMA BootStep ==
  ASSUME ServiceInv,
         Boot \/ RegisterInterrupt \/ UnmaskInterrupt \/ EnableInterrupts
              \/ timer_initHandle
  PROVE  ServiceInv'
<1>1. PICK from \in Setting, to \in Setting : Main(from, to)
  BY DEF Boot, RegisterInterrupt, UnmaskInterrupt, EnableInterrupts,
         timer_initHandle, Setting
<1>2. Tick /\ UNCHANGED <<isr, taken, io03, io45, reg, loaded>>
  BY DEF Boot, RegisterInterrupt, UnmaskInterrupt, EnableInterrupts,
         timer_initHandle, Rest, leds
<1>3. BoardTypes' /\ NeverRuns' /\ OneRequest' /\ LedsSet'
  BY <1>1, <1>2, Unaccessed
<1>4. SetUp'
  BY <1>2 DEF ServiceInv, SetUp, Boot, RegisterInterrupt, UnmaskInterrupt,
              EnableInterrupts, timer_initHandle, Main, setup
<1> QED
  BY <1>3, <1>4 DEF ServiceInv

LEMMA ConfigStep == ASSUME ServiceInv, config_timer PROVE ServiceInv'
<1>1. UNCHANGED <<isr, taken, io03, io45, reg, loaded, handle, registered>>
  BY DEF config_timer, Rest, leds, setup
<1>2. CASE Main("match", "prescale") /\ Clock(word, Match) /\ Detect
  <2>1. "match" \in Setting /\ "prescale" \in Setting /\ "match" \notin Loop
    BY DEF Setting, Loop
  <2>2. ~Request /\ ~Acknowledged
    BY <1>2, <2>1 DEF Main, ServiceInv, OneRequest
  <2>3. word \in Words /\ word[CUSTOM] = {}
    BY DEF ServiceInv, BoardTypes, NeverRuns, Words
  <2>4. BoardTypes' /\ NeverRuns' /\ OneRequest' /\ LedsSet'
    BY <1>1, <1>2, <2>1, <2>2, <2>3, Accessed DEF Request, Acknowledged
  <2> QED
    BY <1>1, <1>2, <2>4 DEF ServiceInv, SetUp, Main
<1>3. CASE Main("prescale", "handle") /\ Tick
  <2>1. "prescale" \in Setting /\ "handle" \in Setting
    BY DEF Setting
  <2>2. BoardTypes' /\ NeverRuns' /\ OneRequest' /\ LedsSet'
    BY <1>1, <1>3, <2>1, Unaccessed
  <2> QED
    BY <1>1, <1>3, <2>2 DEF ServiceInv, SetUp, Main
<1> QED
  BY <1>2, <1>3 DEF config_timer

\* start_timer raises the line itself: the byte it writes is the status.
LEMMA StartStep == ASSUME ServiceInv, start_timer PROVE ServiceInv'
<1>1. UNCHANGED <<isr, taken, io03, io45, reg, handle, registered>>
  BY DEF start_timer, Load, Store, Rest, leds, setup
<1>2. ASSUME NEW from \in {"stop", "start"}, NEW to \in {"stopped", "started"},
             Load(from, to)
      PROVE  ServiceInv'
  <2>1. from \in Setting /\ to \in Setting
    BY DEF Setting
  <2>2. Main(from, to) /\ Tick /\ loaded' = LoadWord
    BY <1>2 DEF Load
  <2>3. BoardTypes' /\ NeverRuns' /\ OneRequest' /\ LedsSet'
    BY <1>1, <2>1, <2>2, Unaccessed
  <2>4. ~Acknowledged
    BY <2>2 DEF Main, ServiceInv, OneRequest, Serving
  <2>5. CONF_INTA \notin LoadWord[CONFIG]
    BY <2>4 DEF LoadWord, Acknowledged, CONFIG
  <2> QED
    BY <1>1, <2>2, <2>3, <2>5 DEF ServiceInv, SetUp, Main
<1> DEFINE first == [loaded EXCEPT ![0] = Low(loaded) \ {STOP_TIMER}]
           second == [loaded EXCEPT ![0] = Low(loaded) \cup {START_TIMER}]
<1>3. /\ first \in Words /\ first[CUSTOM] = {} /\ CONF_INTA \notin first[CONFIG]
      /\ STA_INT \notin first[STATUS]
      /\ second \in Words /\ second[CUSTOM] = {} /\ CONF_INTA \notin second[CONFIG]
      /\ STA_INT \in second[STATUS]
  BY DEF ServiceInv, BoardTypes, NeverRuns, SetUp, Words, Low, CUSTOM, CONFIG, STATUS,
         STA_INT, START_TIMER, STOP_TIMER, Bits
<1>4. CASE Store("stopped", "start", first)
  <2>1. "stopped" \in Setting /\ "start" \in Setting
    BY DEF Setting
  <2>2. /\ Main("stopped", "start") /\ Clock(first, match) /\ Detect
        /\ loaded' = loaded
    BY <1>4 DEF Store
  <2>3. BoardTypes' /\ NeverRuns' /\ OneRequest' /\ LedsSet'
    BY <1>1, <1>3, <2>1, <2>2, Accessed
  <2> QED
    BY <1>1, <2>2, <2>3 DEF ServiceInv, SetUp, Main
<1>5. CASE Store("started", "scan", second)
  <2>1. "started" \in Setting /\ "scan" \in Loop
    BY DEF Setting, Loop
  <2>2. /\ Main("started", "scan") /\ Clock(second, match) /\ Detect
        /\ loaded' = loaded
    BY <1>5 DEF Store
  <2>3. BoardTypes' /\ NeverRuns' /\ OneRequest' /\ LedsSet'
    BY <1>1, <1>3, <2>1, <2>2, Accessed
  <2> QED
    BY <1>1, <2>2, <2>3 DEF ServiceInv, SetUp, Main
<1> QED
  BY <1>2, <1>4, <1>5 DEF start_timer

LEMMA LoopStep ==
  ASSUME ServiceInv, Scan \/ Compare \/ ShowButtons \/ Keep
  PROVE  ServiceInv'
<1>1. PICK from \in Loop, to \in Loop : Main(from, to)
  BY DEF Scan, getButtonStatus, Compare, ShowButtons, Keep, Loop
<1>2. Tick /\ UNCHANGED <<isr, taken, io03, io45, reg, loaded, handle, registered>>
  BY DEF Scan, getButtonStatus, Compare, ShowButtons, Keep, Rest, leds, setup
<1>3. BoardTypes' /\ NeverRuns' /\ OneRequest' /\ LedsSet'
  BY <1>1, <1>2, Unaccessed
<1>4. SetUp'
  BY <1>1, <1>2 DEF ServiceInv, SetUp, Main, Loop
<1> QED
  BY <1>3, <1>4 DEF ServiceInv

\* isr and the controller.
LEMMA EnterStep == ASSUME ServiceInv, Enter PROVE ServiceInv'
<1>1. /\ isr = "none" /\ pending = 1 /\ isr' = "io03" /\ pending' = 0
      /\ line' = (IF Request THEN 1 ELSE 0) /\ Clock(word, match)
      /\ taken' = IF taken = 2 THEN 2 ELSE taken + 1
      /\ UNCHANGED <<pc, loaded, reg, handle, registered, io03, io45>>
  BY DEF Enter, Accept, setup, leds
<1>2. /\ pc \in Loop /\ taken = 0 /\ Request /\ ~Acknowledged
  BY <1>1 DEF ServiceInv, OneRequest, Serving
<1>3. word \in Words /\ word[CUSTOM] = {}
  BY DEF ServiceInv, BoardTypes, NeverRuns, Words
<1>4. word' \in Words /\ word'[CUSTOM] = {} /\ Request' /\ ~Acknowledged'
  BY <1>1, <1>2, <1>3, Clocked DEF ServiceInv, Request, Acknowledged
<1>5. BoardTypes'
  BY <1>1, <1>2, <1>4 DEF ServiceInv, BoardTypes, Words, Serving
<1>6. OneRequest'
  BY <1>1, <1>2, <1>4 DEF OneRequest, Serving
<1> QED
  BY <1>1, <1>4, <1>5, <1>6 DEF ServiceInv, NeverRuns, SetUp, LedsSet

\* A step of isr before it returns.
LEMMA ServingStep ==
  ASSUME ServiceInv, NEW from \in {"io03", "io45", "load", "store"},
         NEW to \in Serving, Isr(from, to), Detect,
         NEW w \in Words, w[CUSTOM] = {}, STA_INT \in w[STATUS],
         CONF_INTA \in w[CONFIG] <=> to = "return", Clock(w, match)
  PROVE  /\ OneRequest' /\ NeverRuns' /\ word' \in Words
         /\ line' \in {0, 1} /\ pending' \in {0, 1}
         /\ pc' \in Loop /\ isr' = to /\ taken' = 1
         /\ UNCHANGED <<loaded, handle, registered, pc>>
<1>1. isr = from /\ isr' = to /\ UNCHANGED <<pc, loaded, handle, registered, taken>>
  BY DEF Isr, setup
<1>2. /\ pc \in Loop /\ taken = 1 /\ Request /\ line = 1 /\ pending = 0
      /\ ~Acknowledged
  BY <1>1 DEF ServiceInv, OneRequest, Serving
<1>3. /\ word' \in Words /\ word'[CUSTOM] = {} /\ Request'
      /\ Acknowledged' <=> to = "return"
  BY <1>2, Clocked DEF ServiceInv, Request, Acknowledged
<1>4. line' = 1 /\ pending' = 0
  BY <1>2 DEF Detect, Edge
<1>5. OneRequest'
  BY <1>1, <1>2, <1>3, <1>4 DEF OneRequest
<1> QED
  BY <1>1, <1>2, <1>3, <1>4, <1>5 DEF ServiceInv, NeverRuns

LEMMA SetLedsStep == ASSUME ServiceInv, setLeds PROVE ServiceInv'
<1>1. PICK from \in {"io03", "io45"}, to \in {"io45", "load"} :
         /\ Isr(from, to) /\ Tick /\ reg' = reg
         /\ from = "io03" => to = "io45" /\ io03' = DATA_IO_0_3({G_LED0}) /\ io45' = io45
         /\ from = "io45" => to = "load" /\ io45' = DATA_IO_4_5({G_LED0}) /\ io03' = io03
  BY DEF setLeds
<1>2. isr = from
  BY <1>1 DEF Isr
<1>3. Request /\ ~Acknowledged
  BY <1>2 DEF ServiceInv, OneRequest, Serving
<1>4. /\ word \in Words /\ word[CUSTOM] = {} /\ STA_INT \in word[STATUS]
      /\ CONF_INTA \notin word[CONFIG] /\ Clock(word, match) /\ Detect
  BY <1>1, <1>3
  DEF ServiceInv, BoardTypes, NeverRuns, Words, Tick, Request, Acknowledged
<1>5. to \in Serving /\ to # "return"
  BY DEF Serving
<1>6. /\ OneRequest' /\ NeverRuns' /\ word' \in Words
      /\ line' \in {0, 1} /\ pending' \in {0, 1}
      /\ pc' \in Loop /\ isr' = to /\ taken' = 1
      /\ UNCHANGED <<loaded, handle, registered, pc>>
  BY <1>1, <1>4, <1>5, ServingStep
<1>7. DATA_IO_0_3({G_LED0}) = {} /\ DATA_IO_4_5({G_LED0}) = {G_LED0 - 11}
  BY DEF DATA_IO_0_3, DATA_IO_4_5, G_LED0, Bits
<1>8. LedsSet'
  BY <1>1, <1>6, <1>7 DEF ServiceInv, LedsSet
<1>9. BoardTypes' /\ SetUp'
  BY <1>1, <1>5, <1>6 DEF ServiceInv, BoardTypes, SetUp, Words
<1> QED
  BY <1>6, <1>8, <1>9 DEF ServiceInv

LEMMA AckStep == ASSUME ServiceInv, timer_irq_ack PROVE ServiceInv'
<1>1. io03' = io03 /\ io45' = io45
  BY DEF timer_irq_ack, leds
<1>2. isr \in {"load", "store"}
  BY DEF timer_irq_ack, Isr
<1>3. pc \in Loop /\ Request /\ ~Acknowledged
  BY <1>2 DEF ServiceInv, OneRequest, Serving
<1>4. handle = TIMER_BADDR
  BY <1>3 DEF ServiceInv, SetUp, Loop
<1>5. /\ word \in Words /\ word[CUSTOM] = {} /\ STA_INT \in word[STATUS]
      /\ CONF_INTA \notin word[CONFIG]
  BY <1>3 DEF ServiceInv, BoardTypes, NeverRuns, Words, Request, Acknowledged
<1>6. CASE Isr("load", "store") /\ Tick /\ reg' = word[CONFIG]
  <2>1. "store" \in Serving /\ Clock(word, match) /\ Detect
    BY <1>6 DEF Serving, Tick
  <2>2. /\ OneRequest' /\ NeverRuns' /\ word' \in Words
        /\ line' \in {0, 1} /\ pending' \in {0, 1}
        /\ pc' \in Loop /\ isr' = "store" /\ taken' = 1
        /\ UNCHANGED <<loaded, handle, registered, pc>>
    BY <1>5, <1>6, <2>1, ServingStep
  <2>3. reg' \in SUBSET Bits /\ CONF_INTA \notin reg'
    BY <1>5, <1>6 DEF Words, CONFIG
  <2>4. BoardTypes' /\ SetUp'
    BY <2>1, <2>2, <2>3 DEF ServiceInv, BoardTypes, SetUp, Words
  <2>5. LedsSet'
    BY <1>1, <1>6, <2>2 DEF ServiceInv, LedsSet, Isr
  <2> QED
    BY <2>2, <2>4, <2>5 DEF ServiceInv
<1> DEFINE w == [word EXCEPT ![CONFIG] = reg \cup {CONF_INTA}]
<1>7. CASE Isr("store", "return") /\ Detect /\ Clock(w, match) /\ reg' = reg
  <2>1. /\ w \in Words /\ w[CUSTOM] = {} /\ STA_INT \in w[STATUS]
        /\ CONF_INTA \in w[CONFIG] /\ "return" \in Serving
    BY <1>5 DEF ServiceInv, BoardTypes, Words, CUSTOM, STATUS, CONFIG, CONF_INTA, Bits,
                Serving
  <2> HIDE DEF w
  <2>2. /\ OneRequest' /\ NeverRuns' /\ word' \in Words
        /\ line' \in {0, 1} /\ pending' \in {0, 1}
        /\ pc' \in Loop /\ isr' = "return" /\ taken' = 1
        /\ UNCHANGED <<loaded, handle, registered, pc>>
    BY <1>7, <2>1, ServingStep
  <2>3. BoardTypes' /\ SetUp'
    BY <1>7, <2>1, <2>2 DEF ServiceInv, BoardTypes, SetUp, Words
  <2>4. LedsSet'
    BY <1>1, <1>7, <2>2 DEF ServiceInv, LedsSet, Isr
  <2> QED
    BY <2>2, <2>3, <2>4 DEF ServiceInv
<1> QED
  BY <1>4, <1>6, <1>7 DEF timer_irq_ack

LEMMA ReturnStep == ASSUME ServiceInv, Return PROVE ServiceInv'
<1>1. /\ isr = "return" /\ isr' = "none" /\ Clock(word, match) /\ Detect
      /\ UNCHANGED <<pc, loaded, reg, taken, handle, registered, io03, io45>>
  BY DEF Return, Isr, Tick, setup, leds
<1>2. /\ pc \in Loop /\ taken = 1 /\ Request /\ line = 1 /\ pending = 0
      /\ Acknowledged
  BY <1>1 DEF ServiceInv, OneRequest, Serving
<1>3. word \in Words /\ word[CUSTOM] = {}
  BY DEF ServiceInv, BoardTypes, NeverRuns, Words
<1>4. word' \in Words /\ word'[CUSTOM] = {} /\ ~Request' /\ ~Acknowledged'
  BY <1>1, <1>2, <1>3, Clocked DEF ServiceInv, Request, Acknowledged
<1>5. line' = 1 /\ pending' = 0
  BY <1>1, <1>2 DEF Detect, Edge
<1>6. BoardTypes'
  BY <1>1, <1>4, <1>5 DEF ServiceInv, BoardTypes, Words
<1>7. OneRequest'
  BY <1>1, <1>2, <1>4, <1>5 DEF OneRequest
<1> QED
  BY <1>1, <1>4, <1>6, <1>7 DEF ServiceInv, NeverRuns, SetUp, LedsSet

LEMMA ServiceStep == ServiceInv /\ [Next]_vars => ServiceInv'
<1> SUFFICES ASSUME ServiceInv, [Next]_vars PROVE ServiceInv'
  OBVIOUS
<1>1. ASSUME UNCHANGED <<pc, isr, timer, loaded, reg, controller, setup, taken, leds>>
      PROVE  ServiceInv'
  BY <1>1 DEF timer, controller, setup, leds, ServiceInv, BoardTypes, NeverRuns, SetUp,
              OneRequest, LedsSet, Request, Acknowledged
<1>2. CASE Press
  BY <1>1, <1>2 DEF Press
<1>3. CASE UNCHANGED vars
  BY <1>1, <1>3 DEF vars
<1> QED
  BY <1>2, <1>3, BootStep, ConfigStep, StartStep, LoopStep, EnterStep, SetLedsStep,
     AckStep, ReturnStep
  DEF Next, Processor

\* main and isr of the demo application, the timer and the controller.
THEOREM ServiceInvariant == Spec => []ServiceInv
  BY ServiceInit, ServiceStep, PTL DEF Spec

\* IsrServes: whatever the match value and the buttons, isr has lit its LED and
\* acknowledged the timer whenever it returns.
THEOREM IsrAlwaysServes == Spec => []IsrServes
<1>1. ServiceInv => IsrServes
  <2> SUFFICES ASSUME ServiceInv, isr = "return" PROVE IsrServes
    BY DEF IsrServes
  <2>1. pc \in Loop /\ Acknowledged
    BY DEF ServiceInv, OneRequest, Serving
  <2>2. registered = 1 /\ handle = TIMER_BADDR
    BY <2>1 DEF ServiceInv, SetUp, Loop
  <2>3. Lit = {G_LED0}
    BY DEF ServiceInv, LedsSet, Lit, G_LED0
  <2> QED
    BY <2>1, <2>2, <2>3 DEF IsrServes, Acknowledged
<1> QED
  BY <1>1, ServiceInvariant, PTL

\* OneInterrupt: one acknowledgement is enough, and in time.
THEOREM InterruptOnce == Spec => []OneInterrupt
<1>1. ServiceInv => OneInterrupt
  BY DEF ServiceInv, OneRequest, OneInterrupt
<1> QED
  BY <1>1, ServiceInvariant, PTL
-----------------------------------------------------------------------------
(* The image in the memories *)

\* The records among the first n of the image im that cover a byte, and what
\* the last of them says of it.
Covers(im, n, a, code) ==
  {k \in 1..n : /\ im[k].starts /\ im[k].type = 3
                /\ (im[k].address >= SCARTS_CODEMEM_LMA) = code
                /\ a \in im[k].address..im[k].address + im[k].bytes - 1}
SaysOf(im, n, a, code) ==
  LET c == Covers(im, n, a, code)
  IN IF c = {} THEN << >> ELSE LET k == Max(c) IN <<k, a - im[k].address>>

DataOf(im, n, a) == SaysOf(im, n, a, FALSE)
CodeOf(im, n, w) ==
  <<SaysOf(im, n, SCARTS_CODEMEM_LMA + 2 * w, TRUE),
    SaysOf(im, n, SCARTS_CODEMEM_LMA + 2 * w + 1, TRUE)>>

ImageTypes == /\ image \in Seq(Lines \cup {Terminator})
              /\ phase \in {"read", "code", "data", "jumped"}

\* The line in the buffer, while its payload is copied.
Copying == /\ Len(image) > 0 /\ Current \in Lines /\ Current.starts /\ Current.type = 3
           /\ payload_num_bytes = Current.bytes /\ i \in Nat

\* What has been copied of the current record, over the records before it.
DataLoaded ==
  IF phase = "data"
  THEN /\ Copying /\ Current.address < SCARTS_CODEMEM_LMA
       /\ address = Current.address /\ i <= Current.bytes
       /\ payload_offset = PayloadStart + 2 * i
       /\ \A a \in DataBytes :
            datamem[a] = IF a \in address..address + i - 1
                         THEN <<Len(image), a - address>>
                         ELSE DataOf(image, Len(image) - 1, a)
  ELSE \A a \in DataBytes : datamem[a] = DataOf(image, Len(image), a)

CodeLoaded ==
  IF phase = "code"
  THEN /\ Copying /\ Current.address >= SCARTS_CODEMEM_LMA
       /\ address = (Current.address - SCARTS_CODEMEM_LMA) \div 2
       /\ i <= Current.bytes \div 2
       /\ payload_offset = PayloadStart + 4 * i
       /\ \A w \in CodeWords :
            codemem[w] = IF w \in address..address + i - 1
                         THEN <<<<Len(image), 2 * (w - address)>>,
                                <<Len(image), 2 * (w - address) + 1>>>>
                         ELSE CodeOf(image, Len(image) - 1, w)
  ELSE \A w \in CodeWords : codemem[w] = CodeOf(image, Len(image), w)

\* There is a last record among those that cover a byte.
LastOnes == \A a \in Nat, code \in BOOLEAN :
              LET c == Covers(image, Len(image), a, code) IN c # {} => Max(c) \in c

LoadInv == ImageTypes /\ LastOnes /\ DataLoaded /\ CodeLoaded

\* A line holds 33 bytes at most, and code comes in whole words.
LEMMA LineFacts ==
  ASSUME NEW l \in Lines
  PROVE  /\ l.address \in Nat /\ l.bytes \in 0..33 /\ l.starts \in BOOLEAN
         /\ l.size = 14 + 2 * l.bytes
         /\ l.type = 3 /\ l.address >= SCARTS_CODEMEM_LMA
              => l.address % 2 = 0 /\ l.bytes % 2 = 0
<1>1. Written(l)
  BY LineAssumption
<1>2. l.address \in Nat /\ l.bytes \in Nat /\ l.starts \in BOOLEAN
  BY <1>1 DEF Written
<1>3. l.size = 12 + 2 * l.bytes + 2 /\ l.size <= 80
  <2>1. \A s, t, a, n : Line(s, t, a, n).size = 12 + 2 * n + 2
    BY DEF Line, PayloadStart, SREC_FIELD_ADDRESS_OFFSET, SREC_FIELD_CHECKSUM_LEN,
           AddressLength
  <2> QED
    BY <1>1, <2>1 DEF Written, SREC_MAX_LINE_LEN
<1>4. l.bytes \in 0..33 /\ l.size = 14 + 2 * l.bytes
  BY <1>2, <1>3
<1> QED
  BY <1>1, <1>2, <1>4 DEF Written

LEMMA LastLine == Terminator.type = 7 /\ Terminator.starts
  BY DEF Terminator, Line

\* The records that cover a byte, as the image grows.
LEMMA CoversLast ==
  ASSUME NEW im, NEW n \in Nat, NEW a, NEW code \in BOOLEAN
  PROVE  Covers(im, n + 1, a, code) =
           IF /\ im[n + 1].starts /\ im[n + 1].type = 3
              /\ (im[n + 1].address >= SCARTS_CODEMEM_LMA) = code
              /\ a \in im[n + 1].address..im[n + 1].address + im[n + 1].bytes - 1
           THEN Covers(im, n, a, code) \cup {n + 1} ELSE Covers(im, n, a, code)
<1>1. \A k : k \in 1..(n + 1) <=> k \in 1..n \/ k = n + 1
  OBVIOUS
<1> QED
  BY <1>1 DEF Covers

LEMMA CoversGrow ==
  ASSUME NEW im, NEW n \in Nat, NEW a, NEW code \in BOOLEAN
  PROVE  \/ Covers(im, n + 1, a, code) = Covers(im, n, a, code)
         \/ Covers(im, n + 1, a, code) = Covers(im, n, a, code) \cup {n + 1}
  BY CoversLast

LEMMA LastCovers ==
  ASSUME NEW im, NEW n \in Nat, NEW a, NEW code
  PROVE  Max(Covers(im, n, a, code) \cup {n + 1}) = n + 1
<1>1. \A k \in Covers(im, n, a, code) : k \in 1..n
  BY DEF Covers
<1> QED
  BY <1>1 DEF Max

LEMMA SaysLast ==
  ASSUME NEW im, NEW n \in Nat, NEW a, NEW code \in BOOLEAN
  PROVE  SaysOf(im, n + 1, a, code) =
           IF /\ im[n + 1].starts /\ im[n + 1].type = 3
              /\ (im[n + 1].address >= SCARTS_CODEMEM_LMA) = code
              /\ a \in im[n + 1].address..im[n + 1].address + im[n + 1].bytes - 1
           THEN <<n + 1, a - im[n + 1].address>> ELSE SaysOf(im, n, a, code)
<1> DEFINE c == Covers(im, n, a, code)
           covered == /\ im[n + 1].starts /\ im[n + 1].type = 3
                      /\ (im[n + 1].address >= SCARTS_CODEMEM_LMA) = code
                      /\ a \in im[n + 1].address..im[n + 1].address + im[n + 1].bytes - 1
<1>1. Covers(im, n + 1, a, code) = IF covered THEN c \cup {n + 1} ELSE c
  BY CoversLast
<1>2. CASE covered
  BY <1>1, <1>2, LastCovers DEF SaysOf
<1>3. CASE ~covered
  BY <1>1, <1>3 DEF SaysOf
<1> QED
  BY <1>2, <1>3

LEMMA SaysRecord ==
  ASSUME NEW im, NEW n \in Nat \ {0}, NEW a, NEW code \in BOOLEAN,
         im[n].starts, im[n].type = 3, (im[n].address >= SCARTS_CODEMEM_LMA) = code
  PROVE  SaysOf(im, n, a, code) =
           IF a \in im[n].address..im[n].address + im[n].bytes - 1
           THEN <<n, a - im[n].address>> ELSE SaysOf(im, n - 1, a, code)
<1> DEFINE m == n - 1
<1>1. m \in Nat /\ m + 1 = n
  OBVIOUS
<1> HIDE DEF m
<1>2. SaysOf(im, m + 1, a, code) =
        IF /\ im[m + 1].starts /\ im[m + 1].type = 3
           /\ (im[m + 1].address >= SCARTS_CODEMEM_LMA) = code
           /\ a \in im[m + 1].address..im[m + 1].address + im[m + 1].bytes - 1
        THEN <<m + 1, a - im[m + 1].address>> ELSE SaysOf(im, m, a, code)
  BY <1>1, SaysLast
<1>3. SaysOf(im, n, a, code) =
        IF a \in im[n].address..im[n].address + im[n].bytes - 1
        THEN <<n, a - im[n].address>> ELSE SaysOf(im, m, a, code)
  BY <1>1, <1>2
<1> QED
  BY <1>3 DEF m

LEMMA CoversAppend ==
  ASSUME NEW S, NEW im \in Seq(S), NEW l \in S, NEW a, NEW code
  PROVE  Covers(Append(im, l), Len(im), a, code) = Covers(im, Len(im), a, code)
<1> DEFINE im2 == Append(im, l)
<1>1. \A k \in 1..Len(im) : im2[k] = im[k]
  OBVIOUS
<1> HIDE DEF im2
<1>2. Covers(im2, Len(im), a, code) = Covers(im, Len(im), a, code)
  BY <1>1 DEF Covers
<1> QED
  BY <1>2 DEF im2

LEMMA SaysAppend ==
  ASSUME LoadInv, NEW l \in Lines \cup {Terminator}, NEW a \in Nat, NEW code \in BOOLEAN
  PROVE  SaysOf(Append(image, l), Len(image), a, code) = SaysOf(image, Len(image), a, code)
<1> DEFINE c == Covers(image, Len(image), a, code)
<1>1. image \in Seq(Lines \cup {Terminator})
  BY DEF LoadInv, ImageTypes
<1>2. Covers(Append(image, l), Len(image), a, code) = c
  BY <1>1, CoversAppend
<1>3. c # {} => Max(c) \in 1..Len(image)
  BY DEF LoadInv, LastOnes, Covers
<1>4. \A k \in 1..Len(image) : Append(image, l)[k] = image[k]
  BY <1>1
<1> QED
  BY <1>2, <1>3, <1>4 DEF SaysOf

LEMMA LastOnesAppend ==
  ASSUME LoadInv, NEW l \in Lines \cup {Terminator}, image' = Append(image, l)
  PROVE  LastOnes'
<1>1. image \in Seq(Lines \cup {Terminator}) /\ Len(image') = Len(image) + 1
  BY DEF LoadInv, ImageTypes
<1>2. ASSUME NEW a \in Nat, NEW code \in BOOLEAN,
             Covers(image', Len(image'), a, code) # {}
      PROVE  Max(Covers(image', Len(image'), a, code))
               \in Covers(image', Len(image'), a, code)
  <2> DEFINE c == Covers(image, Len(image), a, code)
  <2>1. Covers(image', Len(image), a, code) = c
    BY <1>1, CoversAppend
  <2>2. Len(image) \in Nat
    BY <1>1
  <2> HIDE DEF c
  <2>3. \/ Covers(image', Len(image'), a, code) = c
        \/ Covers(image', Len(image'), a, code) = c \cup {Len(image) + 1}
    BY <1>1, <2>1, <2>2, CoversGrow
  <2>4. CASE Covers(image', Len(image'), a, code) = c
    BY <1>2, <2>4 DEF LoadInv, LastOnes, c
  <2>5. CASE Covers(image', Len(image'), a, code) = c \cup {Len(image) + 1}
    BY <2>2, <2>5, LastCovers DEF c
  <2> QED
    BY <2>3, <2>4, <2>5
<1> QED
  BY <1>2 DEF LastOnes

\* What the memories must hold does not change with a line that is not copied.
LEMMA SaysKept ==
  ASSUME LoadInv, NEW r \in Lines \cup {Terminator}, image' = Append(image, r),
         NEW a \in Nat, NEW code \in BOOLEAN
  PROVE  /\ SaysOf(image', Len(image), a, code) = SaysOf(image, Len(image), a, code)
         /\ ~ (r.starts /\ r.type = 3 /\ (r.address >= SCARTS_CODEMEM_LMA) = code)
              => SaysOf(image', Len(image) + 1, a, code)
                   = SaysOf(image, Len(image), a, code)
<1>1. image \in Seq(Lines \cup {Terminator})
  BY DEF LoadInv, ImageTypes
<1>2. Len(image) \in Nat /\ image'[Len(image) + 1] = r
  BY <1>1
<1>3. SaysOf(image', Len(image), a, code) = SaysOf(image, Len(image), a, code)
  BY SaysAppend
<1>4. ASSUME ~ (r.starts /\ r.type = 3 /\ (r.address >= SCARTS_CODEMEM_LMA) = code)
      PROVE  SaysOf(image', Len(image) + 1, a, code) = SaysOf(image', Len(image), a, code)
  <2> DEFINE im == image'
             n == Len(image)
  <2>1. n \in Nat /\ im[n + 1] = r
    BY <1>2
  <2> HIDE DEF im, n
  <2>2. SaysOf(im, n + 1, a, code) =
           IF /\ im[n + 1].starts /\ im[n + 1].type = 3
              /\ (im[n + 1].address >= SCARTS_CODEMEM_LMA) = code
              /\ a \in im[n + 1].address..im[n + 1].address + im[n + 1].bytes - 1
           THEN <<n + 1, a - im[n + 1].address>> ELSE SaysOf(im, n, a, code)
    BY <2>1, SaysLast
  <2>3. SaysOf(im, n + 1, a, code) = SaysOf(im, n, a, code)
    BY <1>4, <2>1, <2>2
  <2> QED
    BY <2>3 DEF im, n
<1> QED
  BY <1>3, <1>4

LEMMA DataKept ==
  ASSUME LoadInv, NEW r \in Lines \cup {Terminator}, image' = Append(image, r),
         NEW a \in DataBytes
  PROVE  /\ DataOf(image', Len(image), a) = DataOf(image, Len(image), a)
         /\ ~ (r.starts /\ r.type = 3 /\ r.address < SCARTS_CODEMEM_LMA)
              => DataOf(image', Len(image) + 1, a) = DataOf(image, Len(image), a)
<1>1. a \in Nat /\ FALSE \in BOOLEAN
  BY LoaderAssumption DEF DataBytes
<1>2. r.starts /\ r.type = 3 => r.address \in Nat
  BY LineFacts, LastLine
<1>3. r.starts /\ r.type = 3 /\ (r.address >= SCARTS_CODEMEM_LMA) = FALSE
        => r.address < SCARTS_CODEMEM_LMA
  BY <1>2, LoaderAssumption
<1> QED
  BY <1>1, <1>3, SaysKept DEF DataOf

LEMMA CodeKept ==
  ASSUME LoadInv, NEW r \in Lines \cup {Terminator}, image' = Append(image, r),
         NEW w \in CodeWords
  PROVE  /\ CodeOf(image', Len(image), w) = CodeOf(image, Len(image), w)
         /\ ~ (r.starts /\ r.type = 3 /\ r.address >= SCARTS_CODEMEM_LMA)
              => CodeOf(image', Len(image) + 1, w) = CodeOf(image, Len(image), w)
<1>1. /\ SCARTS_CODEMEM_LMA + 2 * w \in Nat /\ SCARTS_CODEMEM_LMA + 2 * w + 1 \in Nat
      /\ TRUE \in BOOLEAN
  BY LoaderAssumption DEF CodeWords
<1>2. r.starts /\ r.type = 3 /\ (r.address >= SCARTS_CODEMEM_LMA) = TRUE
        => r.address >= SCARTS_CODEMEM_LMA
  OBVIOUS
<1> QED
  BY <1>1, <1>2, SaysKept DEF CodeOf

LEMMA LoadInit == LoaderInit => LoadInv
<1> SUFFICES ASSUME LoaderInit PROVE LoadInv
  OBVIOUS
<1>1. image = << >> /\ Len(image) = 0 /\ phase = "read" /\ image \in Seq(Lines \cup {Terminator})
  BY DEF LoaderInit
<1>2. \A a, code : Covers(image, Len(image), a, code) = {}
  BY <1>1 DEF Covers
<1>3. \A a, code : SaysOf(image, Len(image), a, code) = << >>
  BY <1>2 DEF SaysOf
<1>4. /\ \A a \in DataBytes : datamem[a] = << >>
      /\ \A w \in CodeWords : codemem[w] = <<<< >>, << >>>>
  BY DEF LoaderInit
<1> QED
  BY <1>1, <1>2, <1>3, <1>4
  DEF LoadInv, ImageTypes, LastOnes, DataLoaded, CodeLoaded, DataOf, CodeOf

LEMMA ReadLineStep == ASSUME LoadInv, ReadLine PROVE LoadInv'
<1> USE DEF LoadInv
<1>1. PICK r \in Lines \cup {Terminator} :
        /\ image' = Append(image, r)
        /\ CASE r.starts /\ r.type = 3 ->
                  /\ phase' = IF r.address >= SCARTS_CODEMEM_LMA THEN "code" ELSE "data"
                  /\ address' = IF r.address >= SCARTS_CODEMEM_LMA
                                THEN (r.address - SCARTS_CODEMEM_LMA) \div 2 ELSE r.address
                  /\ payload_offset' = PayloadStart
                  /\ payload_num_bytes' = PayloadBytes(r.size)
                  /\ i' = 0
             [] r.starts /\ r.type = 7 ->
                  /\ phase' = "jumped"
                  /\ UNCHANGED <<address, payload_offset, payload_num_bytes, i>>
             [] OTHER -> UNCHANGED <<phase, address, payload_offset, payload_num_bytes, i>>
  BY DEF ReadLine
<1>2. phase = "read" /\ datamem' = datamem /\ codemem' = codemem
  BY DEF ReadLine
<1>3. image \in Seq(Lines \cup {Terminator}) /\ Len(image) \in Nat
  BY DEF ImageTypes
<1>4. /\ image' \in Seq(Lines \cup {Terminator})
      /\ Len(image') = Len(image) + 1 /\ Len(image') - 1 = Len(image)
      /\ image'[Len(image')] = r
  BY <1>1, <1>3
<1>5. LastOnes'
  BY <1>1, LastOnesAppend
<1>6. /\ \A a \in DataBytes : datamem'[a] = DataOf(image, Len(image), a)
      /\ \A w \in CodeWords : codemem'[w] = CodeOf(image, Len(image), w)
  BY <1>2 DEF DataLoaded, CodeLoaded
<1>7. CASE r.starts /\ r.type = 3
  <2>1. r \in Lines
    BY <1>7, LastLine
  <2>2. /\ r.address \in Nat /\ r.bytes \in 0..33
        /\ PayloadBytes(r.size) = r.bytes
    <3>1. r.address \in Nat /\ r.bytes \in 0..33 /\ r.size = 14 + 2 * r.bytes
      BY <2>1, LineFacts
    <3>2. (14 + 2 * r.bytes - 14) \div 2 = r.bytes /\ 14 + 2 * r.bytes >= 14
      BY <3>1
    <3> QED
      BY <3>1, <3>2
      DEF PayloadBytes, PayloadStart, SREC_FIELD_ADDRESS_OFFSET, SREC_FIELD_CHECKSUM_LEN,
          AddressLength
  <2>3. Copying'
    BY <1>1, <1>3, <1>4, <1>7, <2>1, <2>2 DEF Copying, Current
  <2>4. CASE r.address >= SCARTS_CODEMEM_LMA
    <3>1. /\ phase' = "code" /\ i' = 0 /\ payload_offset' = PayloadStart
          /\ address' = (r.address - SCARTS_CODEMEM_LMA) \div 2
          /\ address' \in Int
      BY <1>1, <1>7, <2>2, <2>4, LoaderAssumption
    <3>2. \A a \in DataBytes : datamem'[a] = DataOf(image', Len(image'), a)
      <4>1. ~ (r.address < SCARTS_CODEMEM_LMA)
        BY <2>2, <2>4, LoaderAssumption
      <4> QED
        BY <1>1, <1>4, <1>6, <4>1, DataKept
    <3>3. \A w \in CodeWords : /\ codemem'[w] = CodeOf(image', Len(image') - 1, w)
                               /\ w \notin address'..address' + i' - 1
      <4>1. \A w \in CodeWords : w \notin address'..address' + i' - 1
        BY <3>1 DEF CodeWords
      <4>2. \A w \in CodeWords : CodeOf(image', Len(image), w) = CodeOf(image, Len(image), w)
        BY <1>1, CodeKept
      <4> QED
        BY <1>4, <1>6, <4>1, <4>2
    <3>4. PayloadStart = PayloadStart + 4 * i' /\ i' <= r.bytes \div 2
      BY <2>2, <3>1 DEF PayloadStart, SREC_FIELD_ADDRESS_OFFSET, AddressLength
    <3>5. CodeLoaded'
      BY <1>4, <2>3, <2>4, <3>1, <3>3, <3>4 DEF CodeLoaded, Current
    <3> QED
      BY <1>4, <1>5, <3>1, <3>2, <3>5 DEF ImageTypes, DataLoaded
  <2>5. CASE ~ (r.address >= SCARTS_CODEMEM_LMA)
    <3>1. /\ phase' = "data" /\ i' = 0 /\ payload_offset' = PayloadStart
          /\ address' = r.address /\ r.address < SCARTS_CODEMEM_LMA
      BY <1>1, <1>7, <2>2, <2>5, LoaderAssumption
    <3>2. \A w \in CodeWords : codemem'[w] = CodeOf(image', Len(image'), w)
      BY <1>1, <1>4, <1>6, <2>5, CodeKept
    <3>3. \A a \in DataBytes : /\ datamem'[a] = DataOf(image', Len(image') - 1, a)
                               /\ a \notin address'..address' + i' - 1
      BY <1>1, <1>4, <1>6, <2>2, <3>1, DataKept DEF DataBytes
    <3>4. PayloadStart = PayloadStart + 2 * i' /\ i' <= r.bytes
      BY <2>2, <3>1 DEF PayloadStart, SREC_FIELD_ADDRESS_OFFSET, AddressLength
    <3>5. DataLoaded'
      BY <1>4, <2>3, <3>1, <3>3, <3>4 DEF DataLoaded, Current
    <3> QED
      BY <1>4, <1>5, <3>1, <3>2, <3>5 DEF ImageTypes, CodeLoaded
  <2> QED
    BY <2>4, <2>5
<1>8. CASE ~ (r.starts /\ r.type = 3)
  <2>1. phase' \in {"read", "jumped"}
    BY <1>1, <1>2, <1>8
  <2>2. /\ \A a \in DataBytes : datamem'[a] = DataOf(image', Len(image'), a)
        /\ \A w \in CodeWords : codemem'[w] = CodeOf(image', Len(image'), w)
    BY <1>1, <1>4, <1>6, <1>8, DataKept, CodeKept
  <2> QED
    BY <1>4, <1>5, <2>1, <2>2 DEF ImageTypes, DataLoaded, CodeLoaded
<1> QED
  BY <1>7, <1>8

\* A byte of the payload: the address it is for is the next one.
LEMMA DataStep == ASSUME LoadInv, program_datamem PROVE LoadInv'
<1> DEFINE n == Len(image)
           l == Current
<1>1. /\ phase = "data" /\ i < payload_num_bytes
      /\ datamem' = [a \in DataBytes |-> IF a = address + i
                                         THEN Byte(payload_offset) ELSE datamem[a]]
      /\ payload_offset' = (payload_offset + 2) % 256 /\ i' = Int8(i + 1)
      /\ UNCHANGED <<image, phase, address, payload_num_bytes, codemem>>
  BY DEF program_datamem, Advance
<1>2. /\ Copying /\ l.address < SCARTS_CODEMEM_LMA /\ address = l.address
      /\ payload_offset = PayloadStart + 2 * i
      /\ \A a \in DataBytes : datamem[a] = IF a \in address..address + i - 1
                                           THEN <<n, a - address>>
                                           ELSE DataOf(image, n - 1, a)
  BY <1>1 DEF LoadInv, DataLoaded
<1>3. /\ i \in Nat /\ l.bytes \in 0..33 /\ i < l.bytes /\ address \in Nat
      /\ l.size = 14 + 2 * l.bytes /\ payload_offset = 12 + 2 * i
  BY <1>1, <1>2, LineFacts
  DEF Copying, PayloadStart, SREC_FIELD_ADDRESS_OFFSET, AddressLength
<1> HIDE DEF l
<1>4. i' = i + 1 /\ payload_offset' = PayloadStart + 2 * i'
  BY <1>1, <1>3 DEF Int8, PayloadStart, SREC_FIELD_ADDRESS_OFFSET, AddressLength
<1>5. Byte(payload_offset) = <<n, i>>
  <2>1. (payload_offset - 12) \div 2 = i
    BY <1>3
  <2>2. payload_offset >= 12 /\ payload_offset + 1 < l.size
    BY <1>3
  <2> QED
    BY <1>3, <2>1, <2>2
    DEF Byte, PayloadStart, SREC_FIELD_ADDRESS_OFFSET, AddressLength, l
<1>6. ASSUME NEW a \in DataBytes
      PROVE  datamem'[a] = IF a \in address..address + i' - 1
                           THEN <<n, a - address>> ELSE DataOf(image, n - 1, a)
  <2>1. a \in Nat
    BY LoaderAssumption DEF DataBytes
  <2>2. CASE a = address + i
    <3>1. a \in address..address + i' - 1 /\ a - address = i
      BY <1>3, <1>4, <2>1, <2>2
    <3> QED
      BY <1>1, <1>5, <2>2, <3>1
  <2>3. CASE a # address + i
    <3>1. a \in address..address + i' - 1 <=> a \in address..address + i - 1
      BY <1>3, <1>4, <2>1, <2>3
    <3> QED
      BY <1>1, <1>2, <2>3, <3>1
  <2> QED
    BY <2>2, <2>3
<1>7. DataLoaded'
  <2>1. /\ Current' = Current /\ Len(image') = n
    BY <1>1 DEF Current
  <2>2. i' <= Current.bytes /\ i' \in Nat
    BY <1>3, <1>4 DEF l
  <2>3. Copying'
    BY <1>1, <1>2, <2>1, <2>2 DEF Copying
  <2> QED
    BY <1>1, <1>2, <1>4, <1>6, <2>1, <2>2, <2>3 DEF DataLoaded, l
<1>8. CodeLoaded'
  BY <1>1 DEF LoadInv, CodeLoaded
<1> QED
  BY <1>1, <1>7, <1>8 DEF LoadInv, ImageTypes, LastOnes

\* A word of code: two bytes of the payload, low byte first.
LEMMA CodeStep == ASSUME LoadInv, program_codemem PROVE LoadInv'
<1> DEFINE n == Len(image)
           l == Current
<1>1. /\ phase = "code" /\ i < payload_num_bytes \div 2
      /\ codemem' = [w \in CodeWords |->
                       IF w = address + i
                       THEN <<Byte(payload_offset), Byte(payload_offset + 2)>>
                       ELSE codemem[w]]
      /\ payload_offset' = (payload_offset + 4) % 256 /\ i' = Int8(i + 1)
      /\ UNCHANGED <<image, phase, address, payload_num_bytes, datamem>>
  BY DEF program_codemem, Advance
<1>2. /\ Copying /\ l.address >= SCARTS_CODEMEM_LMA
      /\ address = (l.address - SCARTS_CODEMEM_LMA) \div 2
      /\ payload_offset = PayloadStart + 4 * i
      /\ \A w \in CodeWords : codemem[w] = IF w \in address..address + i - 1
                                           THEN <<<<n, 2 * (w - address)>>,
                                                  <<n, 2 * (w - address) + 1>>>>
                                           ELSE CodeOf(image, n - 1, w)
  BY <1>1 DEF LoadInv, CodeLoaded
<1>3. /\ i \in Nat /\ l.bytes \in 0..33 /\ i < l.bytes \div 2 /\ l.address \in Nat
      /\ l.size = 14 + 2 * l.bytes /\ payload_offset = 12 + 4 * i
  BY <1>1, <1>2, LineFacts
  DEF Copying, PayloadStart, SREC_FIELD_ADDRESS_OFFSET, AddressLength
<1> HIDE DEF l
<1>4. address \in Nat
  BY <1>2, <1>3, LoaderAssumption
<1>5. 2 * i + 1 < l.bytes
  BY <1>3
<1>6. i' = i + 1 /\ payload_offset' = PayloadStart + 4 * i' /\ i' <= l.bytes \div 2
  BY <1>1, <1>3 DEF Int8, PayloadStart, SREC_FIELD_ADDRESS_OFFSET, AddressLength
<1>7. Byte(payload_offset) = <<n, 2 * i>> /\ Byte(payload_offset + 2) = <<n, 2 * i + 1>>
  <2>1. /\ (payload_offset - 12) \div 2 = 2 * i
        /\ (payload_offset + 2 - 12) \div 2 = 2 * i + 1
    BY <1>3
  <2>2. /\ payload_offset >= 12 /\ payload_offset + 2 >= 12
        /\ payload_offset + 1 < l.size /\ payload_offset + 2 + 1 < l.size
        /\ 2 * i < l.bytes
    BY <1>3, <1>5
  <2>3. Byte(payload_offset) = <<n, 2 * i>>
    BY <2>1, <2>2 DEF Byte, PayloadStart, SREC_FIELD_ADDRESS_OFFSET, AddressLength, l
  <2> DEFINE p == payload_offset + 2
  <2>4. (p - 12) \div 2 = 2 * i + 1 /\ p >= 12 /\ p + 1 < l.size
    BY <1>3, <2>1, <2>2
  <2> HIDE DEF p
  <2>5. Byte(p) = <<n, 2 * i + 1>>
    BY <1>5, <2>4 DEF Byte, PayloadStart, SREC_FIELD_ADDRESS_OFFSET, AddressLength, l
  <2> QED
    BY <2>3, <2>5 DEF p
<1>8. ASSUME NEW w \in CodeWords
      PROVE  codemem'[w] = IF w \in address..address + i' - 1
                           THEN <<<<n, 2 * (w - address)>>, <<n, 2 * (w - address) + 1>>>>
                           ELSE CodeOf(image, n - 1, w)
  <2>1. w \in Nat
    BY DEF CodeWords
  <2>2. CASE w = address + i
    <3>1. w \in address..address + i' - 1 /\ w - address = i
      BY <1>3, <1>4, <1>6, <2>1, <2>2
    <3> QED
      BY <1>1, <1>7, <2>2, <3>1
  <2>3. CASE w # address + i
    <3>1. w \in address..address + i' - 1 <=> w \in address..address + i - 1
      BY <1>3, <1>4, <1>6, <2>1, <2>3
    <3> QED
      BY <1>1, <1>2, <2>3, <3>1
  <2> QED
    BY <2>2, <2>3
<1>9. CodeLoaded'
  <2>1. Current' = Current /\ Len(image') = n /\ i' \in Nat
    BY <1>1, <1>3, <1>6 DEF Current
  <2>2. Copying'
    BY <1>1, <1>2, <2>1 DEF Copying
  <2> QED
    BY <1>1, <1>2, <1>6, <1>8, <2>1, <2>2 DEF CodeLoaded, l
<1>10. DataLoaded'
  BY <1>1 DEF LoadInv, DataLoaded
<1> QED
  BY <1>1, <1>9, <1>10 DEF LoadInv, ImageTypes, LastOnes

\* A record that is copied completely is what the image says last.
LEMMA RecordEnd == ASSUME LoadInv, EndOfRecord PROVE LoadInv'
<1> DEFINE n == Len(image)
           l == Current
<1>1. /\ phase' = "read"
      /\ UNCHANGED <<image, i, payload_offset, payload_num_bytes, address,
                     codemem, datamem>>
  BY DEF EndOfRecord
<1>2. image \in Seq(Lines \cup {Terminator}) /\ n \in Nat
  BY DEF LoadInv, ImageTypes
<1>3. ASSUME Copying
      PROVE  /\ n - 1 \in Nat /\ n - 1 + 1 = n /\ l = image[n] /\ l.starts /\ l.type = 3
             /\ l.address \in Nat /\ l.bytes \in 0..33
             /\ l.address >= SCARTS_CODEMEM_LMA => l.address % 2 = 0 /\ l.bytes % 2 = 0
  BY <1>2, <1>3, LineFacts DEF Copying, Current
<1> HIDE DEF l
<1>4. CASE phase = "data" /\ i >= payload_num_bytes
  <2>1. /\ Copying /\ l.address < SCARTS_CODEMEM_LMA /\ address = l.address
        /\ i <= l.bytes
    BY <1>4 DEF LoadInv, DataLoaded, l
  <2>a. \A a \in DataBytes : datamem[a] = IF a \in address..address + i - 1
                                          THEN <<n, a - address>>
                                          ELSE DataOf(image, n - 1, a)
    BY <1>4 DEF LoadInv, DataLoaded, l
  <2>2. i = l.bytes
    <3>1. payload_num_bytes = l.bytes /\ i \in Nat
      BY <2>1 DEF Copying, l
    <3>2. l.bytes \in 0..33
      BY <1>3, <2>1
    <3> QED
      BY <1>4, <2>1, <3>1, <3>2
  <2>3. ASSUME NEW a \in DataBytes PROVE datamem[a] = DataOf(image, n, a)
    <3>1. (l.address >= SCARTS_CODEMEM_LMA) = FALSE /\ FALSE \in BOOLEAN
      BY <1>3, <2>1, LoaderAssumption
    <3>2. n \in Nat \ {0} /\ image[n] = l
      BY <1>2, <1>3, <2>1
    <3>3. SaysOf(image, n, a, FALSE) = IF a \in l.address..l.address + l.bytes - 1
                                       THEN <<n, a - l.address>>
                                       ELSE SaysOf(image, n - 1, a, FALSE)
      <4>1. l.starts /\ l.type = 3
        BY <1>3, <2>1
      <4> HIDE DEF n
      <4> QED
        BY <3>1, <3>2, <4>1, SaysRecord
    <3>4. DataOf(image, n, a) = IF a \in l.address..l.address + l.bytes - 1
                                THEN <<n, a - l.address>> ELSE DataOf(image, n - 1, a)
      BY <3>3 DEF DataOf
    <3> QED
      BY <2>1, <2>2, <2>a, <3>4
  <2>4. DataLoaded'
    BY <1>1, <2>3 DEF DataLoaded
  <2>5. CodeLoaded'
    BY <1>1, <1>4 DEF LoadInv, CodeLoaded
  <2> QED
    BY <1>1, <2>4, <2>5 DEF LoadInv, ImageTypes, LastOnes
<1>5. CASE phase = "code" /\ i >= payload_num_bytes \div 2
  <2>1. /\ Copying /\ l.address >= SCARTS_CODEMEM_LMA
        /\ address = (l.address - SCARTS_CODEMEM_LMA) \div 2
        /\ i <= l.bytes \div 2
    BY <1>5 DEF LoadInv, CodeLoaded, l
  <2>a. \A w \in CodeWords : codemem[w] = IF w \in address..address + i - 1
                                          THEN <<<<n, 2 * (w - address)>>,
                                                 <<n, 2 * (w - address) + 1>>>>
                                          ELSE CodeOf(image, n - 1, w)
    BY <1>5 DEF LoadInv, CodeLoaded, l
  <2>2. /\ address \in Nat /\ i \in Nat /\ l.bytes = 2 * i
        /\ l.address = SCARTS_CODEMEM_LMA + 2 * address
    <3>1. payload_num_bytes = l.bytes /\ i \in Nat
      BY <2>1 DEF Copying, l
    <3>2. l.address \in Nat /\ l.bytes \in 0..33 /\ l.address % 2 = 0 /\ l.bytes % 2 = 0
      BY <1>3, <2>1
    <3>3. i = l.bytes \div 2
      BY <1>5, <2>1, <3>1, <3>2
    <3> DEFINE p == l.address \div 2
               q == SCARTS_CODEMEM_LMA \div 2
    <3>4. p \in Nat /\ q \in Nat /\ l.address = 2 * p /\ SCARTS_CODEMEM_LMA = 2 * q
      BY <3>2, LoaderAssumption
    <3> HIDE DEF p, q
    <3>5. p >= q /\ (2 * p - 2 * q) \div 2 = p - q
      BY <2>1, <3>4
    <3>6. l.bytes = 2 * i
      BY <3>2, <3>3
    <3> QED
      BY <2>1, <3>1, <3>4, <3>5, <3>6
  <2>3. ASSUME NEW w \in CodeWords PROVE codemem[w] = CodeOf(image, n, w)
    <3> DEFINE low == SCARTS_CODEMEM_LMA + 2 * w
               high == SCARTS_CODEMEM_LMA + 2 * w + 1
    <3>1. /\ low \in l.address..l.address + l.bytes - 1
                <=> w \in address..address + i - 1
          /\ high \in l.address..l.address + l.bytes - 1
                <=> w \in address..address + i - 1
          /\ low - l.address = 2 * (w - address)
          /\ high - l.address = 2 * (w - address) + 1
      BY <2>2, LoaderAssumption DEF CodeWords
    <3>2. (l.address >= SCARTS_CODEMEM_LMA) = TRUE /\ TRUE \in BOOLEAN
      BY <2>1
    <3> HIDE DEF low, high
    <3>3. ASSUME NEW a
          PROVE  SaysOf(image, n, a, TRUE) =
                   IF a \in l.address..l.address + l.bytes - 1
                   THEN <<n, a - l.address>> ELSE SaysOf(image, n - 1, a, TRUE)
      <4>1. n \in Nat \ {0} /\ image[n] = l /\ l.starts /\ l.type = 3
        BY <1>2, <1>3, <2>1
      <4> HIDE DEF n
      <4> QED
        BY <3>2, <4>1, SaysRecord
    <3>4. CodeOf(image, n, w) = IF w \in address..address + i - 1
                                THEN <<<<n, 2 * (w - address)>>,
                                       <<n, 2 * (w - address) + 1>>>>
                                ELSE CodeOf(image, n - 1, w)
      <4>1. \A k : CodeOf(image, k, w) = <<SaysOf(image, k, low, TRUE),
                                            SaysOf(image, k, high, TRUE)>>
        BY DEF CodeOf, low, high
      <4>2. CASE w \in address..address + i - 1
        <5>1. /\ SaysOf(image, n, low, TRUE) = <<n, 2 * (w - address)>>
              /\ SaysOf(image, n, high, TRUE) = <<n, 2 * (w - address) + 1>>
          BY <3>1, <3>3, <4>2
        <5> QED
          BY <4>1, <4>2, <5>1
      <4>3. CASE w \notin address..address + i - 1
        <5>1. /\ SaysOf(image, n, low, TRUE) = SaysOf(image, n - 1, low, TRUE)
              /\ SaysOf(image, n, high, TRUE) = SaysOf(image, n - 1, high, TRUE)
          BY <3>1, <3>3, <4>3
        <5> QED
          BY <4>1, <4>3, <5>1
      <4> QED
        BY <4>2, <4>3
    <3> QED
      BY <2>a, <3>4
  <2>4. CodeLoaded'
    BY <1>1, <2>3 DEF CodeLoaded
  <2>5. DataLoaded'
    BY <1>1, <1>5 DEF LoadInv, DataLoaded
  <2> QED
    BY <1>1, <2>4, <2>5 DEF LoadInv, ImageTypes, LastOnes
<1> QED
  BY <1>4, <1>5 DEF EndOfRecord

LEMMA LoadStep == LoadInv /\ [LoaderNext]_loaderVars => LoadInv'
<1>1. ASSUME LoadInv, UNCHANGED loaderVars PROVE LoadInv'
  BY <1>1 DEF loaderVars, LoadInv, ImageTypes, LastOnes, DataLoaded, CodeLoaded, Copying,
              Current
<1> QED
  BY <1>1, ReadLineStep, DataStep, CodeStep, RecordEnd DEF LoaderNext

\* The loops of the boot loader, for an image of any number of lines.
THEOREM LoadInvariant == LoaderSpec => []LoadInv
  BY LoadInit, LoadStep, PTL DEF LoaderSpec

\* LoadedRight: at the jump both memories hold what the last records that cover
\* their addresses say, and nothing else has been written.
THEOREM ImageLoadedRight == LoaderSpec => []LoadedRight
<1>1. LoadInv => LoadedRight
  <2> SUFFICES ASSUME LoadInv, phase = "jumped" PROVE LoadedRight
    BY DEF LoadedRight
  <2>1. \A a, code : Says(a, code) = SaysOf(image, Len(image), a, code)
    BY DEF Says, SaysOf, Covers
  <2> QED
    BY <2>1 DEF LoadedRight, LoadInv, DataLoaded, CodeLoaded, DataOf, CodeOf
<1> QED
  BY <1>1, LoadInvariant, PTL
=============================================================================
