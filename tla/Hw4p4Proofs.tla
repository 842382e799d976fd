------------------------------ MODULE Hw4p4Proofs ------------------------------
(***************************************************************************)
(* Proofs about the kernel modules of hw4.  Of Hw4p4: its types, that its  *)
(* timer is that of hw2/p5, which races an oops needs, and that records    *)
(* stay whole.  Of ProcTree, in the second half: its types, what it prints *)
(* and in which list it stands.                                            *)
(***************************************************************************)
EXTENDS Hw4p4, ProcTree, FiniteSetTheorems, TLAPS

\* The type invariant in parts: the two sequences of bytes, labels and
\* numbers, flags, and races.
Cell == Byte \cup {Junk}

FifoOK == fifo \in Seq(Cell) /\ Len(fifo) <= FifoSize
RtdOK  == rtd \in Seq(Cell)

LabelsOK == /\ pc \in {"alloc", "timer", "spawn", "loaded", "free", "stop", "join",
                       "unloaded", "failed"}
            /\ callback \in {"idle", "store", "wake", "rearm"}
            /\ logger_task \in {"null", "error", "task", "freed"}
            /\ logger \in {"none", "check", "set", "schedule", "drain", "exited"}
            /\ reads \in Nat
            /\ ticks \in 0 .. MaxTicks

FlagsOK == /\ timer \in BOOLEAN
           /\ allocated \in BOOLEAN
           /\ cut \in BOOLEAN
           /\ runnable \in BOOLEAN
           /\ should_stop \in BOOLEAN
           /\ oops \in BOOLEAN

RacesOK == races \subseteq Race

LEMMA TypeSplit == TypeOK <=> FifoOK /\ RtdOK /\ LabelsOK /\ FlagsOK /\ RacesOK
  BY DEF TypeOK, FifoOK, RtdOK, LabelsOK, FlagsOK, RacesOK, Cell

\* A record that is about to be stored has a number.
TickOK == callback = "store" => ticks > 0

LEMMA Records == ASSUME NEW r \in 1 .. MaxTicks
                 PROVE  Record(r) \in Seq(Cell) /\ Len(Record(r)) = RecordSize
<1>1. \A i \in 1 .. RecordSize : [record |-> r, at |-> i] \in Cell
  BY DEF Byte, Cell
<1> QED
  BY <1>1, Hw4p4Assumption DEF Record

LEMMA SubSeqType ==
    ASSUME NEW S, NEW s \in Seq(S), NEW m \in Nat \ {0}, NEW n \in Nat, n <= Len(s)
    PROVE  SubSeq(s, m, n) \in Seq(S)
  OBVIOUS

LEMMA FirstLen ==
    ASSUME NEW S, NEW s \in Seq(S), NEW n \in Nat, n <= Len(s)
    PROVE  SubSeq(s, 1, n) \in Seq(S) /\ Len(SubSeq(s, 1, n)) = n
  OBVIOUS

LEMMA RestLen ==
    ASSUME NEW S, NEW s \in Seq(S), NEW n \in Nat, n <= Len(s)
    PROVE  /\ SubSeq(s, n + 1, Len(s)) \in Seq(S)
           /\ Len(SubSeq(s, n + 1, Len(s))) = Len(s) - n
  OBVIOUS

LEMMA ConcatLen ==
    ASSUME NEW S, NEW s \in Seq(S), NEW t \in Seq(S)
    PROVE  s \o t \in Seq(S) /\ Len(s \o t) = Len(s) + Len(t)
  OBVIOUS

LEMMA StoreBytes ==
    ASSUME FifoOK, RtdOK, LabelsOK, TickOK, Store PROVE FifoOK'
<1>1. CASE Gone
  BY <1>1 DEF Store, Crash, Oops, fifoVars, FifoOK
<1>2. CASE ~ Gone /\ allocated
  <2> DEFINE room == FifoSize - Len(fifo)
             n    == IF room < RecordSize THEN room ELSE RecordSize
             piece == SubSeq(Record(ticks), 1, n)
  <2>1. ticks \in 1 .. MaxTicks
    BY Hw4p4Assumption DEF LabelsOK, TickOK, Store
  <2>2. Record(ticks) \in Seq(Cell) /\ Len(Record(ticks)) = RecordSize
    BY <2>1, Records
  <2>3. n \in Nat /\ n <= RecordSize /\ n <= FifoSize - Len(fifo)
    BY Hw4p4Assumption DEF FifoOK
  <2>4. piece \in Seq(Cell) /\ Len(piece) = n
    BY <2>2, <2>3, FirstLen
  <2>5. fifo' = fifo \o piece
    BY <1>2 DEF Store
  <2> HIDE DEF piece, n
  <2>6. fifo \in Seq(Cell) /\ Len(fifo) \in Nat
    BY DEF FifoOK
  <2>7. fifo' \in Seq(Cell) /\ Len(fifo') = Len(fifo) + n
    BY <2>4, <2>5, <2>6, ConcatLen
  <2> QED
    BY <2>3, <2>6, <2>7, Hw4p4Assumption DEF FifoOK
<1>3. CASE ~ Gone /\ ~ allocated
  <2>1. CASE fifo = << >>
    <3>1. fifo' = << Junk >> /\ Junk \in Cell
      BY <1>3, <2>1 DEF Store, Cell
    <3>2. << Junk >> \in Seq(Cell) /\ Len(<< Junk >>) = 1
      BY <3>1
    <3> QED
      BY <3>1, <3>2, Hw4p4Assumption DEF FifoOK
  <2>2. CASE fifo # << >>
    BY <1>3, <2>2 DEF Store, FifoOK
  <2> QED
    BY <2>1, <2>2
<1> QED
  BY <1>1, <1>2, <1>3

LEMMA DrainBytes ==
    ASSUME FifoOK, RtdOK, LabelsOK, Drain PROVE FifoOK' /\ RtdOK' /\ reads' \in Nat
<1>1. CASE fifo = << >>
  BY <1>1 DEF Drain, FifoOK, RtdOK, LabelsOK
<1>2. CASE fifo # << >>
  <2> DEFINE n    == IF Len(fifo) < RecordSize THEN Len(fifo) ELSE RecordSize
             head == SubSeq(fifo, 1, n)
             tail == SubSeq(rtd, n + 1, Len(rtd))
  <2>1. n \in Nat /\ n <= Len(fifo)
    BY Hw4p4Assumption DEF FifoOK
  <2>2. /\ rtd' = IF allocated THEN head \o tail ELSE rtd
        /\ fifo' = SubSeq(fifo, n + 1, Len(fifo))
        /\ reads' = reads + 1
    BY <1>2 DEF Drain
  <2> HIDE DEF n
  <2>3. head \in Seq(Cell)
    BY <2>1, FirstLen DEF FifoOK
  <2>4. tail \in Seq(Cell)
    BY <2>1, SubSeqType DEF RtdOK
  <2>5. fifo' \in Seq(Cell) /\ Len(fifo') = Len(fifo) - n
    BY <2>1, <2>2, RestLen DEF FifoOK
  <2> HIDE DEF head, tail
  <2>6. head \o tail \in Seq(Cell)
    BY <2>3, <2>4, ConcatLen
  <2>7. RtdOK'
    BY <2>2, <2>6 DEF RtdOK
  <2>8. FifoOK'
    BY <2>1, <2>5, Hw4p4Assumption DEF FifoOK
  <2> QED
    BY <2>2, <2>7, <2>8 DEF LabelsOK
<1> QED
  BY <1>1, <1>2

LEMMA LabelsNext ==
    ASSUME LabelsOK, TickOK, [Next]_vars, Drain => reads' \in Nat
    PROVE  LabelsOK' /\ TickOK'
<1> USE DEF LabelsOK, TickOK
<1>1. CASE Alloc
  BY <1>1 DEF Alloc, timerVars, loggerVars
<1>2. CASE StartTimer
  BY <1>2 DEF StartTimer, loggerVars
<1>3. CASE Spawn
  BY <1>3 DEF Spawn, timerVars
<1>4. CASE Expire
  <2>1. CASE Gone
    BY <1>4, <2>1 DEF Expire, Crash, Oops, moduleVars, timerVars, loggerVars
  <2>2. CASE ~ Gone
    <3>1. ticks' = ticks + 1 /\ ticks < MaxTicks /\ callback' = "store"
      BY <1>4, <2>2 DEF Expire
    <3>2. ticks' \in 0 .. MaxTicks /\ ticks' > 0
      BY <3>1, Hw4p4Assumption
    <3> QED
      BY <1>4, <2>2, <3>1, <3>2 DEF Expire, moduleVars, loggerVars
  <2> QED
    BY <2>1, <2>2
<1>5. CASE Store
  BY <1>5 DEF Store, Crash, Oops, moduleVars, timerVars, loggerVars
<1>6. CASE Wake
  BY <1>6 DEF Wake, Crash, Oops, moduleVars, timerVars, loggerVars
<1>7. CASE Rearm
  BY <1>7 DEF Rearm, Crash, Oops, moduleVars, timerVars, loggerVars
<1>8. CASE CheckStop \/ SetState \/ Schedule
  BY <1>8 DEF CheckStop, SetState, Schedule, moduleVars, timerVars
<1>9. CASE Drain
  BY <1>9 DEF Drain, moduleVars, timerVars
<1>10. CASE DelTimer
  BY <1>10 DEF DelTimer, loggerVars
<1>11. CASE FreeFifo
  BY <1>11 DEF FreeFifo, Oops, moduleVars, timerVars, loggerVars
<1>12. CASE Stop
  BY <1>12 DEF Stop, timerVars
<1>13. CASE Join
  BY <1>13 DEF Join, timerVars, loggerVars
<1>14. CASE UNCHANGED vars
  BY <1>14 DEF vars, moduleVars, timerVars, loggerVars
<1> QED
  BY <1>1, <1>2, <1>3, <1>4, <1>5, <1>6, <1>7, <1>8, <1>9, <1>10, <1>11, <1>12, <1>13, <1>14
     DEF Next, ModuleStep, UnloadStep, CallbackStep, LoggerStep

LEMMA FlagsNext == ASSUME FlagsOK, [Next]_vars PROVE FlagsOK'
<1> USE DEF FlagsOK
<1>1. CASE Alloc
  BY <1>1, Zenon DEF Alloc, timerVars, loggerVars, faultVars
<1>2. CASE StartTimer
  BY <1>2, Zenon DEF StartTimer, fifoVars, loggerVars, faultVars
<1>3. CASE Spawn
  BY <1>3, Zenon DEF Spawn, timerVars, fifoVars
<1>4. CASE Expire
  BY <1>4, Zenon DEF Expire, Crash, Oops, moduleVars, timerVars, fifoVars, loggerVars
<1>5. CASE Store
  BY <1>5, Zenon DEF Store, Crash, Oops, moduleVars, timerVars, fifoVars, loggerVars, faultVars
<1>6. CASE Wake
  BY <1>6, Zenon DEF Wake, Crash, Oops, moduleVars, timerVars, fifoVars, loggerVars, faultVars
<1>7. CASE Rearm
  BY <1>7, Zenon DEF Rearm, Crash, Oops, moduleVars, timerVars, fifoVars, loggerVars, faultVars
<1>8. CASE CheckStop \/ SetState \/ Schedule
  BY <1>8, Zenon DEF CheckStop, SetState, Schedule, moduleVars, timerVars, fifoVars, faultVars
<1>9. CASE Drain
  BY <1>9, Zenon DEF Drain, moduleVars, timerVars, faultVars
<1>10. CASE DelTimer
  BY <1>10, Zenon DEF DelTimer, fifoVars, loggerVars
<1>11. CASE FreeFifo
  BY <1>11, Zenon DEF FreeFifo, Oops, moduleVars, timerVars, fifoVars, loggerVars
<1>12. CASE Stop
  BY <1>12, Zenon DEF Stop, timerVars, fifoVars
<1>13. CASE Join
  BY <1>13, Zenon DEF Join, timerVars, fifoVars, loggerVars, faultVars
<1>14. CASE UNCHANGED vars
  BY <1>14, Zenon DEF vars, moduleVars, timerVars, fifoVars, loggerVars, faultVars
<1> QED
  BY <1>1, <1>2, <1>3, <1>4, <1>5, <1>6, <1>7, <1>8, <1>9, <1>10, <1>11, <1>12, <1>13, <1>14
     DEF Next, ModuleStep, UnloadStep, CallbackStep, LoggerStep

\* Races are added, one of them at a time.
LEMMA RacesGrow == ASSUME [Next]_vars PROVE \E r \in Race : races' \in {races, races \cup {r}}
<1>1. CASE Spawn
  BY <1>1 DEF Spawn, Note, Race
<1>2. CASE Expire
  BY <1>2 DEF Expire, Crash, Note, Race
<1>3. CASE DelTimer
  BY <1>3 DEF DelTimer, Note, Race
<1>4. CASE FreeFifo
  BY <1>4 DEF FreeFifo, Note, Race
<1>5. CASE Stop
  BY <1>5 DEF Stop, Note, Race
<1>6. CASE Alloc \/ StartTimer \/ CallbackStep \/ LoggerStep \/ Join \/ UNCHANGED vars
  BY <1>6 DEF Alloc, StartTimer, CallbackStep, Store, Wake, Rearm, Crash, LoggerStep, CheckStop,
              SetState, Schedule, Drain, Join, vars, faultVars, Race
<1> QED
  BY <1>1, <1>2, <1>3, <1>4, <1>5, <1>6 DEF Next, ModuleStep, UnloadStep

LEMMA BytesNext ==
    ASSUME FifoOK, RtdOK, LabelsOK, TickOK, [Next]_vars
    PROVE  FifoOK' /\ RtdOK' /\ (Drain => reads' \in Nat)
<1>1. CASE Store
  BY <1>1, StoreBytes DEF Store, Crash, Oops, loggerVars, RtdOK, Drain
<1>2. CASE Drain
  BY <1>2, DrainBytes
<1>3. CASE FreeFifo
  <2>1. fifo' = fifo \/ fifo' = << >>
    BY <1>3 DEF FreeFifo, Oops, fifoVars
  <2>2. << >> \in Seq(Cell) /\ Len(<< >>) <= FifoSize
    BY Hw4p4Assumption
  <2>3. rtd' = rtd /\ logger' = logger
    BY <1>3 DEF FreeFifo, Oops, loggerVars
  <2>4. FifoOK' /\ RtdOK'
    BY <2>1, <2>2, <2>3 DEF FifoOK, RtdOK
  <2>5. reads' = reads
    BY <1>3 DEF FreeFifo, Oops, loggerVars
  <2> QED
    BY <2>4, <2>5 DEF LabelsOK
<1>4. CASE fifo' = fifo /\ rtd' = rtd /\ ~ Drain
  BY <1>4 DEF FifoOK, RtdOK
<1>5. \/ Store \/ Drain \/ FreeFifo
      \/ fifo' = fifo /\ rtd' = rtd
  BY DEF Next, ModuleStep, UnloadStep, CallbackStep, LoggerStep, Alloc, StartTimer, Spawn,
         Expire, Wake, Rearm, Crash, Oops, CheckStop, SetState, Schedule, DelTimer, Stop, Join,
         vars, fifoVars, loggerVars
<1> QED
  BY <1>1, <1>2, <1>3, <1>4, <1>5, Zenon

LEMMA TypeNext == TypeOK /\ TickOK /\ [Next]_vars => TypeOK' /\ TickOK'
<1> SUFFICES ASSUME FifoOK, RtdOK, LabelsOK, FlagsOK, RacesOK, TickOK, [Next]_vars
             PROVE  FifoOK' /\ RtdOK' /\ LabelsOK' /\ FlagsOK' /\ RacesOK' /\ TickOK'
  BY TypeSplit DEF TypeOK, FifoOK, RtdOK, LabelsOK, FlagsOK, RacesOK, Cell
<1>1. FifoOK' /\ RtdOK' /\ (Drain => reads' \in Nat)
  BY BytesNext
<1>2. LabelsOK' /\ TickOK'
  BY <1>1, LabelsNext
<1>3. FlagsOK'
  BY FlagsNext
<1>4. RacesOK'
  BY RacesGrow DEF RacesOK
<1> QED
  BY <1>1, <1>2, <1>3, <1>4

\* The kfifo never holds more than fits, every byte in it is of a record that
\* was taken or of a freed kfifo, and the rest is of its type, whatever the
\* sizes, the faults and the races (hw4p4.c:31-140).
THEOREM TypeCorrect == Spec => []TypeOK
<1>1. Init => TypeOK /\ TickOK
  <2>1. Init => FifoOK /\ RtdOK
    BY Hw4p4Assumption DEF Init, FifoOK, RtdOK
  <2>2. Init => LabelsOK /\ TickOK /\ RacesOK
    BY Hw4p4Assumption DEF Init, LabelsOK, TickOK, RacesOK
  <2>3. Init => FlagsOK
    BY DEF Init, FlagsOK
  <2> QED
    BY <2>1, <2>2, <2>3, TypeSplit
<1> QED
  BY <1>1, TypeNext, PTL DEF Spec
------------------------------------------------------------------------------
\* The timer of hw4/p4 is started, expires and is deleted as that of hw2/p5,
\* whatever else goes on, unless the logger cannot be created
\* (hw4p4.c:41-70, 108-133; hw2/p5/apes.c:25-56).
THEOREM TimerRefinement == Spec => TimerOfApes
<1> DEFINE Simulated == A!Next \/ "orphan" \in races'
<1>1. Init => A!Init
  BY DEF Init, A!Init
<1>2. TypeOK /\ [Next]_vars => [Simulated]_(A!vars)
  <2> SUFFICES ASSUME LabelsOK, [Next]_vars PROVE Simulated \/ UNCHANGED A!vars
    BY TypeSplit DEF A!vars
  <2>1. CASE Alloc
    BY <2>1 DEF Alloc, A!vars, timerVars, faultVars
  <2>2. CASE StartTimer
    BY <2>2 DEF StartTimer, A!Next, A!apes_init, faultVars
  <2>3. CASE Spawn
    BY <2>3 DEF Spawn, Note, A!vars, timerVars
  <2>4. CASE Expire
    <3>1. CASE Gone
      BY <2>4, <3>1 DEF Expire, Crash, Oops, moduleVars, timerVars, A!vars
    <3>2. CASE ~ Gone
      <4>1. UNCHANGED pc /\ races \subseteq races' /\ pc # "failed" /\ pc # "unloaded"
        BY <2>4, <3>2 DEF Expire, Gone, Note, moduleVars
      <4>2. timer /\ ~ timer' /\ callback' = "store"
        BY <2>4, <3>2 DEF Expire
      <4>3. pc \in {"alloc", "timer", "spawn", "loaded", "free", "stop", "join"}
        BY <4>1 DEF LabelsOK
      <4> QED
        BY <4>1, <4>2, <4>3 DEF A!Next, A!Expire
    <3> QED
      BY <3>1, <3>2
  <2>5. CASE Store \/ Wake
    BY <2>5 DEF Store, Wake, Crash, Oops, moduleVars, timerVars, faultVars, A!vars
  <2>6. CASE Rearm
    <3>1. CASE Gone
      BY <2>6, <3>1 DEF Rearm, Crash, Oops, moduleVars, timerVars, A!vars
    <3>2. CASE ~ Gone
      <4>1. UNCHANGED << pc, races >> /\ callback # "idle" /\ timer' /\ callback' = "idle"
        BY <2>6, <3>2 DEF Rearm, moduleVars, faultVars
      <4>2. pc \in {"alloc", "timer", "spawn", "loaded", "free", "stop", "join"}
        BY <3>2 DEF LabelsOK, Gone
      <4> QED
        BY <4>1, <4>2 DEF A!Next, A!Rearm
    <3> QED
      BY <3>1, <3>2
  <2>7. CASE LoggerStep
    BY <2>7 DEF LoggerStep, CheckStop, SetState, Schedule, Drain, moduleVars, timerVars,
                faultVars, A!vars
  <2>8. CASE DelTimer
    BY <2>8 DEF DelTimer, A!Next, A!DelTimer
  <2>9. CASE FreeFifo \/ Stop
    BY <2>9 DEF FreeFifo, Stop, Oops, Note, moduleVars, timerVars, A!vars
  <2>10. CASE Join
    BY <2>10 DEF Join, timerVars, faultVars, A!Next, A!Exited
  <2>11. CASE UNCHANGED vars
    BY <2>11 DEF vars, moduleVars, timerVars, faultVars, A!vars
  <2> QED
    BY <2>1, <2>2, <2>3, <2>4, <2>5, <2>6, <2>7, <2>8, <2>9, <2>10, <2>11
       DEF Next, ModuleStep, UnloadStep, CallbackStep
<1> QED
  BY <1>1, <1>2, TypeCorrect, PTL DEF Spec, TimerOfApes
------------------------------------------------------------------------------
\* Is the timer pending or its callback running?
Ticking == timer \/ callback # "idle"

\* When the timer ticks although something that the callback uses does not
\* exist yet, or is gone, one of the races has happened.
RaceInv == /\ pc \in {"alloc", "timer"} => ~ Ticking
           /\ pc = "spawn" /\ callback # "idle" => "early" \in races
           /\ pc \in {"loaded", "free", "stop", "join"} => logger_task = "task"
           /\ pc \in {"free", "stop", "join", "unloaded"} /\ Ticking => "del" \in races
           /\ pc = "failed" /\ Ticking => "orphan" \in races

LEMMA RaceNext == TypeOK /\ RaceInv /\ NeverOops /\ [Next]_vars => RaceInv' /\ NeverOops'
<1> SUFFICES ASSUME TypeOK, RaceInv, NeverOops, [Next]_vars PROVE RaceInv' /\ NeverOops'
  OBVIOUS
<1> USE DEF RaceInv, NeverOops, Ticking
<1>1. CASE Alloc
  BY <1>1 DEF Alloc, timerVars, faultVars
<1>2. CASE StartTimer
  BY <1>2 DEF StartTimer, faultVars
<1>3. CASE Spawn
  BY <1>3 DEF Spawn, Note, timerVars
<1>4. CASE Expire
  BY <1>4 DEF Expire, Crash, Oops, Gone, Note, moduleVars, timerVars, loggerVars, TypeOK
<1>5. CASE Store
  BY <1>5 DEF Store, Crash, Oops, Gone, moduleVars, timerVars, faultVars, TypeOK
<1>6. CASE Wake
  BY <1>6 DEF Wake, Crash, Oops, Gone, moduleVars, timerVars, faultVars, TypeOK
<1>7. CASE Rearm
  BY <1>7 DEF Rearm, Crash, Oops, Gone, moduleVars, timerVars, faultVars, TypeOK
<1>8. CASE LoggerStep
  BY <1>8 DEF LoggerStep, CheckStop, SetState, Schedule, Drain, moduleVars, timerVars, faultVars
<1>9. CASE DelTimer
  BY <1>9 DEF DelTimer, Note
<1>10. CASE FreeFifo
  BY <1>10 DEF FreeFifo, Oops, Note, moduleVars, timerVars
<1>11. CASE Stop
  BY <1>11 DEF Stop, Note, timerVars
<1>12. CASE Join
  BY <1>12 DEF Join, timerVars, faultVars
<1>13. CASE UNCHANGED vars
  BY <1>13 DEF vars, moduleVars, timerVars, faultVars
<1> QED
  BY <1>1, <1>2, <1>3, <1>4, <1>5, <1>6, <1>7, <1>8, <1>9, <1>10, <1>11, <1>12, <1>13
     DEF Next, ModuleStep, UnloadStep, CallbackStep

\* Without one of the four races nothing of the module is ever used before it
\* exists or after it is gone (hw4p4.c:65-67, 111-119, 129-138).
THEOREM OopsNeedsRace == Spec => []NeverOops
<1>1. Init => RaceInv /\ NeverOops
  BY DEF Init, RaceInv, Ticking, NeverOops
<1> QED
  BY <1>1, TypeCorrect, RaceNext, PTL DEF Spec
------------------------------------------------------------------------------
\* The arithmetic of records side by side.
LEMMA Monotone == ASSUME NEW R \in Nat \ {0}, NEW m \in Nat, NEW n \in Nat, m <= n
                  PROVE  m * R \in Nat /\ n * R \in Nat /\ m * R <= n * R
<1>1. (n - m) * R >= 0
  OBVIOUS
<1> QED
  BY <1>1

LEMMA Place ==
    ASSUME NEW R \in Nat \ {0}, NEW n \in Nat, NEW k \in 0 .. n - 1, NEW j \in 1 .. R
    PROVE  k * R + j \in 1 .. n * R
<1>1. (k + 1) * R <= n * R /\ k * R \in Nat /\ n * R \in Nat
  BY Monotone
<1>2. (k + 1) * R = k * R + R
  OBVIOUS
<1>3. k * R + j <= k * R + R
  BY <1>1
<1> QED
  BY <1>1, <1>2, <1>3

LEMMA RecordAt == ASSUME NEW r \in Nat
                  PROVE  /\ Len(Record(r)) = RecordSize
                         /\ \A j \in 1 .. RecordSize : Record(r)[j] = [record |-> r, at |-> j]
  BY Hw4p4Assumption DEF Record

\* What the kfifo holds: whole records, the first of which is number first.
Holds(f, first, n) ==
    /\ Len(f) = n * RecordSize
    /\ \A k \in 0 .. n - 1 : \A j \in 1 .. RecordSize :
          f[k * RecordSize + j] = [record |-> first + k, at |-> j]

LEMMA HoldsAppend ==
    ASSUME NEW S, NEW f \in Seq(S), NEW first \in Nat, NEW n \in Nat, Holds(f, first, n),
           NEW g \in Seq(S), Len(g) = RecordSize,
           \A j \in 1 .. RecordSize : g[j] = [record |-> first + n, at |-> j]
    PROVE  Holds(f \o g, first, n + 1)
<1> DEFINE R == RecordSize
<1>0. R \in Nat \ {0}
  BY Hw4p4Assumption
<1>1. Len(f \o g) = (n + 1) * R
  <2>1. Len(f \o g) = n * R + R
    BY ConcatLen DEF Holds
  <2>2. (n + 1) * R = n * R + R
    BY <1>0
  <2> QED
    BY <2>1, <2>2
<1>2. ASSUME NEW k \in 0 .. n, NEW j \in 1 .. R
      PROVE  (f \o g)[k * R + j] = [record |-> first + k, at |-> j]
  <2>1. CASE k < n
    <3>0. k \in 0 .. n - 1
      BY <2>1
    <3>1. k * R + j \in 1 .. n * R
      BY <1>0, <3>0, Place
    <3>2. k * R + j \in 1 .. Len(f)
      BY <3>1 DEF Holds
    <3>3. (f \o g)[k * R + j] = f[k * R + j]
      BY <3>2
    <3> QED
      BY <2>1, <3>3 DEF Holds
  <2>2. CASE k = n
    <3>1. k * R + j = Len(f) + j /\ Len(f) \in Nat
      BY <2>2 DEF Holds
    <3>2. (f \o g)[Len(f) + j] = g[j]
      BY <3>1, <1>0
    <3>3. g[j] = [record |-> first + k, at |-> j]
      BY <2>2
    <3> QED
      BY <3>1, <3>2, <3>3
  <2>3. k < n \/ k = n
    OBVIOUS
  <2> QED
    BY <2>1, <2>2, <2>3
<1>3. n + 1 - 1 = n
  OBVIOUS
<1> QED
  BY <1>1, <1>2, <1>3, SMTT(40) DEF Holds

LEMMA HoldsTail ==
    ASSUME NEW S, NEW f \in Seq(S), NEW first \in Nat, NEW n \in Nat, Holds(f, first, n), n > 0
    PROVE  /\ Len(f) >= RecordSize
           /\ \A j \in 1 .. RecordSize : f[j] = [record |-> first, at |-> j]
           /\ Holds(SubSeq(f, RecordSize + 1, Len(f)), first + 1, n - 1)
<1> DEFINE R == RecordSize
           g == SubSeq(f, R + 1, Len(f))
<1>0. R \in Nat \ {0} /\ n - 1 \in Nat
  BY Hw4p4Assumption
<1>1. Len(f) = (n - 1) * R + R /\ (n - 1) * R \in Nat
  BY <1>0, Monotone DEF Holds
<1>2. Len(f) >= R /\ Len(f) \in Nat
  BY <1>0, <1>1
<1>3. Len(g) = (n - 1) * R /\ \A i \in 1 .. Len(f) - R : g[i] = f[i + R]
  BY <1>0, <1>1, <1>2
<1> HIDE DEF g
<1>4. ASSUME NEW j \in 1 .. R PROVE f[j] = [record |-> first, at |-> j]
  <2>1. 0 * R + j = j /\ 0 \in 0 .. n - 1 /\ first + 0 = first
    BY <1>0
  <2> QED
    BY <2>1 DEF Holds
<1>5. ASSUME NEW k \in 0 .. n - 1 - 1, NEW j \in 1 .. R
      PROVE  g[k * R + j] = [record |-> first + 1 + k, at |-> j]
  <2>1. k * R + j \in 1 .. (n - 1) * R
    BY <1>0, Place
  <2>2. k * R + j \in 1 .. Len(f) - R
    BY <1>0, <1>1, <2>1
  <2>5. g[k * R + j] = f[k * R + j + R]
    BY <1>3, <2>2
  <2>3. k * R + j + R = (k + 1) * R + j /\ k + 1 \in 0 .. n - 1 /\ first + 1 + k = first + (k + 1)
    BY <1>0
  <2>4. f[(k + 1) * R + j] = [record |-> first + (k + 1), at |-> j]
    BY <2>3 DEF Holds
  <2> QED
    BY <2>3, <2>4, <2>5
<1>6. Holds(g, first + 1, n - 1)
  BY <1>3, <1>5 DEF Holds
<1> QED
  BY <1>2, <1>4, <1>6 DEF g
\* Before the kfifo is allocated nothing has happened, and the timer is not
\* pending while its callback runs.
QuietInv == /\ pc = "alloc" => /\ fifo = << >> /\ rtd = << >> /\ reads = 0 /\ ticks = 0
                               /\ callback = "idle" /\ ~ timer /\ logger = "none"
            /\ pc = "timer" => callback = "idle"
            /\ timer => callback = "idle"

\* The records stored and not taken are those in the kfifo.
Whole == /\ stored \in Nat /\ reads <= stored
         /\ rtd = IF reads > 0 THEN Record(reads) ELSE << >>
         /\ Holds(fifo, reads + 1, stored - reads)

WholeInv == ~ cut /\ allocated => Whole

LEMMA QuietNext == ASSUME LabelsOK, RaceInv, QuietInv, [Next]_vars PROVE QuietInv'
<1> USE DEF QuietInv
<1>1. CASE Alloc
  BY <1>1 DEF Alloc, timerVars
<1>2. CASE StartTimer
  BY <1>2 DEF StartTimer
<1>3. CASE Spawn
  BY <1>3 DEF Spawn, timerVars
<1>4. CASE Expire
  BY <1>4 DEF Expire, Crash, Oops, RaceInv, Ticking, moduleVars, timerVars, fifoVars, loggerVars
<1>5. CASE Store \/ Wake \/ Rearm
  <2>1. pc # "alloc" /\ pc # "timer" /\ pc' = pc
    BY <1>5 DEF Store, Wake, Rearm, Crash, Oops, RaceInv, Ticking, moduleVars
  <2>2. timer' => timer \/ callback' = "idle"
    BY <1>5 DEF Store, Wake, Rearm, Crash, Oops, timerVars
  <2>3. callback = "idle" => FALSE
    BY <1>5 DEF Store, Wake, Rearm
  <2> QED
    BY <2>1, <2>2, <2>3
<1>6. CASE LoggerStep
  BY <1>6 DEF LoggerStep, CheckStop, SetState, Schedule, Drain, moduleVars, timerVars
<1>7. CASE DelTimer \/ FreeFifo \/ Stop \/ Join
  BY <1>7 DEF DelTimer, FreeFifo, Stop, Join, Oops, moduleVars, timerVars
<1>8. CASE UNCHANGED vars
  BY <1>8 DEF vars, moduleVars, timerVars, fifoVars, loggerVars
<1> QED
  BY <1>1, <1>2, <1>3, <1>4, <1>5, <1>6, <1>7, <1>8
     DEF Next, ModuleStep, UnloadStep, CallbackStep

LEMMA WholeStore ==
    ASSUME FifoOK, LabelsOK, TickOK, Whole, Store, ~ Gone, allocated, ~ cut' PROVE Whole'
<1>1. ticks \in 1 .. MaxTicks /\ callback = "store" /\ callback' = "wake" /\ ticks' = ticks
  BY Hw4p4Assumption DEF LabelsOK, TickOK, Store
<1>2. stored = ticks - 1 /\ stored' = ticks
  BY <1>1 DEF stored
<1>3. reads \in Nat /\ stored \in Nat /\ reads <= stored /\ stored' = stored + 1
  BY <1>1, <1>2, Hw4p4Assumption DEF LabelsOK, Whole
<1>4. rtd' = rtd /\ reads' = reads
  BY DEF Store, loggerVars
<1>5. fifo' = fifo \o Record(ticks)
  <2>1. Record(ticks) \in Seq(Cell) /\ Len(Record(ticks)) = RecordSize
    BY <1>1, Records
  <2>2. SubSeq(Record(ticks), 1, RecordSize) = Record(ticks)
    BY <2>1, Hw4p4Assumption
  <2>3. ~ (FifoSize - Len(fifo) < RecordSize)
    BY DEF Store
  <2> QED
    BY <2>2, <2>3 DEF Store
<1>6. Holds(fifo \o Record(ticks), reads + 1, (stored - reads) + 1)
  <2>1. Record(ticks) \in Seq(Cell) /\ Len(Record(ticks)) = RecordSize
    BY <1>1, Records
  <2>2. reads + 1 + (stored - reads) = ticks
    BY <1>1, <1>2, <1>3, Hw4p4Assumption
  <2>3. ticks \in Nat
    BY <1>1, Hw4p4Assumption
  <2>4. \A j \in 1 .. RecordSize :
           Record(ticks)[j] = [record |-> reads + 1 + (stored - reads), at |-> j]
    BY <2>2, <2>3, RecordAt
  <2>5. stored - reads \in Nat /\ reads + 1 \in Nat
    BY <1>3
  <2>6. fifo \in Seq(Cell) /\ Holds(fifo, reads + 1, stored - reads)
    BY DEF FifoOK, Whole
  <2> QED
    BY <2>1, <2>4, <2>5, <2>6, HoldsAppend
<1>7. stored' - reads' = (stored - reads) + 1 /\ stored' \in Nat /\ reads' <= stored'
  BY <1>3, <1>4
<1>8. Holds(fifo', reads' + 1, stored' - reads')
  BY <1>4, <1>5, <1>6, <1>7
<1>9. rtd' = IF reads' > 0 THEN Record(reads') ELSE << >>
  BY <1>4 DEF Whole
<1> QED
  BY <1>7, <1>8, <1>9 DEF Whole, Holds

LEMMA WholeDrain ==
    ASSUME FifoOK, LabelsOK, Whole, Drain, allocated PROVE Whole'
<1>1. UNCHANGED << callback, ticks >> /\ stored' = stored
  BY DEF Drain, timerVars, stored
<1>2. reads \in Nat /\ stored \in Nat /\ reads <= stored /\ stored - reads \in Nat /\ reads + 1 \in Nat
  BY DEF LabelsOK, Whole
<1>3. CASE fifo = << >>
  BY <1>1, <1>3 DEF Drain, Whole, Holds
<1>4. CASE fifo # << >>
  <2>1. fifo \in Seq(Cell) /\ Len(fifo) \in Nat /\ Len(fifo) > 0
    BY <1>4 DEF FifoOK
  <2>2. stored - reads > 0
    <3>1. CASE stored - reads = 0
      BY <2>1, <3>1, Hw4p4Assumption DEF Whole, Holds
    <3> QED
      BY <1>2, <3>1
  <2>3. /\ Len(fifo) >= RecordSize
        /\ \A j \in 1 .. RecordSize : fifo[j] = [record |-> reads + 1, at |-> j]
        /\ Holds(SubSeq(fifo, RecordSize + 1, Len(fifo)), reads + 1 + 1, stored - reads - 1)
    BY <1>2, <2>1, <2>2, HoldsTail DEF Whole
  <2>4. /\ rtd' = SubSeq(fifo, 1, RecordSize) \o SubSeq(rtd, RecordSize + 1, Len(rtd))
        /\ fifo' = SubSeq(fifo, RecordSize + 1, Len(fifo))
        /\ reads' = reads + 1
    <3>1. (IF Len(fifo) < RecordSize THEN Len(fifo) ELSE RecordSize) = RecordSize
      BY <2>1, <2>3, Hw4p4Assumption
    <3> QED
      BY <1>4, <3>1 DEF Drain
  <2>5. SubSeq(rtd, RecordSize + 1, Len(rtd)) = << >>
    <3>1. CASE reads > 0
      <4>1. rtd = Record(reads) /\ Len(rtd) = RecordSize
        BY <1>2, <3>1, RecordAt DEF Whole
      <4> QED
        BY <4>1, Hw4p4Assumption
    <3>2. CASE reads = 0
      <4>1. rtd = << >>
        BY <3>2 DEF Whole
      <4> QED
        BY <4>1, Hw4p4Assumption
    <3> QED
      BY <1>2, <3>1, <3>2
  <2>6. SubSeq(fifo, 1, RecordSize) = Record(reads + 1)
    <3>1. Record(reads + 1) = [i \in 1 .. RecordSize |-> [record |-> reads + 1, at |-> i]]
      BY DEF Record
    <3>2. SubSeq(fifo, 1, RecordSize) = [i \in 1 .. RecordSize |-> fifo[i]]
      BY <2>1, <2>3, Hw4p4Assumption
    <3> QED
      BY <2>3, <3>1, <3>2
  <2>7. rtd' = Record(reads')
    <3>1. SubSeq(fifo, 1, RecordSize) \in Seq(Cell)
      BY <2>1, <2>3, FirstLen, Hw4p4Assumption
    <3>2. SubSeq(fifo, 1, RecordSize) \o << >> = SubSeq(fifo, 1, RecordSize)
      BY <3>1
    <3> QED
      BY <2>4, <2>5, <2>6, <3>2
  <2>8. stored' - reads' = stored - reads - 1 /\ reads' + 1 = reads + 1 + 1 /\ reads' <= stored'
        /\ stored' \in Nat /\ reads' > 0
    BY <1>1, <1>2, <2>2, <2>4
  <2>9. Holds(fifo', reads' + 1, stored' - reads')
    BY <2>3, <2>4, <2>8
  <2> QED
    BY <2>7, <2>8, <2>9 DEF Whole, Holds
<1> QED
  BY <1>3, <1>4

LEMMA WholeNext ==
    ASSUME FifoOK, LabelsOK, TickOK, QuietInv, WholeInv, [Next]_vars PROVE WholeInv'
<1> SUFFICES ASSUME ~ cut', allocated' PROVE Whole'
  BY DEF WholeInv
<1>1. CASE Alloc
  <2>1. fifo' = << >> /\ rtd' = << >> /\ reads' = 0 /\ ticks' = 0 /\ callback' = "idle"
    BY <1>1 DEF Alloc, QuietInv, timerVars, loggerVars
  <2>2. stored' = 0
    BY <2>1 DEF stored
  <2>3. Len(<< >>) = 0 /\ 0 = 0 * RecordSize /\ 0 .. 0 - 1 = {} /\ 0 - 0 = 0
    BY Hw4p4Assumption
  <2>4. Holds(<< >>, 1, 0)
    BY <2>3 DEF Holds
  <2> QED
    BY <2>1, <2>2, <2>3, <2>4 DEF Whole, Holds
<1>2. CASE Store /\ ~ Gone
  <2>1. allocated /\ ~ cut
    BY <1>2 DEF Store
  <2> QED
    BY <1>2, <2>1, WholeStore DEF WholeInv
<1>3. CASE Drain
  <2>1. allocated /\ ~ cut
    BY <1>3 DEF Drain
  <2> QED
    BY <1>3, <2>1, WholeDrain DEF WholeInv
<1>4. CASE Expire /\ ~ Gone
  <2>1. Whole /\ callback = "idle" /\ callback' = "store" /\ ticks' = ticks + 1
    BY <1>4 DEF Expire, fifoVars, WholeInv, QuietInv
  <2>2. UNCHANGED << fifo, rtd, reads >> /\ ticks \in Nat
    BY <1>4, Hw4p4Assumption DEF Expire, fifoVars, loggerVars, LabelsOK
  <2>3. stored' = stored
    BY <2>1, <2>2 DEF stored
  <2> QED
    BY <2>1, <2>2, <2>3 DEF Whole, Holds
<1>5. CASE UNCHANGED << fifo, rtd, reads, ticks, allocated, cut >>
           /\ (callback' = "store" <=> callback = "store")
  <2>1. stored' = stored
    BY <1>5 DEF stored
  <2>2. Whole
    BY <1>5 DEF WholeInv
  <2> QED
    BY <1>5, <2>1, <2>2 DEF Whole, Holds
<1>6. CASE FreeFifo
  <2>1. Oops
    BY <1>6 DEF FreeFifo
  <2> QED
    BY <1>5, <2>1 DEF Oops, timerVars, fifoVars, loggerVars
<1>7. \/ Alloc \/ Drain \/ FreeFifo
      \/ (Store \/ Expire) /\ ~ Gone
      \/ UNCHANGED << fifo, rtd, reads, ticks, allocated, cut >>
         /\ (callback' = "store" <=> callback = "store")
  <2>1. CASE StartTimer \/ Spawn \/ DelTimer \/ Stop \/ Join \/ UNCHANGED vars
    BY <2>1 DEF StartTimer, Spawn, DelTimer, Stop, Join, vars, timerVars, fifoVars, loggerVars
  <2>2. CASE CheckStop \/ SetState \/ Schedule
    BY <2>2 DEF CheckStop, SetState, Schedule, timerVars, fifoVars
  <2>3. CASE Wake \/ Rearm
    BY <2>3 DEF Wake, Rearm, Crash, Oops, timerVars, fifoVars, loggerVars
  <2>4. CASE (Store \/ Expire) /\ Gone
    BY <2>4 DEF Store, Expire, Crash, Oops, timerVars, fifoVars, loggerVars
  <2> QED
    BY <2>1, <2>2, <2>3, <2>4 DEF Next, ModuleStep, UnloadStep, CallbackStep, LoggerStep
<1> QED
  BY <1>1, <1>2, <1>3, <1>4, <1>5, <1>6, <1>7

\* As long as no record was cut the logger takes whole records, each once and in
\* their order, and the kfifo holds those between, for every size of a record
\* and of the kfifo, and whatever the races (hw4p4.c:64, 83-90).
THEOREM WholeRecords == Spec => []RecordsWhole
<1>1. Init => RaceInv /\ NeverOops /\ QuietInv /\ WholeInv
  BY DEF Init, RaceInv, Ticking, NeverOops, QuietInv, WholeInv
<1>2. Init => TickOK
  BY DEF Init, TickOK
<1>3. TypeOK /\ TickOK /\ RaceInv /\ NeverOops /\ QuietInv /\ WholeInv /\ [Next]_vars
        => RaceInv' /\ NeverOops' /\ QuietInv' /\ WholeInv'
  BY TypeSplit, RaceNext, QuietNext, WholeNext
<1>4. LabelsOK /\ WholeInv => RecordsWhole
  <2> SUFFICES ASSUME LabelsOK, Whole
               PROVE  /\ reads > 0 => rtd = Record(reads)
                      /\ Len(fifo) = (stored - reads) * RecordSize
                      /\ \A k \in 0 .. stored - reads - 1 : \A j \in 1 .. RecordSize :
                            fifo[k * RecordSize + j] = Record(reads + 1 + k)[j]
    BY DEF WholeInv, RecordsWhole
  <2>1. reads > 0 => rtd = Record(reads)
    BY DEF Whole
  <2>2. ASSUME NEW k \in 0 .. stored - reads - 1, NEW j \in 1 .. RecordSize
        PROVE  fifo[k * RecordSize + j] = Record(reads + 1 + k)[j]
    <3>1. reads + 1 + k \in Nat
      BY DEF LabelsOK
    <3>2. Record(reads + 1 + k)[j] = [record |-> reads + 1 + k, at |-> j]
      BY <3>1, RecordAt
    <3> QED
      BY <3>2 DEF Whole, Holds
  <2> QED
    BY <2>1, <2>2 DEF Whole, Holds
<1>5. TypeOK => LabelsOK
  BY TypeSplit
<1> QED
  BY <1>1, <1>2, <1>3, <1>4, <1>5, TypeCorrect, TypeNext, PTL DEF Spec
------------------------------------------------------------------------------
(***************************************************************************)
(* ProcTree: the walk of hw4p3 up the process tree.                        *)
(***************************************************************************)

\* The processes that are linked into the list of p's children.
Kids(p) == {c \in Task \ {init_task} : parent[c] = p /\ state[c] \in {"alive", "zombie"}}

\* s is a sequence of the members of K.
Enumerates(s, K) == /\ s \in Seq(Task)
                    /\ \A i, j \in 1 .. Len(s) : s[i] = s[j] => i = j
                    /\ {s[i] : i \in 1 .. Len(s)} = K

\* The links of p's list, which has s for its processes, in a circle that begins
\* and ends with the head.
Spot(p, s, i) == IF i \in 1 .. Len(s) THEN sibling(s[i]) ELSE children(p)

Ring(nxt, p, s) == \A i \in 0 .. Len(s) : nxt[Spot(p, s, i)] = Spot(p, s, i + 1)

Permutes(nxt) == /\ nxt \in [Link -> Link]
                 /\ \A k, l \in Link : nxt[k] = nxt[l] => k = l

\* Every process has a living parent; the root has no child but process 1; a
\* task that is no process is in no list.
FamilyOK == /\ state \in [Task -> {"free", "alive", "zombie", "unlinked"}]
            /\ parent \in [Task -> Task]
            /\ Permutes(next)
            /\ state[init_task] = "alive" /\ parent[init_task] = init_task
            /\ state[init] = "alive" /\ parent[init] = init_task
            /\ \A c \in Task : state[c] \in {"alive", "zombie"} =>
                  /\ state[parent[c]] = "alive"
                  /\ parent[c] = init_task => c \in {init_task, init}
            /\ \A t \in Task : state[t] \in {"free", "unlinked"} =>
                                  next[sibling(t)] = sibling(t)

\* The list of every task links its children, each once, and nothing else.
RingsOK == \A p \in Task : \E s \in Seq(Task) : Enumerates(s, Kids(p)) /\ Ring(next, p, s)
------------------------------------------------------------------------------
LEMMA Links ==
    /\ \A t \in Task : children(t) \in Link /\ sibling(t) \in Link
    /\ \A t, u \in Task : /\ children(t) # sibling(u)
                          /\ children(t) = children(u) => t = u
                          /\ sibling(t) = sibling(u) => t = u
    /\ \A l \in Link : \E t \in Task : l = children(t) \/ l = sibling(t)
  BY DEF Link, children, sibling

LEMMA Roots == init_task \in Task /\ init \in Task /\ init_task # init
  BY ProcTreeAssumption

LEMMA Spots ==
    ASSUME NEW p \in Task, NEW s \in Seq(Task)
    PROVE  /\ \A i \in Int : Spot(p, s, i) \in Link
           /\ Spot(p, s, 0) = children(p) /\ Spot(p, s, Len(s) + 1) = children(p)
           /\ \A i \in 1 .. Len(s) : Spot(p, s, i) = sibling(s[i]) /\ s[i] \in Task
<1>1. Len(s) \in Nat /\ \A i \in 1 .. Len(s) : s[i] \in Task
  OBVIOUS
<1> QED
  BY <1>1, Links DEF Spot

\* No link is twice in a circle, or in two.
LEMMA SpotsApart ==
    ASSUME NEW p \in Task, NEW s, NEW K, Enumerates(s, K)
    PROVE  /\ \A i, j \in 0 .. Len(s) : Spot(p, s, i) = Spot(p, s, j) => i = j
           /\ \A i \in 0 .. Len(s) : \A t \in Task \ K : Spot(p, s, i) # sibling(t)
           /\ \A i \in 0 .. Len(s) : \A q \in Task \ {p} : Spot(p, s, i) # children(q)
<1>1. /\ s \in Seq(Task) /\ Len(s) \in Nat /\ \A i \in 1 .. Len(s) : s[i] \in Task /\ s[i] \in K
      /\ \A i, j \in 1 .. Len(s) : s[i] = s[j] => i = j
  BY DEF Enumerates
<1>2. \A i \in 0 .. Len(s) : Spot(p, s, i) = IF i = 0 THEN children(p) ELSE sibling(s[i])
  BY <1>1 DEF Spot
<1>3. \A i \in 0 .. Len(s) : i = 0 \/ i \in 1 .. Len(s)
  BY <1>1
<1> QED
  BY <1>1, <1>2, <1>3, Links

LEMMA RingsApart ==
    ASSUME NEW p \in Task, NEW q \in Task, p # q, NEW s, Enumerates(s, Kids(p)),
           NEW u, Enumerates(u, Kids(q)), NEW i \in 0 .. Len(s), NEW j \in 0 .. Len(u)
    PROVE  Spot(p, s, i) # Spot(q, u, j)
<1>1. Kids(p) \cap Kids(q) = {}
  BY DEF Kids
<1>2. /\ Len(u) \in Nat /\ \A k \in 1 .. Len(u) : u[k] \in Task /\ u[k] \in Kids(q)
      /\ Len(s) \in Nat
  BY DEF Enumerates
<1>3. CASE j = 0
  BY <1>2, <1>3, SpotsApart DEF Spot
<1>4. CASE j # 0
  <2>1. j \in 1 .. Len(u)
    BY <1>2, <1>4
  <2>2. Spot(q, u, j) = sibling(u[j]) /\ u[j] \in Task \ Kids(p)
    BY <1>1, <1>2, <2>1 DEF Spot
  <2> QED
    BY <2>2, SpotsApart
<1> QED
  BY <1>3, <1>4

\* The predecessor of a link is the one whose successor it is.
LEMMA BeforeIs ==
    ASSUME Permutes(next), NEW k \in Link, NEW l, next[k] = l
    PROVE  Before(l) = k
  BY DEF Permutes, Before

\* A list keeps its links if they are not changed.
LEMMA RingKept ==
    ASSUME NEW nxt, NEW nxt2, NEW p, NEW s, Ring(nxt, p, s),
           \A i \in 0 .. Len(s) : nxt2[Spot(p, s, i)] = nxt[Spot(p, s, i)]
    PROVE  Ring(nxt2, p, s)
  BY DEF Ring

\* Exchanging two successors, or three.
LEMMA Swap ==
    ASSUME NEW nxt, Permutes(nxt), NEW a \in Link, NEW b \in Link, a # b,
           NEW nxt2, nxt2 = [nxt EXCEPT ![a] = nxt[b], ![b] = nxt[a]]
    PROVE  Permutes(nxt2)
<1>1. nxt2 \in [Link -> Link]
  BY DEF Permutes
<1>2. \A k \in Link : nxt2[k] = IF k = a THEN nxt[b] ELSE IF k = b THEN nxt[a] ELSE nxt[k]
  BY DEF Permutes
<1> QED
  BY <1>1, <1>2 DEF Permutes

LEMMA Rotate ==
    ASSUME NEW nxt, Permutes(nxt), NEW a \in Link, NEW b \in Link, NEW c \in Link,
           a # b, b # c, a # c,
           NEW nxt2, nxt2 = [nxt EXCEPT ![a] = nxt[c], ![b] = nxt[a], ![c] = nxt[b]]
    PROVE  Permutes(nxt2)
<1>1. nxt2 \in [Link -> Link]
  BY DEF Permutes
<1>2. \A k \in Link : nxt2[k] = IF k = a THEN nxt[c] ELSE IF k = b THEN nxt[a]
                                ELSE IF k = c THEN nxt[b] ELSE nxt[k]
  BY DEF Permutes
<1> QED
  BY <1>1, <1>2 DEF Permutes

\* One list put at the end of another.
Joined(s, u) == [i \in 1 .. Len(s) + Len(u) |-> IF i <= Len(s) THEN s[i] ELSE u[i - Len(s)]]

LEMMA JoinedIs ==
    ASSUME NEW s, NEW K, Enumerates(s, K), NEW u, NEW L, Enumerates(u, L), K \cap L = {}
    PROVE  Enumerates(Joined(s, u), K \cup L)
<1> DEFINE w == Joined(s, u)
<1>1. /\ s \in Seq(Task) /\ u \in Seq(Task) /\ Len(s) \in Nat /\ Len(u) \in Nat
      /\ \A i \in 1 .. Len(s) : s[i] \in K /\ s[i] \in Task
      /\ \A i \in 1 .. Len(u) : u[i] \in L /\ u[i] \in Task
      /\ \A i, j \in 1 .. Len(s) : s[i] = s[j] => i = j
      /\ \A i, j \in 1 .. Len(u) : u[i] = u[j] => i = j
  BY DEF Enumerates
<1>2. \A i \in 1 .. Len(s) + Len(u) :
         \/ i \in 1 .. Len(s) /\ w[i] = s[i]
         \/ i > Len(s) /\ i - Len(s) \in 1 .. Len(u) /\ w[i] = u[i - Len(s)]
  BY <1>1 DEF Joined
<1>3. w \in Seq(Task) /\ Len(w) = Len(s) + Len(u)
  <2>1. \A i \in 1 .. Len(s) + Len(u) : w[i] \in Task
    BY <1>1, <1>2
  <2>2. w \in [1 .. Len(s) + Len(u) -> Task]
    BY <2>1 DEF Joined
  <2> QED
    BY <1>1, <2>2, SMTT(40)
<1>4. \A i, j \in 1 .. Len(w) : w[i] = w[j] => i = j
  <2>1. SUFFICES ASSUME NEW i \in 1 .. Len(w), NEW j \in 1 .. Len(w), w[i] = w[j] PROVE i = j
    OBVIOUS
  <2> HIDE DEF w
  <2>2. i \in Int /\ j \in Int /\ i - Len(s) \in Int /\ j - Len(s) \in Int
    BY <1>1
  <2>3. CASE i \in 1 .. Len(s) /\ w[i] = s[i]
    BY <1>1, <1>2, <1>3, <2>1, <2>3
  <2>4. CASE i > Len(s) /\ i - Len(s) \in 1 .. Len(u) /\ w[i] = u[i - Len(s)]
    <3>1. j > Len(s) /\ j - Len(s) \in 1 .. Len(u) /\ w[j] = u[j - Len(s)]
      BY <1>1, <1>2, <1>3, <2>1, <2>4
    <3>2. i - Len(s) = j - Len(s)
      BY <1>1, <2>1, <2>4, <3>1
    <3> QED
      BY <1>1, <2>2, <3>2
  <2> QED
    BY <1>2, <1>3, <2>3, <2>4
<1>5. {w[i] : i \in 1 .. Len(w)} = K \cup L
  <2> HIDE DEF w
  <2>1. \A i \in 1 .. Len(w) : w[i] \in K \cup L
    BY <1>1, <1>2, <1>3, SMTT(40)
  <2>2. ASSUME NEW x \in K PROVE \E i \in 1 .. Len(w) : w[i] = x
    <3>1. PICK i \in 1 .. Len(s) : s[i] = x
      BY DEF Enumerates
    <3>2. i \in 1 .. Len(w) /\ i <= Len(s)
      BY <1>1, <1>3, <3>1
    <3>3. w[i] = s[i]
      BY <1>1, <1>2, <1>3, <3>2
    <3> QED
      BY <3>1, <3>2, <3>3
  <2>3. ASSUME NEW x \in L PROVE \E i \in 1 .. Len(w) : w[i] = x
    <3>1. PICK i \in 1 .. Len(u) : u[i] = x
      BY DEF Enumerates
    <3>2. i + Len(s) \in 1 .. Len(w) /\ ~ i + Len(s) \in 1 .. Len(s) /\ (i + Len(s)) - Len(s) = i
      BY <1>1, <1>3, <3>1
    <3>3. w[i + Len(s)] = u[i]
      BY <1>2, <1>3, <3>2
    <3> QED
      BY <3>1, <3>2, <3>3
  <2> QED
    BY <2>1, <2>2, <2>3
<1> QED
  BY <1>3, <1>4, <1>5 DEF Enumerates

LEMMA JoinedRing ==
    ASSUME NEW p \in Task, NEW q \in Task, NEW s \in Seq(Task), NEW u \in Seq(Task), Len(u) > 0,
           NEW nxt,
           \A i \in 0 .. Len(s) - 1 : nxt[Spot(p, s, i)] = Spot(p, s, i + 1),
           nxt[Spot(p, s, Len(s))] = Spot(q, u, 1),
           \A i \in 1 .. Len(u) - 1 : nxt[Spot(q, u, i)] = Spot(q, u, i + 1),
           nxt[Spot(q, u, Len(u))] = children(p)
    PROVE  Ring(nxt, p, Joined(s, u))
<1> DEFINE w == Joined(s, u)
<1>1. Len(s) \in Nat /\ Len(u) \in Nat /\ Len(w) = Len(s) + Len(u)
      /\ \A i \in 1 .. Len(w) : w[i] = IF i <= Len(s) THEN s[i] ELSE u[i - Len(s)]
  <2>1. Len(s) \in Nat /\ Len(u) \in Nat
    OBVIOUS
  <2> QED
    BY <2>1 DEF Joined
<1> HIDE DEF w
<1>2. \A i \in 0 .. Len(s) : Spot(p, w, i) = Spot(p, s, i)
  BY <1>1 DEF Spot
<1>3. \A i \in 1 .. Len(u) : Spot(p, w, Len(s) + i) = Spot(q, u, i)
  <2>1. \A i \in 1 .. Len(u) : Len(s) + i \in 1 .. Len(w) /\ ~ (Len(s) + i <= Len(s))
                               /\ (Len(s) + i) - Len(s) = i
    BY <1>1
  <2> QED
    BY <1>1, <2>1 DEF Spot
<1>4. Spot(p, w, Len(w) + 1) = children(p)
  BY <1>1 DEF Spot
<1>5. ASSUME NEW i \in 0 .. Len(w) PROVE nxt[Spot(p, w, i)] = Spot(p, w, i + 1)
  <2>1. CASE i < Len(s)
    <3>1. i \in 0 .. Len(s) /\ i + 1 \in 0 .. Len(s) /\ i \in 0 .. Len(s) - 1
      BY <1>1, <2>1
    <3> QED
      BY <1>2, <3>1
  <2>2. CASE i = Len(s)
    <3>1. i \in 0 .. Len(s) /\ 1 \in 1 .. Len(u)
      BY <1>1, <2>2
    <3> QED
      BY <1>2, <1>3, <2>2, <3>1
  <2>3. CASE i > Len(s) /\ i < Len(w)
    <3>1. i - Len(s) \in 1 .. Len(u) - 1 /\ i - Len(s) \in 1 .. Len(u)
          /\ (i - Len(s)) + 1 \in 1 .. Len(u)
          /\ Len(s) + (i - Len(s)) = i /\ Len(s) + ((i - Len(s)) + 1) = i + 1
      BY <1>1, <2>3
    <3>2. Spot(p, w, i) = Spot(q, u, i - Len(s)) /\ Spot(p, w, i + 1) = Spot(q, u, (i - Len(s)) + 1)
      BY <1>3, <3>1
    <3> QED
      BY <3>1, <3>2
  <2>4. CASE i = Len(w)
    <3>1. Len(u) \in 1 .. Len(u)
      BY <1>1
    <3> QED
      BY <1>1, <1>3, <1>4, <2>4, <3>1
  <2>5. i < Len(s) \/ i = Len(s) \/ (i > Len(s) /\ i < Len(w)) \/ i = Len(w)
    BY <1>1
  <2> QED
    BY <2>1, <2>2, <2>3, <2>4, <2>5
<1> QED
  BY <1>5 DEF Ring, w

\* One process taken out of a list.
Without(s, k) == [i \in 1 .. Len(s) - 1 |-> IF i < k THEN s[i] ELSE s[i + 1]]

LEMMA WithoutIs ==
    ASSUME NEW s, NEW K, Enumerates(s, K), NEW k \in 1 .. Len(s)
    PROVE  Enumerates(Without(s, k), K \ {s[k]})
<1> DEFINE w == Without(s, k)
<1>1. /\ s \in Seq(Task) /\ Len(s) \in Nat
      /\ \A i \in 1 .. Len(s) : s[i] \in K /\ s[i] \in Task
      /\ \A i, j \in 1 .. Len(s) : s[i] = s[j] => i = j
  BY DEF Enumerates
<1>2. \A i \in 1 .. Len(s) - 1 : /\ i \in 1 .. Len(s) /\ i + 1 \in 1 .. Len(s)
                                 /\ w[i] = IF i < k THEN s[i] ELSE s[i + 1]
  BY <1>1 DEF Without
<1>3. w \in Seq(Task) /\ Len(w) = Len(s) - 1
  <2>1. \A i \in 1 .. Len(s) - 1 : w[i] \in Task
    BY <1>1, <1>2
  <2>2. w \in [1 .. Len(s) - 1 -> Task]
    BY <2>1 DEF Without
  <2> QED
    BY <1>1, <2>2
<1> HIDE DEF w
<1>4. \A i, j \in 1 .. Len(w) : w[i] = w[j] => i = j
  <2>1. SUFFICES ASSUME NEW i \in 1 .. Len(w), NEW j \in 1 .. Len(w), w[i] = w[j] PROVE i = j
    OBVIOUS
  <2>2. i \in 1 .. Len(s) - 1 /\ j \in 1 .. Len(s) - 1
    BY <1>3
  <2>3. (IF i < k THEN i ELSE i + 1) = (IF j < k THEN j ELSE j + 1)
    BY <1>1, <1>2, <2>1, <2>2
  <2> QED
    BY <1>1, <2>2, <2>3
<1>5. {w[i] : i \in 1 .. Len(w)} = K \ {s[k]}
  <2>1. ASSUME NEW i \in 1 .. Len(w) PROVE w[i] \in K \ {s[k]}
    <3>2. CASE i < k
      <4>1. i \in 1 .. Len(s) /\ i # k /\ w[i] = s[i]
        BY <1>1, <1>2, <1>3, <3>2
      <4> QED
        BY <1>1, <4>1
    <3>3. CASE ~ i < k
      <4>1. i + 1 \in 1 .. Len(s) /\ i + 1 # k /\ w[i] = s[i + 1]
        BY <1>1, <1>2, <1>3, <3>3
      <4> QED
        BY <1>1, <4>1
    <3> QED
      BY <3>2, <3>3
  <2>2. ASSUME NEW x \in K, x # s[k] PROVE \E i \in 1 .. Len(w) : w[i] = x
    <3>1. PICK i \in 1 .. Len(s) : s[i] = x
      BY DEF Enumerates
    <3>2. CASE i < k
      <4>1. i \in 1 .. Len(s) - 1
        BY <1>1, <3>2
      <4> QED
        BY <1>2, <1>3, <3>1, <3>2, <4>1
    <3>3. CASE ~ i < k
      <4>1. i - 1 \in 1 .. Len(s) - 1 /\ ~ i - 1 < k /\ (i - 1) + 1 = i
        BY <1>1, <2>2, <3>1, <3>3
      <4> QED
        BY <1>2, <1>3, <3>1, <4>1
    <3> QED
      BY <3>2, <3>3
  <2> QED
    BY <2>1, <2>2
<1> QED
  BY <1>3, <1>4, <1>5 DEF Enumerates, w

LEMMA WithoutRing ==
    ASSUME NEW p \in Task, NEW s \in Seq(Task), NEW k \in 1 .. Len(s), NEW nxt,
           \A i \in 0 .. Len(s) : i # k - 1 /\ i # k => nxt[Spot(p, s, i)] = Spot(p, s, i + 1),
           nxt[Spot(p, s, k - 1)] = Spot(p, s, k + 1)
    PROVE  Ring(nxt, p, Without(s, k))
<1> DEFINE w == Without(s, k)
<1>1. Len(s) \in Nat /\ Len(w) = Len(s) - 1
      /\ \A i \in 1 .. Len(w) : w[i] = IF i < k THEN s[i] ELSE s[i + 1]
  <2>1. Len(s) \in Nat /\ Len(s) >= 1
    OBVIOUS
  <2> QED
    BY <2>1 DEF Without
<1> HIDE DEF w
<1>2. \A i \in 0 .. Len(s) : Spot(p, w, i) = IF i < k THEN Spot(p, s, i) ELSE Spot(p, s, i + 1)
  <2>1. SUFFICES ASSUME NEW i \in 0 .. Len(s)
                 PROVE  Spot(p, w, i) = IF i < k THEN Spot(p, s, i) ELSE Spot(p, s, i + 1)
    OBVIOUS
  <2>2. CASE i \in 1 .. Len(w)
    <3>1. i \in 1 .. Len(s) /\ i + 1 \in 1 .. Len(s)
      BY <1>1, <2>2
    <3> QED
      BY <1>1, <2>2, <3>1 DEF Spot
  <2>3. CASE i \notin 1 .. Len(w)
    <3>1. \/ i = 0 /\ i < k /\ i \notin 1 .. Len(s)
          \/ i = Len(s) /\ ~ i < k /\ i + 1 \notin 1 .. Len(s)
      BY <1>1, <2>3
    <3> QED
      BY <2>3, <3>1 DEF Spot
  <2> QED
    BY <2>2, <2>3
<1>3. ASSUME NEW i \in 0 .. Len(w) PROVE nxt[Spot(p, w, i)] = Spot(p, w, i + 1)
  <2>1. i \in 0 .. Len(s) /\ i + 1 \in 0 .. Len(s) /\ k \in Int
    BY <1>1
  <2>2. CASE i < k - 1
    <3>1. i < k /\ i + 1 < k /\ i # k - 1 /\ i # k
      BY <2>1, <2>2
    <3> QED
      BY <1>2, <2>1, <3>1
  <2>3. CASE i = k - 1
    <3>1. i < k /\ ~ i + 1 < k /\ (i + 1) + 1 = k + 1
      BY <2>1, <2>3
    <3> QED
      BY <1>2, <2>1, <2>3, <3>1
  <2>4. CASE i > k - 1
    <3>1. ~ i < k /\ ~ i + 1 < k /\ i + 1 # k - 1 /\ i + 1 # k
      BY <2>1, <2>4
    <3> QED
      BY <1>2, <2>1, <3>1
  <2> QED
    BY <2>1, <2>2, <2>3, <2>4
<1> QED
  BY <1>3 DEF Ring, w

\* What each action of the kernel does to the family and the lists.
LEMMA PrimedRings ==
    ASSUME \A p \in Task : \E s \in Seq(Task) : Enumerates(s, Kids(p)') /\ Ring(next', p, s)
    PROVE  RingsOK'
  BY DEF RingsOK

LEMMA RingOf ==
    ASSUME RingsOK, NEW p \in Task
    PROVE  \E s \in Seq(Task) : Enumerates(s, Kids(p)) /\ Ring(next, p, s)
  BY DEF RingsOK

LEMMA InitFamily == TreeInit => FamilyOK /\ RingsOK
<1> SUFFICES ASSUME TreeInit PROVE FamilyOK /\ RingsOK
  OBVIOUS
<1> USE Roots
<1>1. \A p \in Task : Kids(p) = IF p = init_task THEN {init} ELSE {}
  BY DEF TreeInit, Kids
<1>2. /\ next \in [Link -> Link]
      /\ next[children(init_task)] = sibling(init)
      /\ next[sibling(init)] = children(init_task)
      /\ \A l \in Link \ {children(init_task), sibling(init)} : next[l] = l
  BY Links DEF TreeInit
<1>3. Permutes(next)
  BY <1>2, Links DEF Permutes
<1>4. FamilyOK
  BY <1>2, <1>3, Links DEF TreeInit, FamilyOK
<1>5. ASSUME NEW p \in Task PROVE \E s \in Seq(Task) : Enumerates(s, Kids(p)) /\ Ring(next, p, s)
  <2>1. CASE p = init_task
    <3> DEFINE s == << init >>
    <3>1. s \in Seq(Task) /\ Len(s) = 1 /\ s[1] = init /\ 1 .. Len(s) = {1} /\ 0 .. Len(s) = {0, 1}
      OBVIOUS
    <3> HIDE DEF s
    <3>2. Enumerates(s, Kids(p))
      BY <1>1, <2>1, <3>1 DEF Enumerates
    <3>3. Spot(p, s, 0) = children(p) /\ Spot(p, s, 1) = sibling(init) /\ Spot(p, s, 2) = children(p)
      BY <3>1 DEF Spot
    <3>4. Ring(next, p, s)
      BY <1>2, <2>1, <3>1, <3>3 DEF Ring
    <3> QED
      BY <3>1, <3>2, <3>4
  <2>2. CASE p # init_task
    <3> DEFINE s == << >>
    <3>1. s \in Seq(Task) /\ Len(s) = 0 /\ 1 .. Len(s) = {} /\ 0 .. Len(s) = {0}
      OBVIOUS
    <3> HIDE DEF s
    <3>2. Enumerates(s, Kids(p))
      BY <1>1, <2>2, <3>1 DEF Enumerates
    <3>3. Ring(next, p, s)
      BY <1>2, <2>2, <3>1, Links DEF Spot, Ring
    <3> QED
      BY <3>1, <3>2, <3>3
  <2> QED
    BY <2>1, <2>2
<1> QED
  BY <1>4, <1>5 DEF RingsOK

\* A list whose links an action leaves alone stays what it is.
LEMMA OtherRing ==
    ASSUME RingsOK, NEW q \in Task, Kids(q)' = Kids(q),
           \A s \in Seq(Task) : Enumerates(s, Kids(q)) /\ Ring(next, q, s) =>
              \A i \in 0 .. Len(s) : next'[Spot(q, s, i)] = next[Spot(q, s, i)]
    PROVE  \E s \in Seq(Task) : Enumerates(s, Kids(q)') /\ Ring(next', q, s)
<1>1. PICK s \in Seq(Task) : Enumerates(s, Kids(q)) /\ Ring(next, q, s)
  BY RingOf
<1>2. Ring(next', q, s)
  BY <1>1, RingKept
<1> QED
  BY <1>1, <1>2

LEMMA ForkFamily ==
    ASSUME FamilyOK, RingsOK, NEW p \in Task, NEW t \in Task, Fork(p, t)
    PROVE  /\ FamilyOK' /\ RingsOK'
           /\ \A q \in Task : Kids(q)' = IF q = p THEN Kids(q) \cup {t} ELSE Kids(q)
<1> USE Roots
<1>1. PICK s \in Seq(Task) : Enumerates(s, Kids(p)) /\ Ring(next, p, s)
  BY RingOf
<1> DEFINE B == Spot(p, s, Len(s))
<1>2. Len(s) \in Nat /\ B \in Link /\ next[B] = children(p)
  BY <1>1, Spots DEF Ring
<1>3. /\ Permutes(next) /\ state[t] = "free" /\ state[p] = "alive" /\ p # t /\ t # init_task /\ t # init
      /\ p # init_task /\ next[sibling(t)] = sibling(t)
      /\ parent \in [Task -> Task] /\ state \in [Task -> {"free", "alive", "zombie", "unlinked"}]
      /\ \A q \in Task : t \notin Kids(q)
  BY DEF FamilyOK, Fork, Kids
<1>4. B # sibling(t) /\ sibling(t) \in Link /\ Before(children(p)) = B
  BY <1>1, <1>2, <1>3, SpotsApart, Links, BeforeIs
<1> HIDE DEF B
<1>5. next' = [next EXCEPT ![B] = next[sibling(t)], ![sibling(t)] = next[B]]
  BY <1>2, <1>3, <1>4 DEF Fork
<1>6. Permutes(next')
  BY <1>2, <1>3, <1>4, <1>5, Swap
<1>7. /\ next'[B] = sibling(t) /\ next'[sibling(t)] = children(p)
      /\ \A l \in Link : l # B /\ l # sibling(t) => next'[l] = next[l]
  BY <1>2, <1>3, <1>4, <1>5 DEF Permutes
<1>8. \A c \in Task : /\ state'[c] = IF c = t THEN "alive" ELSE state[c]
                      /\ parent'[c] = IF c = t THEN p ELSE parent[c]
  BY <1>3 DEF Fork
<1>9. \A q \in Task : Kids(q)' = IF q = p THEN Kids(q) \cup {t} ELSE Kids(q)
  BY <1>3, <1>8 DEF Kids
<1>10. FamilyOK'
  <2>1. /\ state' \in [Task -> {"free", "alive", "zombie", "unlinked"}]
        /\ parent' \in [Task -> Task]
    BY <1>3 DEF Fork
  <2>2. /\ state'[init_task] = "alive" /\ parent'[init_task] = init_task
        /\ state'[init] = "alive" /\ parent'[init] = init_task
    BY <1>3, <1>8 DEF FamilyOK
  <2>3. ASSUME NEW c \in Task, state'[c] \in {"alive", "zombie"}
        PROVE  /\ state'[parent'[c]] = "alive"
               /\ parent'[c] = init_task => c \in {init_task, init}
    BY <1>3, <1>8, <2>3 DEF FamilyOK
  <2>4. ASSUME NEW c \in Task, state'[c] \in {"free", "unlinked"}
        PROVE  next'[sibling(c)] = sibling(c)
    <3>1. c # t /\ state[c] \in {"free", "unlinked"}
      BY <1>8, <2>4
    <3>2. sibling(c) # sibling(t) /\ sibling(c) # B
      BY <1>1, <3>1, SpotsApart, Links, <1>2 DEF Kids, B
    <3> QED
      BY <1>7, <3>1, <3>2, Links DEF FamilyOK
  <2> QED
    BY <1>6, <2>1, <2>2, <2>3, <2>4 DEF FamilyOK
<1>11. ASSUME NEW q \in Task PROVE \E w \in Seq(Task) : Enumerates(w, Kids(q)') /\ Ring(next', q, w)
  <2>1. CASE q = p
    <3> DEFINE u == << t >>
    <3>1. u \in Seq(Task) /\ Len(u) = 1 /\ u[1] = t /\ 1 .. Len(u) = {1} /\ 1 .. Len(u) - 1 = {}
      OBVIOUS
    <3> HIDE DEF u
    <3>2. Enumerates(u, {t}) /\ Spot(p, u, 1) = sibling(t)
      BY <3>1 DEF Enumerates, Spot
    <3>3. Enumerates(Joined(s, u), Kids(p) \cup {t})
      BY <1>1, <1>3, <3>2, JoinedIs
    <3>4. ASSUME NEW i \in 0 .. Len(s) - 1 PROVE next'[Spot(p, s, i)] = Spot(p, s, i + 1)
      <4>1. i \in 0 .. Len(s) /\ i # Len(s) /\ Len(s) \in 0 .. Len(s)
        BY <1>2
      <4>2. Spot(p, s, i) # B /\ Spot(p, s, i) # sibling(t) /\ Spot(p, s, i) \in Link
        BY <1>1, <1>3, <4>1, SpotsApart, Spots DEF B
      <4> QED
        BY <1>1, <1>7, <4>1, <4>2 DEF Ring
    <3>5. Ring(next', p, Joined(s, u))
      <4>1. next'[Spot(p, s, Len(s))] = Spot(p, u, 1) /\ next'[Spot(p, u, Len(u))] = children(p)
        BY <1>7, <3>1, <3>2 DEF B
      <4>2. \A i \in 1 .. Len(u) - 1 : next'[Spot(p, u, i)] = Spot(p, u, i + 1)
        BY <3>1
      <4>3. u \in Seq(Task) /\ Len(u) > 0 /\ s \in Seq(Task)
        BY <1>1, <3>1
      <4> QED
        BY <3>4, <4>1, <4>2, <4>3, JoinedRing
    <3> QED
      BY <1>9, <2>1, <3>3, <3>5 DEF Enumerates
  <2>2. CASE q # p
    <3>1. ASSUME NEW w \in Seq(Task), Enumerates(w, Kids(q)), NEW i \in 0 .. Len(w)
          PROVE  next'[Spot(q, w, i)] = next[Spot(q, w, i)]
      <4>1. Spot(q, w, i) # B /\ Spot(q, w, i) # sibling(t) /\ Spot(q, w, i) \in Link
        BY <1>1, <1>2, <1>3, <2>2, <3>1, SpotsApart, RingsApart, Spots DEF B
      <4> QED
        BY <1>7, <4>1
    <3> QED
      BY <1>9, <2>2, <3>1, OtherRing
  <2> QED
    BY <2>1, <2>2
<1> QED
  BY <1>9, <1>10, <1>11, PrimedRings

LEMMA ExitFamily ==
    ASSUME FamilyOK, RingsOK, NEW t \in Task, Exit(t)
    PROVE  /\ FamilyOK' /\ RingsOK'
           /\ \A q \in Task : Kids(q)' = IF q = t THEN {}
                                         ELSE IF q = init THEN Kids(q) \cup Kids(t) ELSE Kids(q)
<1> USE Roots
<1>1. PICK s \in Seq(Task) : Enumerates(s, Kids(init)) /\ Ring(next, init, s)
  BY RingOf
<1>2. PICK u \in Seq(Task) : Enumerates(u, Kids(t)) /\ Ring(next, t, u)
  BY RingOf
<1>3. /\ Permutes(next) /\ state[t] = "alive" /\ t # init_task /\ t # init
      /\ parent \in [Task -> Task] /\ state \in [Task -> {"free", "alive", "zombie", "unlinked"}]
  BY DEF FamilyOK, Exit
<1>4. \A c \in Task :
         /\ state'[c] = IF c = t THEN "zombie" ELSE state[c]
         /\ parent'[c] = IF parent[c] = t /\ state[c] \in {"alive", "zombie"} THEN init ELSE parent[c]
  BY <1>3 DEF Exit
<1>5. \A q \in Task : Kids(q)' = IF q = t THEN {}
                                 ELSE IF q = init THEN Kids(q) \cup Kids(t) ELSE Kids(q)
  BY <1>3, <1>4 DEF Kids
<1>6. /\ state' \in [Task -> {"free", "alive", "zombie", "unlinked"}]
      /\ parent' \in [Task -> Task]
      /\ state'[init_task] = "alive" /\ parent'[init_task] = init_task
      /\ state'[init] = "alive" /\ parent'[init] = init_task
      /\ \A c \in Task : state'[c] \in {"alive", "zombie"} =>
            /\ state'[parent'[c]] = "alive"
            /\ parent'[c] = init_task => c \in {init_task, init}
  <2>1. state' \in [Task -> {"free", "alive", "zombie", "unlinked"}] /\ parent' \in [Task -> Task]
    BY <1>3 DEF Exit
  <2>2. /\ state'[init_task] = "alive" /\ parent'[init_task] = init_task
        /\ state'[init] = "alive" /\ parent'[init] = init_task
    BY <1>3, <1>4 DEF FamilyOK
  <2>3. ASSUME NEW c \in Task, state'[c] \in {"alive", "zombie"}
        PROVE  /\ state'[parent'[c]] = "alive"
               /\ parent'[c] = init_task => c \in {init_task, init}
    <3>1. state[c] \in {"alive", "zombie"} /\ parent[c] \in Task
      BY <1>3, <1>4, <2>3
    <3>2. parent'[c] = IF parent[c] = t THEN init ELSE parent[c]
      BY <1>4, <3>1
    <3>3. state[parent[c]] = "alive" /\ (parent[c] = init_task => c \in {init_task, init})
      BY <3>1 DEF FamilyOK
    <3> QED
      BY <1>3, <1>4, <2>2, <3>1, <3>2, <3>3
  <2> QED
    BY <2>1, <2>2, <2>3
<1>7. \A c \in Task : state'[c] \in {"free", "unlinked"} =>
         c # t /\ c # init_task /\ c # init /\ c \notin Kids(t) /\ c \notin Kids(init)
         /\ next[sibling(c)] = sibling(c)
  BY <1>3, <1>4 DEF Kids, FamilyOK
<1>8. Len(s) \in Nat /\ Len(u) \in Nat
  OBVIOUS
<1>9. CASE next[children(t)] = children(t)
  <2>1. next' = next
    BY <1>9 DEF Exit
  <2>2. Kids(t) = {}
    <3>1. SUFFICES ASSUME Len(u) # 0 PROVE FALSE
      BY <1>2, <1>8 DEF Enumerates
    <3>2. 0 \in 0 .. Len(u) /\ 1 \in 1 .. Len(u) /\ 0 + 1 = 1
      BY <1>8, <3>1
    <3>3. next[Spot(t, u, 0)] = Spot(t, u, 1)
      BY <1>2, <3>2 DEF Ring
    <3>4. Spot(t, u, 0) = children(t) /\ Spot(t, u, 1) = sibling(u[1]) /\ u[1] \in Task
      BY <3>2, Spots
    <3> QED
      BY <1>9, <3>3, <3>4, Links
  <2>3. \A q \in Task : Kids(q)' = Kids(q)
    BY <1>5, <2>2
  <2>4. FamilyOK'
    BY <1>3, <1>6, <1>7, <2>1 DEF FamilyOK
  <2>5. \A q \in Task : \E w \in Seq(Task) : Enumerates(w, Kids(q)') /\ Ring(next', q, w)
    BY <2>1, <2>3, RingOf
  <2> QED
    BY <1>5, <2>4, <2>5, PrimedRings
<1>10. CASE next[children(t)] # children(t)
  <2> DEFINE B == Spot(init, s, Len(s))
             C == Spot(t, u, Len(u))
  <2>1. Len(u) > 0
    <3>1. next[Spot(t, u, 0)] = Spot(t, u, 0 + 1)
      BY <1>2, <1>8 DEF Ring
    <3>2. 0 + 1 = 1 /\ (Len(u) = 0 => Spot(t, u, 0) = children(t) /\ Spot(t, u, 1) = children(t))
      BY <1>8 DEF Spot
    <3> QED
      BY <1>8, <1>10, <3>1, <3>2
  <2>2. /\ Len(s) \in 0 .. Len(s) /\ Len(u) \in 0 .. Len(u) /\ 0 \in 0 .. Len(u)
        /\ Len(u) \in 1 .. Len(u) /\ 1 \in 1 .. Len(u) /\ 0 + 1 = 1
    BY <1>8, <2>1
  <2>3. /\ B \in Link /\ C \in Link /\ children(t) \in Link
        /\ next[B] = children(init) /\ next[C] = children(t) /\ next[children(t)] = Spot(t, u, 1)
    <3>1. next[B] = Spot(init, s, Len(s) + 1) /\ next[C] = Spot(t, u, Len(u) + 1)
          /\ next[Spot(t, u, 0)] = Spot(t, u, 1)
      BY <1>1, <1>2, <2>2 DEF Ring
    <3>2. B \in Link /\ C \in Link /\ Spot(init, s, Len(s) + 1) = children(init)
          /\ Spot(t, u, Len(u) + 1) = children(t) /\ Spot(t, u, 0) = children(t)
      BY <1>8, Spots
    <3> QED
      BY <3>1, <3>2, Links
  <2>4. B # C /\ C # children(t) /\ B # children(t)
    <3>1. B # C /\ B # Spot(t, u, 0)
      BY <1>1, <1>2, <1>3, <2>2, RingsApart
    <3>2. C # Spot(t, u, 0)
      BY <1>2, <2>1, <2>2, SpotsApart
    <3> QED
      BY <3>1, <3>2, Spots
  <2>5. Before(children(init)) = B /\ Before(children(t)) = C
    BY <1>3, <2>3, BeforeIs
  <2> HIDE DEF B, C
  <2>6. next' = [next EXCEPT ![B] = next[children(t)], ![C] = next[B], ![children(t)] = next[C]]
    BY <1>10, <2>3, <2>5 DEF Exit
  <2>7. Permutes(next')
    BY <1>3, <2>3, <2>4, <2>6, Rotate
  <2>8. /\ next'[B] = Spot(t, u, 1) /\ next'[C] = children(init) /\ next'[children(t)] = children(t)
        /\ \A l \in Link : l # B /\ l # C /\ l # children(t) => next'[l] = next[l]
    BY <1>3, <2>3, <2>4, <2>6 DEF Permutes
  <2>9. FamilyOK'
    <3>1. ASSUME NEW c \in Task, state'[c] \in {"free", "unlinked"}
          PROVE  next'[sibling(c)] = sibling(c)
      <4>1. c \in Task \ Kids(t) /\ c \in Task \ Kids(init) /\ next[sibling(c)] = sibling(c)
        BY <1>7, <3>1
      <4>2. sibling(c) # B /\ sibling(c) # C /\ sibling(c) # children(t) /\ sibling(c) \in Link
        BY <1>1, <1>2, <2>2, <4>1, SpotsApart, Links DEF B, C
      <4> QED
        BY <2>8, <4>1, <4>2
    <3> QED
      BY <1>6, <2>7, <3>1 DEF FamilyOK
  <2>10. ASSUME NEW q \in Task PROVE \E w \in Seq(Task) : Enumerates(w, Kids(q)') /\ Ring(next', q, w)
    <3>1. CASE q = t
      <4> DEFINE w == << >>
      <4>1. w \in Seq(Task) /\ Len(w) = 0 /\ 1 .. Len(w) = {} /\ 0 .. Len(w) = {0}
        OBVIOUS
      <4> HIDE DEF w
      <4>2. Enumerates(w, Kids(q)')
        BY <1>5, <3>1, <4>1 DEF Enumerates
      <4>3. Ring(next', q, w)
        BY <2>8, <3>1, <4>1 DEF Spot, Ring
      <4> QED
        BY <4>1, <4>2, <4>3
    <3>2. CASE q = init
      <4>1. Kids(init) \cap Kids(t) = {}
        BY <1>3 DEF Kids
      <4>2. Enumerates(Joined(s, u), Kids(init) \cup Kids(t))
        BY <1>1, <1>2, <4>1, JoinedIs
      <4>3. ASSUME NEW i \in 0 .. Len(s) - 1
            PROVE  next'[Spot(init, s, i)] = Spot(init, s, i + 1)
        <5>1. i \in 0 .. Len(s) /\ i # Len(s)
          BY <1>8
        <5>2. Spot(init, s, i) # B
          BY <1>1, <2>2, <5>1, SpotsApart DEF B
        <5>3. Spot(init, s, i) # C /\ Spot(init, s, i) # children(t) /\ Spot(init, s, i) \in Link
          BY <1>1, <1>2, <1>3, <2>2, <5>1, RingsApart, SpotsApart, Spots DEF C
        <5> QED
          BY <1>1, <2>8, <5>1, <5>2, <5>3 DEF Ring
      <4>4. ASSUME NEW i \in 1 .. Len(u) - 1 PROVE next'[Spot(t, u, i)] = Spot(t, u, i + 1)
        <5>1. i \in 0 .. Len(u) /\ i # Len(u) /\ i # 0
          BY <1>8
        <5>2. Spot(t, u, i) # C /\ Spot(t, u, i) # Spot(t, u, 0)
          BY <1>2, <2>2, <5>1, SpotsApart DEF C
        <5>3. Spot(t, u, i) # B /\ Spot(t, u, i) # children(t) /\ Spot(t, u, i) \in Link
          BY <1>1, <1>2, <1>3, <2>2, <5>1, <5>2, RingsApart, Spots DEF B
        <5> QED
          BY <1>2, <2>8, <5>1, <5>2, <5>3 DEF Ring
      <4>5. next'[Spot(init, s, Len(s))] = Spot(t, u, 1) /\ next'[Spot(t, u, Len(u))] = children(init)
        BY <2>8 DEF B, C
      <4>6. Ring(next', init, Joined(s, u))
        BY <2>1, <4>3, <4>4, <4>5, JoinedRing
      <4> QED
        BY <1>3, <1>5, <3>2, <4>2, <4>6 DEF Enumerates
    <3>3. CASE q # t /\ q # init
      <4>1. ASSUME NEW w \in Seq(Task), Enumerates(w, Kids(q)), NEW i \in 0 .. Len(w)
            PROVE  next'[Spot(q, w, i)] = next[Spot(q, w, i)]
        <5>1. Spot(q, w, i) # B /\ Spot(q, w, i) # C
          BY <1>1, <1>2, <2>2, <3>3, <4>1, RingsApart DEF B, C
        <5>2. Spot(q, w, i) # children(t) /\ Spot(q, w, i) \in Link
          BY <3>3, <4>1, SpotsApart, Spots
        <5> QED
          BY <2>8, <5>1, <5>2
      <4> QED
        BY <1>5, <3>3, <4>1, OtherRing
    <3> QED
      BY <3>1, <3>2, <3>3
  <2> QED
    BY <1>5, <2>9, <2>10, PrimedRings
<1> QED
  BY <1>9, <1>10

LEMMA ReapFamily ==
    ASSUME FamilyOK, RingsOK, NEW t \in Task, Reap(t)
    PROVE  /\ FamilyOK' /\ RingsOK'
           /\ \A q \in Task : Kids(q)' = Kids(q) \ {t}
<1> USE Roots
<1> DEFINE p == parent[t]
<1>1. /\ Permutes(next) /\ state[t] = "zombie" /\ t # init_task /\ t # init
      /\ parent \in [Task -> Task] /\ state \in [Task -> {"free", "alive", "zombie", "unlinked"}]
      /\ p \in Task /\ t \in Kids(p) /\ \A q \in Task : q # p => t \notin Kids(q)
  BY DEF FamilyOK, Reap, Kids
<1> HIDE DEF p
<1>2. PICK s \in Seq(Task) : Enumerates(s, Kids(p)) /\ Ring(next, p, s)
  BY <1>1, RingOf
<1>3. PICK k \in 1 .. Len(s) : s[k] = t
  BY <1>1, <1>2 DEF Enumerates
<1>4. /\ Len(s) \in Nat /\ k \in Int /\ k - 1 \in 0 .. Len(s) /\ k \in 0 .. Len(s) /\ k - 1 # k
      /\ (k - 1) + 1 = k
  BY <1>3
<1> DEFINE B == Spot(p, s, k - 1)
<1>5. /\ Spot(p, s, k) = sibling(t) /\ B \in Link /\ sibling(t) \in Link
      /\ next[B] = sibling(t) /\ next[sibling(t)] = Spot(p, s, k + 1) /\ B # sibling(t)
  <2>1. Spot(p, s, k) = sibling(t) /\ B \in Link /\ sibling(t) \in Link
    BY <1>1, <1>3, <1>4, Spots, Links
  <2>2. next[B] = Spot(p, s, k) /\ next[Spot(p, s, k)] = Spot(p, s, k + 1)
    BY <1>2, <1>4 DEF Ring
  <2>3. B # Spot(p, s, k)
    BY <1>1, <1>2, <1>4, SpotsApart
  <2> QED
    BY <2>1, <2>2, <2>3
<1>6. Before(sibling(t)) = B
  BY <1>1, <1>5, BeforeIs
<1> HIDE DEF B
<1>7. next' = [next EXCEPT ![B] = next[sibling(t)], ![sibling(t)] = next[B]]
  BY <1>5, <1>6 DEF Reap
<1>8. Permutes(next')
  BY <1>1, <1>5, <1>7, Swap
<1>9. /\ next'[B] = Spot(p, s, k + 1) /\ next'[sibling(t)] = sibling(t)
      /\ \A l \in Link : l # B /\ l # sibling(t) => next'[l] = next[l]
  BY <1>1, <1>5, <1>7 DEF Permutes
<1>10. parent' = parent /\ \A c \in Task : state'[c] = IF c = t THEN "unlinked" ELSE state[c]
  BY <1>1 DEF Reap
<1>11. \A q \in Task : Kids(q)' = Kids(q) \ {t}
  BY <1>10 DEF Kids
<1>12. FamilyOK'
  <2>1. state' \in [Task -> {"free", "alive", "zombie", "unlinked"}]
    BY <1>1 DEF Reap
  <2>2. /\ state'[init_task] = "alive" /\ parent'[init_task] = init_task
        /\ state'[init] = "alive" /\ parent'[init] = init_task
    BY <1>1, <1>10 DEF FamilyOK
  <2>3. ASSUME NEW c \in Task, state'[c] \in {"alive", "zombie"}
        PROVE  /\ state'[parent'[c]] = "alive"
               /\ parent'[c] = init_task => c \in {init_task, init}
    <3>1. state[c] \in {"alive", "zombie"} /\ parent[c] \in Task
      BY <1>1, <1>10, <2>3
    <3>2. state[parent[c]] = "alive" /\ (parent[c] = init_task => c \in {init_task, init})
      BY <3>1 DEF FamilyOK
    <3> QED
      BY <1>1, <1>10, <3>1, <3>2
  <2>4. ASSUME NEW c \in Task, state'[c] \in {"free", "unlinked"}
        PROVE  next'[sibling(c)] = sibling(c)
    <3>1. CASE c = t
      BY <1>9, <3>1
    <3>2. CASE c # t
      <4>1. state[c] \in {"free", "unlinked"} /\ c \in Task \ Kids(p)
        BY <1>10, <2>4, <3>2 DEF Kids
      <4>2. sibling(c) # sibling(t) /\ sibling(c) # B /\ sibling(c) \in Link
        BY <1>1, <1>2, <1>4, <3>2, <4>1, SpotsApart, Links DEF B
      <4> QED
        BY <1>9, <4>1, <4>2 DEF FamilyOK
    <3> QED
      BY <3>1, <3>2
  <2> QED
    BY <1>1, <1>8, <1>10, <2>1, <2>2, <2>3, <2>4 DEF FamilyOK
<1>13. ASSUME NEW q \in Task PROVE \E w \in Seq(Task) : Enumerates(w, Kids(q)') /\ Ring(next', q, w)
  <2>1. CASE q = p
    <3>1. Enumerates(Without(s, k), Kids(p) \ {t})
      BY <1>2, <1>3, WithoutIs
    <3>2. ASSUME NEW i \in 0 .. Len(s), i # k - 1, i # k
          PROVE  next'[Spot(p, s, i)] = Spot(p, s, i + 1)
      <4>1. Spot(p, s, i) # B /\ Spot(p, s, i) # Spot(p, s, k) /\ Spot(p, s, i) \in Link
        BY <1>1, <1>2, <1>4, <3>2, SpotsApart, Spots DEF B
      <4> QED
        BY <1>2, <1>5, <1>9, <4>1 DEF Ring
    <3>3. next'[Spot(p, s, k - 1)] = Spot(p, s, k + 1)
      BY <1>9 DEF B
    <3>4. Ring(next', p, Without(s, k))
      BY <1>1, <3>2, <3>3, WithoutRing
    <3> QED
      BY <1>11, <2>1, <3>1, <3>4 DEF Enumerates
  <2>2. CASE q # p
    <3>1. ASSUME NEW w \in Seq(Task), Enumerates(w, Kids(q)), NEW i \in 0 .. Len(w)
          PROVE  next'[Spot(q, w, i)] = next[Spot(q, w, i)]
      <4>1. Spot(q, w, i) # B /\ Spot(q, w, i) # Spot(p, s, k) /\ Spot(q, w, i) \in Link
        BY <1>1, <1>2, <1>4, <2>2, <3>1, RingsApart, Spots DEF B
      <4> QED
        BY <1>5, <1>9, <4>1
    <3>2. Kids(q)' = Kids(q)
      BY <1>1, <1>11, <2>2
    <3> QED
      BY <3>1, <3>2, OtherRing
  <2> QED
    BY <2>1, <2>2
<1> QED
  BY <1>11, <1>12, <1>13, PrimedRings

LEMMA FreeFamily ==
    ASSUME FamilyOK, RingsOK, NEW t \in Task, Free(t)
    PROVE  /\ FamilyOK' /\ RingsOK'
           /\ \A q \in Task : Kids(q)' = Kids(q)
<1> USE Roots
<1>1. /\ state \in [Task -> {"free", "alive", "zombie", "unlinked"}] /\ state[t] = "unlinked"
      /\ parent' = parent /\ next' = next
      /\ \A c \in Task : state'[c] = IF c = t THEN "free" ELSE state[c]
      /\ state' \in [Task -> {"free", "alive", "zombie", "unlinked"}]
  BY DEF FamilyOK, Free
<1>2. \A q \in Task : Kids(q)' = Kids(q)
  BY <1>1 DEF Kids
<1>3. FamilyOK'
  BY <1>1 DEF FamilyOK
<1>4. RingsOK'
  BY <1>1, <1>2, RingOf, PrimedRings
<1> QED
  BY <1>2, <1>3, <1>4

LEMMA StillFamily ==
    ASSUME FamilyOK, RingsOK, UNCHANGED treeVars
    PROVE  /\ FamilyOK' /\ RingsOK'
           /\ \A q \in Task : Kids(q)' = Kids(q)
<1>1. state' = state /\ parent' = parent /\ next' = next
  BY DEF treeVars
<1>2. \A q \in Task : Kids(q)' = Kids(q)
  BY <1>1 DEF Kids
<1>3. FamilyOK'
  BY <1>1 DEF FamilyOK
<1>4. RingsOK'
  BY <1>1, <1>2, RingOf, PrimedRings
<1> QED
  BY <1>2, <1>3, <1>4

\* Adding one to a remainder.
LEMMA Divided ==
    ASSUME NEW a \in Nat, NEW m \in Nat, m > 0
    PROVE  \E q \in Nat : \E r \in 0 .. m - 1 : a = m * q + r /\ a % m = r
<1>1. a % m \in 0 .. m - 1
  OBVIOUS
<1>2. \E q \in Nat : a = m * q + (a % m)
  BY Z3
<1> QED
  BY <1>1, <1>2

LEMMA Remainder ==
    ASSUME NEW m \in Nat, m > 0, NEW q \in Nat, NEW r \in 0 .. m - 1
    PROVE  (m * q + r) % m = r
  OBVIOUS

LEMMA ModStep ==
    ASSUME NEW a \in Nat, NEW m \in Nat, m > 0
    PROVE  ((a % m) + 1) % m = (a + 1) % m
<1>1. PICK q \in Nat : \E r \in 0 .. m - 1 : a = m * q + r /\ a % m = r
  BY Divided
<1>2. PICK r \in 0 .. m - 1 : a = m * q + r /\ a % m = r
  BY <1>1
<1>3. CASE r < m - 1
  <2>1. r + 1 \in 0 .. m - 1 /\ a + 1 = m * q + (r + 1)
    BY <1>2, <1>3
  <2>2. (m * q + (r + 1)) % m = r + 1
    BY <2>1, Remainder
  <2>3. (r + 1) % m = r + 1
    BY <2>1
  <2> QED
    BY <1>2, <2>1, <2>2, <2>3
<1>4. CASE r = m - 1
  <2>1. r + 1 = m * 1 + 0 /\ a + 1 = m * (q + 1) + 0 /\ 0 \in 0 .. m - 1
    BY <1>2, <1>4
  <2>2. (m * 1 + 0) % m = 0 /\ (m * (q + 1) + 0) % m = 0
    BY <2>1, Remainder
  <2> QED
    BY <1>2, <2>1, <2>2
<1> QED
  BY <1>3, <1>4

LEMMA ModSmall ==
    ASSUME NEW m \in Nat, m > 0, NEW a \in 0 .. m - 1
    PROVE  a % m = a
  OBVIOUS

LEMMA ModRange ==
    ASSUME NEW a \in Nat, NEW m \in Nat, m > 0
    PROVE  a % m \in 0 .. m - 1
  OBVIOUS
------------------------------------------------------------------------------
\* The types.

RestOK == /\ forks \in 0 .. MaxForks
          /\ walk_pc \in {"load", "task", "children", "done"}
          /\ task \in Task
          /\ node \in Link
          /\ child_count \in 0 .. UintMax
          /\ current \in Task
          /\ printed \in Seq([task : Task, count : 0 .. UintMax])
          /\ changes \subseteq Change

\* The process tree as the kernel keeps it.
TreeOK == FamilyOK /\ RingsOK

LEMMA TreeTypeSplit == FamilyOK /\ RestOK => TreeTypeOK
  BY DEF FamilyOK, Permutes, RestOK, TreeTypeOK

LEMMA Noted ==
    ASSUME NEW R, NoteChange(R)
    PROVE  changes \subseteq changes' /\ (Walking => R \subseteq changes')
  BY DEF NoteChange

LEMMA NotedType ==
    ASSUME changes \subseteq Change, NEW R \in SUBSET Change, NoteChange(R)
    PROVE  changes' \subseteq Change
  BY DEF NoteChange

LEMMA KernelRest ==
    ASSUME RestOK, Kernel
    PROVE  RestOK'
<1> USE ProcTreeAssumption DEF Change
<1>1. forks' \in 0 .. MaxForks
  <2>1. forks' = forks \/ (forks < MaxForks /\ forks' = forks + 1)
    BY DEF Kernel, Fork, Exit, Reap, Free
  <2> QED
    BY <2>1 DEF RestOK
<1>2. UNCHANGED walkVars
  BY DEF Kernel, Fork, Exit, Reap, Free
<1>3. changes' \subseteq Change
  <2>1. \E R \in SUBSET Change : NoteChange(R)
    <3>1. ASSUME NEW p \in Task, NEW t \in Task, Fork(p, t) PROVE \E R \in SUBSET Change : NoteChange(R)
      BY <3>1 DEF Fork
    <3>2. ASSUME NEW t \in Task, Exit(t) PROVE \E R \in SUBSET Change : NoteChange(R)
      <4>1. {"exit"} \cup (IF AtChildOf(t) THEN {"unlink"} ELSE {}) \in SUBSET Change
        OBVIOUS
      <4> QED
        BY <3>2, <4>1 DEF Exit
    <3>3. ASSUME NEW t \in Task, Reap(t) PROVE \E R \in SUBSET Change : NoteChange(R)
      <4>1. {"reap"} \cup (IF walk_pc = "children" /\ node = sibling(t) THEN {"unlink"} ELSE {}) \in SUBSET Change
        OBVIOUS
      <4> QED
        BY <3>3, <4>1 DEF Reap
    <3>4. ASSUME NEW t \in Task, Free(t) PROVE \E R \in SUBSET Change : NoteChange(R)
      <4>1. (IF t = task \/ t = node[1] THEN {"free"} ELSE {}) \in SUBSET Change
        OBVIOUS
      <4> QED
        BY <3>4, <4>1 DEF Free
    <3> QED
      BY <3>1, <3>2, <3>3, <3>4 DEF Kernel
  <2> QED
    BY <2>1, NotedType DEF RestOK
<1> QED
  BY <1>1, <1>2, <1>3 DEF RestOK, walkVars

LEMMA WalkRest ==
    ASSUME FamilyOK, RestOK, Load \/ Walk
    PROVE  RestOK'
<1> USE ProcTreeAssumption
<1>1. next \in [Link -> Link] /\ parent \in [Task -> Task]
  BY DEF FamilyOK, Permutes
<1>2. CASE Load
  BY <1>2 DEF Load, RestOK, treeVars
<1>3. CASE NextTask
  BY <1>1, <1>3, Links DEF NextTask, RestOK, treeVars
<1>4. CASE CountChild
  <2>1. child_count' \in 0 .. UintMax
    <3>1. child_count + 1 \in Nat /\ UintMax + 1 \in Nat /\ UintMax + 1 > 0 /\ (UintMax + 1) - 1 = UintMax
      BY DEF RestOK
    <3> QED
      BY <1>4, <3>1, ModRange DEF CountChild
  <2> QED
    BY <1>1, <1>4, <2>1 DEF CountChild, RestOK, treeVars
<1>5. CASE PrintTask
  <2>1. changes' \subseteq Change
    <3>1. (IF state[parent[task]] = "free" THEN {"free"} ELSE {}) \in SUBSET Change
      BY DEF Change
    <3> QED
      BY <1>5, <3>1, NotedType DEF PrintTask, RestOK
  <2>2. printed' \in Seq([task : Task, count : 0 .. UintMax])
    BY <1>5 DEF PrintTask, RestOK
  <2> QED
    BY <1>1, <1>5, <2>1, <2>2 DEF PrintTask, RestOK, treeVars
<1> QED
  BY <1>2, <1>3, <1>4, <1>5 DEF Walk

LEMMA RestStutters == RestOK /\ UNCHANGED procTreeVars => RestOK'
  BY DEF RestOK, procTreeVars, treeVars, walkVars

LEMMA InitRest == TreeInit => RestOK
  BY ProcTreeAssumption, Links DEF TreeInit, RestOK

\* Whatever the module does leaves the tree alone.
LEMMA WalkTree == (Load \/ Walk) => UNCHANGED treeVars
  BY DEF Load, Walk, NextTask, CountChild, PrintTask

LEMMA TreeSteps ==
    ASSUME TreeOK, [TreeNext]_procTreeVars
    PROVE  TreeOK'
<1>1. CASE Load \/ Walk
  BY <1>1, WalkTree, StillFamily DEF TreeOK
<1>2. CASE Kernel
  <2>1. ASSUME NEW p \in Task, NEW t \in Task, Fork(p, t) PROVE TreeOK'
    BY <2>1, ForkFamily DEF TreeOK
  <2>2. ASSUME NEW t \in Task, Exit(t) PROVE TreeOK'
    BY <2>2, ExitFamily DEF TreeOK
  <2>3. ASSUME NEW t \in Task, Reap(t) PROVE TreeOK'
    BY <2>3, ReapFamily DEF TreeOK
  <2>4. ASSUME NEW t \in Task, Free(t) PROVE TreeOK'
    BY <2>4, FreeFamily DEF TreeOK
  <2> QED
    BY <1>2, <2>1, <2>2, <2>3, <2>4 DEF Kernel
<1>3. CASE UNCHANGED procTreeVars
  BY <1>3, StillFamily DEF TreeOK, procTreeVars
<1> QED
  BY <1>1, <1>2, <1>3 DEF TreeNext

LEMMA RestSteps ==
    ASSUME TreeOK, RestOK, [TreeNext]_procTreeVars
    PROVE  RestOK'
  BY KernelRest, WalkRest, RestStutters DEF TreeNext, TreeOK

\* Whatever the kernel does, the links of the children of every task make a
\* circle through its children and its head (the lists of hw4p3.c:43), and every
\* process but the root has a living parent.
THEOREM ListsIntact == TreeSpec => []TreeOK
<1>1. TreeInit => TreeOK
  BY InitFamily DEF TreeOK
<1>2. TreeOK /\ [TreeNext]_procTreeVars => TreeOK'
  BY TreeSteps
<1> QED
  BY <1>1, <1>2, PTL DEF TreeSpec

\* The type invariant of ProcTree, the variables of hw4p3_init() and the tree it
\* walks; the successors of links never fall together.
THEOREM TreeTypeCorrect == TreeSpec => []TreeTypeOK
<1>1. TreeInit => TreeOK /\ RestOK
  BY InitFamily, InitRest DEF TreeOK
<1>2. TreeOK /\ RestOK /\ [TreeNext]_procTreeVars => (TreeOK /\ RestOK)'
  BY TreeSteps, RestSteps
<1>3. TreeOK /\ RestOK => TreeTypeOK
  BY TreeTypeSplit DEF TreeOK
<1> QED
  BY <1>1, <1>2, <1>3, PTL DEF TreeSpec

\* The processes that are printed, and the one at which the walk stands, are
\* current, its parent and so on, as long as none has exited.
ChainOK ==
    /\ walk_pc = "load" => printed = << >> /\ changes = {}
    /\ "exit" \notin changes =>
          /\ \A i \in 1 .. Len(printed) :
                /\ state[printed[i].task] = "alive" /\ printed[i].task # init_task
                /\ printed[i].task = IF i = 1 THEN current ELSE parent[printed[i - 1].task]
          /\ walk_pc # "load" =>
                /\ task = IF Len(printed) = 0 THEN current ELSE parent[printed[Len(printed)].task]
                /\ state[task] = "alive" /\ current # init_task
          /\ walk_pc = "children" => task # init_task
          /\ walk_pc = "done" => task = init_task

LEMMA Appended ==
    ASSUME NEW S, NEW q \in Seq(S), NEW e \in S
    PROVE  /\ Append(q, e) \in Seq(S) /\ Len(Append(q, e)) = Len(q) + 1 /\ Len(q) \in Nat
           /\ \A i \in 1 .. Len(q) : Append(q, e)[i] = q[i]
           /\ Append(q, e)[Len(q) + 1] = e
  OBVIOUS

LEMMA PrintedIs ==
    ASSUME RestOK
    PROVE  /\ Len(printed) \in Nat
           /\ \A i \in 1 .. Len(printed) : printed[i].task \in Task /\ printed[i].count \in 0 .. UintMax
<1> DEFINE R == [task : Task, count : 0 .. UintMax]
<1>1. printed \in Seq(R)
  BY DEF RestOK
<1>2. \A r \in R : r.task \in Task /\ r.count \in 0 .. UintMax
  OBVIOUS
<1> HIDE DEF R
<1>3. Len(printed) \in Nat /\ \A i \in 1 .. Len(printed) : printed[i] \in R
  BY <1>1
<1> QED
  BY <1>2, <1>3

\* Nothing of this depends on anything but the states and parents of living
\* processes.
LEMMA ChainKept ==
    ASSUME FamilyOK, RestOK, ChainOK, UNCHANGED walkVars,
           changes \subseteq changes', walk_pc = "load" => changes' = changes,
           "exit" \notin changes' =>
              \A t \in Task : state[t] = "alive" => state'[t] = "alive" /\ parent'[t] = parent[t]
    PROVE  ChainOK'
<1>1. walk_pc' = walk_pc /\ task' = task /\ current' = current /\ printed' = printed
  BY DEF walkVars
<1>2. ASSUME "exit" \notin changes'
      PROVE  /\ \A i \in 1 .. Len(printed) :
                   /\ state'[printed[i].task] = "alive" /\ printed[i].task # init_task
                   /\ printed[i].task = IF i = 1 THEN current ELSE parent'[printed[i - 1].task]
             /\ walk_pc # "load" =>
                   /\ task = IF Len(printed) = 0 THEN current ELSE parent'[printed[Len(printed)].task]
                   /\ state'[task] = "alive" /\ current # init_task
  <2>1. "exit" \notin changes
    BY <1>2
  <2>2. \A i \in 1 .. Len(printed) : /\ state'[printed[i].task] = "alive"
                                     /\ parent'[printed[i].task] = parent[printed[i].task]
    BY <1>2, <2>1, PrintedIs DEF ChainOK
  <2>3. ASSUME NEW i \in 1 .. Len(printed)
        PROVE  printed[i].task = IF i = 1 THEN current ELSE parent'[printed[i - 1].task]
    <3>1. printed[i].task = IF i = 1 THEN current ELSE parent[printed[i - 1].task]
      BY <2>1 DEF ChainOK
    <3>2. i # 1 => i - 1 \in 1 .. Len(printed)
      BY PrintedIs
    <3> QED
      BY <2>2, <3>1, <3>2
  <2>4. ASSUME walk_pc # "load"
        PROVE  task = IF Len(printed) = 0 THEN current ELSE parent'[printed[Len(printed)].task]
    <3>1. task = IF Len(printed) = 0 THEN current ELSE parent[printed[Len(printed)].task]
      BY <2>1, <2>4 DEF ChainOK
    <3>2. Len(printed) # 0 => Len(printed) \in 1 .. Len(printed)
      BY PrintedIs
    <3> QED
      BY <2>2, <3>1, <3>2
  <2>5. walk_pc # "load" => state'[task] = "alive" /\ current # init_task
    BY <1>2, <2>1 DEF ChainOK, RestOK
  <2>6. \A i \in 1 .. Len(printed) : printed[i].task # init_task
    BY <2>1 DEF ChainOK
  <2> QED
    BY <2>2, <2>3, <2>4, <2>5, <2>6
<1> QED
  BY <1>1, <1>2 DEF ChainOK

LEMMA KernelChain ==
    ASSUME FamilyOK, RestOK, ChainOK, Kernel
    PROVE  ChainOK'
<1>1. UNCHANGED walkVars
  BY DEF Kernel, Fork, Exit, Reap, Free
<1>2. walk_pc = "load" => changes' = changes
  BY DEF Kernel, Fork, Exit, Reap, Free, NoteChange, Walking
<1>3. changes \subseteq changes'
  BY Noted DEF Kernel, Fork, Exit, Reap, Free
<1>4. CASE Walking
  <2>1. ASSUME NEW p \in Task, NEW t \in Task, Fork(p, t), NEW c \in Task, state[c] = "alive"
        PROVE  state'[c] = "alive" /\ parent'[c] = parent[c]
    BY <2>1 DEF Fork, FamilyOK
  <2>2. ASSUME NEW t \in Task, Exit(t) PROVE "exit" \in changes'
    BY <1>4, <2>2 DEF Exit, NoteChange
  <2>3. ASSUME NEW t \in Task, Reap(t) \/ Free(t), NEW c \in Task, state[c] = "alive"
        PROVE  state'[c] = "alive" /\ parent'[c] = parent[c]
    BY <2>3 DEF Reap, Free, FamilyOK
  <2>4. "exit" \notin changes' =>
           \A c \in Task : state[c] = "alive" => state'[c] = "alive" /\ parent'[c] = parent[c]
    BY <2>1, <2>2, <2>3 DEF Kernel
  <2> QED
    BY <1>1, <1>2, <1>3, <2>4, ChainKept
<1>5. CASE ~ Walking
  <2>1. walk_pc = "load" /\ walk_pc' = "load" /\ printed' = printed
    BY <1>1, <1>5 DEF Kernel, Walking, RestOK, walkVars
  <2>2. printed = << >> /\ changes = {} /\ Len(<< >>) = 0 /\ 1 .. 0 = {}
    BY <2>1 DEF ChainOK
  <2> QED
    BY <1>2, <2>1, <2>2 DEF ChainOK
<1> QED
  BY <1>4, <1>5

LEMMA WalkChain ==
    ASSUME FamilyOK, RestOK, ChainOK, Load \/ Walk
    PROVE  ChainOK'
<1>1. state' = state /\ parent' = parent
  BY WalkTree DEF treeVars
<1>2. CASE Load
  <2>1. printed = << >> /\ changes = {} /\ Len(<< >>) = 0 /\ 1 .. 0 = {}
    BY <1>2 DEF Load, ChainOK
  <2> QED
    BY <1>1, <1>2, <2>1 DEF Load, ChainOK
<1>3. CASE NextTask
  <2>1. /\ task' = task /\ current' = current /\ printed' = printed /\ changes' = changes
        /\ walk_pc = "task" /\ walk_pc' = IF task = init_task THEN "done" ELSE "children"
    BY <1>3 DEF NextTask
  <2> QED
    BY <1>1, <2>1 DEF ChainOK
<1>4. CASE CountChild
  BY <1>1, <1>4 DEF CountChild, ChainOK
<1>5. CASE PrintTask
  <2> DEFINE n == Len(printed)
             r == [task |-> task, count |-> child_count]
  <2>1. /\ walk_pc = "children" /\ walk_pc' = "task" /\ printed' = Append(printed, r)
        /\ task' = parent[task] /\ current' = current
    BY <1>5 DEF PrintTask
  <2>2. r \in [task : Task, count : 0 .. UintMax] /\ printed \in Seq([task : Task, count : 0 .. UintMax])
        /\ r.task = task
    BY DEF RestOK
  <2> HIDE DEF r
  <2>3. /\ Len(printed') = n + 1 /\ n \in Nat /\ \A i \in 1 .. n : printed'[i] = printed[i]
        /\ printed'[n + 1] = r
    BY <2>1, <2>2, Appended
  <2>4. changes \subseteq changes'
    BY <1>5, Noted DEF PrintTask
  <2>5. ASSUME "exit" \notin changes'
        PROVE  /\ \A i \in 1 .. n + 1 :
                     /\ state[printed'[i].task] = "alive" /\ printed'[i].task # init_task
                     /\ printed'[i].task = IF i = 1 THEN current ELSE parent[printed'[i - 1].task]
               /\ task' = parent[printed'[n + 1].task]
               /\ state[task'] = "alive" /\ current # init_task
    <3>1. "exit" \notin changes
      BY <2>4, <2>5
    <3>2. /\ task = IF n = 0 THEN current ELSE parent[printed[n].task]
          /\ state[task] = "alive" /\ current # init_task /\ task # init_task
      BY <2>1, <3>1 DEF ChainOK
    <3>3. state[parent[task]] = "alive"
      BY <3>2 DEF FamilyOK, RestOK
    <3>4. ASSUME NEW i \in 1 .. n + 1
          PROVE  /\ state[printed'[i].task] = "alive" /\ printed'[i].task # init_task
                 /\ printed'[i].task = IF i = 1 THEN current ELSE parent[printed'[i - 1].task]
      <4>1. CASE i \in 1 .. n
        <5>1. /\ state[printed[i].task] = "alive" /\ printed[i].task # init_task
              /\ printed[i].task = IF i = 1 THEN current ELSE parent[printed[i - 1].task]
          BY <3>1, <4>1 DEF ChainOK
        <5>2. printed'[i] = printed[i] /\ (i # 1 => i - 1 \in 1 .. n)
          BY <2>3, <4>1
        <5> QED
          BY <2>3, <5>1, <5>2
      <4>2. CASE i = n + 1
        <5>1. i = 1 <=> n = 0
          BY <2>3, <4>2
        <5>2. n # 0 => n \in 1 .. n /\ i - 1 = n
          BY <2>3, <4>2
        <5> QED
          BY <2>2, <2>3, <3>2, <4>2, <5>1, <5>2
      <4> QED
        BY <2>3, <4>1, <4>2
    <3> QED
      BY <2>1, <2>2, <2>3, <3>2, <3>3, <3>4
  <2>6. n + 1 # 0
    BY <2>3
  <2> HIDE DEF n
  <2> QED
    BY <1>1, <2>1, <2>3, <2>5, <2>6 DEF ChainOK
<1> QED
  BY <1>2, <1>3, <1>4, <1>5 DEF Walk

LEMMA ChainSteps ==
    ASSUME TreeOK, RestOK, ChainOK, [TreeNext]_procTreeVars
    PROVE  ChainOK'
<1>1. CASE UNCHANGED procTreeVars
  BY <1>1 DEF procTreeVars, treeVars, walkVars, ChainOK
<1> QED
  BY <1>1, KernelChain, WalkChain DEF TreeNext, TreeOK

\* Up to process 1, and no further.
LEMMA ChainEnds ==
    ASSUME FamilyOK, RestOK, ChainOK, "exit" \notin changes, walk_pc = "done"
    PROVE  Len(printed) > 0 /\ printed[Len(printed)].task = init
<1>1. /\ task = init_task /\ current # init_task
      /\ task = IF Len(printed) = 0 THEN current ELSE parent[printed[Len(printed)].task]
  BY DEF ChainOK
<1>2. Len(printed) > 0 /\ Len(printed) \in 1 .. Len(printed)
  BY <1>1, PrintedIs
<1>3. /\ state[printed[Len(printed)].task] = "alive" /\ printed[Len(printed)].task # init_task
      /\ printed[Len(printed)].task \in Task
  BY <1>2, PrintedIs DEF ChainOK
<1>4. parent[printed[Len(printed)].task] = init_task
  BY <1>1, <1>2, PrintedIs
<1> QED
  BY <1>2, <1>3, <1>4 DEF FamilyOK

\* The count in the line before line i, from which it goes on, and the number
\* of p's children.
Base(lines, i) == IF i = 1 THEN 0 ELSE lines[i - 1].count

Living(par, st, p) == Cardinality({c \in Task : par[c] = p /\ st[c] \in {"alive", "zombie"}})

\* Where the walk stands in a list, and what it has counted.
CountOK == changes = {} =>
    /\ \A i \in 1 .. Len(printed) :
          printed[i].count = (Living(parent, state, printed[i].task) + Base(printed, i)) % (UintMax + 1)
    /\ walk_pc = "task" => child_count = Base(printed, Len(printed) + 1)
    /\ walk_pc = "children" =>
          \E s \in Seq(Task) :
             /\ Enumerates(s, Kids(task)) /\ Ring(next, task, s)
             /\ \E i \in 1 .. Len(s) + 1 :
                   /\ node = Spot(task, s, i)
                   /\ child_count = ((i - 1) + Base(printed, Len(printed) + 1)) % (UintMax + 1)

LEMMA LivingIs ==
    ASSUME FamilyOK, NEW p \in Task, p # init_task, NEW s, Enumerates(s, Kids(p))
    PROVE  Living(parent, state, p) = Len(s)
<1>1. {c \in Task : parent[c] = p /\ state[c] \in {"alive", "zombie"}} = Kids(p)
  BY DEF FamilyOK, Kids
<1>2. s \in [1 .. Len(s) -> Kids(p)] /\ Len(s) \in Nat
  <2>1. s \in [1 .. Len(s) -> Task] /\ Len(s) \in Nat /\ \A i \in 1 .. Len(s) : s[i] \in Kids(p)
    BY DEF Enumerates
  <2> QED
    BY <2>1
<1>3. s \in Bijection(1 .. Len(s), Kids(p))
  BY <1>2 DEF Enumerates, Bijection, Injection, Surjection, IsInjective
<1>4. ExistsBijection(1 .. Len(s), Kids(p))
  BY <1>3 DEF ExistsBijection
<1>5. Cardinality(Kids(p)) = Len(s)
  BY <1>2, <1>4, FS_CountingElements
<1> QED
  BY <1>1, <1>5 DEF Living

LEMMA BaseType ==
    ASSUME RestOK, NEW i \in 1 .. Len(printed) + 1
    PROVE  Base(printed, i) \in 0 .. UintMax
<1>1. i # 1 => i - 1 \in 1 .. Len(printed)
  <2>1. Len(printed) \in Nat
    BY PrintedIs
  <2> QED
    BY <2>1
<1>2. CASE i = 1
  <2>1. Base(printed, i) = 0
    BY <1>2 DEF Base
  <2> QED
    BY <2>1, ProcTreeAssumption
<1>3. CASE i # 1
  <2>1. Base(printed, i) = printed[i - 1].count
    BY <1>3 DEF Base
  <2>2. printed[i - 1].count \in 0 .. UintMax
    BY <1>1, <1>3, PrintedIs
  <2> QED
    BY <2>1, <2>2
<1> QED
  BY <1>2, <1>3

\* What the kernel does to the tree while the module walks is a race, unless it
\* frees a task.
LEMMA Quiet ==
    ASSUME Kernel, Walking, changes' = {}
    PROVE  changes = {} /\ \E t \in Task : Free(t)
<1>1. ASSUME NEW p \in Task, NEW t \in Task, Fork(p, t) PROVE FALSE
  BY <1>1 DEF Fork, NoteChange
<1>2. ASSUME NEW t \in Task, Exit(t) PROVE FALSE
  BY <1>2 DEF Exit, NoteChange
<1>3. ASSUME NEW t \in Task, Reap(t) PROVE FALSE
  BY <1>3 DEF Reap, NoteChange
<1>4. ASSUME NEW t \in Task, Free(t) PROVE changes = {}
  BY <1>4 DEF Free, NoteChange
<1> QED
  BY <1>1, <1>2, <1>3, <1>4 DEF Kernel

LEMMA KernelCount ==
    ASSUME TreeOK, RestOK, ChainOK, CountOK, Kernel
    PROVE  CountOK'
<1>1. walk_pc' = walk_pc /\ task' = task /\ node' = node /\ child_count' = child_count /\ printed' = printed
  BY DEF Kernel, Fork, Exit, Reap, Free, walkVars
<1>2. SUFFICES ASSUME changes' = {} PROVE CountOK'
  BY DEF CountOK
<1>3. CASE Walking
  <2>1. changes = {}
    BY <1>2, <1>3, Quiet
  <2>2. PICK t \in Task : Free(t)
    BY <1>2, <1>3, Quiet
  <2>3. next' = next /\ parent' = parent /\ \A q \in Task : Kids(q)' = Kids(q)
    BY <2>2, FreeFamily DEF TreeOK, Free
  <2>4. \A c \in Task : state'[c] \in {"alive", "zombie"} <=> state[c] \in {"alive", "zombie"}
    BY <2>2 DEF TreeOK, Free, FamilyOK
  <2>5. \A q : {c \in Task : parent'[c] = q /\ state'[c] \in {"alive", "zombie"}}
               = {c \in Task : parent[c] = q /\ state[c] \in {"alive", "zombie"}}
    BY <2>3, <2>4
  <2>6. \A q : Living(parent', state', q) = Living(parent, state, q)
    BY <2>5 DEF Living
  <2>7. Kids(task)' = Kids(task)
    <3>1. PICK q \in Task : q = task
      BY DEF RestOK
    <3> QED
      BY <1>1, <2>3, <3>1 DEF Kids
  <2> QED
    BY <1>1, <2>1, <2>3, <2>6, <2>7 DEF CountOK
<1>4. CASE ~ Walking
  <2>1. walk_pc = "load" /\ walk_pc' = "load" /\ printed' = printed
    BY <1>1, <1>4 DEF Kernel, Walking, RestOK
  <2>2. printed = << >> /\ Len(<< >>) = 0 /\ 1 .. 0 = {}
    BY <2>1 DEF ChainOK
  <2> QED
    BY <2>1, <2>2 DEF CountOK
<1> QED
  BY <1>3, <1>4

LEMMA NextTaskCount ==
    ASSUME TreeOK, RestOK, ChainOK, CountOK, NextTask, changes = {}
    PROVE  CountOK'
<1>1. /\ state' = state /\ parent' = parent /\ next' = next
      /\ task' = task /\ child_count' = child_count /\ printed' = printed /\ changes' = changes
      /\ walk_pc = "task" /\ walk_pc' \in {"done", "children"}
      /\ walk_pc' = "children" => node' = next[children(task)]
  BY DEF NextTask, treeVars
<1>2. PICK s \in Seq(Task) : Enumerates(s, Kids(task)) /\ Ring(next, task, s)
  BY RingOf DEF TreeOK, RestOK
<1>3. /\ 1 \in 1 .. Len(s) + 1 /\ next[children(task)] = Spot(task, s, 1)
  <2>1. Len(s) \in Nat /\ 0 \in 0 .. Len(s) /\ 0 + 1 = 1
    BY <1>2
  <2>2. next[Spot(task, s, 0)] = Spot(task, s, 1)
    BY <1>2, <2>1 DEF Ring
  <2> QED
    BY <2>1, <2>2, Spots DEF RestOK
<1>4. child_count = ((1 - 1) + Base(printed, Len(printed) + 1)) % (UintMax + 1)
  <2>1. child_count = Base(printed, Len(printed) + 1)
    BY <1>1 DEF CountOK
  <2>2. child_count \in 0 .. (UintMax + 1) - 1 /\ UintMax + 1 \in Nat /\ UintMax + 1 > 0
        /\ (1 - 1) + child_count = child_count
    BY ProcTreeAssumption DEF RestOK
  <2> QED
    BY <2>1, <2>2, ModSmall
<1>5. Kids(task)' = Kids(task)
  BY <1>1 DEF Kids
<1>6. walk_pc' = "children" =>
          \E w \in Seq(Task) :
             /\ Enumerates(w, Kids(task)) /\ Ring(next, task, w)
             /\ \E i \in 1 .. Len(w) + 1 :
                   /\ node' = Spot(task, w, i)
                   /\ child_count = ((i - 1) + Base(printed, Len(printed) + 1)) % (UintMax + 1)
  BY <1>1, <1>2, <1>3, <1>4
<1> QED
  BY <1>1, <1>5, <1>6 DEF CountOK

LEMMA CountChildCount ==
    ASSUME TreeOK, RestOK, ChainOK, CountOK, CountChild, changes = {}
    PROVE  CountOK'
<1> DEFINE P == Base(printed, Len(printed) + 1)
           M == UintMax + 1
<1>1. /\ state' = state /\ parent' = parent /\ next' = next
      /\ task' = task /\ printed' = printed /\ changes' = changes
      /\ walk_pc = "children" /\ walk_pc' = "children" /\ node # children(task)
      /\ child_count' = (child_count + 1) % M /\ node' = next[node]
  BY DEF CountChild, treeVars
<1>2. PICK s \in Seq(Task) :
         /\ Enumerates(s, Kids(task)) /\ Ring(next, task, s)
         /\ \E i \in 1 .. Len(s) + 1 : node = Spot(task, s, i) /\ child_count = ((i - 1) + P) % M
  BY <1>1 DEF CountOK
<1>3. PICK i \in 1 .. Len(s) + 1 : node = Spot(task, s, i) /\ child_count = ((i - 1) + P) % M
  BY <1>2
<1>4. P \in Nat /\ M \in Nat /\ M > 0
  <2>1. Len(printed) + 1 \in 1 .. Len(printed) + 1
    BY PrintedIs
  <2> QED
    BY <2>1, BaseType, ProcTreeAssumption
<1> HIDE DEF P, M
<1>5. i # Len(s) + 1
  BY <1>1, <1>3, Spots DEF RestOK
<1>6. /\ i \in 0 .. Len(s) /\ i + 1 \in 1 .. Len(s) + 1 /\ (i - 1) + P \in Nat
      /\ ((i - 1) + P) + 1 = ((i + 1) - 1) + P
  <2>1. Len(s) \in Nat
    BY <1>2
  <2> QED
    BY <1>4, <1>5, <2>1
<1>7. node' = Spot(task, s, i + 1)
  BY <1>1, <1>2, <1>3, <1>6 DEF Ring
<1>8. child_count' = (((i + 1) - 1) + P) % M
  <2> DEFINE a == (i - 1) + P
  <2>1. a \in Nat /\ a + 1 = ((i + 1) - 1) + P /\ child_count = a % M
    BY <1>3, <1>6
  <2> HIDE DEF a
  <2>2. ((a % M) + 1) % M = (a + 1) % M
    BY <1>4, <2>1, ModStep
  <2> QED
    BY <1>1, <2>1, <2>2
<1>9. Kids(task)' = Kids(task)
  BY <1>1 DEF Kids
<1>10. \E w \in Seq(Task) :
             /\ Enumerates(w, Kids(task)) /\ Ring(next, task, w)
             /\ \E j \in 1 .. Len(w) + 1 :
                   node' = Spot(task, w, j) /\ child_count' = ((j - 1) + P) % M
  BY <1>2, <1>6, <1>7, <1>8
<1> QED
  BY <1>1, <1>9, <1>10 DEF CountOK, M, P

LEMMA PrintTaskCount ==
    ASSUME TreeOK, RestOK, ChainOK, CountOK, PrintTask, changes = {}
    PROVE  CountOK'
<1> DEFINE n == Len(printed)
           P == Base(printed, n + 1)
           M == UintMax + 1
           r == [task |-> task, count |-> child_count]
<1>1. /\ state' = state /\ parent' = parent
      /\ printed' = Append(printed, r) /\ child_count' = child_count
      /\ walk_pc = "children" /\ walk_pc' = "task" /\ node = children(task)
  BY DEF PrintTask, treeVars
<1>2. \A i \in 1 .. n : printed[i].count = (Living(parent, state, printed[i].task) + Base(printed, i)) % M
  BY <1>1 DEF CountOK
<1>3. PICK s \in Seq(Task) :
         /\ Enumerates(s, Kids(task)) /\ Ring(next, task, s)
         /\ \E i \in 1 .. Len(s) + 1 : node = Spot(task, s, i) /\ child_count = ((i - 1) + P) % M
  BY <1>1 DEF CountOK
<1>4. PICK i \in 1 .. Len(s) + 1 : node = Spot(task, s, i) /\ child_count = ((i - 1) + P) % M
  BY <1>3
<1>5. r \in [task : Task, count : 0 .. UintMax] /\ printed \in Seq([task : Task, count : 0 .. UintMax])
      /\ r.task = task /\ r.count = child_count
  BY DEF RestOK
<1> HIDE DEF r
<1>6. /\ Len(printed') = n + 1 /\ n \in Nat /\ \A j \in 1 .. n : printed'[j] = printed[j]
      /\ printed'[n + 1] = r
  BY <1>1, <1>5, Appended
<1>7. i = Len(s) + 1
  <2>1. SUFFICES ASSUME i \in 1 .. Len(s) PROVE FALSE
    <3>1. Len(s) \in Nat
      BY <1>3
    <3> QED
      BY <3>1
  <2>2. node = sibling(s[i]) /\ s[i] \in Task
    BY <1>4, <2>1, Spots DEF RestOK
  <2> QED
    BY <1>1, <2>2, Links DEF RestOK
<1>8. child_count = (Living(parent, state, task) + P) % M
  <2>1. task \in Task /\ task # init_task
    BY <1>1 DEF ChainOK, RestOK
  <2>2. Living(parent, state, task) = Len(s)
    BY <1>3, <2>1, LivingIs DEF TreeOK
  <2>3. i - 1 = Len(s)
    BY <1>3, <1>7
  <2> QED
    BY <1>4, <2>2, <2>3
<1> HIDE DEF n, M, P
<1>9. \A j \in 1 .. n + 1 : Base(printed', j) = Base(printed, j)
  <2>1. SUFFICES ASSUME NEW j \in 1 .. n + 1 PROVE Base(printed', j) = Base(printed, j)
    OBVIOUS
  <2>2. j # 1 => j - 1 \in 1 .. n
    BY <1>6
  <2> QED
    BY <1>6, <2>2 DEF Base
<1>10. \A j \in 1 .. n + 1 :
          printed'[j].count = (Living(parent, state, printed'[j].task) + Base(printed', j)) % M
  <2>1. SUFFICES ASSUME NEW j \in 1 .. n + 1
                 PROVE  printed'[j].count
                        = (Living(parent, state, printed'[j].task) + Base(printed', j)) % M
    OBVIOUS
  <2>2. Base(printed', j) = Base(printed, j)
    BY <1>9
  <2>3. CASE j \in 1 .. n
    BY <1>2, <1>6, <2>2, <2>3
  <2>4. CASE j = n + 1
    <3>1. printed'[j].count = child_count /\ printed'[j].task = task
      BY <1>5, <1>6, <2>4
    <3> QED
      BY <1>8, <2>2, <2>4, <3>1 DEF P
  <2> QED
    BY <1>6, <2>3, <2>4
<1>11. child_count' = Base(printed', Len(printed') + 1)
  <2>1. (n + 1) + 1 # 1 /\ ((n + 1) + 1) - 1 = n + 1
    BY <1>6
  <2> QED
    BY <1>1, <1>5, <1>6, <2>1 DEF Base
<1>12. /\ \A j \in 1 .. Len(printed') :
             printed'[j].count = (Living(parent', state', printed'[j].task) + Base(printed', j)) % M
  BY <1>1, <1>6, <1>10
<1> QED
  BY <1>1, <1>11, <1>12 DEF CountOK, M

LEMMA CountSteps ==
    ASSUME TreeOK, RestOK, ChainOK, CountOK, [TreeNext]_procTreeVars
    PROVE  CountOK'
<1>1. CASE Kernel
  BY <1>1, KernelCount
<1>2. CASE Load
  <2>1. printed = << >> /\ Len(<< >>) = 0 /\ 1 .. 0 = {} /\ 0 + 1 = 1 /\ printed' = printed
        /\ walk_pc' = "task" /\ child_count' = 0
    BY <1>2 DEF Load, ChainOK
  <2> QED
    BY <2>1 DEF CountOK, Base
<1>3. CASE Walk
  <2>1. changes \subseteq changes'
    BY <1>3, Noted DEF Walk, NextTask, CountChild, PrintTask
  <2>2. CASE changes = {}
    BY <1>3, <2>2, NextTaskCount, CountChildCount, PrintTaskCount DEF Walk
  <2>3. CASE changes # {}
    <3>1. changes' # {}
      BY <2>1, <2>3
    <3> QED
      BY <3>1 DEF CountOK
  <2> QED
    BY <2>2, <2>3
<1>4. CASE UNCHANGED procTreeVars
  <2>1. Kids(task)' = Kids(task)
    BY <1>4 DEF Kids, procTreeVars, treeVars, walkVars
  <2> QED
    BY <1>4, <2>1 DEF procTreeVars, treeVars, walkVars, CountOK
<1> QED
  BY <1>1, <1>2, <1>3, <1>4 DEF TreeNext

LEMMA InitChain == TreeInit => ChainOK /\ CountOK
<1>1. Len(<< >>) = 0 /\ 1 .. 0 = {}
  OBVIOUS
<1> QED
  BY <1>1 DEF TreeInit, ChainOK, CountOK

WalkOK == TreeOK /\ RestOK /\ ChainOK /\ CountOK

LEMMA WalkIsExact == WalkOK => WalkExact
<1> SUFFICES ASSUME WalkOK PROVE WalkExact
  OBVIOUS
<1>1. FamilyOK /\ RingsOK /\ RestOK /\ ChainOK /\ CountOK
  BY DEF WalkOK, TreeOK
<1> DEFINE n == Len(printed)
<1>2. n \in Nat
  BY <1>1, PrintedIs
<1>3. ASSUME "exit" \notin changes
      PROVE  /\ n > 0 => printed[1].task = current
             /\ \A i \in 2 .. n : printed[i].task = parent[printed[i - 1].task]
             /\ walk_pc = "done" => n > 0 /\ printed[n].task = init
  <2>1. \A i \in 1 .. n : printed[i].task = IF i = 1 THEN current ELSE parent[printed[i - 1].task]
    BY <1>1, <1>3 DEF ChainOK
  <2>2. (n > 0 => 1 \in 1 .. n) /\ \A i \in 2 .. n : i \in 1 .. n /\ i # 1
    BY <1>2
  <2>3. walk_pc = "done" => n > 0 /\ printed[n].task = init
    BY <1>1, <1>3, ChainEnds
  <2> HIDE DEF n
  <2> QED
    BY <2>1, <2>2, <2>3
<1>4. ASSUME changes = {}, n > 0
      PROVE  printed[1].count = Count(printed[1].task) % (UintMax + 1)
  <2>1. 1 \in 1 .. n
    BY <1>2, <1>4
  <2>2. printed[1].count
        = (Living(parent, state, printed[1].task) + Base(printed, 1)) % (UintMax + 1)
    BY <1>1, <1>4, <2>1 DEF CountOK
  <2>3. Living(parent, state, printed[1].task) = Count(printed[1].task)
    BY DEF Living, Count
  <2>4. Base(printed, 1) = 0
    BY DEF Base
  <2>5. Living(parent, state, printed[1].task) \in Nat
    <3>1. printed[1].task \in Task /\ printed[1].task # init_task
      BY <1>1, <1>4, <2>1, PrintedIs DEF ChainOK
    <3>2. PICK l \in Seq(Task) : Enumerates(l, Kids(printed[1].task))
      BY <1>1, <3>1 DEF RingsOK
    <3>3. Living(parent, state, printed[1].task) = Len(l)
      BY <1>1, <3>1, <3>2, LivingIs
    <3> QED
      BY <3>3
  <2> HIDE DEF n
  <2> QED
    BY <2>2, <2>3, <2>4, <2>5
<1> HIDE DEF n
<1> QED
  BY <1>3, <1>4 DEF WalkExact, n

\* Without an exit the lines are about current, its parent and so on up to
\* process 1; without any change the first count is that of the children of the
\* current process, as a uint holds it (hw4p3.c:31-46), for every number of
\* tasks and every width of a uint.
THEOREM PrintsExactly == TreeSpec => []WalkExact
<1>1. TreeInit => WalkOK
  BY InitFamily, InitRest, InitChain DEF WalkOK, TreeOK
<1>2. WalkOK /\ [TreeNext]_procTreeVars => WalkOK'
  BY TreeSteps, RestSteps, ChainSteps, CountSteps DEF WalkOK
<1> QED
  BY <1>1, <1>2, WalkIsExact, PTL DEF TreeSpec

\* Unless the link at which it stands is unlinked, the walk is in the list whose
\* head it looks for (hw4p3.c:43): it follows no link of another list.
StandsOnList == walk_pc = "children" /\ "unlink" \notin changes =>
                   node = children(task) \/ \E c \in Kids(task) : node = sibling(c)

LEMMA KernelStands ==
    ASSUME TreeOK, RestOK, StandsOnList, Kernel
    PROVE  StandsOnList'
<1>1. walk_pc' = walk_pc /\ task' = task /\ node' = node /\ task \in Task
  BY DEF Kernel, Fork, Exit, Reap, Free, walkVars, RestOK
<1>2. changes \subseteq changes'
  BY Noted DEF Kernel, Fork, Exit, Reap, Free
<1>3. SUFFICES ASSUME walk_pc = "children", "unlink" \notin changes', NEW c \in Kids(task), node = sibling(c)
               PROVE  c \in Kids(task)'
  <2>1. (walk_pc = "children" /\ "unlink" \notin changes => node = children(task) \/ \E c \in Kids(task) : node = sibling(c))
    BY DEF StandsOnList
  <2> QED
    BY <1>1, <1>2, <1>3, <2>1 DEF StandsOnList
<1>4. c \in Task /\ Walking
  BY <1>3 DEF Kids, Walking
<1>5. \A q \in Task : q = task => (c \in Kids(q)' => c \in Kids(task)')
  BY <1>1 DEF Kids
<1>6. ASSUME NEW p \in Task, NEW t \in Task, Fork(p, t) PROVE c \in Kids(task)'
  BY <1>1, <1>3, <1>5, <1>6, ForkFamily DEF TreeOK
<1>7. ASSUME NEW t \in Task, Exit(t) PROVE c \in Kids(task)'
  <2>1. CASE t = task
    <3>1. AtChildOf(t)
      BY <1>3, <1>4, <2>1 DEF AtChildOf, Kids, sibling
    <3>2. "unlink" \in changes'
      BY <1>4, <1>7, <3>1 DEF Exit, NoteChange
    <3> QED
      BY <1>3, <3>2
  <2>2. CASE t # task
    BY <1>1, <1>3, <1>5, <1>7, <2>2, ExitFamily DEF TreeOK
  <2> QED
    BY <2>1, <2>2
<1>8. ASSUME NEW t \in Task, Reap(t) PROVE c \in Kids(task)'
  <2>1. CASE c = t
    <3>1. "unlink" \in changes'
      BY <1>3, <1>4, <1>8, <2>1 DEF Reap, NoteChange
    <3> QED
      BY <1>3, <3>1
  <2>2. CASE c # t
    BY <1>1, <1>3, <1>5, <1>8, <2>2, ReapFamily DEF TreeOK
  <2> QED
    BY <2>1, <2>2
<1>9. ASSUME NEW t \in Task, Free(t) PROVE c \in Kids(task)'
  BY <1>1, <1>3, <1>5, <1>9, FreeFamily DEF TreeOK
<1> QED
  BY <1>6, <1>7, <1>8, <1>9 DEF Kernel

\* In the list of p, after a link of the list comes another, or its head.
LEMMA NextOnList ==
    ASSUME TreeOK, NEW p \in Task, NEW l,
           l = children(p) \/ \E c \in Kids(p) : l = sibling(c)
    PROVE  next[l] = children(p) \/ \E c \in Kids(p) : next[l] = sibling(c)
<1>1. PICK s \in Seq(Task) : Enumerates(s, Kids(p)) /\ Ring(next, p, s)
  BY RingOf DEF TreeOK
<1>2. \E i \in 0 .. Len(s) : l = Spot(p, s, i)
  <2>1. Len(s) \in Nat /\ 0 \in 0 .. Len(s) /\ \A i \in 1 .. Len(s) : i \in 0 .. Len(s)
    BY <1>1
  <2>2. Spot(p, s, 0) = children(p) /\ \A i \in 1 .. Len(s) : Spot(p, s, i) = sibling(s[i])
    BY Spots
  <2>3. \A c \in Kids(p) : \E i \in 1 .. Len(s) : s[i] = c
    BY <1>1 DEF Enumerates
  <2> QED
    BY <2>1, <2>2, <2>3
<1>3. PICK i \in 0 .. Len(s) : l = Spot(p, s, i)
  BY <1>2
<1>4. next[l] = Spot(p, s, i + 1)
  BY <1>1, <1>3 DEF Ring
<1>5. Len(s) \in Nat /\ (i + 1 \in 1 .. Len(s) \/ i + 1 = Len(s) + 1)
  BY <1>1
<1>6. CASE i + 1 \in 1 .. Len(s)
  BY <1>1, <1>4, <1>6, Spots DEF Enumerates
<1>7. CASE i + 1 = Len(s) + 1
  BY <1>4, <1>7, Spots
<1> QED
  BY <1>5, <1>6, <1>7

LEMMA WalkStands ==
    ASSUME TreeOK, RestOK, StandsOnList, Load \/ Walk
    PROVE  StandsOnList'
<1>1. UNCHANGED << parent, state >>
  BY WalkTree DEF treeVars
<1>2. CASE Load
  BY <1>2 DEF Load, StandsOnList
<1>3. CASE PrintTask
  BY <1>3 DEF PrintTask, StandsOnList
<1>4. CASE NextTask \/ CountChild
  <2>1. SUFFICES ASSUME walk_pc' = "children", "unlink" \notin changes'
                 PROVE  node' = children(task) \/ \E c \in Kids(task) : node' = sibling(c)
    <3>1. task' = task /\ Kids(task)' = Kids(task)
      BY <1>1, <1>4 DEF NextTask, CountChild, Kids
    <3> QED
      BY <2>1, <3>1 DEF StandsOnList
  <2>2. \E l : /\ l = children(task) \/ \E c \in Kids(task) : l = sibling(c)
               /\ node' = next[l]
    <3>1. CASE NextTask
      BY <2>1, <3>1 DEF NextTask
    <3>2. CASE CountChild
      <4>1. walk_pc = "children" /\ "unlink" \notin changes /\ node' = next[node]
        BY <2>1, <3>2 DEF CountChild
      <4> QED
        BY <4>1 DEF StandsOnList
    <3> QED
      BY <1>4, <3>1, <3>2
  <2> QED
    BY <2>2, NextOnList DEF RestOK
<1> QED
  BY <1>2, <1>3, <1>4 DEF Walk

LEMMA StandsSteps ==
    ASSUME TreeOK, RestOK, StandsOnList, [TreeNext]_procTreeVars
    PROVE  StandsOnList'
<1>1. CASE UNCHANGED procTreeVars
  <2>1. Kids(task)' = Kids(task)
    BY <1>1 DEF Kids, procTreeVars, treeVars, walkVars
  <2> QED
    BY <1>1, <2>1 DEF procTreeVars, treeVars, walkVars, StandsOnList
<1> QED
  BY <1>1, KernelStands, WalkStands DEF TreeNext

\* Only unlinking takes the walk off the list of its task: neither forks, nor
\* exits and reaping of others, nor a task that is freed (hw4p3.c:33-45).
THEOREM StaysOnList == TreeSpec => []StandsOnList
<1>1. TreeInit => TreeOK /\ RestOK /\ StandsOnList
  BY InitFamily, InitRest DEF TreeOK, TreeInit, StandsOnList
<1>2. TreeOK /\ RestOK /\ StandsOnList /\ [TreeNext]_procTreeVars => (TreeOK /\ RestOK /\ StandsOnList)'
  BY TreeSteps, RestSteps, StandsSteps
<1> QED
  BY <1>1, <1>2, PTL DEF TreeSpec
==============================================================================
