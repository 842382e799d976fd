-------------------------------- MODULE Hw4p4 --------------------------------
(***************************************************************************)
(* The kernel module hw4/p4 (hw4p4.c): a timer whose callback stores a     *)
(* record in a kfifo and wakes the logger, a kernel thread that takes one  *)
(* record per wakeup; and the loading and unloading of the module.         *)
(*                                                                         *)
(* Timer, kfifo and kthread calls are modelled from their use here: the    *)
(* timer callback runs concurrently with everything else, del_timer() does *)
(* not wait for it, kfifo_in() stores what fits, wake_up_process() makes   *)
(* the logger runnable.  A freed kfifo accepts one byte that is never      *)
(* written.  Code or data of the module used after it is gone is an oops.  *)
(***************************************************************************)
EXTENDS Naturals, Sequences

CONSTANTS RecordSize,  \* sizeof(struct runtime_data)
          FifoSize,    \* the size of the kfifo
          Faults,      \* the calls that may fail
          MaxTicks     \* bound: timer expirations

ASSUME Hw4p4Assumption == /\ RecordSize \in Nat \ {0} /\ FifoSize \in Nat \ {0}
                          /\ Faults \subseteq {"alloc", "kthread"}
                          /\ MaxTicks \in Nat

VARIABLES pc,          \* what insmod or rmmod does next
          timer,       \* is apes_timer pending?
          callback,    \* what apes_timer_callback() does next
          fifo,        \* the bytes in the kfifo, each of a record
          allocated,   \* does the kfifo have its memory?
          cut,         \* has kfifo_in() ever stored less than a record?
          logger_task, \* what that variable holds
          logger,      \* what logger_func() does next
          runnable,    \* is the logger's state TASK_RUNNING?
          should_stop, \* has kthread_stop() asked it to stop?
          rtd,         \* what the logger has taken from the kfifo last
          reads,       \* how often it has taken something
          ticks,       \* expirations so far
          races,       \* history: the races, see Race, that have happened so far
          oops

moduleVars == << pc, logger_task, should_stop >>
timerVars  == << timer, callback, ticks >>
fifoVars   == << fifo, allocated, cut >>
loggerVars == << logger, runnable, rtd, reads >>
faultVars  == << races, oops >>
vars       == << moduleVars, timerVars, fifoVars, loggerVars, faultVars >>

\* "early": the timer expires before the logger exists; "orphan": the logger
\* cannot be created, and the timer is running; "del": the callback is running
\* in del_timer(); "free": a record is being copied in kfifo_free(); "stop":
\* the logger is about to sleep in kthread_stop().
Race == {"early", "orphan", "del", "free", "stop"}

\* The bytes of record r; and the byte of a freed kfifo.
Byte      == [record : 1 .. MaxTicks, at : 1 .. RecordSize]
Record(r) == [i \in 1 .. RecordSize |-> [record |-> r, at |-> i]]
Junk      == [record |-> 0, at |-> 0]

TypeOK == /\ pc \in {"alloc", "timer", "spawn", "loaded", "free", "stop", "join",
                     "unloaded", "failed"}
          /\ timer \in BOOLEAN
          /\ callback \in {"idle", "store", "wake", "rearm"}
          /\ fifo \in Seq(Byte \cup {Junk}) /\ Len(fifo) <= FifoSize
          /\ allocated \in BOOLEAN
          /\ cut \in BOOLEAN
          /\ logger_task \in {"null", "error", "task", "freed"}
          /\ logger \in {"none", "check", "set", "schedule", "drain", "exited"}
          /\ runnable \in BOOLEAN
          /\ should_stop \in BOOLEAN
          /\ rtd \in Seq(Byte \cup {Junk})
          /\ reads \in Nat
          /\ ticks \in 0 .. MaxTicks
          /\ races \subseteq Race
          /\ oops \in BOOLEAN

Init == /\ pc = "alloc"
        /\ timer = FALSE
        /\ callback = "idle"
        /\ fifo = << >>
        /\ allocated = FALSE
        /\ cut = FALSE
        /\ logger_task = "null"
        /\ logger = "none"
        /\ runnable = FALSE
        /\ should_stop = FALSE
        /\ rtd = << >>
        /\ reads = 0
        /\ ticks = 0
        /\ races = {}
        /\ oops = FALSE

Oops  == oops' = TRUE /\ UNCHANGED << moduleVars, timerVars, fifoVars, loggerVars >>

Crash == Oops /\ UNCHANGED races

\* The step happens, and with it race r if it is one.
Note(r, isRace) == races' = IF isRace THEN races \cup {r} ELSE races
------------------------------------------------------------------------------
\* hw4p4_init().

Alloc == /\ pc = "alloc" /\ ~ oops
         /\ \/ pc' = "timer" /\ allocated' = TRUE
            \/ "alloc" \in Faults /\ pc' = "failed" /\ UNCHANGED allocated
         /\ UNCHANGED << logger_task, should_stop, timerVars, fifo, cut, loggerVars, faultVars >>

StartTimer == /\ pc = "timer" /\ ~ oops
              /\ timer' = TRUE
              /\ pc' = "spawn"
              /\ UNCHANGED << logger_task, should_stop, callback, ticks, fifoVars,
                              loggerVars, faultVars >>

\* If the thread cannot be created the module is not loaded; its timer stays.
Spawn == /\ pc = "spawn" /\ ~ oops
         /\ \/ /\ pc' = "loaded"
               /\ logger_task' = "task"
               /\ logger' = "check"
               /\ runnable' = TRUE
               /\ UNCHANGED races
            \/ /\ "kthread" \in Faults
               /\ pc' = "failed"
               /\ logger_task' = "error"
               /\ Note("orphan", TRUE)
               /\ UNCHANGED << logger, runnable >>
         /\ UNCHANGED << should_stop, timerVars, fifoVars, rtd, reads, oops >>
------------------------------------------------------------------------------
\* apes_timer_callback(), in a softirq.

Gone == pc \in {"unloaded", "failed"}

Expire == /\ timer /\ ~ oops
          /\ ticks < MaxTicks
          /\ IF Gone
             THEN Crash
             ELSE /\ timer' = FALSE
                  /\ callback' = "store"
                  /\ ticks' = ticks + 1
                  /\ Note("early", pc = "spawn")
                  /\ UNCHANGED << moduleVars, fifoVars, loggerVars, oops >>

\* Mutant: the kfifo is taken to have room.
StoreUnchecked ==
    /\ callback = "store" /\ ~ oops /\ ~ Gone
    /\ fifo' = fifo \o Record(ticks)
    /\ callback' = "wake"
    /\ UNCHANGED << moduleVars, timer, ticks, allocated, cut, loggerVars, faultVars >>

Store ==
    /\ callback = "store" /\ ~ oops
    /\ IF Gone
       THEN Crash
       ELSE /\ IF allocated
               THEN LET room == FifoSize - Len(fifo)
                    IN  /\ fifo' = fifo \o SubSeq(Record(ticks), 1,
                                                  IF room < RecordSize THEN room ELSE RecordSize)
                        /\ cut' = (cut \/ room < RecordSize)
               ELSE /\ fifo' = IF fifo = << >> THEN << Junk >> ELSE fifo
                    /\ cut' = TRUE
            /\ callback' = "wake"
            /\ UNCHANGED << moduleVars, timer, ticks, allocated, loggerVars, faultVars >>

Wake ==
    /\ callback = "wake" /\ ~ oops
    /\ IF Gone \/ logger_task # "task"
       THEN Crash
       ELSE /\ runnable' = TRUE
            /\ callback' = "rearm"
            /\ UNCHANGED << moduleVars, timer, ticks, fifoVars, logger, rtd, reads, faultVars >>

\* Mutant: the timer is not periodic.
RearmSkipped ==
    /\ callback = "rearm" /\ ~ oops
    /\ callback' = "idle"
    /\ UNCHANGED << moduleVars, timer, ticks, fifoVars, loggerVars, faultVars >>

Rearm ==
    /\ callback = "rearm" /\ ~ oops
    /\ IF Gone
       THEN Crash
       ELSE /\ timer' = TRUE
            /\ callback' = "idle"
            /\ UNCHANGED << moduleVars, ticks, fifoVars, loggerVars, faultVars >>
------------------------------------------------------------------------------
\* logger_func().

CheckStop == /\ logger = "check" /\ ~ oops
             /\ logger' = IF should_stop THEN "exited" ELSE "set"
             /\ UNCHANGED << moduleVars, timerVars, fifoVars, runnable, rtd, reads, faultVars >>

SetState == /\ logger = "set" /\ ~ oops
            /\ runnable' = FALSE
            /\ logger' = "schedule"
            /\ UNCHANGED << moduleVars, timerVars, fifoVars, rtd, reads, faultVars >>

\* schedule() returns once the logger is runnable.
Schedule == /\ logger = "schedule" /\ ~ oops
            /\ runnable
            /\ logger' = "drain"
            /\ UNCHANGED << moduleVars, timerVars, fifoVars, runnable, rtd, reads, faultVars >>

\* Mutant: a record is read, and left in the kfifo.
DrainPeek ==
    /\ logger = "drain" /\ ~ oops
    /\ rtd' = IF fifo # << >> THEN SubSeq(fifo, 1, RecordSize) ELSE rtd
    /\ reads' = IF fifo # << >> THEN reads + 1 ELSE reads
    /\ logger' = "check"
    /\ UNCHANGED << moduleVars, timerVars, fifoVars, runnable, faultVars >>

Drain ==
    /\ logger = "drain" /\ ~ oops
    /\ IF fifo = << >>
       THEN UNCHANGED << fifo, rtd, reads >>
       ELSE LET n == IF Len(fifo) < RecordSize THEN Len(fifo) ELSE RecordSize
            IN  /\ rtd' = IF allocated
                          THEN SubSeq(fifo, 1, n) \o SubSeq(rtd, n + 1, Len(rtd))
                          ELSE rtd
                /\ fifo' = SubSeq(fifo, n + 1, Len(fifo))
                /\ reads' = reads + 1
    /\ logger' = "check"
    /\ UNCHANGED << moduleVars, timerVars, allocated, cut, runnable, faultVars >>
------------------------------------------------------------------------------
\* hw4p4_exit().

\* Mutant: the timer is left running.
DelTimerSkipped ==
    /\ pc = "loaded" /\ ~ oops
    /\ pc' = "free"
    /\ UNCHANGED << logger_task, should_stop, timerVars, fifoVars, loggerVars, faultVars >>

DelTimer == /\ pc = "loaded" /\ ~ oops
            /\ timer' = FALSE
            /\ pc' = "free"
            /\ Note("del", callback # "idle")
            /\ UNCHANGED << logger_task, should_stop, callback, ticks, fifoVars,
                            loggerVars, oops >>

\* The memory goes at once, also from under a copy in or out of it.
Copying == allocated /\ (callback = "store" \/ (logger = "drain" /\ fifo # << >>))

FreeFifo == /\ pc = "free" /\ ~ oops
            /\ \/ /\ allocated' = FALSE
                  /\ fifo' = << >>
                  /\ pc' = "stop"
                  /\ UNCHANGED << logger_task, should_stop, timerVars, cut, loggerVars,
                                  oops >>
               \/ Copying /\ Oops
            /\ Note("free", Copying)

\* Mutant: the logger is not woken up.
StopSilently ==
    /\ pc = "stop" /\ ~ oops
    /\ should_stop' = TRUE
    /\ pc' = "join"
    /\ UNCHANGED << logger_task, timerVars, fifoVars, loggerVars, faultVars >>

\* kthread_stop() sets the request, wakes the thread, and waits for its end.
Stop == /\ pc = "stop" /\ ~ oops
        /\ should_stop' = TRUE
        /\ runnable' = TRUE
        /\ pc' = "join"
        /\ Note("stop", logger = "set")
        /\ UNCHANGED << logger_task, timerVars, fifoVars, logger, rtd, reads, oops >>

Join == /\ pc = "join" /\ ~ oops
        /\ logger = "exited"
        /\ logger_task' = "freed"
        /\ pc' = "unloaded"
        /\ UNCHANGED << should_stop, timerVars, fifoVars, loggerVars, faultVars >>
------------------------------------------------------------------------------
ModuleStep   == Alloc \/ StartTimer \/ Spawn
UnloadStep   == FreeFifo \/ Stop \/ Join
CallbackStep == Store \/ Wake \/ Rearm
LoggerStep   == CheckStop \/ SetState \/ Schedule \/ Drain

Next == ModuleStep \/ DelTimer \/ UnloadStep \/ Expire \/ CallbackStep \/ LoggerStep

Spec == Init /\ [][Next]_vars

\* Whoever can run does, and a pending timer expires; nobody has to unload.
Fairness == /\ WF_vars(ModuleStep) /\ WF_vars(UnloadStep) /\ WF_vars(Expire)
            /\ WF_vars(CallbackStep) /\ WF_vars(LoggerStep)

FairSpec == Spec /\ Fairness
------------------------------------------------------------------------------
\* Where the module stands as one of hw2/p5: if the logger cannot be created it
\* is gone, and its timer is not.
A == INSTANCE Apes
         WITH module <- CASE pc \in {"alloc", "timer"}        -> "init"
                          [] pc \in {"spawn", "loaded"}       -> "loaded"
                          [] pc \in {"free", "stop", "join"}  -> "exiting"
                          [] pc = "unloaded"                  -> "gone"
                          [] pc = "failed"                    ->
                               IF "orphan" \in races THEN "gone" ELSE "init",
              callback <- callback # "idle"

\* The timer is handled as the one of hw2/p5: it is started once by the loading
\* and then by its callback only, which runs once for each time, and it is
\* deleted once, before the module goes; unless the logger cannot be created
\* (41-70, 108-123, 129): the implementation of module Apes.
TimerOfApes == A!Init /\ [][A!Next \/ "orphan" \in races']_(A!vars)

\* The number of the records that the callback has put into the kfifo.
stored == IF callback = "store" THEN ticks - 1 ELSE ticks

\* As long as every record fitted in whole, the n-th time that the logger takes
\* something it takes all of the n-th record, and the kfifo holds the whole
\* records from the next one to the latest, and nothing else (64, 83-90).
RecordsWhole ==
    ~ cut /\ allocated =>
        /\ reads > 0 => rtd = Record(reads)
        /\ Len(fifo) = (stored - reads) * RecordSize
        /\ \A k \in 0 .. stored - reads - 1 : \A j \in 1 .. RecordSize :
              fifo[k * RecordSize + j] = Record(reads + 1 + k)[j]

\* Something of the module is used before it exists or after it is gone only
\* after one of these races (65-67, 111-119, 129-138).
NeverOops == oops => races \cap {"early", "orphan", "del", "free"} # {}

\* Unless that happened, once begun the unloading comes to its end; or
\* kthread_stop()'s wakeup was lost on a logger about to sleep, and waits for
\* a timer that has been deleted (79-81, 129-139).
UnloadEnds == pc = "free" ~> (pc = "unloaded" \/ oops \/ "stop" \in races)
==============================================================================
