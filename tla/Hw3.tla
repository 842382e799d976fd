--------------------------------- MODULE Hw3 ---------------------------------
(***************************************************************************)
(* The multithreaded program hw3: the main thread (hw3.c, threads.c), the  *)
(* letter counter (letters.c), the metrics reporter with its timer and     *)
(* semaphore (metrics.c), the signal handler they share, cancellation, and *)
(* the thread-specific-data destructor that cleans a thread up.            *)
(*                                                                         *)
(* stack[t] is what thread t is executing, innermost label first: a label  *)
(* of its own code, under a label of log_varg() while it logs, under those *)
(* of signal_handler() while it handles a signal, and so on.               *)
(*                                                                         *)
(* log_varg() is three labels here: waiting for the mutex, printing and    *)
(* flushing, unlocking.  Module Logging has its fine grain.                *)
(***************************************************************************)
EXTENDS Naturals, Sequences, FiniteSets

CONSTANTS Signal,        \* the signals sent to the process
          NoThread,      \* the owner of an unlocked mutex
          Windows,       \* where a signal may arrive, see Window
          Faults,        \* the library calls that may fail
          StdioCancels,  \* is stdio a cancellation point (a choice of libc)?
          StaleCancel,   \* outcomes of pthread_cancel() on a joined thread
          MaxSignals,    \* bound: signals delivered
          MaxTicks,      \* bound: timer expirations
          MaxMatches     \* bound: letters that occur LETTER_COUNT_TARGET times

Worker == {"Letters", "Metrics"}
Thread == {"Main"} \cup Worker

ASSUME Hw3Assumption ==
    /\ NoThread \notin Thread
    /\ Windows \subseteq {"quiet", "logging", "startup", "cleanup", "callback"}
    /\ Faults \subseteq {"create", "log_open", "letter_open", "timer"}
    /\ StdioCancels \in BOOLEAN
    /\ StaleCancel \subseteq {"ignored", "crash"}
    /\ MaxSignals \in Nat /\ MaxTicks \in Nat /\ MaxMatches \in Nat

VARIABLES
    status,     \* of the process
    installed,  \* has main() called signal()?
    stack,      \* stack[t]: see above
    life,       \* life[t]: where thread t is in its life
    tid,        \* tid[t]: has t stored its pthread_tid in thread_info[]?
    tls,        \* tls[t]: does tinfo_key hold t's thread_info?
    p_logfile,  \* p_logfile[t]: the state of t's log stream
    pending,    \* pending[t]: has t been sent a cancellation request?
    mask,       \* mask[t]: signals whose handler t is running, latest first
    log_mutex,  \* the thread that locked it, or NoThread
    timer,      \* the POSIX timer of the metrics thread
    callbacks,  \* metrics_timer_cb() threads that have not posted yet
    metrics_sem,\* the value of the semaphore
    matches,    \* letters that letter_counter() has still to report
    ticks,      \* timer expirations so far
    reports,    \* CPU reports so far
    signals,    \* signals delivered so far
    shutdown    \* has a handler in main finished cancelling the workers?

lifeVars  == << life, tid, tls, p_logfile, pending >>
tickVars  == << timer, callbacks, metrics_sem, ticks, reports >>
otherVars == << installed, matches, shutdown >>
sigVars   == << mask, signals >>
vars      == << status, stack, log_mutex, lifeVars, tickVars, otherVars, sigVars >>

LogLabel     == {"log_lock", "log_write", "log_unlock"}
HandlerLabel == {"handler", "pthread_exit", "cancel_Letters", "cancel_Metrics"}
BodyLabel    == {"ids", "tls", "open_log", "log_ids",
                "signal", "create_Letters", "create_Metrics",
                "join_Letters", "join_Metrics", "joined", "exit",
                "open_file", "count", "report", "return",
                "timer_create", "timer_set", "sem_init", "sem_wait", "sem_blocked",
                "rusage",
                "cleanup", "delete", "close"}
Label        == LogLabel \cup HandlerLabel \cup BodyLabel

TypeOK ==
    /\ status \in {"running", "exited", "crashed"}
    /\ installed \in BOOLEAN
    /\ stack \in [Thread -> Seq(Label)]
    /\ life \in [Thread -> {"absent", "alive", "exiting", "dead", "joined", "failed"}]
    /\ tid \in [Thread -> BOOLEAN]
    /\ tls \in [Thread -> BOOLEAN]
    /\ p_logfile \in [Thread -> {"null", "open", "closed"}]
    /\ pending \in [Thread -> BOOLEAN]
    /\ mask \in [Thread -> Seq(Signal)]
    /\ log_mutex \in Thread \cup {NoThread}
    /\ timer \in {"null", "created", "armed", "deleted"}
    /\ callbacks \in Nat
    /\ metrics_sem \in Nat
    /\ matches \in 0 .. MaxMatches
    /\ ticks \in 0 .. MaxTicks
    /\ reports \in Nat
    /\ signals \in 0 .. MaxSignals
    /\ shutdown \in BOOLEAN

\* main() has entered init_threading(): the key exists, and thread_info[] has
\* the thread numbers.
Init ==
    /\ status = "running"
    /\ installed = FALSE
    /\ stack = [t \in Thread |-> IF t = "Main" THEN << "ids" >> ELSE << >>]
    /\ life = [t \in Thread |-> IF t = "Main" THEN "alive" ELSE "absent"]
    /\ tid = [t \in Thread |-> FALSE]
    /\ tls = [t \in Thread |-> FALSE]
    /\ p_logfile = [t \in Thread |-> "null"]
    /\ pending = [t \in Thread |-> FALSE]
    /\ mask = [t \in Thread |-> << >>]
    /\ log_mutex = NoThread
    /\ timer = "null"
    /\ callbacks = 0
    /\ metrics_sem = 0
    /\ matches \in 0 .. MaxMatches
    /\ ticks = 0
    /\ reports = 0
    /\ signals = 0
    /\ shutdown = FALSE
------------------------------------------------------------------------------
\* Control flow within a thread.

At(t, l) == status = "running" /\ stack[t] # << >> /\ Head(stack[t]) = l

Goto(t, l)    == stack' = [stack EXCEPT ![t] = << l >> \o Tail(@)]
LogThen(t, l) == stack' = [stack EXCEPT ![t] = << "log_lock", l >> \o Tail(@)]

\* An access the process does not survive (a null or a stale pointer).
Crash == /\ status' = "crashed"
         /\ UNCHANGED << stack, log_mutex, lifeVars, tickVars, otherVars, sigVars >>

\* The thread unwinds: its value under tinfo_key is set to NULL and the
\* destructor, thread_cleanup(), is called with the old value.
ExitThread(t) == /\ stack' = [stack EXCEPT ![t] = << "cleanup" >>]
                 /\ life' = [life EXCEPT ![t] = "exiting"]
                 /\ tls' = [tls EXCEPT ![t] = FALSE]
                 /\ UNCHANGED << status, log_mutex, tid, p_logfile, pending,
                                 tickVars, otherVars, sigVars >>
------------------------------------------------------------------------------
\* logit(), log_with_tinfo(), log_varg().

\* Mutant: the mutex is not waited for.
LogLockUnguarded(t) ==
    /\ At(t, "log_lock")
    /\ log_mutex' = t
    /\ Goto(t, "log_write")
    /\ UNCHANGED << status, lifeVars, tickVars, otherVars, sigVars >>

LogLock(t) ==
    /\ At(t, "log_lock")
    /\ log_mutex = NoThread
    /\ log_mutex' = t
    /\ Goto(t, "log_write")
    /\ UNCHANGED << status, lifeVars, tickVars, otherVars, sigVars >>

LogWrite(t) ==
    /\ At(t, "log_write")
    /\ IF p_logfile[t] = "open"
       THEN /\ Goto(t, "log_unlock")
            /\ UNCHANGED << status, log_mutex, lifeVars, tickVars, otherVars, sigVars >>
       ELSE Crash

\* Mutant: log_varg() returns without unlocking.
LogUnlockForgotten(t) ==
    /\ At(t, "log_unlock")
    /\ stack' = [stack EXCEPT ![t] = Tail(@)]
    /\ UNCHANGED << status, log_mutex, lifeVars, tickVars, otherVars, sigVars >>

LogUnlock(t) ==
    /\ At(t, "log_unlock")
    /\ log_mutex' = NoThread
    /\ stack' = [stack EXCEPT ![t] = Tail(@)]
    /\ UNCHANGED << status, lifeVars, tickVars, otherVars, sigVars >>
------------------------------------------------------------------------------
\* thread_init(), run by every thread.

StoreIds(t) ==
    /\ At(t, "ids")
    /\ tid' = [tid EXCEPT ![t] = TRUE]
    /\ Goto(t, "tls")
    /\ UNCHANGED << status, log_mutex, life, tls, p_logfile, pending,
                    tickVars, otherVars, sigVars >>

\* Mutant: the thread_info is not put under tinfo_key.
SetSpecificSkipped(t) ==
    /\ At(t, "tls")
    /\ Goto(t, "open_log")
    /\ UNCHANGED << status, log_mutex, lifeVars, tickVars, otherVars, sigVars >>

SetSpecific(t) ==
    /\ At(t, "tls")
    /\ tls' = [tls EXCEPT ![t] = TRUE]
    /\ Goto(t, "open_log")
    /\ UNCHANGED << status, log_mutex, life, tid, p_logfile, pending,
                    tickVars, otherVars, sigVars >>

\* Without a stream, fileno() dereferences NULL.
OpenLog(t) ==
    /\ At(t, "open_log")
    /\ \/ /\ p_logfile' = [p_logfile EXCEPT ![t] = "open"]
          /\ LogThen(t, "log_ids")
          /\ UNCHANGED << status, log_mutex, life, tid, tls, pending,
                          tickVars, otherVars, sigVars >>
       \/ "log_open" \in Faults /\ Crash

AfterInit == [Main |-> "signal", Letters |-> "open_file", Metrics |-> "timer_create"]

LogIds(t) ==
    /\ At(t, "log_ids")
    /\ LogThen(t, AfterInit[t])
    /\ UNCHANGED << status, log_mutex, lifeVars, tickVars, otherVars, sigVars >>
------------------------------------------------------------------------------
\* Mutant: the destructor leaves the timer alone.
HasTimerNever(t) == FALSE

HasTimer(t) == t = "Metrics" /\ timer # "null"

\* thread_cleanup(): called by main() itself, and for the workers as the
\* destructor of tinfo_key.

\* A thread cancelled inside its fopen() has no stream: fileno() again.
Cleanup(t) ==
    /\ At(t, "cleanup")
    /\ IF p_logfile[t] = "null"
       THEN Crash
       ELSE /\ LogThen(t, IF HasTimer(t) THEN "delete" ELSE "close")
            /\ UNCHANGED << status, log_mutex, lifeVars, tickVars, otherVars, sigVars >>

DeleteTimer(t) ==
    /\ At(t, "delete")
    /\ timer' = "deleted"
    /\ LogThen(t, "close")
    /\ UNCHANGED << status, log_mutex, lifeVars, otherVars, sigVars,
                    callbacks, metrics_sem, ticks, reports >>

CloseLog(t) ==
    /\ At(t, "close")
    /\ p_logfile' = [p_logfile EXCEPT ![t] = "closed"]
    /\ IF t = "Main"
       THEN Goto(t, "exit") /\ UNCHANGED life
       ELSE /\ stack' = [stack EXCEPT ![t] = << >>]
            /\ life' = [life EXCEPT ![t] = "dead"]
    /\ UNCHANGED << status, log_mutex, tid, tls, pending,
                    tickVars, otherVars, sigVars >>
------------------------------------------------------------------------------
\* main().

InstallHandlers ==
    /\ At("Main", "signal")
    /\ installed' = TRUE
    /\ Goto("Main", "create_Letters")
    /\ UNCHANGED << status, log_mutex, lifeVars, tickVars, sigVars, matches, shutdown >>

Created == [Letters |-> "create_Metrics", Metrics |-> "join_Letters"]
Joined  == [Letters |-> "join_Metrics", Metrics |-> "joined"]

Create(w) ==
    /\ At("Main", [Letters |-> "create_Letters", Metrics |-> "create_Metrics"][w])
    /\ \/ /\ life' = [life EXCEPT ![w] = "alive"]
          /\ stack' = [stack EXCEPT !["Main"] = << Created[w] >> \o Tail(@),
                                    ![w] = << "ids" >>]
       \/ /\ "create" \in Faults
          /\ life' = [life EXCEPT ![w] = "failed"]
          /\ LogThen("Main", Created[w])
    /\ UNCHANGED << status, log_mutex, tid, tls, p_logfile, pending,
                    tickVars, otherVars, sigVars >>

\* Mutant: main() goes on without waiting for the worker's end.
JoinDetached(w) ==
    /\ At("Main", [Letters |-> "join_Letters", Metrics |-> "join_Metrics"][w])
    /\ Goto("Main", Joined[w])
    /\ UNCHANGED << status, log_mutex, lifeVars, tickVars, otherVars, sigVars >>

\* The variable holding the thread was never set if its creation failed.
Join(w) ==
    /\ At("Main", [Letters |-> "join_Letters", Metrics |-> "join_Metrics"][w])
    /\ \/ /\ life[w] = "dead"
          /\ life' = [life EXCEPT ![w] = "joined"]
          /\ Goto("Main", Joined[w])
          /\ UNCHANGED << status, log_mutex, tid, tls, p_logfile, pending,
                          tickVars, otherVars, sigVars >>
       \/ /\ life[w] = "failed"
          /\ Goto("Main", Joined[w])
          /\ UNCHANGED << status, log_mutex, lifeVars, tickVars, otherVars, sigVars >>
       \/ life[w] = "failed" /\ Crash

LogJoined ==
    /\ At("Main", "joined")
    /\ LogThen("Main", "cleanup")
    /\ UNCHANGED << status, log_mutex, lifeVars, tickVars, otherVars, sigVars >>

Exit ==
    /\ At("Main", "exit")
    /\ status' = "exited"
    /\ UNCHANGED << stack, log_mutex, lifeVars, tickVars, otherVars, sigVars >>
------------------------------------------------------------------------------
\* letter_counter().

OpenFile ==
    /\ At("Letters", "open_file")
    /\ \/ LogThen("Letters", "count")
       \/ "letter_open" \in Faults /\ LogThen("Letters", "return")
    /\ UNCHANGED << status, log_mutex, lifeVars, tickVars, otherVars, sigVars >>

CountLetters ==
    /\ At("Letters", "count")
    /\ LogThen("Letters", "report")
    /\ UNCHANGED << status, log_mutex, lifeVars, tickVars, otherVars, sigVars >>

\* Mutant: the end of the list is not tested.
ReportLetterPastEnd ==
    /\ At("Letters", "report")
    /\ \/ LogThen("Letters", "report") /\ matches' = matches - 1
       \/ Goto("Letters", "return") /\ UNCHANGED matches
    /\ UNCHANGED << status, log_mutex, lifeVars, tickVars, sigVars, installed, shutdown >>

ReportLetter ==
    /\ At("Letters", "report")
    /\ IF matches > 0
       THEN LogThen("Letters", "report") /\ matches' = matches - 1
       ELSE Goto("Letters", "return") /\ UNCHANGED matches
    /\ UNCHANGED << status, log_mutex, lifeVars, tickVars, sigVars, installed, shutdown >>

LettersReturn == At("Letters", "return") /\ ExitThread("Letters")
------------------------------------------------------------------------------
\* metrics_reporter() and its timer.

CreateTimer ==
    /\ At("Metrics", "timer_create")
    /\ \/ timer' = "created" /\ Goto("Metrics", "timer_set")
       \/ "timer" \in Faults /\ LogThen("Metrics", "timer_set") /\ UNCHANGED timer
    /\ UNCHANGED << status, log_mutex, lifeVars, otherVars, sigVars,
                    callbacks, metrics_sem, ticks, reports >>

\* Without a timer, timer_settime() gets a zero timer_t: it fails or faults.
SetTimer ==
    /\ At("Metrics", "timer_set")
    /\ \/ /\ IF timer = "created"
             THEN timer' = "armed" /\ Goto("Metrics", "sem_init")
             ELSE UNCHANGED timer /\ LogThen("Metrics", "sem_init")
          /\ UNCHANGED << status, log_mutex, lifeVars, otherVars, sigVars,
                          callbacks, metrics_sem, ticks, reports >>
       \/ timer = "null" /\ Crash

\* The timer is already running: sem_init() erases what it has posted.
SemInit ==
    /\ At("Metrics", "sem_init")
    /\ metrics_sem' = 0
    /\ LogThen("Metrics", "sem_wait")
    /\ UNCHANGED << status, log_mutex, lifeVars, otherVars, sigVars,
                    timer, callbacks, ticks, reports >>

\* Mutant: the semaphore is initialized again for every report.
CallSemWaitReset ==
    /\ At("Metrics", "sem_wait")
    /\ ~ pending["Metrics"]
    /\ Goto("Metrics", "sem_blocked")
    /\ metrics_sem' = 0
    /\ UNCHANGED << status, log_mutex, lifeVars, otherVars, sigVars,
                    timer, callbacks, ticks, reports >>

\* sem_wait() acts on a cancellation request that it finds when called; one
\* that arrives while it blocks may lose to a sem_post().
CallSemWait ==
    /\ At("Metrics", "sem_wait")
    /\ ~ pending["Metrics"]
    /\ Goto("Metrics", "sem_blocked")
    /\ UNCHANGED << status, log_mutex, lifeVars, tickVars, otherVars, sigVars >>

\* Mutant: the semaphore is read, not decremented.
SemWaitPeek ==
    /\ At("Metrics", "sem_blocked")
    /\ metrics_sem > 0
    /\ Goto("Metrics", "rusage")
    /\ UNCHANGED << status, log_mutex, lifeVars, tickVars, otherVars, sigVars >>

\* Mutant: the semaphore is waited for until two posts are there.
SemWaitForTwo ==
    /\ At("Metrics", "sem_blocked")
    /\ metrics_sem > 1
    /\ metrics_sem' = metrics_sem - 1
    /\ Goto("Metrics", "rusage")
    /\ UNCHANGED << status, log_mutex, lifeVars, otherVars, sigVars,
                    timer, callbacks, ticks, reports >>

SemWait ==
    /\ At("Metrics", "sem_blocked")
    /\ metrics_sem > 0
    /\ metrics_sem' = metrics_sem - 1
    /\ Goto("Metrics", "rusage")
    /\ UNCHANGED << status, log_mutex, lifeVars, otherVars, sigVars,
                    timer, callbacks, ticks, reports >>

ReportCpu ==
    /\ At("Metrics", "rusage")
    /\ reports' = reports + 1
    /\ LogThen("Metrics", "sem_wait")
    /\ UNCHANGED << status, log_mutex, lifeVars, otherVars, sigVars,
                    timer, callbacks, metrics_sem, ticks >>

\* SIGEV_THREAD: every expiration starts a thread for the callback.
Expire ==
    /\ status = "running"
    /\ timer = "armed"
    /\ ticks < MaxTicks
    /\ ticks' = ticks + 1
    /\ callbacks' = callbacks + 1
    /\ UNCHANGED << status, stack, log_mutex, lifeVars, otherVars, sigVars,
                    timer, metrics_sem, reports >>

TimerCb ==
    /\ status = "running"
    /\ callbacks > 0
    /\ callbacks' = callbacks - 1
    /\ metrics_sem' = metrics_sem + 1
    /\ UNCHANGED << status, stack, log_mutex, lifeVars, otherVars, sigVars,
                    timer, ticks, reports >>
------------------------------------------------------------------------------
\* Signals and cancellation.

InLog(t) == \E i \in 1 .. Len(stack[t]) : stack[t][i] \in LogLabel

\* Has worker w not reached the end of its thread_init()?
NotSetUp(w) == p_logfile[w] = "null" /\ life[w] \in {"absent", "alive", "failed"}

\* What a signal that reaches thread t now interrupts.
Window(t) ==
    CASE InLog(t) -> "logging"
      [] ~ InLog(t) /\ (life[t] = "exiting" \/ p_logfile[t] = "closed") -> "cleanup"
      [] /\ ~ InLog(t) /\ life[t] = "alive" /\ p_logfile[t] # "closed"
         /\ \/ p_logfile[t] = "null"
            \/ t = "Main" /\ \E w \in Worker : NotSetUp(w) -> "startup"
      [] OTHER -> "quiet"

\* The handler runs on top of t; its own signal is blocked meanwhile.
Deliver(t, s) ==
    /\ status = "running"
    /\ installed
    /\ life[t] \in {"alive", "exiting"}
    /\ \A i \in 1 .. Len(mask[t]) : mask[t][i] # s
    /\ signals < MaxSignals
    /\ Window(t) \in Windows
    /\ signals' = signals + 1
    /\ mask' = [mask EXCEPT ![t] = << s >> \o @]
    /\ stack' = [stack EXCEPT ![t] = << "handler" >> \o @]
    /\ UNCHANGED << status, log_mutex, lifeVars, tickVars, otherVars >>

\* A timer callback thread has no thread_info: the handler dereferences NULL.
DeliverToCallback ==
    /\ status = "running"
    /\ callbacks > 0
    /\ signals < MaxSignals
    /\ "callback" \in Windows
    /\ Crash

Handler(t) ==
    /\ At(t, "handler")
    /\ IF tls[t]
       THEN /\ LogThen(t, IF t = "Main" THEN "cancel_Letters" ELSE "pthread_exit")
            /\ UNCHANGED << status, log_mutex, lifeVars, tickVars, otherVars, sigVars >>
       ELSE Crash

\* Mutant: the worker's handler returns to the code it interrupted.
HandlerReturn(t) ==
    /\ At(t, "pthread_exit")
    /\ stack' = [stack EXCEPT ![t] = Tail(@)]
    /\ mask' = [mask EXCEPT ![t] = SubSeq(@, 2, Len(@))]
    /\ UNCHANGED << status, log_mutex, lifeVars, tickVars, otherVars, signals >>

\* pthread_exit() unwinds the interrupted code too; the signal stays blocked.
HandlerExit(t) == At(t, "pthread_exit") /\ ExitThread(t)

\* Mutant: the loop over the workers stops one short.
CancelWorkerShort(w) ==
    /\ At("Main", [Letters |-> "cancel_Letters", Metrics |-> "cancel_Metrics"][w])
    /\ IF w = "Letters"
       THEN /\ pending' = [pending EXCEPT ![w] = @ \/ life[w] = "alive"]
            /\ Goto("Main", "cancel_Metrics")
            /\ UNCHANGED << mask, shutdown >>
       ELSE /\ stack' = [stack EXCEPT !["Main"] = Tail(@)]
            /\ mask' = [mask EXCEPT !["Main"] = SubSeq(@, 2, Len(@))]
            /\ shutdown' = TRUE
            /\ UNCHANGED pending
    /\ UNCHANGED << status, log_mutex, life, tid, tls, p_logfile, tickVars,
                    installed, matches, signals >>

\* pthread_cancel(thread_info[w].pthread_tid), and the handler's return.
CancelWorker(w) ==
    /\ At("Main", [Letters |-> "cancel_Letters", Metrics |-> "cancel_Metrics"][w])
    /\ \/ /\ tid[w]
          /\ life[w] = "joined" => "ignored" \in StaleCancel
          /\ pending' = [pending EXCEPT ![w] = @ \/ life[w] = "alive"]
          /\ IF w = "Letters"
             THEN Goto("Main", "cancel_Metrics") /\ UNCHANGED << mask, shutdown >>
             ELSE /\ stack' = [stack EXCEPT !["Main"] = Tail(@)]
                  /\ mask' = [mask EXCEPT !["Main"] = SubSeq(@, 2, Len(@))]
                  /\ shutdown' = TRUE
          /\ UNCHANGED << status, log_mutex, life, tid, tls, p_logfile, tickVars,
                          installed, matches, signals >>
       \/ ~ tid[w] /\ Crash
       \/ life[w] = "joined" /\ "crash" \in StaleCancel /\ Crash

\* The calls at which a request is acted upon: sem_wait() by the standard, the
\* stdio functions (fopen, fgetc, fprintf, fflush) if libc chooses so.
CancelPoint == {"sem_wait", "sem_blocked"} \cup
    (IF StdioCancels THEN {"open_log", "open_file", "count", "log_write"} ELSE {})

ActOnCancel(t) ==
    /\ pending[t]
    /\ life[t] = "alive"
    /\ \E l \in CancelPoint : At(t, l)
    /\ ExitThread(t)
------------------------------------------------------------------------------
Step(t) ==
    \/ LogLock(t) \/ LogWrite(t) \/ LogUnlock(t)
    \/ StoreIds(t) \/ SetSpecific(t) \/ OpenLog(t) \/ LogIds(t)
    \/ Cleanup(t) \/ DeleteTimer(t) \/ CloseLog(t)
    \/ Handler(t) \/ HandlerExit(t) \/ ActOnCancel(t)

MainStep    == InstallHandlers \/ LogJoined \/ Exit
               \/ \E w \in Worker : Create(w) \/ Join(w) \/ CancelWorker(w)
LettersStep == OpenFile \/ CountLetters \/ ReportLetter \/ LettersReturn
MetricsStep == CreateTimer \/ SetTimer \/ SemInit \/ CallSemWait \/ SemWait \/ ReportCpu

Next == \/ \E t \in Thread : Step(t)
        \/ MainStep \/ LettersStep \/ MetricsStep
        \/ Expire \/ TimerCb
        \/ \E t \in Thread, s \in Signal : Deliver(t, s)
        \/ DeliverToCallback

Spec == Init /\ [][Next]_vars

\* Every thread that can run does, and an armed timer expires.  Nobody has to
\* send a signal.
Fairness == /\ \A t \in Thread : WF_vars(Step(t))
            /\ WF_vars(MainStep) /\ WF_vars(LettersStep) /\ WF_vars(MetricsStep)
            /\ WF_vars(Expire) /\ WF_vars(TimerCb)

FairSpec == Spec /\ Fairness
------------------------------------------------------------------------------
\* Properties.

Terminated == {"dead", "joined"}

\* Is one of t's labels inside the critical section of log_varg()?
InCS(t) == \E i \in 1 .. Len(stack[t]) : stack[t][i] \in {"log_write", "log_unlock"}

\* Every thread inside the critical section of log_varg(), interrupted there
\* or not, owns log_mutex; and the mutex has an owner that is no longer there
\* only if the owner was cancelled inside stdio (logging.c:63-70).
MutexOwnership ==
    \A t \in Thread :
        /\ InCS(t) => log_mutex = t
        /\ log_mutex = t => InCS(t) \/ (StdioCancels /\ pending[t])

\* However a worker ends (return, pthread_exit() in the handler, cancellation),
\* once it is dead its stream is closed, and the metrics timer no longer runs
\* (threads.c:76-84).
NoLeakAtDeath ==
    \A w \in Worker : life[w] \in Terminated =>
        /\ p_logfile[w] = "closed"
        /\ ~ tls[w]
        /\ w = "Metrics" => timer \in {"null", "deleted"}

\* main() cleans up and exits only when every worker that was created has
\* been joined (hw3.c:70-79, "Don't exit until all workers have exited").
MainIsLast ==
    (p_logfile["Main"] = "closed" \/ status = "exited") =>
        \A w \in Worker : life[w] \in {"joined", "failed"}

\* When a handler in main has run to its end, every worker has terminated,
\* is terminating, or has a cancellation request pending (hw3.c:99-104).
AllDoomed ==
    shutdown => \A w \in Worker :
        life[w] \in Terminated \cup {"exiting"} \/ (life[w] = "alive" /\ pending[w])

\* A CPU report is made for an expiration of the timer, and for each at most
\* one: reports, posts waiting, and callbacks under way never exceed the
\* expirations (metrics.c:30-34, 67-75).
TickAccounting == reports + metrics_sem + callbacks <= ticks

\* No signal makes the process access a null, closed or stale pointer.
NeverCrashes == status # "crashed"

\* Whoever owns log_mutex is executing log_varg(), not a handler that
\* interrupted it: the owner can release it (logging.c:63-70).
HolderCanRun ==
    \A t \in Thread :
        log_mutex = t => stack[t] # << >> /\ Head(stack[t]) \in {"log_write", "log_unlock"}

\* A signal that main handles brings the whole process to its orderly end
\* (hw3.c:11-13).
GracefulShutdown == shutdown ~> status = "exited"

\* A worker that catches a signal cleans up and terminates (hw3.c:92-98).
WorkerExits ==
    \A w \in Worker : At(w, "handler") ~> life[w] \in Terminated

\* Is the metrics thread past its sem_init(), whatever it is interrupted by?
Counting == /\ stack["Metrics"] # << >>
            /\ stack["Metrics"][Len(stack["Metrics"])] \in {"sem_wait", "sem_blocked", "rusage"}

\* Once sem_init() has been called no expiration is lost: those whose post is
\* waiting then and those whose callback is still to post are all reported,
\* unless the reporter ends first.  Posts before that are erased, and never
\* reported (metrics.c:30-34, 64-75).
ReportsCatchUp ==
    \A n \in 1 .. MaxTicks :
        (/\ Counting /\ life["Metrics"] = "alive"
         /\ reports + metrics_sem + callbacks >= n)
            ~> (reports >= n \/ life["Metrics"] # "alive")
==============================================================================
