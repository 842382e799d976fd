------------------------------- MODULE Logging -------------------------------
(***************************************************************************)
(* The logging system of hw3 (logging.c): every thread has the log file    *)
(* open through a stdio stream of its own, and log_varg() prints a line in *)
(* three pieces, then flushes the stream, under one process-wide mutex.    *)
(*                                                                         *)
(* A thread's stack holds the log_varg() invocations it is executing,      *)
(* innermost first.  There can be more than one: signal_handler() calls    *)
(* logit() on top of whatever it interrupted, another log_varg() included. *)
(* A thread can also leave an invocation unfinished: by pthread_exit() in  *)
(* the handler, or because it is cancelled inside a stdio function, which  *)
(* POSIX allows to be a cancellation point.                                *)
(***************************************************************************)
EXTENDS Naturals, Sequences

CONSTANTS Thread,        \* the threads that log
          NoThread,      \* the owner of an unlocked mutex
          MaxCalls,      \* bound: calls made, over all threads
          MaxDepth,      \* bound: nested calls of a thread (1 = no signal)
          StdioCancels   \* is stdio a cancellation point (a choice of libc)?

ASSUME LoggingAssumption == /\ NoThread \notin Thread
                            /\ MaxCalls \in Nat
                            /\ MaxDepth \in Nat
                            /\ StdioCancels \in BOOLEAN

VARIABLES log_mutex,  \* the thread that locked it, or NoThread
          stack,      \* stack[t]: invocations of log_varg() by t
          buf,        \* buf[t]: pieces in the buffer of t's stream
          lines,      \* the log file up to its last newline, as lines
          tail,       \* the pieces in the file after its last newline
          clock       \* CLOCK_MONOTONIC, one tick per reading

vars == << log_mutex, stack, buf, lines, tail, clock >>

\* A call is known by who made it and when it read the clock.
Call == [thread : Thread, time : 0 .. MaxCalls - 1]

Log == INSTANCE AtomicLog

Printing == {"time", "name", "body"}
Inside   == Printing \cup {"flush", "unlock"}   \* between lock and unlock
InStdio  == Printing \cup {"flush"}

Frame == [pc : Inside \cup {"lock"}, call : Call]
Piece == [call : Call, part : Printing]

AfterPart == [time |-> "name", name |-> "body", body |-> "flush"]

TypeOK == /\ log_mutex \in Thread \cup {NoThread}
          /\ stack \in [Thread -> Seq(Frame)]
          /\ buf \in [Thread -> Seq(Piece)]
          /\ lines \in Seq(Seq(Piece))
          /\ tail \in Seq(Piece)
          /\ clock \in 0 .. MaxCalls

Init == /\ log_mutex = NoThread
        /\ stack = [t \in Thread |-> << >>]
        /\ buf = [t \in Thread |-> << >>]
        /\ lines = << >>
        /\ tail = << >>
        /\ clock = 0
------------------------------------------------------------------------------
\* Thread t is about to execute label pc of its innermost invocation.
At(t, pc) == stack[t] # << >> /\ Head(stack[t]).pc = pc

Goto(t, pc) ==
    stack' = [stack EXCEPT ![t] = << [Head(@) EXCEPT !.pc = pc] >> \o Tail(@)]

\* Mutant: calls are not bounded by the clock's range.
BeginUnbounded(t) ==
    /\ Len(stack[t]) < MaxDepth
    /\ LET c == [thread |-> t, time |-> clock]
       IN  stack' = [stack EXCEPT ![t] = << [pc |-> "lock", call |-> c] >> \o @]
    /\ clock' = clock + 1
    /\ UNCHANGED << log_mutex, buf, lines, tail >>

\* logit() or log_with_tinfo(), by idle code or by a handler interrupting a
\* call: the clock is read before the mutex is taken.
Begin(t) ==
    /\ clock < MaxCalls
    /\ Len(stack[t]) < MaxDepth
    /\ LET c == [thread |-> t, time |-> clock]
       IN  stack' = [stack EXCEPT ![t] = << [pc |-> "lock", call |-> c] >> \o @]
    /\ clock' = clock + 1
    /\ UNCHANGED << log_mutex, buf, lines, tail >>

\* Mutant: the owner of the mutex may take it again, as if it were recursive.
LockRecursive(t) ==
    /\ At(t, "lock")
    /\ log_mutex \in {NoThread, t}
    /\ log_mutex' = t
    /\ Goto(t, "time")
    /\ UNCHANGED << buf, lines, tail, clock >>

\* Mutant: a thread waits until no other thread is in a call.
LockWhenAlone(t) ==
    /\ At(t, "lock")
    /\ log_mutex = NoThread
    /\ \A u \in Thread \ {t} : stack[u] = << >>
    /\ log_mutex' = t
    /\ Goto(t, "time")
    /\ UNCHANGED << buf, lines, tail, clock >>

\* The mutex is not recursive: its owner waits for it like any other thread.
Lock(t) ==
    /\ At(t, "lock")
    /\ log_mutex = NoThread
    /\ log_mutex' = t
    /\ Goto(t, "time")
    /\ UNCHANGED << buf, lines, tail, clock >>

\* One of the two fprintf() and the vfprintf(): a piece enters t's buffer.
Fprintf(t) ==
    \E p \in Printing :
        /\ At(t, p)
        /\ buf' = [buf EXCEPT ![t] = Append(@, [call |-> Head(stack[t]).call,
                                                 part |-> p])]
        /\ Goto(t, AfterPart[p])
        /\ UNCHANGED << log_mutex, lines, tail, clock >>

\* A piece reaches the end of the file; the body carries the newline.
Write(p) ==
    IF p.part = "body"
    THEN lines' = Append(lines, Append(tail, p)) /\ tail' = << >>
    ELSE tail' = Append(tail, p) /\ UNCHANGED lines

\* stdio writes its buffer out: at the latest in fflush(), and in any earlier
\* call if it chooses to, so a line may reach the file in several writes.
Drain(t) ==
    /\ \E pc \in InStdio : At(t, pc)
    /\ buf[t] # << >>
    /\ Write(Head(buf[t]))
    /\ buf' = [buf EXCEPT ![t] = Tail(@)]
    /\ UNCHANGED << log_mutex, stack, clock >>

\* Mutant: the stream is not flushed.
FlushSkipped(t) ==
    /\ At(t, "flush")
    /\ Goto(t, "unlock")
    /\ UNCHANGED << log_mutex, buf, lines, tail, clock >>

\* fflush() returns: the buffer is empty.
Flush(t) ==
    /\ At(t, "flush")
    /\ buf[t] = << >>
    /\ Goto(t, "unlock")
    /\ UNCHANGED << log_mutex, buf, lines, tail, clock >>

\* The mutex is released; log_varg() returns to the code that called it, or,
\* in a worker's signal handler, that code calls pthread_exit().
Unlock(t) ==
    /\ At(t, "unlock")
    /\ log_mutex' = NoThread
    /\ \/ stack' = [stack EXCEPT ![t] = Tail(@)]
       \/ /\ Len(stack[t]) > 1
          /\ stack' = [stack EXCEPT ![t] = << >>]
    /\ UNCHANGED << buf, lines, tail, clock >>

\* A pending pthread_cancel() acts on t inside stdio: every invocation of t
\* is abandoned.  No cleanup handler was pushed, so the mutex stays locked.
Cancel(t) ==
    /\ StdioCancels
    /\ \E pc \in InStdio : At(t, pc)
    /\ stack' = [stack EXCEPT ![t] = << >>]
    /\ UNCHANGED << log_mutex, buf, lines, tail, clock >>

Step(t) == Lock(t) \/ Fprintf(t) \/ Drain(t) \/ Flush(t) \/ Unlock(t)

Next == \E t \in Thread : Begin(t) \/ Step(t) \/ Cancel(t)

Spec == Init /\ [][Next]_vars

\* A thread that can run does; nobody has to log, and nobody is cancelled.
FairSpec == Spec /\ \A t \in Thread : WF_vars(Step(t))
------------------------------------------------------------------------------
\* While nobody is in log_varg()'s critical section the file ends with a
\* newline and no stream holds back text; a thread in it has all other
\* streams empty (logging.c:61-70).
StreamsClean ==
    /\ log_mutex = NoThread => tail = << >>
    /\ \A u \in Thread \ {log_mutex} : buf[u] = << >>

\* The log file only ever grows by whole lines, each logged once, whatever
\* the threads, their handlers and their cancellations do (logging.h:50-52).
AtomicLines == Log!Spec

\* Is the mutex locked by a thread that cannot release it: one that was
\* cancelled, or waits for the mutex itself on top of its critical section?
Orphaned == log_mutex # NoThread /\ ~ \E pc \in Inside : At(log_mutex, pc)

\* Every call of logit() returns, whoever interrupts it and however long the
\* queue, unless the mutex is orphaned (logging.c:56-71).
CallsReturn == \A t \in Thread : stack[t] # << >> ~> (stack[t] = << >> \/ Orphaned)
==============================================================================
