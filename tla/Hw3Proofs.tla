------------------------------ MODULE Hw3Proofs ------------------------------
(***************************************************************************)
(* Proofs about Hw3, in three parts: its type; the owner of log_mutex; and *)
(* how the program ends and when no signal can make it crash.              *)
(***************************************************************************)
EXTENDS Hw3, TLAPS

\* What the four ways of changing a stack do to its labels.
LEMMA ReplaceTop ==
    ASSUME NEW S, NEW s \in Seq(S), s # << >>, NEW l \in S
    PROVE  /\ << l >> \o Tail(s) \in Seq(S)
           /\ << l >> \o Tail(s) # << >>
           /\ Len(<< l >> \o Tail(s)) = Len(s)
           /\ (<< l >> \o Tail(s))[1] = l
           /\ \A i \in 2 .. Len(s) : (<< l >> \o Tail(s))[i] = s[i]
  OBVIOUS

LEMMA ReplaceTopByTwo ==
    ASSUME NEW S, NEW s \in Seq(S), s # << >>, NEW k \in S, NEW l \in S
    PROVE  /\ << k, l >> \o Tail(s) \in Seq(S)
           /\ << k, l >> \o Tail(s) # << >>
           /\ Len(<< k, l >> \o Tail(s)) = Len(s) + 1
           /\ (<< k, l >> \o Tail(s))[1] = k
           /\ (<< k, l >> \o Tail(s))[2] = l
           /\ \A i \in 3 .. Len(s) + 1 : (<< k, l >> \o Tail(s))[i] = s[i - 1]
  OBVIOUS

LEMMA PushTop ==
    ASSUME NEW S, NEW s \in Seq(S), NEW l \in S
    PROVE  /\ << l >> \o s \in Seq(S)
           /\ << l >> \o s # << >>
           /\ Len(<< l >> \o s) = Len(s) + 1
           /\ (<< l >> \o s)[1] = l
           /\ \A i \in 2 .. Len(s) + 1 : (<< l >> \o s)[i] = s[i - 1]
  OBVIOUS

LEMMA PopTop ==
    ASSUME NEW S, NEW s \in Seq(S), s # << >>
    PROVE  /\ Tail(s) \in Seq(S)
           /\ Len(Tail(s)) = Len(s) - 1
           /\ \A i \in 1 .. Len(s) - 1 : Tail(s)[i] = s[i + 1]
  OBVIOUS
------------------------------------------------------------------------------
\* The same, for the stack of one thread among those of all.

StacksOK == stack \in [Thread -> Seq(Label)]

LEMMA GotoStack ==
    ASSUME StacksOK, NEW t \in Thread, stack[t] # << >>, NEW l \in Label, Goto(t, l)
    PROVE  /\ StacksOK'
           /\ \A u \in Thread \ {t} : stack'[u] = stack[u]
           /\ stack'[t] = << l >> \o Tail(stack[t])
  BY ReplaceTop DEF StacksOK, Goto

LEMMA LogThenStack ==
    ASSUME StacksOK, NEW t \in Thread, stack[t] # << >>, NEW l \in Label, LogThen(t, l)
    PROVE  /\ StacksOK'
           /\ \A u \in Thread \ {t} : stack'[u] = stack[u]
           /\ stack'[t] = << "log_lock", l >> \o Tail(stack[t])
  BY ReplaceTopByTwo DEF StacksOK, LogThen, Label, LogLabel

\* TypeOK but for the stacks.
RestOK ==
    /\ status \in {"running", "exited", "crashed"}
    /\ installed \in BOOLEAN
    /\ life \in [Thread -> {"absent", "alive", "exiting", "dead", "joined", "failed"}]
    /\ tid \in [Thread -> BOOLEAN]
    /\ tls \in [Thread -> BOOLEAN]
    /\ p_logfile \in [Thread -> {"null", "open", "closed"}]
    /\ pending \in [Thread -> BOOLEAN]
    /\ mask \in [Thread -> Seq(Signal)]
    /\ log_mutex \in Thread \cup {NoThread}
    /\ timer \in {"null", "created", "armed", "deleted"}
    /\ callbacks \in Nat
    /\ metrics_sem \in Nat
    /\ matches \in 0 .. MaxMatches
    /\ ticks \in 0 .. MaxTicks
    /\ reports \in Nat
    /\ signals \in 0 .. MaxSignals
    /\ shutdown \in BOOLEAN

LEMMA TypeSplit == TypeOK <=> StacksOK /\ RestOK
  BY DEF TypeOK, StacksOK, RestOK

LEMMA TypeInit == Init => TypeOK
<1> SUFFICES ASSUME Init PROVE StacksOK /\ RestOK
  BY TypeSplit
<1>1. StacksOK
  <2>1. << >> \in Seq(Label) /\ << "ids" >> \in Seq(Label)
    BY DEF Label, BodyLabel
  <2> QED
    BY <2>1 DEF Init, StacksOK
<1>2. mask \in [Thread -> Seq(Signal)]
  BY DEF Init
<1>3. matches \in 0 .. MaxMatches /\ 0 \in 0 .. MaxTicks /\ 0 \in 0 .. MaxSignals
  BY Hw3Assumption DEF Init
<1> QED
  BY <1>1, <1>2, <1>3 DEF Init, RestOK

\* The names of labels and threads, so that the steps below need not expand the sets.
LEMMA Names ==
    /\ "log_lock" \in Label /\ "log_write" \in Label /\ "log_unlock" \in Label
    /\ "handler" \in Label /\ "pthread_exit" \in Label /\ "cancel_Letters" \in Label
    /\ "cancel_Metrics" \in Label /\ "ids" \in Label /\ "tls" \in Label
    /\ "open_log" \in Label /\ "log_ids" \in Label /\ "signal" \in Label
    /\ "create_Letters" \in Label /\ "create_Metrics" \in Label /\ "join_Letters" \in Label
    /\ "join_Metrics" \in Label /\ "joined" \in Label /\ "exit" \in Label
    /\ "open_file" \in Label /\ "count" \in Label /\ "report" \in Label
    /\ "return" \in Label /\ "timer_create" \in Label /\ "timer_set" \in Label
    /\ "sem_init" \in Label /\ "sem_wait" \in Label /\ "sem_blocked" \in Label
    /\ "rusage" \in Label /\ "cleanup" \in Label /\ "delete" \in Label
    /\ "close" \in Label
    /\ "Main" \in Thread /\ "Letters" \in Thread /\ "Metrics" \in Thread
    /\ \A w \in Worker : w \in Thread
    /\ \A t \in Thread : AfterInit[t] \in Label
  BY DEF Label, LogLabel, HandlerLabel, BodyLabel, Thread, Worker, AfterInit

LEMMA StacksNext == StacksOK /\ [Next]_vars => StacksOK'
<1> SUFFICES ASSUME StacksOK, [Next]_vars PROVE StacksOK'
  OBVIOUS
<1>1. ASSUME NEW t \in Thread, Step(t) PROVE StacksOK'
  <2>1. CASE LogLock(t)
    BY <2>1, GotoStack, Names DEF LogLock, StacksOK, At
  <2>2. CASE LogWrite(t)
    BY <2>2, GotoStack, Names DEF LogWrite, StacksOK, At, Crash
  <2>3. CASE LogUnlock(t)
    BY <2>3, PopTop DEF LogUnlock, StacksOK, At
  <2>4. CASE StoreIds(t)
    BY <2>4, GotoStack, Names DEF StoreIds, StacksOK, At
  <2>5. CASE SetSpecific(t)
    BY <2>5, GotoStack, Names DEF SetSpecific, StacksOK, At
  <2>6. CASE OpenLog(t)
    BY <2>6, LogThenStack, Names DEF OpenLog, StacksOK, At, Crash
  <2>7. CASE LogIds(t)
    BY <2>7, LogThenStack, Names DEF LogIds, StacksOK, At
  <2>8. CASE Cleanup(t)
    BY <2>8, LogThenStack, Names DEF Cleanup, StacksOK, At, Crash
  <2>9. CASE DeleteTimer(t)
    BY <2>9, LogThenStack, Names DEF DeleteTimer, StacksOK, At
  <2>10. CASE CloseLog(t)
    <3>1. CASE t = "Main"
      BY <2>10, <3>1, GotoStack, Names DEF CloseLog, At
    <3>2. CASE t # "Main"
      <4>1. << >> \in Seq(Label)
        OBVIOUS
      <4> QED
        BY <2>10, <3>2, <4>1 DEF CloseLog, StacksOK
    <3> QED
      BY <3>1, <3>2
  <2>11. CASE Handler(t)
    BY <2>11, LogThenStack, Names DEF Handler, StacksOK, At, Crash
  <2>12. CASE HandlerExit(t)
    BY <2>12, Names DEF HandlerExit, StacksOK, At, ExitThread
  <2>13. CASE ActOnCancel(t)
    BY <2>13, Names DEF ActOnCancel, StacksOK, At, ExitThread
  <2> QED
    BY <1>1, <2>1, <2>2, <2>3, <2>4, <2>5, <2>6, <2>7, <2>8, <2>9, <2>10, <2>11, <2>12, <2>13 DEF Step
<1>2. ASSUME MainStep PROVE StacksOK'
  <2>1. CASE InstallHandlers
    BY <2>1, GotoStack, Names DEF InstallHandlers, StacksOK, At
  <2>2. CASE LogJoined
    BY <2>2, LogThenStack, Names DEF LogJoined, StacksOK, At
  <2>3. CASE Exit
    BY <2>3 DEF Exit, StacksOK, At
  <2>4. ASSUME NEW w \in Worker, Create(w) PROVE StacksOK'
    <3>1. Created[w] \in Label /\ "ids" \in Label /\ "Main" \in Thread /\ w \in Thread
      BY Names DEF Created, Worker, Thread
    <3>2. stack["Main"] # << >>
      BY <2>4 DEF Create, At
    <3>3. CASE LogThen("Main", Created[w])
      BY <3>1, <3>2, <3>3, LogThenStack
    <3>4. CASE stack' = [stack EXCEPT !["Main"] = << Created[w] >> \o Tail(@), ![w] = << "ids" >>]
      <4>1. << Created[w] >> \o Tail(stack["Main"]) \in Seq(Label)
        BY <3>1, <3>2, ReplaceTop DEF StacksOK
      <4>2. << "ids" >> \in Seq(Label)
        BY <3>1
      <4> QED
        BY <3>4, <4>1, <4>2 DEF StacksOK
    <3> QED
      BY <2>4, <3>3, <3>4 DEF Create
  <2>5. ASSUME NEW w \in Worker, Join(w) PROVE StacksOK'
    <3>1. stack["Main"] # << >> /\ "Main" \in Thread /\ Joined[w] \in Label
      BY <2>5, Names DEF Join, At, Joined, Worker
    <3>2. CASE Goto("Main", Joined[w])
      BY <3>1, <3>2, GotoStack
    <3>3. CASE UNCHANGED stack
      BY <3>3 DEF StacksOK
    <3> QED
      BY <2>5, <3>2, <3>3 DEF Join, Crash
  <2>6. ASSUME NEW w \in Worker, CancelWorker(w) PROVE StacksOK'
    <3>1. stack["Main"] # << >> /\ "Main" \in Thread /\ "cancel_Metrics" \in Label
      BY <2>6, Names DEF CancelWorker, At, Thread
    <3>2. CASE Goto("Main", "cancel_Metrics")
      BY <3>1, <3>2, GotoStack
    <3>3. CASE stack' = [stack EXCEPT !["Main"] = Tail(@)]
      BY <3>1, <3>3, PopTop DEF StacksOK
    <3>4. CASE UNCHANGED stack
      BY <3>4 DEF StacksOK
    <3> QED
      BY <2>6, <3>2, <3>3, <3>4 DEF CancelWorker, Crash
  <2> QED
    BY <1>2, <2>1, <2>2, <2>3, <2>4, <2>5, <2>6 DEF MainStep
<1>3. ASSUME LettersStep PROVE StacksOK'
  <2>1. CASE OpenFile
    BY <2>1, LogThenStack, Names DEF OpenFile, StacksOK, At
  <2>2. CASE CountLetters
    BY <2>2, LogThenStack, Names DEF CountLetters, StacksOK, At
  <2>3. CASE ReportLetter
    BY <2>3, GotoStack, LogThenStack, Names DEF ReportLetter, StacksOK, At
  <2>4. CASE LettersReturn
    BY <2>4, Names DEF LettersReturn, StacksOK, At, ExitThread
  <2> QED
    BY <1>3, <2>1, <2>2, <2>3, <2>4 DEF LettersStep
<1>4. ASSUME MetricsStep PROVE StacksOK'
  <2>1. CASE CreateTimer
    BY <2>1, GotoStack, LogThenStack, Names DEF CreateTimer, StacksOK, At
  <2>2. CASE SetTimer
    BY <2>2, GotoStack, LogThenStack, Names DEF SetTimer, StacksOK, At, Crash
  <2>3. CASE SemInit
    BY <2>3, LogThenStack, Names DEF SemInit, StacksOK, At
  <2>4. CASE CallSemWait
    BY <2>4, GotoStack, Names DEF CallSemWait, StacksOK, At
  <2>5. CASE SemWait
    BY <2>5, GotoStack, Names DEF SemWait, StacksOK, At
  <2>6. CASE ReportCpu
    BY <2>6, LogThenStack, Names DEF ReportCpu, StacksOK, At
  <2> QED
    BY <1>4, <2>1, <2>2, <2>3, <2>4, <2>5, <2>6 DEF MetricsStep
<1>5. ASSUME Expire PROVE StacksOK'
  BY <1>5 DEF Expire, StacksOK
<1>6. ASSUME TimerCb PROVE StacksOK'
  BY <1>6 DEF TimerCb, StacksOK
<1>7. ASSUME DeliverToCallback PROVE StacksOK'
  BY <1>7 DEF DeliverToCallback, StacksOK, Crash
<1>8. ASSUME NEW t \in Thread, NEW s \in Signal, Deliver(t, s) PROVE StacksOK'
  BY <1>8, PushTop, Names DEF Deliver, StacksOK
<1>9. ASSUME UNCHANGED vars PROVE StacksOK'
  BY <1>9 DEF vars, StacksOK
<1> QED
  BY <1>1, <1>2, <1>3, <1>4, <1>5, <1>6, <1>7, <1>8, <1>9 DEF Next

LEMMA RestNext == RestOK /\ [Next]_vars => RestOK'
<1> SUFFICES ASSUME RestOK, [Next]_vars PROVE RestOK'
  OBVIOUS
<1>1. ASSUME NEW t \in Thread, Step(t) PROVE RestOK'
  <2>1. CASE LogLock(t)
    BY <2>1, Hw3Assumption DEF LogLock, RestOK, lifeVars, tickVars, otherVars, sigVars, Thread, Worker
  <2>2. CASE LogWrite(t)
    BY <2>2, Hw3Assumption, SMTT(40) DEF LogWrite, RestOK, lifeVars, tickVars, otherVars, sigVars, Crash, Thread, Worker
  <2>3. CASE LogUnlock(t)
    BY <2>3, Hw3Assumption DEF LogUnlock, RestOK, lifeVars, tickVars, otherVars, sigVars, Thread, Worker
  <2>4. CASE StoreIds(t)
    BY <2>4, Hw3Assumption DEF StoreIds, RestOK, lifeVars, tickVars, otherVars, sigVars, Thread, Worker
  <2>5. CASE SetSpecific(t)
    BY <2>5, Hw3Assumption DEF SetSpecific, RestOK, lifeVars, tickVars, otherVars, sigVars, Thread, Worker
  <2>6. CASE OpenLog(t)
    BY <2>6, Hw3Assumption, SMTT(40) DEF OpenLog, RestOK, lifeVars, tickVars, otherVars, sigVars, Crash, Thread, Worker
  <2>7. CASE LogIds(t)
    BY <2>7, Hw3Assumption DEF LogIds, RestOK, lifeVars, tickVars, otherVars, sigVars, Thread, Worker
  <2>8. CASE Cleanup(t)
    BY <2>8, Hw3Assumption, SMTT(40) DEF Cleanup, RestOK, lifeVars, tickVars, otherVars, sigVars, Crash, Thread, Worker
  <2>9. CASE DeleteTimer(t)
    BY <2>9, Hw3Assumption DEF DeleteTimer, RestOK, lifeVars, tickVars, otherVars, sigVars, Thread, Worker
  <2>10. CASE CloseLog(t)
    BY <2>10, Hw3Assumption DEF CloseLog, RestOK, lifeVars, tickVars, otherVars, sigVars, Thread, Worker
  <2>11. CASE Handler(t)
    BY <2>11, Hw3Assumption, SMTT(40) DEF Handler, RestOK, lifeVars, tickVars, otherVars, sigVars, Crash, Thread, Worker
  <2>12. CASE HandlerExit(t)
    BY <2>12, Hw3Assumption DEF HandlerExit, RestOK, lifeVars, tickVars, otherVars, sigVars, ExitThread, Thread, Worker
  <2>13. CASE ActOnCancel(t)
    BY <2>13, Hw3Assumption DEF ActOnCancel, RestOK, lifeVars, tickVars, otherVars, sigVars, ExitThread, Thread, Worker
  <2> QED
    BY <1>1, <2>1, <2>2, <2>3, <2>4, <2>5, <2>6, <2>7, <2>8, <2>9, <2>10, <2>11, <2>12, <2>13 DEF Step
<1>2. ASSUME MainStep PROVE RestOK'
  <2>1. CASE InstallHandlers
    BY <2>1, Hw3Assumption DEF InstallHandlers, RestOK, lifeVars, tickVars, otherVars, sigVars, Thread, Worker
  <2>2. CASE LogJoined
    BY <2>2, Hw3Assumption DEF LogJoined, RestOK, lifeVars, tickVars, otherVars, sigVars, Thread, Worker
  <2>3. CASE Exit
    BY <2>3, Hw3Assumption DEF Exit, RestOK, lifeVars, tickVars, otherVars, sigVars, Thread, Worker
  <2>4. ASSUME NEW w \in Worker, Create(w) PROVE RestOK'
    BY <2>4, Hw3Assumption DEF Create, RestOK, lifeVars, tickVars, otherVars, sigVars, Thread, Worker
  <2>5. ASSUME NEW w \in Worker, Join(w) PROVE RestOK'
    BY <2>5, Hw3Assumption, SMTT(40) DEF Join, RestOK, lifeVars, tickVars, otherVars, sigVars, Crash, Thread, Worker
  <2>6. ASSUME NEW w \in Worker, CancelWorker(w) PROVE RestOK'
    <3>1. pending' \in [Thread -> BOOLEAN]
      BY <2>6, Zenon DEF CancelWorker, RestOK, Crash, lifeVars
    <3>2. mask' \in [Thread -> Seq(Signal)]
      <4>1. CASE UNCHANGED mask
        BY <4>1 DEF RestOK
      <4>2. CASE mask' = [mask EXCEPT !["Main"] = SubSeq(@, 2, Len(@))]
        BY <4>2 DEF RestOK, Thread
      <4> QED
        BY <2>6, <4>1, <4>2 DEF CancelWorker, Crash, sigVars
    <3> QED
      BY <2>6, <3>1, <3>2 DEF CancelWorker, RestOK, Crash, lifeVars, tickVars, otherVars, sigVars
  <2> QED
    BY <1>2, <2>1, <2>2, <2>3, <2>4, <2>5, <2>6 DEF MainStep
<1>3. ASSUME LettersStep PROVE RestOK'
  <2>1. CASE OpenFile
    BY <2>1, Hw3Assumption DEF OpenFile, RestOK, lifeVars, tickVars, otherVars, sigVars, Thread, Worker
  <2>2. CASE CountLetters
    BY <2>2, Hw3Assumption DEF CountLetters, RestOK, lifeVars, tickVars, otherVars, sigVars, Thread, Worker
  <2>3. CASE ReportLetter
    BY <2>3, Hw3Assumption DEF ReportLetter, RestOK, lifeVars, tickVars, otherVars, sigVars, Thread, Worker
  <2>4. CASE LettersReturn
    BY <2>4, Hw3Assumption DEF LettersReturn, RestOK, lifeVars, tickVars, otherVars, sigVars, ExitThread, Thread, Worker
  <2> QED
    BY <1>3, <2>1, <2>2, <2>3, <2>4 DEF LettersStep
<1>4. ASSUME MetricsStep PROVE RestOK'
  <2>1. CASE CreateTimer
    BY <2>1, Hw3Assumption DEF CreateTimer, RestOK, lifeVars, tickVars, otherVars, sigVars, Thread, Worker
  <2>2. CASE SetTimer
    BY <2>2, Hw3Assumption DEF SetTimer, RestOK, lifeVars, tickVars, otherVars, sigVars, Crash, Thread, Worker
  <2>3. CASE SemInit
    BY <2>3, Hw3Assumption DEF SemInit, RestOK, lifeVars, tickVars, otherVars, sigVars, Thread, Worker
  <2>4. CASE CallSemWait
    BY <2>4, Hw3Assumption DEF CallSemWait, RestOK, lifeVars, tickVars, otherVars, sigVars, Thread, Worker
  <2>5. CASE SemWait
    BY <2>5, Hw3Assumption DEF SemWait, RestOK, lifeVars, tickVars, otherVars, sigVars, Thread, Worker
  <2>6. CASE ReportCpu
    BY <2>6, Hw3Assumption DEF ReportCpu, RestOK, lifeVars, tickVars, otherVars, sigVars, Thread, Worker
  <2> QED
    BY <1>4, <2>1, <2>2, <2>3, <2>4, <2>5, <2>6 DEF MetricsStep
<1>5. ASSUME Expire PROVE RestOK'
  BY <1>5, Hw3Assumption DEF Expire, RestOK, lifeVars, tickVars, otherVars, sigVars, Thread, Worker
<1>6. ASSUME TimerCb PROVE RestOK'
  BY <1>6, Hw3Assumption DEF TimerCb, RestOK, lifeVars, tickVars, otherVars, sigVars, Thread, Worker
<1>7. ASSUME DeliverToCallback PROVE RestOK'
  BY <1>7, Hw3Assumption DEF DeliverToCallback, RestOK, lifeVars, tickVars, otherVars, sigVars, Crash, Thread, Worker
<1>8. ASSUME NEW t \in Thread, NEW s \in Signal, Deliver(t, s) PROVE RestOK'
  BY <1>8, Hw3Assumption DEF Deliver, RestOK, lifeVars, tickVars, otherVars, sigVars, Thread, Worker
<1>9. ASSUME UNCHANGED vars PROVE RestOK'
  BY <1>9 DEF vars, RestOK, lifeVars, tickVars, otherVars, sigVars
<1> QED
  BY <1>1, <1>2, <1>3, <1>4, <1>5, <1>6, <1>7, <1>8, <1>9 DEF Next

\* Every variable keeps its type, whatever the bounds (module Hw3).
THEOREM TypeCorrect == Spec => []TypeOK
<1>1. TypeOK /\ [Next]_vars => TypeOK'
  <2> SUFFICES ASSUME TypeOK, [Next]_vars PROVE StacksOK' /\ RestOK'
    BY DEF TypeOK, StacksOK, RestOK
  <2> QED
    BY TypeSplit, StacksNext, RestNext
<1> QED
  BY TypeInit, <1>1, PTL DEF Spec
------------------------------------------------------------------------------
(***************************************************************************)
(* Proof about Hw3 that log_mutex has the right owner: whoever is in the   *)
(* critical section of log_varg() owns it, handlers on top or not, and an  *)
(* owner that is gone was cancelled inside stdio.                          *)
(***************************************************************************)

\* Where a thread is: the labels of its own code are at the bottom of its
\* stack, those of log_varg() and of the handler above.

Bottom(t) == stack[t][Len(stack[t])]

Shape == \A t \in Thread : \A i \in 1 .. Len(stack[t]) :
            stack[t][i] \in BodyLabel <=> i = Len(stack[t])

\* main() has not come to the creation of w yet.
BeforeCreate == [Letters |-> {"ids", "tls", "open_log", "log_ids", "signal", "create_Letters"},
                 Metrics |-> {"ids", "tls", "open_log", "log_ids", "signal", "create_Letters",
                              "create_Metrics"}]

NotStarted == /\ stack["Main"] # << >>
              /\ \A w \in Worker : Bottom("Main") \in BeforeCreate[w] =>
                                      life[w] = "absent" /\ stack[w] = << >>

LEMMA NonEmpty == ASSUME NEW S, NEW s \in Seq(S), Len(s) > 0 PROVE s # << >>
  OBVIOUS

\* A thread in its own code has a stack of one label, and moves within it.
LEMMA BodyTop ==
    ASSUME StacksOK, Shape, NEW t \in Thread, NEW l \in BodyLabel, At(t, l)
    PROVE  stack[t] = << l >> /\ Bottom(t) = l
<1>1. stack[t] \in Seq(Label) /\ stack[t] # << >> /\ stack[t][1] = l
  BY DEF StacksOK, At
<1>2. 1 \in 1 .. Len(stack[t])
  BY <1>1
<1>3. Len(stack[t]) = 1
  BY <1>1, <1>2 DEF Shape
<1> QED
  BY <1>1, <1>3 DEF Bottom

LEMMA BodyGoto ==
    ASSUME StacksOK, Shape, NEW t \in Thread, NEW l \in BodyLabel, At(t, l),
           NEW m \in BodyLabel, Goto(t, m)
    PROVE  stack'[t] = << m >> /\ Shape' /\ Bottom(t)' = m
<1>1. stack[t] = << l >>
  BY BodyTop
<1>2. stack' = [stack EXCEPT ![t] = << m >>]
  BY <1>1 DEF Goto
<1> QED
  BY <1>2 DEF StacksOK, Shape, Bottom

LEMMA BodyLogThen ==
    ASSUME StacksOK, Shape, NEW t \in Thread, NEW l \in BodyLabel, At(t, l),
           NEW m \in BodyLabel, LogThen(t, m)
    PROVE  stack'[t] = << "log_lock", m >> /\ Shape' /\ Bottom(t)' = m
<1>1. stack[t] = << l >>
  BY BodyTop
<1>2. stack' = [stack EXCEPT ![t] = << "log_lock", m >>]
  BY <1>1 DEF LogThen
<1>3. "log_lock" \notin BodyLabel
  BY DEF BodyLabel
<1> QED
  BY <1>2, <1>3 DEF StacksOK, Shape, Bottom

\* A thread above its own code stays above it: the bottom does not change.
LEMMA UpperTop ==
    ASSUME StacksOK, Shape, NEW t \in Thread, NEW l \in Label \ BodyLabel, At(t, l)
    PROVE  stack[t] \in Seq(Label) /\ Len(stack[t]) > 1 /\ stack[t][1] = l
  BY DEF StacksOK, Shape, At

LEMMA UpperGoto ==
    ASSUME StacksOK, Shape, NEW t \in Thread, NEW l \in Label \ BodyLabel, At(t, l),
           NEW m \in Label \ BodyLabel, Goto(t, m)
    PROVE  Shape' /\ stack'[t] # << >> /\ Bottom(t)' = Bottom(t)
<1>1. stack[t] \in Seq(Label) /\ Len(stack[t]) > 1
  BY UpperTop
<1>2. /\ stack' = [stack EXCEPT ![t] = << m >> \o Tail(stack[t])]
      /\ Len(stack'[t]) = Len(stack[t])
      /\ stack'[t][1] = m
      /\ \A i \in 2 .. Len(stack[t]) : stack'[t][i] = stack[t][i]
  BY <1>1, ReplaceTop DEF Goto, StacksOK
<1> QED
  BY <1>1, <1>2 DEF StacksOK, Shape, Bottom

LEMMA UpperLogThen ==
    ASSUME StacksOK, Shape, NEW t \in Thread, NEW l \in Label \ BodyLabel, At(t, l),
           NEW m \in Label \ BodyLabel, LogThen(t, m)
    PROVE  Shape' /\ stack'[t] # << >> /\ Bottom(t)' = Bottom(t)
<1>1. stack[t] \in Seq(Label) /\ Len(stack[t]) > 1 /\ "log_lock" \in Label \ BodyLabel
  BY UpperTop DEF Label, LogLabel, BodyLabel
<1>2. /\ stack' = [stack EXCEPT ![t] = << "log_lock", m >> \o Tail(stack[t])]
      /\ Len(stack'[t]) = Len(stack[t]) + 1
      /\ stack'[t][1] = "log_lock"
      /\ stack'[t][2] = m
      /\ \A i \in 3 .. Len(stack[t]) + 1 : stack'[t][i] = stack[t][i - 1]
  BY <1>1, ReplaceTopByTwo DEF LogThen, StacksOK
<1> QED
  BY <1>1, <1>2 DEF StacksOK, Shape, Bottom

LEMMA UpperPop ==
    ASSUME StacksOK, Shape, NEW t \in Thread, NEW l \in Label \ BodyLabel, At(t, l),
           stack' = [stack EXCEPT ![t] = Tail(@)]
    PROVE  Shape' /\ stack'[t] # << >> /\ Bottom(t)' = Bottom(t)
<1>1. stack[t] \in Seq(Label) /\ Len(stack[t]) > 1
  BY UpperTop
<1>2. /\ Len(stack'[t]) = Len(stack[t]) - 1
      /\ \A i \in 1 .. Len(stack[t]) - 1 : stack'[t][i] = stack[t][i + 1]
  BY <1>1, PopTop DEF StacksOK
<1>3. \A u \in Thread \ {t} : stack'[u] = stack[u]
  BY DEF StacksOK
<1>4. \A i \in 1 .. Len(stack'[t]) : stack'[t][i] \in BodyLabel <=> i = Len(stack'[t])
  <2> SUFFICES ASSUME NEW i \in 1 .. Len(stack'[t])
               PROVE  stack'[t][i] \in BodyLabel <=> i = Len(stack'[t])
    OBVIOUS
  <2>1. i + 1 \in 1 .. Len(stack[t]) /\ stack'[t][i] = stack[t][i + 1]
    BY <1>1, <1>2
  <2> QED
    BY <1>1, <1>2, <2>1 DEF Shape
<1>5. Shape'
  BY <1>3, <1>4 DEF Shape
<1>6. Bottom(t)' = Bottom(t)
  BY <1>1, <1>2 DEF Bottom
<1>7. stack'[t] # << >>
  <2>1. Tail(stack[t]) \in Seq(Label) /\ Len(Tail(stack[t])) > 0
    BY <1>1, PopTop
  <2>2. Tail(stack[t]) # << >>
    BY <2>1, NonEmpty
  <2> QED
    BY <2>2 DEF StacksOK
<1> QED
  BY <1>5, <1>6, <1>7

LEMMA UpperPush ==
    ASSUME StacksOK, Shape, NEW t \in Thread, stack[t] # << >>,
           NEW m \in Label \ BodyLabel, stack' = [stack EXCEPT ![t] = << m >> \o @]
    PROVE  Shape' /\ stack'[t] # << >> /\ Bottom(t)' = Bottom(t)
<1>1. stack[t] \in Seq(Label) /\ Len(stack[t]) > 0
  BY DEF StacksOK
<1>2. /\ Len(stack'[t]) = Len(stack[t]) + 1
      /\ stack'[t][1] = m
      /\ \A i \in 2 .. Len(stack[t]) + 1 : stack'[t][i] = stack[t][i - 1]
  BY <1>1, PushTop DEF StacksOK
<1>3. \A u \in Thread \ {t} : stack'[u] = stack[u]
  BY DEF StacksOK
<1>4. \A i \in 1 .. Len(stack'[t]) : stack'[t][i] \in BodyLabel <=> i = Len(stack'[t])
  <2> SUFFICES ASSUME NEW i \in 1 .. Len(stack'[t])
               PROVE  stack'[t][i] \in BodyLabel <=> i = Len(stack'[t])
    OBVIOUS
  <2>1. CASE i = 1
    BY <1>1, <1>2, <2>1
  <2>2. CASE i > 1
    <3>1. i - 1 \in 1 .. Len(stack[t]) /\ stack'[t][i] = stack[t][i - 1]
      BY <1>1, <1>2, <2>2
    <3> QED
      BY <1>2, <3>1 DEF Shape
  <2> QED
    BY <2>1, <2>2
<1>5. Shape'
  BY <1>3, <1>4 DEF Shape
<1>6. Bottom(t)' = Bottom(t)
  BY <1>1, <1>2 DEF Bottom
<1>7. stack'[t] # << >>
  BY <1>1, PushTop DEF StacksOK
<1> QED
  BY <1>5, <1>6, <1>7

------------------------------------------------------------------------------
\* The steps of the program by what they do to the stacks.

Active == {"alive", "exiting"}

\* A thread that runs has something to run.
LifeInv == \A t \in Thread : life[t] \in Active => stack[t] # << >>

PendingGrows == \A t \in Thread : pending[t] => pending'[t]

KeepsLife ==
    \A u \in Thread : /\ life[u] = "absent" /\ stack[u] = << >> => life'[u] = "absent"
                      /\ life'[u] \in Active => life[u] \in Active \/ stack[u] # << >>

\* In its own code, t goes from l to m, and may log on the way; main() does not
\* come back to the code before a creation.
BodyMove(t) ==
    \E l, m \in BodyLabel :
        /\ At(t, l)
        /\ Goto(t, m) \/ LogThen(t, m)
        /\ t = "Main" => \A w \in Worker : m \in BeforeCreate[w] => l \in BeforeCreate[w]

\* The handler proceeds or returns.
HandlerMove(t) ==
    \/ At(t, "handler") /\ \E m \in HandlerLabel : LogThen(t, m)
    \/ At(t, "cancel_Letters") /\ Goto(t, "cancel_Metrics")
    \/ At(t, "cancel_Metrics") /\ stack' = [stack EXCEPT ![t] = Tail(@)]

\* t unwinds, or is gone.
UnwindMove(t) ==
    /\ \/ \E l \in BodyLabel \cup {"pthread_exit"} : At(t, l)
       \/ At(t, "log_write") /\ StdioCancels /\ pending[t]
    /\ \/ stack' = [stack EXCEPT ![t] = << "cleanup" >>]
       \/ t # "Main" /\ stack' = [stack EXCEPT ![t] = << >>] /\ life'[t] = "dead"

DeliverMove(t) ==
    /\ life[t] \in Active
    /\ stack' = [stack EXCEPT ![t] = << "handler" >> \o @]

CreateMove(w) ==
    /\ At("Main", [Letters |-> "create_Letters", Metrics |-> "create_Metrics"][w])
    /\ \/ stack' = [stack EXCEPT !["Main"] = << Created[w] >> \o Tail(@), ![w] = << "ids" >>]
       \/ LogThen("Main", Created[w])
    /\ \A v \in Thread \ {w} : life'[v] = life[v]
    /\ stack'[w] # << >> \/ life'[w] \notin Active

LogMove(t) == LogLock(t) \/ (At(t, "log_write") /\ Goto(t, "log_unlock") /\ UNCHANGED log_mutex)
              \/ LogUnlock(t)

QuietMove(t) == BodyMove(t) \/ HandlerMove(t) \/ UnwindMove(t)

\* What the program does by itself, and everything.
OwnMove == \/ UNCHANGED << stack, log_mutex >> /\ KeepsLife
           \/ \E t \in Thread : LogMove(t) /\ KeepsLife
           \/ \E t \in Thread : QuietMove(t) /\ KeepsLife /\ UNCHANGED log_mutex
           \/ \E w \in Worker : CreateMove(w) /\ UNCHANGED log_mutex
Move    == OwnMove \/ \E t \in Thread : DeliverMove(t) /\ KeepsLife /\ UNCHANGED log_mutex

\* No step takes a cancellation request back (hw3.c:103).
LEMMA Pendings == ASSUME TypeOK, [Next]_vars PROVE PendingGrows
<1>1. ASSUME UNCHANGED pending PROVE PendingGrows
  BY <1>1 DEF PendingGrows
<1>2. ASSUME NEW w \in Worker, CancelWorker(w) PROVE PendingGrows
  <2>1. CASE pending' = [pending EXCEPT ![w] = @ \/ life[w] = "alive"]
    BY <2>1, Zenon DEF PendingGrows, TypeOK, Worker, Thread
  <2>2. CASE UNCHANGED pending
    BY <1>1, <2>2
  <2> QED
    BY <1>2, <2>1, <2>2 DEF CancelWorker, Crash, lifeVars
<1>3. CASE UNCHANGED pending
  BY <1>1, <1>3
<1>4. (\E w \in Worker : CancelWorker(w)) \/ UNCHANGED pending
  BY DEF Next, Step, MainStep, LettersStep, MetricsStep, vars, lifeVars, LogLock, LogWrite, LogUnlock,
     StoreIds, SetSpecific, OpenLog, LogIds, Cleanup, DeleteTimer, CloseLog, Handler, HandlerExit,
     ActOnCancel, InstallHandlers, LogJoined, Exit, Create, Join, OpenFile, CountLetters,
     ReportLetter, LettersReturn, CreateTimer, SetTimer, SemInit, CallSemWait, SemWait, ReportCpu,
     Expire, TimerCb, Deliver, DeliverToCallback, Crash, ExitThread
<1> QED
  BY <1>2, <1>3, <1>4

\* Two ways to keep the lives as KeepsLife says, and then each group of actions
\* is a Move.
LEMMA LifeKept == ASSUME UNCHANGED life PROVE KeepsLife
  BY DEF KeepsLife

LEMMA LifeExits ==
    ASSUME TypeOK, NEW t \in Thread, stack[t] # << >>, NEW s, life' = [life EXCEPT ![t] = s]
    PROVE  KeepsLife
  BY DEF KeepsLife, TypeOK

LEMMA StepMoves == ASSUME TypeOK, NEW t \in Thread, Step(t) PROVE OwnMove
<1> USE DEF lifeVars
<1>1. CASE LogLock(t) \/ LogUnlock(t)
  BY <1>1, LifeKept DEF OwnMove, LogMove, LogLock, LogUnlock
<1>2. CASE LogWrite(t)
  BY <1>2, LifeKept DEF OwnMove, LogMove, LogWrite, Crash
<1>3. CASE StoreIds(t)
  <2>1. BodyMove(t)
    BY <1>3 DEF StoreIds, BodyMove, BodyLabel, BeforeCreate, Worker
  <2> QED
    BY <1>3, <2>1, LifeKept DEF StoreIds, OwnMove, QuietMove
<1>4. CASE SetSpecific(t)
  <2>1. BodyMove(t)
    BY <1>4 DEF SetSpecific, BodyMove, BodyLabel, BeforeCreate, Worker
  <2> QED
    BY <1>4, <2>1, LifeKept DEF SetSpecific, OwnMove, QuietMove
<1>5. CASE OpenLog(t)
  <2>1. CASE Crash
    BY <2>1, LifeKept DEF Crash, OwnMove
  <2>2. CASE ~ Crash
    <3>1. BodyMove(t)
      BY <1>5, <2>2 DEF OpenLog, BodyMove, BodyLabel, BeforeCreate, Worker
    <3> QED
      BY <1>5, <2>2, <3>1, LifeKept DEF OpenLog, OwnMove, QuietMove
  <2> QED
    BY <2>1, <2>2
<1>6. CASE LogIds(t)
  <2>1. BodyMove(t)
    BY <1>6 DEF LogIds, AfterInit, BodyMove, BodyLabel, BeforeCreate, Worker, Thread
  <2> QED
    BY <1>6, <2>1, LifeKept DEF LogIds, OwnMove, QuietMove
<1>7. CASE Cleanup(t)
  <2>1. CASE Crash
    BY <2>1, LifeKept DEF Crash, OwnMove
  <2>2. CASE ~ Crash
    <3>1. BodyMove(t)
      BY <1>7, <2>2 DEF Cleanup, BodyMove, BodyLabel, BeforeCreate, Worker
    <3> QED
      BY <1>7, <2>2, <3>1, LifeKept DEF Cleanup, OwnMove, QuietMove
  <2> QED
    BY <2>1, <2>2
<1>8. CASE DeleteTimer(t)
  <2>1. BodyMove(t)
    BY <1>8 DEF DeleteTimer, BodyMove, BodyLabel, BeforeCreate, Worker
  <2> QED
    BY <1>8, <2>1, LifeKept DEF DeleteTimer, OwnMove, QuietMove
<1>9. CASE CloseLog(t)
  <2>1. CASE t = "Main"
    <3>1. BodyMove(t)
      BY <1>9, <2>1 DEF CloseLog, BodyMove, BodyLabel, BeforeCreate, Worker
    <3> QED
      BY <1>9, <2>1, <3>1, LifeKept DEF CloseLog, OwnMove, QuietMove
  <2>2. CASE t # "Main"
    <3>1. UnwindMove(t)
      BY <1>9, <2>2 DEF CloseLog, UnwindMove, BodyLabel, TypeOK
    <3> QED
      BY <1>9, <2>2, <3>1, LifeExits DEF CloseLog, At, OwnMove, QuietMove
  <2> QED
    BY <2>1, <2>2
<1>10. CASE Handler(t)
  <2>1. CASE Crash
    BY <2>1, LifeKept DEF Crash, OwnMove
  <2>2. CASE ~ Crash
    <3>1. HandlerMove(t)
      BY <1>10, <2>2 DEF Handler, HandlerMove, HandlerLabel
    <3> QED
      BY <1>10, <2>2, <3>1, LifeKept DEF Handler, OwnMove, QuietMove
  <2> QED
    BY <2>1, <2>2
<1>11. CASE HandlerExit(t)
  <2>1. UnwindMove(t)
    BY <1>11 DEF HandlerExit, ExitThread, UnwindMove
  <2> QED
    BY <1>11, <2>1, LifeExits DEF HandlerExit, ExitThread, At, OwnMove, QuietMove
<1>12. CASE ActOnCancel(t)
  <2>1. PICK l \in CancelPoint : At(t, l)
    BY <1>12 DEF ActOnCancel
  <2>2. l \in BodyLabel \/ (l = "log_write" /\ StdioCancels)
    BY <2>1 DEF CancelPoint, BodyLabel
  <2>3. UnwindMove(t)
    BY <1>12, <2>1, <2>2 DEF ActOnCancel, ExitThread, UnwindMove
  <2> QED
    BY <1>12, <2>1, <2>3, LifeExits DEF ActOnCancel, ExitThread, At, OwnMove, QuietMove
<1> QED
  BY <1>1, <1>2, <1>3, <1>4, <1>5, <1>6, <1>7, <1>8, <1>9, <1>10, <1>11, <1>12 DEF Step

LEMMA MainMoves == ASSUME TypeOK, MainStep PROVE OwnMove
<1> USE DEF lifeVars
<1>0. "Main" \in Thread /\ "Main" \notin Worker
  BY DEF Thread, Worker
<1>1. CASE InstallHandlers
  <2>1. BodyMove("Main")
    BY <1>1 DEF InstallHandlers, BodyMove, BodyLabel, BeforeCreate, Worker
  <2> QED
    BY <1>0, <1>1, <2>1, LifeKept DEF InstallHandlers, OwnMove, QuietMove
<1>2. CASE LogJoined
  <2>1. BodyMove("Main")
    BY <1>2 DEF LogJoined, BodyMove, BodyLabel, BeforeCreate, Worker
  <2> QED
    BY <1>0, <1>2, <2>1, LifeKept DEF LogJoined, OwnMove, QuietMove
<1>3. CASE Exit
  BY <1>3, LifeKept DEF Exit, OwnMove
<1>4. ASSUME NEW w \in Worker, Create(w) PROVE OwnMove
  <2>1. \A v \in Thread \ {w} : life'[v] = life[v]
    BY <1>4 DEF Create, TypeOK
  <2>2. stack'[w] # << >> \/ life'[w] \notin Active
    <3>1. w \in Thread /\ w # "Main"
      BY <1>0 DEF Thread
    <3>2. stack'[w] = << "ids" >> \/ life'[w] = "failed"
      BY <1>4, <3>1 DEF Create, TypeOK
    <3> QED
      BY <3>2 DEF Active
  <2>3. CreateMove(w)
    BY <1>4, <2>1, <2>2 DEF Create, CreateMove
  <2> QED
    BY <1>4, <2>3 DEF Create, OwnMove
<1>5. ASSUME NEW w \in Worker, Join(w) PROVE OwnMove
  <2>1. CASE Crash
    BY <2>1, LifeKept DEF Crash, OwnMove
  <2>2. CASE ~ Crash
    <3>1. BodyMove("Main")
      BY <1>5, <2>2 DEF Join, Joined, BodyMove, BodyLabel, BeforeCreate, Worker
    <3>2. KeepsLife
      BY <1>5, <2>2 DEF Join, KeepsLife, Active, TypeOK, Worker, Thread
    <3> QED
      BY <1>0, <1>5, <2>2, <3>1, <3>2 DEF Join, OwnMove, QuietMove
  <2> QED
    BY <2>1, <2>2
<1>6. ASSUME NEW w \in Worker, CancelWorker(w) PROVE OwnMove
  <2>1. CASE Crash
    BY <2>1, LifeKept DEF Crash, OwnMove
  <2>2. CASE ~ Crash
    <3>1. HandlerMove("Main")
      BY <1>6, <2>2 DEF CancelWorker, HandlerMove, Worker
    <3> QED
      BY <1>0, <1>6, <2>2, <3>1, LifeKept DEF CancelWorker, OwnMove, QuietMove
  <2> QED
    BY <2>1, <2>2
<1> QED
  BY <1>1, <1>2, <1>3, <1>4, <1>5, <1>6 DEF MainStep

LEMMA LettersMoves == ASSUME TypeOK, LettersStep PROVE OwnMove
<1> USE DEF lifeVars
<1>0. "Letters" \in Thread /\ "Letters" # "Main"
  BY DEF Thread, Worker
<1>1. CASE OpenFile \/ CountLetters \/ ReportLetter
  <2>1. BodyMove("Letters")
    BY <1>1 DEF OpenFile, CountLetters, ReportLetter, BodyMove, BodyLabel
  <2> QED
    BY <1>0, <1>1, <2>1, LifeKept DEF OpenFile, CountLetters, ReportLetter, OwnMove, QuietMove
<1>2. CASE LettersReturn
  <2>1. UnwindMove("Letters")
    BY <1>2 DEF LettersReturn, ExitThread, UnwindMove, BodyLabel
  <2> QED
    BY <1>0, <1>2, <2>1, LifeExits DEF LettersReturn, ExitThread, At, OwnMove, QuietMove
<1> QED
  BY <1>1, <1>2 DEF LettersStep

LEMMA MetricsMoves == ASSUME TypeOK, MetricsStep PROVE OwnMove
<1> USE DEF lifeVars
<1>0. "Metrics" \in Thread /\ "Metrics" # "Main"
  BY DEF Thread, Worker
<1>1. CASE SetTimer /\ Crash
  BY <1>1, LifeKept DEF Crash, OwnMove
<1>2. CASE ~ (SetTimer /\ Crash)
  <2>1. BodyMove("Metrics") /\ UNCHANGED << life, log_mutex >>
    BY <1>2 DEF MetricsStep, CreateTimer, SetTimer, SemInit, CallSemWait, SemWait, ReportCpu,
                BodyMove, BodyLabel
  <2> QED
    BY <1>0, <2>1, LifeKept DEF OwnMove, QuietMove
<1> QED
  BY <1>1, <1>2

LEMMA DeliverMoves == ASSUME TypeOK, NEW t \in Thread, NEW s \in Signal, Deliver(t, s) PROVE Move
  BY LifeKept DEF Deliver, DeliverMove, Active, Move, lifeVars

LEMMA OwnMoves ==
    ASSUME TypeOK, [Next]_vars
    PROVE  OwnMove \/ \E t \in Thread, s \in Signal : Deliver(t, s)
<1>1. CASE Expire \/ TimerCb \/ DeliverToCallback \/ UNCHANGED vars
  BY <1>1, LifeKept DEF Expire, TimerCb, DeliverToCallback, Crash, vars, lifeVars, OwnMove
<1> QED
  BY <1>1, StepMoves, MainMoves, LettersMoves, MetricsMoves DEF Next

LEMMA Moves == ASSUME TypeOK, [Next]_vars PROVE Move
  BY OwnMoves, DeliverMoves DEF Move
------------------------------------------------------------------------------
\* The invariant.

CS == {"log_write", "log_unlock"}

\* The labels on top of an interrupted critical section: a handler that has
\* not logged yet, or waits for the mutex that its own thread holds.
Stuck == {"handler", "log_lock"}

MutexInv ==
    \A t \in Thread : \A i \in 1 .. Len(stack[t]) : stack[t][i] \in CS =>
        /\ log_mutex = t
        /\ i # 1 => stack[t][1] \in Stuck
        /\ \A j \in 1 .. Len(stack[t]) : stack[t][j] \in CS => j = i

OwnerInv ==
    \A t \in Thread : log_mutex = t => InCS(t) \/ (StdioCancels /\ pending[t])

OwnerIInv == TypeOK /\ Shape /\ NotStarted /\ LifeInv /\ MutexInv /\ OwnerInv

\* It implies the property, and holds at first.
LEMMA OwnerImplies == OwnerIInv => MutexOwnership
  BY DEF OwnerIInv, MutexInv, OwnerInv, MutexOwnership, InCS, CS

LEMMA OwnerInit == Init => OwnerIInv
<1> SUFFICES ASSUME Init PROVE OwnerIInv
  OBVIOUS
<1>1. TypeOK
  BY TypeInit
<1>2. /\ stack["Main"] = << "ids" >>
      /\ \A w \in Worker : stack[w] = << >> /\ life[w] = "absent"
  BY DEF Init, Thread, Worker
<1>3. Thread = {"Main"} \cup Worker
  BY DEF Thread
<1>4. Shape
  <2>1. "ids" \in BodyLabel /\ Len(stack["Main"]) = 1 /\ stack["Main"][1] = "ids"
    BY <1>2 DEF BodyLabel
  <2>2. \A w \in Worker : Len(stack[w]) = 0
    BY <1>2
  <2>3. \A i \in 1 .. Len(stack["Main"]) : stack["Main"][i] \in BodyLabel <=> i = Len(stack["Main"])
    BY <2>1
  <2>4. \A w \in Worker : \A i \in 1 .. Len(stack[w]) : stack[w][i] \in BodyLabel <=> i = Len(stack[w])
    BY <2>2
  <2> QED
    BY <1>3, <2>3, <2>4 DEF Shape
<1>5. NotStarted
  BY <1>2 DEF NotStarted
<1>6. MutexInv
  BY <1>2, <1>3 DEF MutexInv, CS
<1>7. LifeInv
  BY <1>2, <1>3 DEF Init, LifeInv, Active
<1>8. OwnerInv
  BY Hw3Assumption DEF Init, OwnerInv
<1> QED
  BY <1>1, <1>4, <1>5, <1>6, <1>7, <1>8 DEF OwnerIInv

\* A step that leaves the mutex alone, and after which the threads t and v that
\* it changes are outside the critical section, as they were before or were
\* cancelled.
LEMMA OutsideKeeps ==
    ASSUME MutexInv, OwnerInv, PendingGrows, UNCHANGED log_mutex,
           NEW t \in Thread, NEW v \in Thread,
           \A u \in Thread \ {t, v} : stack'[u] = stack[u],
           \A i \in 1 .. Len(stack'[t]) : stack'[t][i] \notin CS,
           \A i \in 1 .. Len(stack'[v]) : stack'[v][i] \notin CS,
           ~ InCS(t) \/ (StdioCancels /\ pending[t]),
           ~ InCS(v) \/ (StdioCancels /\ pending[v])
    PROVE  MutexInv' /\ OwnerInv'
<1>1. MutexInv'
  <2> SUFFICES ASSUME NEW u \in Thread, NEW i \in 1 .. Len(stack'[u]), stack'[u][i] \in CS
               PROVE  /\ log_mutex' = u
                      /\ i # 1 => stack'[u][1] \in Stuck
                      /\ \A j \in 1 .. Len(stack'[u]) : stack'[u][j] \in CS => j = i
    BY DEF MutexInv
  <2>1. u # t /\ u # v
    OBVIOUS
  <2> QED
    BY <2>1 DEF MutexInv
<1>2. OwnerInv'
  <2> SUFFICES ASSUME NEW u \in Thread, log_mutex' = u
               PROVE  InCS(u)' \/ (StdioCancels /\ pending'[u])
    BY DEF OwnerInv
  <2>1. CASE u = t \/ u = v
    BY <2>1 DEF OwnerInv, PendingGrows
  <2>2. CASE u # t /\ u # v
    BY <2>2 DEF OwnerInv, PendingGrows, InCS
  <2> QED
    BY <2>1, <2>2
<1> QED
  BY <1>1, <1>2

\* A thread is outside the critical section when the label it executes is, and
\* is not one that may stand on top of it.
LEMMA TopOutside ==
    ASSUME StacksOK, MutexInv, NEW t \in Thread, NEW l, At(t, l), l \notin CS, l \notin Stuck
    PROVE  ~ InCS(t)
<1>1. stack[t][1] = l
  BY DEF At
<1> QED
  BY <1>1 DEF MutexInv, InCS, CS

\* The bottom of main()'s stack says what is not started yet.
LEMMA BottomKeeps ==
    ASSUME NotStarted, KeepsLife, NEW t \in Thread,
           stack[t] # << >>,
           \A u \in Thread \ {t} : stack'[u] = stack[u],
           t = "Main" => /\ stack'[t] # << >>
                         /\ \A w \in Worker :
                               Bottom(t)' \in BeforeCreate[w] => Bottom(t) \in BeforeCreate[w]
    PROVE  NotStarted'
<1>1. stack'["Main"] # << >>
  BY DEF NotStarted, Thread
<1>2. ASSUME NEW w \in Worker, Bottom("Main")' \in BeforeCreate[w]
      PROVE  life'[w] = "absent" /\ stack'[w] = << >>
  <2>1. Bottom("Main") \in BeforeCreate[w]
    <3>1. CASE t = "Main"
      BY <1>2, <3>1
    <3>2. CASE t # "Main"
      BY <1>2, <3>2 DEF Bottom, Thread
    <3> QED
      BY <3>1, <3>2
  <2>2. life[w] = "absent" /\ stack[w] = << >>
    BY <2>1 DEF NotStarted
  <2>3. t # w /\ w \in Thread
    BY <2>2 DEF Thread
  <2> QED
    BY <2>2, <2>3 DEF KeepsLife
<1> QED
  BY <1>1, <1>2 DEF NotStarted

\* What runs keeps a stack.
LEMMA LifeKeeps ==
    ASSUME LifeInv, KeepsLife, NEW t \in Thread, stack[t] # << >>,
           \A u \in Thread \ {t} : stack'[u] = stack[u],
           stack'[t] # << >> \/ life'[t] = "dead"
    PROVE  LifeInv'
  BY DEF LifeInv, KeepsLife, Active

\* Every kind of move preserves the invariant.
LEMMA BodyMoveInv ==
    ASSUME OwnerIInv, NEW t \in Thread, BodyMove(t), KeepsLife, PendingGrows, UNCHANGED log_mutex
    PROVE  Shape' /\ NotStarted' /\ LifeInv' /\ MutexInv' /\ OwnerInv'
<1> USE TypeSplit DEF OwnerIInv
<1>1. PICK l \in BodyLabel, m \in BodyLabel :
         /\ At(t, l)
         /\ Goto(t, m) \/ LogThen(t, m)
         /\ t = "Main" => \A w \in Worker : m \in BeforeCreate[w] => l \in BeforeCreate[w]
  BY DEF BodyMove
<1>2. stack[t] = << l >> /\ Bottom(t) = l
  BY <1>1, BodyTop
<1>3. /\ stack'[t] = << m >> \/ stack'[t] = << "log_lock", m >>
      /\ Shape' /\ Bottom(t)' = m
  BY <1>1, BodyGoto, BodyLogThen
<1>4. \A u \in Thread \ {t} : stack'[u] = stack[u]
  <2>1. StacksOK
    OBVIOUS
  <2> QED
    BY <1>1, <2>1 DEF Goto, LogThen, StacksOK
<1>5. NotStarted'
  BY <1>1, <1>2, <1>3, <1>4, BottomKeeps
<1>6. ~ InCS(t) /\ \A i \in 1 .. Len(stack'[t]) : stack'[t][i] \notin CS
  <2>1. l \notin CS /\ m \notin CS /\ "log_lock" \notin CS
    BY DEF CS, BodyLabel
  <2> QED
    BY <1>2, <1>3, <2>1 DEF InCS, CS
<1>7. MutexInv' /\ OwnerInv'
  BY <1>4, <1>6, OutsideKeeps
<1>8. LifeInv'
  BY <1>2, <1>3, <1>4, LifeKeeps
<1> QED
  BY <1>3, <1>5, <1>7, <1>8

LEMMA UnwindMoveInv ==
    ASSUME OwnerIInv, NEW t \in Thread, UnwindMove(t), KeepsLife, PendingGrows, UNCHANGED log_mutex
    PROVE  Shape' /\ NotStarted' /\ LifeInv' /\ MutexInv' /\ OwnerInv'
<1> USE TypeSplit DEF OwnerIInv
<1>1. \A u \in Thread \ {t} : stack'[u] = stack[u]
  BY DEF UnwindMove, TypeOK
<1>2. stack'[t] = << "cleanup" >> \/ (t # "Main" /\ stack'[t] = << >>)
  BY DEF UnwindMove, TypeOK
<1>3. stack[t] # << >>
  BY DEF UnwindMove, At
<1>4. "cleanup" \in BodyLabel /\ "cleanup" \notin CS /\ \A w \in Worker : "cleanup" \notin BeforeCreate[w]
  BY DEF BodyLabel, CS, BeforeCreate, Worker
<1>5. Shape'
  <2> SUFFICES ASSUME NEW u \in Thread, NEW i \in 1 .. Len(stack'[u])
               PROVE  stack'[u][i] \in BodyLabel <=> i = Len(stack'[u])
    BY DEF Shape
  <2>1. CASE u # t
    BY <1>1, <2>1 DEF Shape
  <2>2. CASE u = t
    <3>1. CASE stack'[t] = << "cleanup" >>
      <4>1. i \in 1 .. 1 /\ Len(stack'[u]) = 1 /\ stack'[u] = << "cleanup" >>
        BY <2>2, <3>1
      <4> QED
        BY <1>4, <4>1
    <3>2. CASE stack'[t] = << >>
      BY <2>2, <3>2
    <3> QED
      BY <1>2, <3>1, <3>2
  <2> QED
    BY <2>1, <2>2
<1>6. NotStarted'
  <2>1. t = "Main" => stack'[t] # << >> /\ Bottom(t)' = "cleanup"
    BY <1>2 DEF Bottom
  <2> QED
    BY <1>1, <1>3, <1>4, <2>1, BottomKeeps
<1>7. \A i \in 1 .. Len(stack'[t]) : stack'[t][i] \notin CS
  BY <1>2, <1>4
<1>8. ~ InCS(t) \/ (StdioCancels /\ pending[t])
  <2>1. CASE At(t, "log_write") /\ StdioCancels /\ pending[t]
    BY <2>1
  <2>2. ASSUME NEW l \in BodyLabel \cup {"pthread_exit"}, At(t, l) PROVE ~ InCS(t)
    <3>1. l \notin CS /\ l \notin Stuck
      BY DEF CS, Stuck, BodyLabel
    <3> QED
      BY <2>2, <3>1, TopOutside
  <2> QED
    BY <2>1, <2>2 DEF UnwindMove
<1>9. MutexInv' /\ OwnerInv'
  BY <1>1, <1>7, <1>8, OutsideKeeps
<1>10. LifeInv'
  <2>1. stack'[t] # << >> \/ life'[t] = "dead"
    <3>1. stack'[t] = << "cleanup" >> \/ life'[t] = "dead"
      BY DEF UnwindMove, TypeOK
    <3> QED
      BY <3>1
  <2> QED
    BY <1>1, <1>3, <2>1, LifeKeeps
<1> QED
  BY <1>5, <1>6, <1>9, <1>10

\* A label put on top of t's stack, or two in place of the handler's, leave
\* what is below as it was.
LEMMA OnTop ==
    ASSUME MutexInv, OwnerInv, PendingGrows, UNCHANGED log_mutex, NEW t \in Thread,
           stack[t] \in Seq(Label), stack[t] # << >>,
           Len(stack'[t]) = Len(stack[t]) + 1,
           stack'[t][1] \in Stuck,
           stack'[t][2] \notin CS \/ stack'[t][2] = stack[t][1],
           stack[t][1] \in CS => stack'[t][2] = stack[t][1],
           \A i \in 3 .. Len(stack[t]) + 1 : stack'[t][i] = stack[t][i - 1],
           \A u \in Thread \ {t} : stack'[u] = stack[u]
    PROVE  MutexInv' /\ OwnerInv'
<1>0. Len(stack[t]) \in Nat /\ Len(stack[t]) > 0 /\ stack'[t][1] \notin CS
  BY DEF Stuck, CS
<1>1. \A i \in 1 .. Len(stack'[t]) : stack'[t][i] \in CS =>
         i - 1 \in 1 .. Len(stack[t]) /\ stack[t][i - 1] = stack'[t][i]
  <2> SUFFICES ASSUME NEW i \in 1 .. Len(stack'[t]), stack'[t][i] \in CS
               PROVE  i - 1 \in 1 .. Len(stack[t]) /\ stack[t][i - 1] = stack'[t][i]
    OBVIOUS
  <2>1. i # 1
    BY <1>0
  <2>2. CASE i = 2
    BY <1>0, <2>2
  <2>3. CASE i > 2
    BY <1>0, <2>3
  <2> QED
    BY <2>1, <2>2, <2>3
<1>2. MutexInv'
  <2> SUFFICES ASSUME NEW u \in Thread, NEW i \in 1 .. Len(stack'[u]), stack'[u][i] \in CS
               PROVE  /\ log_mutex' = u
                      /\ i # 1 => stack'[u][1] \in Stuck
                      /\ \A j \in 1 .. Len(stack'[u]) : stack'[u][j] \in CS => j = i
    BY DEF MutexInv
  <2>1. CASE u # t
    BY <2>1 DEF MutexInv
  <2>2. CASE u = t
    <3>1. i - 1 \in 1 .. Len(stack[t]) /\ stack[t][i - 1] \in CS
      BY <1>1, <2>2
    <3>2. log_mutex = t
      BY <3>1 DEF MutexInv
    <3>3. ASSUME NEW j \in 1 .. Len(stack'[t]), stack'[t][j] \in CS PROVE j = i
      <4>1. j - 1 \in 1 .. Len(stack[t]) /\ stack[t][j - 1] \in CS
        BY <1>1, <3>3
      <4>2. j - 1 = i - 1
        BY <3>1, <4>1 DEF MutexInv
      <4> QED
        BY <1>0, <2>2, <4>2
    <3> QED
      BY <2>2, <3>2, <3>3
  <2> QED
    BY <2>1, <2>2
<1>3. OwnerInv'
  <2> SUFFICES ASSUME NEW u \in Thread, log_mutex' = u
               PROVE  InCS(u)' \/ (StdioCancels /\ pending'[u])
    BY DEF OwnerInv
  <2>1. CASE u # t
    BY <2>1 DEF OwnerInv, PendingGrows, InCS
  <2>2. CASE u = t /\ ~ InCS(t)
    BY <2>2 DEF OwnerInv, PendingGrows
  <2>3. CASE u = t /\ InCS(t)
    <3>1. PICK i \in 1 .. Len(stack[t]) : stack[t][i] \in CS
      BY <2>3 DEF InCS, CS
    <3>2. i + 1 \in 1 .. Len(stack'[t]) /\ stack'[t][i + 1] = stack[t][i]
      <4>1. CASE i = 1
        BY <1>0, <3>1, <4>1
      <4>2. CASE i > 1
        <5>1. i + 1 \in 3 .. Len(stack[t]) + 1 /\ (i + 1) - 1 = i
          BY <1>0, <4>2
        <5> QED
          BY <1>0, <5>1
      <4> QED
        BY <4>1, <4>2
    <3> QED
      BY <2>3, <3>1, <3>2 DEF InCS, CS
  <2> QED
    BY <2>1, <2>2, <2>3
<1> QED
  BY <1>2, <1>3

LEMMA HandlerMoveInv ==
    ASSUME OwnerIInv, NEW t \in Thread, HandlerMove(t), KeepsLife, PendingGrows, UNCHANGED log_mutex
    PROVE  Shape' /\ NotStarted' /\ LifeInv' /\ MutexInv' /\ OwnerInv'
<1> USE TypeSplit DEF OwnerIInv
<1>1. \A u \in Thread \ {t} : stack'[u] = stack[u]
  <2>1. StacksOK
    OBVIOUS
  <2> QED
    BY <2>1 DEF HandlerMove, Goto, LogThen, StacksOK
<1>2. stack[t] \in Seq(Label) /\ stack[t] # << >>
  BY DEF HandlerMove, At, StacksOK
<1>3. ASSUME Shape', stack'[t] # << >>, Bottom(t)' = Bottom(t) PROVE NotStarted' /\ LifeInv'
  BY <1>1, <1>2, <1>3, BottomKeeps, LifeKeeps
<1>4. ASSUME NEW m \in HandlerLabel, At(t, "handler"), LogThen(t, m)
      PROVE  Shape' /\ NotStarted' /\ LifeInv' /\ MutexInv' /\ OwnerInv'
  <2>1. "handler" \in Label \ BodyLabel /\ m \in Label \ BodyLabel /\ m \in Label /\ m \notin CS
        /\ "log_lock" \in Label /\ "log_lock" \in Stuck /\ "handler" \notin CS
    BY DEF Label, LogLabel, HandlerLabel, BodyLabel, CS, Stuck
  <2>2. Shape' /\ stack'[t] # << >> /\ Bottom(t)' = Bottom(t)
    BY <1>4, <2>1, UpperLogThen
  <2>3. stack'[t] = << "log_lock", m >> \o Tail(stack[t])
    BY <1>2, <1>4, <2>1, LogThenStack
  <2>4. /\ Len(stack'[t]) = Len(stack[t]) + 1
        /\ stack'[t][1] = "log_lock" /\ stack'[t][2] = m
        /\ \A i \in 3 .. Len(stack[t]) + 1 : stack'[t][i] = stack[t][i - 1]
    BY <1>2, <2>1, <2>3, ReplaceTopByTwo
  <2>5. stack[t][1] = "handler"
    BY <1>4 DEF At
  <2>6. MutexInv' /\ OwnerInv'
    BY <1>1, <1>2, <2>1, <2>4, <2>5, OnTop
  <2> QED
    BY <1>3, <2>2, <2>6
<1>5. ASSUME At(t, "cancel_Letters"), Goto(t, "cancel_Metrics")
      PROVE  Shape' /\ NotStarted' /\ LifeInv' /\ MutexInv' /\ OwnerInv'
  <2>1. /\ "cancel_Letters" \in Label \ BodyLabel /\ "cancel_Metrics" \in Label \ BodyLabel
        /\ "cancel_Letters" \notin CS /\ "cancel_Letters" \notin Stuck
        /\ "cancel_Metrics" \notin CS /\ "cancel_Metrics" \in Label
    BY DEF Label, LogLabel, HandlerLabel, BodyLabel, CS, Stuck
  <2>2. Shape' /\ stack'[t] # << >> /\ Bottom(t)' = Bottom(t)
    BY <1>5, <2>1, UpperGoto
  <2>3. ~ InCS(t)
    BY <1>5, <2>1, TopOutside
  <2>4. stack'[t] = << "cancel_Metrics" >> \o Tail(stack[t])
    BY <1>2, <1>5, <2>1, GotoStack
  <2>5. /\ Len(stack'[t]) = Len(stack[t])
        /\ stack'[t][1] = "cancel_Metrics"
        /\ \A i \in 2 .. Len(stack[t]) : stack'[t][i] = stack[t][i]
    BY <1>2, <2>1, <2>4, ReplaceTop
  <2>6. \A i \in 1 .. Len(stack'[t]) : stack'[t][i] \notin CS
    BY <1>2, <2>1, <2>3, <2>5 DEF InCS, CS
  <2>7. MutexInv' /\ OwnerInv'
    BY <1>1, <2>3, <2>6, OutsideKeeps
  <2> QED
    BY <1>3, <2>2, <2>7
<1>6. ASSUME At(t, "cancel_Metrics"), stack' = [stack EXCEPT ![t] = Tail(@)]
      PROVE  Shape' /\ NotStarted' /\ LifeInv' /\ MutexInv' /\ OwnerInv'
  <2>1. /\ "cancel_Metrics" \in Label \ BodyLabel
        /\ "cancel_Metrics" \notin CS /\ "cancel_Metrics" \notin Stuck
    BY DEF Label, LogLabel, HandlerLabel, BodyLabel, CS, Stuck
  <2>2. Shape' /\ stack'[t] # << >> /\ Bottom(t)' = Bottom(t)
    BY <1>6, <2>1, UpperPop
  <2>3. ~ InCS(t)
    BY <1>6, <2>1, TopOutside
  <2>4. /\ Len(stack'[t]) = Len(stack[t]) - 1
        /\ \A i \in 1 .. Len(stack[t]) - 1 : stack'[t][i] = stack[t][i + 1]
    BY <1>2, <1>6, PopTop DEF StacksOK
  <2>5. \A i \in 1 .. Len(stack'[t]) : i + 1 \in 1 .. Len(stack[t]) /\ stack'[t][i] = stack[t][i + 1]
    BY <1>2, <2>4
  <2>6. \A i \in 1 .. Len(stack'[t]) : stack'[t][i] \notin CS
    BY <2>3, <2>5 DEF InCS, CS
  <2>7. MutexInv' /\ OwnerInv'
    BY <1>1, <2>3, <2>6, OutsideKeeps
  <2> QED
    BY <1>3, <2>2, <2>7
<1> QED
  BY <1>4, <1>5, <1>6 DEF HandlerMove

LEMMA DeliverMoveInv ==
    ASSUME OwnerIInv, NEW t \in Thread, DeliverMove(t), KeepsLife, PendingGrows,
           UNCHANGED log_mutex
    PROVE  Shape' /\ NotStarted' /\ LifeInv' /\ MutexInv' /\ OwnerInv'
<1> USE TypeSplit DEF OwnerIInv
<1>1. "handler" \in Label \ BodyLabel /\ "handler" \in Label /\ "handler" \in Stuck
  BY DEF Label, HandlerLabel, BodyLabel, Stuck
<1>0. stack[t] # << >>
  BY DEF DeliverMove, LifeInv
<1>2. stack[t] \in Seq(Label) /\ stack'[t] = << "handler" >> \o stack[t]
      /\ \A u \in Thread \ {t} : stack'[u] = stack[u]
  BY DEF DeliverMove, StacksOK
<1>3. Shape' /\ stack'[t] # << >> /\ Bottom(t)' = Bottom(t)
  BY <1>0, <1>1, UpperPush DEF DeliverMove
<1>4. NotStarted' /\ LifeInv'
  BY <1>0, <1>2, <1>3, BottomKeeps, LifeKeeps
<1>5. /\ Len(stack'[t]) = Len(stack[t]) + 1
      /\ stack'[t][1] = "handler"
      /\ \A i \in 2 .. Len(stack[t]) + 1 : stack'[t][i] = stack[t][i - 1]
  BY <1>0, <1>1, <1>2, PushTop
<1>6. stack'[t][2] = stack[t][1]
  BY <1>0, <1>2, <1>5
<1>7. MutexInv' /\ OwnerInv'
  <2>1. \A i \in 3 .. Len(stack[t]) + 1 : stack'[t][i] = stack[t][i - 1]
    BY <1>0, <1>2, <1>5
  <2> QED
    BY <1>0, <1>1, <1>2, <1>5, <1>6, <2>1, OnTop
<1> QED
  BY <1>3, <1>4, <1>7

\* The stacks of threads that handle no signal have the shape.
LEMMA ShortStack ==
    ASSUME NEW m \in BodyLabel, NEW s, s = << >> \/ s = << m >> \/ s = << "log_lock", m >>
    PROVE  \A i \in 1 .. Len(s) : s[i] \in BodyLabel <=> i = Len(s)
<1>1. "log_lock" \notin BodyLabel
  BY DEF BodyLabel
<1>2. CASE s = << >>
  BY <1>2
<1>3. CASE s = << m >>
  BY <1>3
<1>4. CASE s = << "log_lock", m >>
  BY <1>1, <1>4
<1> QED
  BY <1>2, <1>3, <1>4

LEMMA CreateMoveInv ==
    ASSUME OwnerIInv, NEW w \in Worker, CreateMove(w), PendingGrows, UNCHANGED log_mutex
    PROVE  Shape' /\ NotStarted' /\ LifeInv' /\ MutexInv' /\ OwnerInv'
<1> USE TypeSplit DEF OwnerIInv
<1> DEFINE l == [Letters |-> "create_Letters", Metrics |-> "create_Metrics"][w]
           m == Created[w]
<1>1. /\ At("Main", l) /\ "Main" \in Thread /\ w \in Thread /\ w # "Main"
      /\ l \in BodyLabel /\ m \in BodyLabel /\ l \notin CS /\ m \notin CS
      /\ "ids" \in BodyLabel /\ "ids" \notin CS /\ "log_lock" \notin BodyLabel \cup CS
  BY DEF CreateMove, Thread, Worker, Created, BodyLabel, CS
<1>2. /\ l \in BeforeCreate[w] /\ m \notin BeforeCreate[w]
      /\ \A v \in Worker : m \in BeforeCreate[v] => l \in BeforeCreate[v]
  BY DEF Worker, Created, BeforeCreate
<1> HIDE DEF l, m
<1>3. stack["Main"] = << l >> /\ Bottom("Main") = l
  BY <1>1, BodyTop
<1>4. life[w] = "absent" /\ stack[w] = << >>
  BY <1>2, <1>3 DEF NotStarted
<1>5. /\ stack'["Main"] = << m >> \/ stack'["Main"] = << "log_lock", m >>
      /\ stack'[w] = << "ids" >> \/ stack'[w] = << >>
      /\ \A u \in Thread \ {"Main", w} : stack'[u] = stack[u]
  <2>1. CASE stack' = [stack EXCEPT !["Main"] = << m >> \o Tail(@), ![w] = << "ids" >>]
    BY <1>1, <1>3, <2>1 DEF StacksOK
  <2>2. CASE LogThen("Main", m)
    <3>1. stack' = [stack EXCEPT !["Main"] = << "log_lock", m >>]
      BY <1>3, <2>2 DEF LogThen
    <3> QED
      BY <1>1, <1>4, <3>1 DEF StacksOK
  <2> QED
    BY <2>1, <2>2 DEF CreateMove, m
<1>6. stack'["Main"] # << >> /\ Bottom("Main")' = m
  BY <1>5, SMTT(40) DEF Bottom
<1>7. Shape'
  <2> DEFINE Good(x) == \A i \in 1 .. Len(x) : x[i] \in BodyLabel <=> i = Len(x)
  <2>1. Good(<< >>) /\ Good(<< m >>) /\ Good(<< "log_lock", m >>) /\ Good(<< "ids" >>)
    BY <1>1, ShortStack
  <2>2. Good(stack'["Main"]) /\ Good(stack'[w])
    <3> HIDE DEF Good
    <3> QED
      BY <1>5, <2>1
  <2> QED
    BY <1>5, <2>2 DEF Shape
<1>8. NotStarted'
  <2>1. ASSUME NEW v \in Worker, m \in BeforeCreate[v] PROVE life'[v] = "absent" /\ stack'[v] = << >>
    <3>1. v # w /\ v # "Main" /\ v \in Thread
      BY <1>2, <2>1 DEF Worker, Thread
    <3>2. life[v] = "absent" /\ stack[v] = << >>
      BY <1>2, <1>3, <2>1 DEF NotStarted
    <3> QED
      BY <1>5, <3>1, <3>2 DEF CreateMove
  <2> QED
    BY <1>6, <2>1 DEF NotStarted
<1>9. LifeInv'
  <2> SUFFICES ASSUME NEW u \in Thread, life'[u] \in Active PROVE stack'[u] # << >>
    BY DEF LifeInv
  <2>1. CASE u = w
    BY <2>1 DEF CreateMove
  <2>2. CASE u = "Main"
    BY <1>6, <2>2
  <2>3. CASE u # w /\ u # "Main"
    BY <1>5, <2>3 DEF CreateMove, LifeInv
  <2> QED
    BY <2>1, <2>2, <2>3
<1>10. MutexInv' /\ OwnerInv'
  <2>1. \A i \in 1 .. Len(stack'["Main"]) : stack'["Main"][i] \notin CS
    BY <1>1, <1>5
  <2>2. \A i \in 1 .. Len(stack'[w]) : stack'[w][i] \notin CS
    BY <1>1, <1>5
  <2>3. ~ InCS("Main") /\ ~ InCS(w)
    BY <1>1, <1>3, <1>4 DEF InCS, CS
  <2> QED
    BY <1>1, <1>5, <2>1, <2>2, <2>3, OutsideKeeps
<1> QED
  BY <1>7, <1>8, <1>9, <1>10

\* log_varg() itself.
LEMMA LogMoveInv ==
    ASSUME OwnerIInv, NEW t \in Thread, LogMove(t), KeepsLife, PendingGrows
    PROVE  Shape' /\ NotStarted' /\ LifeInv' /\ MutexInv' /\ OwnerInv'
<1> USE TypeSplit DEF OwnerIInv
<1>1. /\ "log_lock" \in Label \ BodyLabel /\ "log_write" \in Label \ BodyLabel
      /\ "log_unlock" \in Label \ BodyLabel /\ "log_write" \in Label /\ "log_unlock" \in Label
      /\ "log_write" \in CS /\ "log_unlock" \in CS
  BY DEF Label, LogLabel, BodyLabel, CS
<1>2. stack[t] \in Seq(Label) /\ stack[t] # << >>
  BY DEF LogMove, LogLock, LogUnlock, At, StacksOK
<1>3. \A u \in Thread \ {t} : stack'[u] = stack[u]
  <2>1. StacksOK
    OBVIOUS
  <2> QED
    BY <2>1 DEF LogMove, LogLock, LogUnlock, Goto, StacksOK
<1>4. ASSUME Shape', stack'[t] # << >>, Bottom(t)' = Bottom(t) PROVE NotStarted' /\ LifeInv'
  BY <1>2, <1>3, <1>4, BottomKeeps, LifeKeeps
<1>5. CASE LogLock(t)
  <2>1. At(t, "log_lock") /\ Goto(t, "log_write") /\ log_mutex = NoThread /\ log_mutex' = t
    BY <1>5 DEF LogLock
  <2>2. Shape' /\ stack'[t] # << >> /\ Bottom(t)' = Bottom(t)
    BY <1>1, <2>1, UpperGoto
  <2>3. \A u \in Thread : \A i \in 1 .. Len(stack[u]) : stack[u][i] \notin CS
    BY <2>1, Hw3Assumption DEF MutexInv
  <2>4. stack'[t] = << "log_write" >> \o Tail(stack[t])
    BY <1>1, <1>2, <2>1, GotoStack
  <2>5. /\ Len(stack'[t]) = Len(stack[t]) /\ Len(stack[t]) \in Nat /\ Len(stack[t]) > 0
        /\ stack'[t][1] = "log_write"
        /\ \A i \in 2 .. Len(stack[t]) : stack'[t][i] = stack[t][i]
    BY <1>1, <1>2, <2>4, ReplaceTop
  <2>6. \A u \in Thread : \A i \in 1 .. Len(stack'[u]) : stack'[u][i] \in CS => u = t /\ i = 1
    <3> SUFFICES ASSUME NEW u \in Thread, NEW i \in 1 .. Len(stack'[u]), stack'[u][i] \in CS
                 PROVE  u = t /\ i = 1
      OBVIOUS
    <3>1. u = t
      BY <1>3, <2>3
    <3>2. i = 1
      <4>1. CASE i # 1
        BY <2>3, <2>5, <3>1, <4>1
      <4> QED
        BY <4>1
    <3> QED
      BY <3>1, <3>2
  <2>7. MutexInv'
    BY <2>1, <2>6 DEF MutexInv
  <2>8. OwnerInv'
    <3>1. 1 \in 1 .. Len(stack'[t])
      BY <2>5
    <3> QED
      BY <1>1, <2>1, <2>5, <3>1 DEF OwnerInv, InCS, CS
  <2> QED
    BY <1>4, <2>2, <2>7, <2>8
<1>6. CASE At(t, "log_write") /\ Goto(t, "log_unlock") /\ UNCHANGED log_mutex
  <2>1. Shape' /\ stack'[t] # << >> /\ Bottom(t)' = Bottom(t)
    BY <1>1, <1>6, UpperGoto
  <2>2. stack'[t] = << "log_unlock" >> \o Tail(stack[t])
    BY <1>1, <1>2, <1>6, GotoStack
  <2>3. /\ Len(stack'[t]) = Len(stack[t]) /\ Len(stack[t]) \in Nat /\ Len(stack[t]) > 0
        /\ stack'[t][1] = "log_unlock"
        /\ \A i \in 2 .. Len(stack[t]) : stack'[t][i] = stack[t][i]
    BY <1>1, <1>2, <2>2, ReplaceTop
  <2>4. 1 \in 1 .. Len(stack[t]) /\ stack[t][1] = "log_write"
    BY <1>6, <2>3 DEF At
  <2>5. \A u \in Thread : \A i \in 1 .. Len(stack'[u]) :
           i \in 1 .. Len(stack[u]) /\ (stack'[u][i] \in CS <=> stack[u][i] \in CS)
    <3> SUFFICES ASSUME NEW u \in Thread, NEW i \in 1 .. Len(stack'[u])
                 PROVE  i \in 1 .. Len(stack[u]) /\ (stack'[u][i] \in CS <=> stack[u][i] \in CS)
      OBVIOUS
    <3>1. CASE u # t
      BY <1>3, <3>1
    <3>2. CASE u = t /\ i = 1
      BY <1>1, <2>3, <2>4, <3>2
    <3>3. CASE u = t /\ i # 1
      BY <2>3, <3>3
    <3> QED
      BY <3>1, <3>2, <3>3
  <2>6. log_mutex = t /\ \A i \in 1 .. Len(stack[t]) : stack[t][i] \in CS => i = 1
    BY <1>1, <2>4 DEF MutexInv
  <2>7. \A u \in Thread : \A i \in 1 .. Len(stack'[u]) : stack'[u][i] \in CS => u = t /\ i = 1
    BY <2>5, <2>6 DEF MutexInv
  <2>8. MutexInv'
    BY <1>6, <2>6, <2>7 DEF MutexInv
  <2>9. OwnerInv'
    <3>1. 1 \in 1 .. Len(stack'[t])
      BY <2>3
    <3> QED
      BY <1>1, <1>6, <2>3, <2>6, <3>1 DEF OwnerInv, InCS, CS
  <2> QED
    BY <1>4, <2>1, <2>8, <2>9
<1>7. CASE LogUnlock(t)
  <2>1. At(t, "log_unlock") /\ log_mutex' = NoThread /\ stack' = [stack EXCEPT ![t] = Tail(@)]
    BY <1>7 DEF LogUnlock
  <2>2. Shape' /\ stack'[t] # << >> /\ Bottom(t)' = Bottom(t)
    BY <1>1, <2>1, UpperPop
  <2>3. Len(stack[t]) \in Nat /\ 1 \in 1 .. Len(stack[t]) /\ stack[t][1] = "log_unlock"
    BY <1>2, <2>1 DEF At
  <2>4. log_mutex = t /\ \A i \in 1 .. Len(stack[t]) : stack[t][i] \in CS => i = 1
    BY <1>1, <2>3 DEF MutexInv
  <2>5. /\ Len(stack'[t]) = Len(stack[t]) - 1
        /\ \A i \in 1 .. Len(stack[t]) - 1 : stack'[t][i] = stack[t][i + 1]
    BY <1>2, <2>1, PopTop DEF StacksOK
  <2>6. \A u \in Thread : \A i \in 1 .. Len(stack'[u]) : stack'[u][i] \notin CS
    <3> SUFFICES ASSUME NEW u \in Thread, NEW i \in 1 .. Len(stack'[u]) PROVE stack'[u][i] \notin CS
      OBVIOUS
    <3>1. CASE u # t
      BY <1>3, <2>4, <3>1 DEF MutexInv
    <3>2. CASE u = t
      <4>1. i \in 1 .. Len(stack[t]) - 1 /\ i + 1 \in 1 .. Len(stack[t]) /\ i + 1 # 1
        BY <2>3, <2>5, <3>2
      <4> QED
        BY <2>4, <2>5, <3>2, <4>1
    <3> QED
      BY <3>1, <3>2
  <2>7. MutexInv' /\ OwnerInv'
    BY <2>1, <2>6, Hw3Assumption DEF MutexInv, OwnerInv
  <2> QED
    BY <1>4, <2>2, <2>7
<1> QED
  BY <1>5, <1>6, <1>7 DEF LogMove

\* Every step preserves the invariant.
LEMMA OwnerNext == OwnerIInv /\ [Next]_vars => OwnerIInv'
<1> SUFFICES ASSUME OwnerIInv, [Next]_vars PROVE OwnerIInv'
  OBVIOUS
<1>1. TypeOK'
  <2>1. StacksOK' /\ RestOK'
    BY TypeSplit, StacksNext, RestNext DEF OwnerIInv
  <2> QED
    BY <2>1 DEF StacksOK, RestOK, TypeOK
<1>2. PendingGrows /\ Move
  BY Pendings, Moves DEF OwnerIInv
<1>3. CASE UNCHANGED << stack, log_mutex >> /\ KeepsLife
  <2>1. Shape'
    BY <1>3 DEF OwnerIInv, Shape
  <2>2. NotStarted'
    <3>1. "Main" \in Thread /\ \A w \in Worker : w \in Thread
      BY DEF Thread
    <3>2. Bottom("Main")' = Bottom("Main")
      BY <1>3 DEF Bottom
    <3> QED
      BY <1>3, <3>1, <3>2 DEF OwnerIInv, NotStarted, KeepsLife
  <2>3. LifeInv'
    BY <1>3 DEF OwnerIInv, LifeInv, KeepsLife
  <2>4. MutexInv'
    BY <1>3 DEF OwnerIInv, MutexInv
  <2>5. OwnerInv'
    <3> SUFFICES ASSUME NEW t \in Thread, log_mutex' = t
                 PROVE  InCS(t)' \/ (StdioCancels /\ pending'[t])
      BY DEF OwnerInv
    <3> QED
      BY <1>2, <1>3 DEF OwnerIInv, OwnerInv, InCS, PendingGrows
  <2> QED
    BY <1>1, <2>1, <2>2, <2>3, <2>4, <2>5 DEF OwnerIInv
<1>4. ASSUME NEW t \in Thread, LogMove(t), KeepsLife PROVE OwnerIInv'
  BY <1>1, <1>2, <1>4, LogMoveInv DEF OwnerIInv
<1>5. ASSUME NEW t \in Thread, QuietMove(t), KeepsLife, UNCHANGED log_mutex PROVE OwnerIInv'
  BY <1>1, <1>2, <1>5, BodyMoveInv, HandlerMoveInv, UnwindMoveInv DEF OwnerIInv, QuietMove
<1>6. ASSUME NEW w \in Worker, CreateMove(w), UNCHANGED log_mutex PROVE OwnerIInv'
  BY <1>1, <1>2, <1>6, CreateMoveInv DEF OwnerIInv
<1>7. ASSUME NEW t \in Thread, DeliverMove(t), KeepsLife, UNCHANGED log_mutex PROVE OwnerIInv'
  BY <1>1, <1>2, <1>7, DeliverMoveInv DEF OwnerIInv
<1> QED
  BY <1>2, <1>3, <1>4, <1>5, <1>6, <1>7 DEF Move, OwnMove

\* A thread in the critical section owns the mutex, and an owner that is not
\* there was cancelled inside stdio (logging.c:63-70).
THEOREM Ownership == Spec => []MutexOwnership
<1>1. Spec => []OwnerIInv
  BY OwnerInit, OwnerNext, PTL DEF Spec
<1> QED
  BY <1>1, OwnerImplies, PTL
------------------------------------------------------------------------------
(***************************************************************************)
(* Proofs about Hw3 of how it ends: what a dead thread leaves behind, who  *)
(* is last, whom a signal reaches, what the timer's expirations become,    *)
(* and when no signal can make the process crash.                          *)
(***************************************************************************)

\* Where each thread is in its own code, and what a handler in main() that is
\* not at its end has still to do there.
place == [t \in Thread |-> IF stack[t] = << >> THEN "none" ELSE stack[t][Len(stack[t])]]
calls == {stack["Main"][i] : i \in 1 .. Len(stack["Main"])} \cap {"pthread_exit", "cancel_Metrics"}

LEMMA Threads == /\ Thread = {"Main", "Letters", "Metrics"}
                 /\ Worker = {"Letters", "Metrics"}
  BY DEF Thread, Worker

LEMMA One == ASSUME NEW x, NEW s, s = << x >> PROVE \A i \in 1 .. Len(s) : s[i] = x
  OBVIOUS

LEMMA PlaceSame == ASSUME NEW u \in Thread, stack'[u] = stack[u] PROVE place'[u] = place[u]
  BY DEF place

LEMMA Placed ==
    ASSUME NEW t \in Thread, NEW m, place'[t] = m,
           \A u \in Thread \ {t} : stack'[u] = stack[u]
    PROVE  place' = [place EXCEPT ![t] = m]
<1>1. \A u \in Thread \ {t} : place'[u] = place[u]
  BY DEF place
<1>2. place = [u \in Thread |-> place[u]] /\ place' = [u \in Thread |-> place'[u]]
  BY DEF place
<1> QED
  BY <1>1, <1>2

\* A thread moves within its own code, ...
LEMMA BodyStep ==
    ASSUME OwnerIInv, NEW t \in Thread, NEW l \in BodyLabel, At(t, l),
           NEW m \in BodyLabel, Goto(t, m) \/ LogThen(t, m)
    PROVE  place[t] = l /\ place' = [place EXCEPT ![t] = m] /\ calls' \subseteq calls
<1> USE TypeSplit DEF OwnerIInv
<1>1. stack[t] = << l >>
  BY BodyTop
<1>2. stack'[t] = << m >> \/ stack'[t] = << "log_lock", m >>
  BY BodyGoto, BodyLogThen
<1>3. \A u \in Thread \ {t} : stack'[u] = stack[u]
  <2>1. StacksOK
    OBVIOUS
  <2> QED
    BY <2>1 DEF Goto, LogThen, StacksOK
<1>4. place[t] = l
  BY <1>1, SMTT(40) DEF place
<1>5. place'[t] = m
  BY <1>2 DEF place
<1>6. place' = [place EXCEPT ![t] = m]
  BY <1>3, <1>5, Placed
<1>7. calls' \subseteq calls
  <2>1. CASE t = "Main"
    <3>1. {"log_lock", m} \cap {"pthread_exit", "cancel_Metrics"} = {}
      BY DEF BodyLabel
    <3>2. \A i \in 1 .. Len(stack'["Main"]) : stack'["Main"][i] \in {"log_lock", m}
      BY <1>2, <2>1
    <3> QED
      BY <3>1, <3>2 DEF calls
  <2>2. CASE t # "Main"
    BY <1>3, <2>2, Threads DEF calls
  <2> QED
    BY <2>1, <2>2
<1> QED
  BY <1>4, <1>6, <1>7

\* ... unwinds, ...
LEMMA ExitStep ==
    ASSUME OwnerIInv, NEW t \in Thread, stack[t] # << >>,
           stack' = [stack EXCEPT ![t] = << "cleanup" >>]
    PROVE  place[t] # "none" /\ place' = [place EXCEPT ![t] = "cleanup"] /\ calls' \subseteq calls
<1> USE TypeSplit DEF OwnerIInv
<1>1. stack[t] \in Seq(Label) /\ Len(stack[t]) \in 1 .. Len(stack[t])
  BY DEF StacksOK
<1>2. stack[t][Len(stack[t])] \in Label
  BY <1>1
<1>3. place[t] # "none"
  <2>1. "none" \notin Label
    BY DEF Label, LogLabel, HandlerLabel, BodyLabel
  <2> QED
    BY <1>2, <2>1 DEF place
<1>4. /\ \A u \in Thread \ {t} : stack'[u] = stack[u]
      /\ stack'[t] = << "cleanup" >>
  BY DEF StacksOK
<1>5. place' = [place EXCEPT ![t] = "cleanup"]
  <2>1. place'[t] = "cleanup"
    BY <1>4 DEF place
  <2> QED
    BY <1>4, <2>1, Placed
<1>6. calls' \subseteq calls
  <2>1. CASE t = "Main"
    <3>1. \A i \in 1 .. Len(stack'["Main"]) : stack'["Main"][i] = "cleanup"
      BY <1>4, <2>1
    <3> QED
      BY <3>1 DEF calls
  <2>2. CASE t # "Main"
    BY <1>4, <2>2, Threads DEF calls
  <2> QED
    BY <2>1, <2>2
<1> QED
  BY <1>3, <1>5, <1>6

\* ... is gone, ...
LEMMA GoneStep ==
    ASSUME OwnerIInv, NEW w \in Worker, At(w, "close"), stack' = [stack EXCEPT ![w] = << >>]
    PROVE  place[w] = "close" /\ place' = [place EXCEPT ![w] = "none"] /\ calls' = calls
<1> USE TypeSplit, Threads DEF OwnerIInv
<1>1. stack[w] = << "close" >>
  BY BodyTop DEF BodyLabel
<1>2. /\ \A u \in Thread \ {w} : stack'[u] = stack[u]
      /\ stack'[w] = << >>
  BY DEF StacksOK
<1>3. w # "Main"
  BY Threads
<1>4. stack'["Main"] = stack["Main"]
  BY <1>2, <1>3
<1>5. place[w] = "close"
  <2>1. stack[w] # << >> /\ stack[w][Len(stack[w])] = "close"
    BY <1>1
  <2> QED
    BY <2>1 DEF place
<1>6. place'[w] = "none"
  BY <1>2 DEF place
<1>7. place' = [place EXCEPT ![w] = "none"]
  BY <1>2, <1>6, Placed, Threads
<1>8. calls' = calls
  BY <1>4 DEF calls
<1> QED
  BY <1>5, <1>7, <1>8

\* ... or is created by main(), ...
LEMMA CreateStep ==
    ASSUME OwnerIInv, NEW w \in Worker, NEW l \in BodyLabel, At("Main", l), NEW m \in BodyLabel,
           stack' = [stack EXCEPT !["Main"] = << m >> \o Tail(@), ![w] = << "ids" >>]
    PROVE  /\ place["Main"] = l
           /\ place'["Main"] = m /\ place'[w] = "ids"
           /\ \A u \in Thread \ {"Main", w} : place'[u] = place[u]
           /\ calls' \subseteq calls
<1> USE TypeSplit, Threads DEF OwnerIInv
<1>1. stack["Main"] = << l >>
  BY BodyTop
<1>2. /\ \A u \in Thread \ {w, "Main"} : stack'[u] = stack[u]
      /\ stack'[w] = << "ids" >>
      /\ stack'["Main"] = << m >>
  BY <1>1 DEF StacksOK
<1>3. \A i \in 1 .. Len(stack'["Main"]) : stack'["Main"][i] = m
  BY <1>2, One, Zenon
<1>4. m \notin {"pthread_exit", "cancel_Metrics"}
  BY DEF BodyLabel
<1>5. calls' \subseteq calls
  BY <1>3, <1>4 DEF calls
<1>6. place["Main"] = l
  BY <1>1 DEF place
<1>7. place'["Main"] = m /\ place'[w] = "ids"
  <2>1. /\ << m >> # << >> /\ << m >>[Len(<< m >>)] = m
        /\ << "ids" >> # << >> /\ << "ids" >>[Len(<< "ids" >>)] = "ids"
    OBVIOUS
  <2>2. "Main" \in Thread /\ w \in Thread
    BY Threads
  <2> QED
    BY <1>2, <2>1, <2>2, Zenon DEF place
<1>8. \A u \in Thread \ {"Main", w} : place'[u] = place[u]
  <2> SUFFICES ASSUME NEW u \in Thread, u # "Main", u # w
               PROVE  place'[u] = place[u]
    OBVIOUS
  <2>1. stack'[u] = stack[u]
    BY <1>2
  <2> QED
    BY <2>1, PlaceSame
<1> QED
  BY <1>5, <1>6, <1>7, <1>8

\* ... or else stays where it is, logging or in a handler.
LEMMA UpperGotoStep ==
    ASSUME OwnerIInv, NEW t \in Thread, NEW l \in Label \ BodyLabel, At(t, l),
           NEW m \in Label \ BodyLabel, Goto(t, m)
    PROVE  place' = place /\ calls' \subseteq calls \cup {m}
<1> USE TypeSplit, Threads DEF OwnerIInv
<1>1. stack[t] \in Seq(Label) /\ Len(stack[t]) > 1
  BY UpperTop
<1>2. /\ stack' = [stack EXCEPT ![t] = << m >> \o Tail(stack[t])]
      /\ Len(stack'[t]) = Len(stack[t])
      /\ stack'[t][1] = m
      /\ \A i \in 2 .. Len(stack[t]) : stack'[t][i] = stack[t][i]
  BY <1>1, ReplaceTop DEF Goto, StacksOK
<1>3. stack'[t] # << >> /\ Bottom(t)' = Bottom(t)
  BY UpperGoto
<1>4. \A u \in Thread \ {t} : stack'[u] = stack[u]
  BY <1>2 DEF StacksOK
<1>5. place'[t] = place[t]
  BY <1>1, <1>3 DEF place, Bottom
<1>6. place' = place
  BY <1>4, <1>5, Placed DEF place
<1>7. calls' \subseteq calls \cup {m}
  <2>1. CASE t = "Main"
    <3>1. \A i \in 1 .. Len(stack'["Main"]) :
             stack'["Main"][i] = m \/ (i \in 1 .. Len(stack["Main"]) /\ stack'["Main"][i] = stack["Main"][i])
      BY <1>1, <1>2, <2>1
    <3> QED
      BY <3>1 DEF calls
  <2>2. CASE t # "Main"
    BY <1>4, <2>2 DEF calls
  <2> QED
    BY <2>1, <2>2
<1> QED
  BY <1>6, <1>7

LEMMA UpperLogThenStep ==
    ASSUME OwnerIInv, NEW t \in Thread, NEW l \in Label \ BodyLabel, At(t, l),
           NEW m \in Label \ BodyLabel, LogThen(t, m)
    PROVE  place' = place /\ calls' \subseteq calls \cup (IF t = "Main" THEN {m} ELSE {})
<1> USE TypeSplit, Threads DEF OwnerIInv
<1>1. stack[t] \in Seq(Label) /\ Len(stack[t]) > 1
  BY UpperTop
<1>2. /\ stack' = [stack EXCEPT ![t] = << "log_lock", m >> \o Tail(stack[t])]
      /\ Len(stack'[t]) = Len(stack[t]) + 1
      /\ stack'[t][1] = "log_lock"
      /\ stack'[t][2] = m
      /\ \A i \in 3 .. Len(stack[t]) + 1 : stack'[t][i] = stack[t][i - 1]
  BY <1>1, ReplaceTopByTwo DEF LogThen, StacksOK, Label, LogLabel
<1>3. stack'[t] # << >> /\ Bottom(t)' = Bottom(t)
  BY UpperLogThen
<1>4. \A u \in Thread \ {t} : stack'[u] = stack[u]
  BY <1>2 DEF StacksOK
<1>5. place'[t] = place[t]
  BY <1>1, <1>3 DEF place, Bottom
<1>6. place' = place
  BY <1>4, <1>5, Placed DEF place
<1>7. calls' \subseteq calls \cup (IF t = "Main" THEN {m} ELSE {})
  <2>1. CASE t = "Main"
    <3>1. \A i \in 1 .. Len(stack'["Main"]) :
             \/ stack'["Main"][i] \in {"log_lock", m}
             \/ i - 1 \in 1 .. Len(stack["Main"]) /\ stack'["Main"][i] = stack["Main"][i - 1]
      <4> SUFFICES ASSUME NEW i \in 1 .. Len(stack'["Main"])
                   PROVE  \/ stack'["Main"][i] \in {"log_lock", m}
                          \/ /\ i - 1 \in 1 .. Len(stack["Main"])
                             /\ stack'["Main"][i] = stack["Main"][i - 1]
        OBVIOUS
      <4>1. i = 1 \/ i = 2 \/ (i \in 3 .. Len(stack["Main"]) + 1 /\ i - 1 \in 1 .. Len(stack["Main"]))
        BY <1>1, <1>2, <2>1
      <4> QED
        BY <1>2, <2>1, <4>1
    <3> QED
      BY <2>1, <3>1 DEF calls
  <2>2. CASE t # "Main"
    BY <1>4, <2>2 DEF calls
  <2> QED
    BY <2>1, <2>2
<1> QED
  BY <1>6, <1>7

LEMMA UpperPopStep ==
    ASSUME OwnerIInv, NEW t \in Thread, NEW l \in Label \ BodyLabel, At(t, l),
           stack' = [stack EXCEPT ![t] = Tail(@)]
    PROVE  place' = place /\ calls' \subseteq calls
<1> USE TypeSplit, Threads DEF OwnerIInv
<1>1. stack[t] \in Seq(Label) /\ Len(stack[t]) > 1
  BY UpperTop
<1>2. /\ Len(stack'[t]) = Len(stack[t]) - 1
      /\ \A i \in 1 .. Len(stack[t]) - 1 : stack'[t][i] = stack[t][i + 1]
  BY <1>1, PopTop DEF StacksOK
<1>3. stack'[t] # << >> /\ Bottom(t)' = Bottom(t)
  BY UpperPop
<1>4. \A u \in Thread \ {t} : stack'[u] = stack[u]
  BY DEF StacksOK
<1>5. place'[t] = place[t]
  BY <1>1, <1>3 DEF place, Bottom
<1>6. place' = place
  BY <1>4, <1>5, Placed DEF place
<1>7. calls' \subseteq calls
  <2>1. CASE t = "Main"
    <3>1. \A i \in 1 .. Len(stack'["Main"]) :
             i + 1 \in 1 .. Len(stack["Main"]) /\ stack'["Main"][i] = stack["Main"][i + 1]
      BY <1>1, <1>2, <2>1
    <3> QED
      BY <3>1 DEF calls
  <2>2. CASE t # "Main"
    BY <1>4, <2>2 DEF calls
  <2> QED
    BY <2>1, <2>2
<1> QED
  BY <1>6, <1>7

LEMMA DeliverStep ==
    ASSUME OwnerIInv, NEW t \in Thread, stack[t] # << >>,
           stack' = [stack EXCEPT ![t] = << "handler" >> \o @]
    PROVE  place' = place /\ calls' \subseteq calls
<1> USE TypeSplit, Threads DEF OwnerIInv
<1>0. "handler" \in Label \ BodyLabel
  BY DEF Label, HandlerLabel, BodyLabel
<1>1. stack[t] \in Seq(Label) /\ Len(stack[t]) > 0
  BY DEF StacksOK
<1>2. /\ Len(stack'[t]) = Len(stack[t]) + 1
      /\ stack'[t][1] = "handler"
      /\ \A i \in 2 .. Len(stack[t]) + 1 : stack'[t][i] = stack[t][i - 1]
  BY <1>0, <1>1, PushTop DEF StacksOK
<1>3. stack'[t] # << >> /\ Bottom(t)' = Bottom(t)
  BY <1>0, UpperPush
<1>4. \A u \in Thread \ {t} : stack'[u] = stack[u]
  BY DEF StacksOK
<1>5. place'[t] = place[t]
  BY <1>1, <1>3 DEF place, Bottom
<1>6. place' = place
  BY <1>4, <1>5, Placed DEF place
<1>7. calls' \subseteq calls
  <2>1. CASE t = "Main"
    <3>1. \A i \in 1 .. Len(stack'["Main"]) :
             \/ stack'["Main"][i] = "handler"
             \/ i - 1 \in 1 .. Len(stack["Main"]) /\ stack'["Main"][i] = stack["Main"][i - 1]
      <4> SUFFICES ASSUME NEW i \in 1 .. Len(stack'["Main"])
                   PROVE  \/ stack'["Main"][i] = "handler"
                          \/ /\ i - 1 \in 1 .. Len(stack["Main"])
                             /\ stack'["Main"][i] = stack["Main"][i - 1]
        OBVIOUS
      <4>1. i = 1 \/ (i \in 2 .. Len(stack["Main"]) + 1 /\ i - 1 \in 1 .. Len(stack["Main"]))
        BY <1>1, <1>2, <2>1
      <4> QED
        BY <1>2, <2>1, <4>1
    <3> QED
      BY <3>1 DEF calls
  <2>2. CASE t # "Main"
    BY <1>4, <2>2 DEF calls
  <2> QED
    BY <2>1, <2>2
<1> QED
  BY <1>6, <1>7

LEMMA SameStep == ASSUME stack' = stack PROVE place' = place /\ calls' = calls
  BY DEF place, calls
------------------------------------------------------------------------------
\* The invariant: what is said of a thread's place, life and stream.

\* main() has joined w, or found that there is nothing to join.
AfterJoin == [Letters |-> {"join_Metrics", "joined", "cleanup", "delete", "close", "exit"},
              Metrics |-> {"joined", "cleanup", "delete", "close", "exit"}]

Leaving   == {"cleanup", "delete", "close"}
Doomed(w) == life[w] \in Terminated \cup {"exiting"} \/ (life[w] = "alive" /\ pending[w])

PlaceInv ==
    /\ \A w \in Worker : /\ life[w] \notin Active => place[w] = "none"
                         /\ place[w] \in Leaving => life[w] = "exiting" /\ ~ tls[w]
                         /\ place["Main"] \in AfterJoin[w] => life[w] \in {"joined", "failed"}
                         /\ tid[w] => life[w] \notin {"absent", "failed"}
    /\ place["Metrics"] = "close" => timer \in {"null", "deleted"}
    /\ p_logfile["Main"] = "closed" \/ status = "exited" => place["Main"] = "exit"

\* No handler in main() ends the thread, nobody cancels main(), and what the
\* handlers have cancelled is doomed.
CancelInv ==
    /\ "pthread_exit" \notin calls
    /\ ~ pending["Main"]
    /\ "cancel_Metrics" \in calls => Doomed("Letters")
    /\ shutdown => \A w \in Worker : Doomed(w)

EndInv == PlaceInv /\ CancelInv /\ NoLeakAtDeath

LEMMA EndTypes ==
    ASSUME TypeOK
    PROVE  /\ life \in [Thread -> {"absent", "alive", "exiting", "dead", "joined", "failed"}]
           /\ tid \in [Thread -> BOOLEAN]
           /\ tls \in [Thread -> BOOLEAN]
           /\ p_logfile \in [Thread -> {"null", "open", "closed"}]
           /\ pending \in [Thread -> BOOLEAN]
           /\ timer \in {"null", "created", "armed", "deleted"}
           /\ DOMAIN place = Thread
  BY DEF TypeOK, place

\* A step that leaves all threads where they are.
LEMMA CalmStep ==
    ASSUME TypeOK, EndInv, place' = place, calls' \subseteq calls,
           UNCHANGED << lifeVars, timer, shutdown >>,
           status' = "exited" => status = "exited"
    PROVE  EndInv'
<1>1. PlaceInv'
  BY DEF EndInv, PlaceInv, lifeVars
<1>2. CancelInv'
  BY DEF EndInv, CancelInv, Doomed, lifeVars
<1>3. NoLeakAtDeath'
  BY DEF EndInv, NoLeakAtDeath, lifeVars
<1> QED
  BY <1>1, <1>2, <1>3 DEF EndInv

\* A step by which thread t moves on in its code, to where it does not leave.
LEMMA OnStep ==
    ASSUME TypeOK, EndInv, NEW t \in Thread, NEW l, NEW m,
           place[t] = l, place' = [place EXCEPT ![t] = m], calls' \subseteq calls,
           l # "none", l # "exit", m # "none", m \notin Leaving,
           t = "Main" => \A w \in Worker : m \in AfterJoin[w] => l \in AfterJoin[w],
           UNCHANGED << life, pending, shutdown, status >>,
           \A u \in Thread : /\ tid'[u] => tid[u] \/ u = t
                             /\ tls'[u] => tls[u] \/ u = t
                             /\ p_logfile'[u] = p_logfile[u] \/ (u = t /\ p_logfile'[u] = "open"),
           timer' = timer \/ t = "Metrics"
    PROVE  EndInv'
<1> USE Threads, EndTypes
<1>1. place'[t] = m /\ \A u \in Thread \ {t} : place'[u] = place[u]
  OBVIOUS
<1>2. \A w \in Worker : w = t => life[w] \in Active
  BY DEF EndInv, PlaceInv
<1>3. PlaceInv'
  <2>1. ASSUME NEW w \in Worker
        PROVE  /\ life'[w] \notin Active => place'[w] = "none"
               /\ place'[w] \in Leaving => life'[w] = "exiting" /\ ~ tls'[w]
               /\ tid'[w] => life'[w] \notin {"absent", "failed"}
    BY <1>1, <1>2 DEF EndInv, PlaceInv, Active
  <2>2. ASSUME NEW w \in Worker, place'["Main"] \in AfterJoin[w]
        PROVE  life'[w] \in {"joined", "failed"}
    BY <1>1, <2>2 DEF EndInv, PlaceInv
  <2>3. place'["Metrics"] = "close" => timer' \in {"null", "deleted"}
    BY <1>1 DEF EndInv, PlaceInv, Leaving
  <2>4. p_logfile'["Main"] = "closed" \/ status' = "exited" => place'["Main"] = "exit"
    BY <1>1 DEF EndInv, PlaceInv
  <2> QED
    BY <2>1, <2>2, <2>3, <2>4 DEF PlaceInv
<1>4. CancelInv'
  BY DEF EndInv, CancelInv, Doomed
<1>5. NoLeakAtDeath'
  <2>1. \A w \in Worker : life[w] \in Terminated => w # t
    BY <1>2 DEF Terminated, Active
  <2> QED
    BY <2>1 DEF EndInv, NoLeakAtDeath
<1> QED
  BY <1>3, <1>4, <1>5 DEF EndInv

\* A step by which a worker unwinds.
LEMMA LeaveStep ==
    ASSUME OwnerIInv, EndInv, NEW w \in Worker, stack[w] # << >>, ExitThread(w)
    PROVE  EndInv'
<1> USE Threads, EndTypes DEF OwnerIInv
<1>1. place[w] # "none" /\ place' = [place EXCEPT ![w] = "cleanup"] /\ calls' \subseteq calls
  BY ExitStep DEF ExitThread
<1>2. /\ place'[w] = "cleanup" /\ \A u \in Thread \ {w} : place'[u] = place[u]
      /\ life' = [life EXCEPT ![w] = "exiting"] /\ tls' = [tls EXCEPT ![w] = FALSE]
      /\ UNCHANGED << tid, p_logfile, pending, timer, shutdown, status >>
  BY <1>1 DEF ExitThread, tickVars, otherVars
<1>3. life[w] \in Active
  BY <1>1 DEF EndInv, PlaceInv
<1>4. PlaceInv'
  BY <1>2, <1>3 DEF EndInv, PlaceInv, Active, Leaving
<1>5. CancelInv'
  BY <1>1, <1>2, <1>3 DEF EndInv, CancelInv, Doomed, Active
<1>6. NoLeakAtDeath'
  BY <1>2 DEF EndInv, NoLeakAtDeath, Terminated
<1> QED
  BY <1>4, <1>5, <1>6 DEF EndInv
------------------------------------------------------------------------------
\* Every step preserves it.

LEMMA CrashEnd == ASSUME OwnerIInv, EndInv, Crash PROVE EndInv'
  BY SameStep, CalmStep DEF OwnerIInv, Crash, tickVars, otherVars

LEMMA LogEnd ==
    ASSUME OwnerIInv, EndInv, NEW t \in Thread, LogLock(t) \/ LogWrite(t) \/ LogUnlock(t)
    PROVE  EndInv'
<1> USE DEF OwnerIInv, tickVars, otherVars
<1>0. /\ {"log_lock", "log_write", "log_unlock"} \subseteq Label \ BodyLabel
      /\ calls \cap {"log_lock", "log_write", "log_unlock"} = {}
      /\ calls' \cap {"log_lock", "log_write", "log_unlock"} = {}
  BY DEF Label, LogLabel, BodyLabel, calls
<1>1. CASE LogLock(t)
  <2>1. place' = place /\ calls' \subseteq calls \cup {"log_write"}
    BY <1>0, <1>1, UpperGotoStep DEF LogLock
  <2> QED
    BY <1>0, <1>1, <2>1, CalmStep DEF LogLock
<1>2. CASE LogWrite(t)
  <2>1. CASE Crash
    BY <2>1, CrashEnd
  <2>2. CASE ~ Crash
    <3>1. place' = place /\ calls' \subseteq calls \cup {"log_unlock"}
      BY <1>0, <1>2, <2>2, UpperGotoStep DEF LogWrite
    <3> QED
      BY <1>0, <1>2, <2>2, <3>1, CalmStep DEF LogWrite
  <2> QED
    BY <2>1, <2>2
<1>3. CASE LogUnlock(t)
  <2>1. place' = place /\ calls' \subseteq calls
    BY <1>0, <1>3, UpperPopStep DEF LogUnlock
  <2> QED
    BY <1>3, <2>1, CalmStep DEF LogUnlock
<1> QED
  BY <1>1, <1>2, <1>3

LEMMA InitEnd ==
    ASSUME OwnerIInv, EndInv, NEW t \in Thread,
           StoreIds(t) \/ SetSpecific(t) \/ OpenLog(t) \/ LogIds(t)
    PROVE  EndInv'
<1> USE Threads, EndTypes DEF OwnerIInv, tickVars, otherVars, lifeVars
<1>0. /\ {"ids", "tls", "open_log", "log_ids", "signal", "open_file", "timer_create"} \subseteq BodyLabel
      /\ \A w \in Worker : {"ids", "tls", "open_log", "log_ids", "signal", "open_file",
                            "timer_create"} \cap AfterJoin[w] = {}
      /\ {"ids", "tls", "open_log", "log_ids", "signal", "open_file", "timer_create"}
            \cap Leaving = {}
  BY DEF BodyLabel, AfterJoin, Leaving
<1>1. CASE StoreIds(t)
  <2>1. place[t] = "ids" /\ place' = [place EXCEPT ![t] = "tls"] /\ calls' \subseteq calls
    BY <1>0, <1>1, BodyStep DEF StoreIds
  <2>2. /\ UNCHANGED << life, pending, shutdown, status, tls, p_logfile, timer >>
        /\ \A u \in Thread : tid'[u] => tid[u] \/ u = t
    BY <1>1 DEF StoreIds
  <2> QED
    BY <1>0, <2>1, <2>2, OnStep, ZenonT(60)
<1>2. CASE SetSpecific(t)
  <2>1. place[t] = "tls" /\ place' = [place EXCEPT ![t] = "open_log"] /\ calls' \subseteq calls
    BY <1>0, <1>2, BodyStep DEF SetSpecific
  <2>2. /\ UNCHANGED << life, pending, shutdown, status, tid, p_logfile, timer >>
        /\ \A u \in Thread : tls'[u] => tls[u] \/ u = t
    BY <1>2 DEF SetSpecific
  <2> QED
    BY <1>0, <2>1, <2>2, OnStep
<1>3. CASE OpenLog(t)
  <2>1. CASE Crash
    BY <2>1, CrashEnd
  <2>2. CASE ~ Crash
    <3>1. place[t] = "open_log" /\ place' = [place EXCEPT ![t] = "log_ids"] /\ calls' \subseteq calls
      BY <1>0, <1>3, <2>2, BodyStep DEF OpenLog
    <3>2. /\ UNCHANGED << life, pending, shutdown, status, tid, tls, timer >>
          /\ \A u \in Thread : p_logfile'[u] = p_logfile[u] \/ (u = t /\ p_logfile'[u] = "open")
      BY <1>3, <2>2 DEF OpenLog
    <3> QED
      BY <1>0, <3>1, <3>2, OnStep, ZenonT(60)
  <2> QED
    BY <2>1, <2>2
<1>4. CASE LogIds(t)
  <2>1. AfterInit[t] \in {"signal", "open_file", "timer_create"}
    BY DEF AfterInit
  <2>2. /\ place[t] = "log_ids" /\ place' = [place EXCEPT ![t] = AfterInit[t]]
        /\ calls' \subseteq calls
    BY <1>0, <1>4, <2>1, BodyStep DEF LogIds
  <2>3. UNCHANGED << life, pending, shutdown, status, tid, tls, p_logfile, timer >>
    BY <1>4 DEF LogIds
  <2> QED
    BY <1>0, <2>1, <2>2, <2>3, OnStep, ZenonT(60)
<1> QED
  BY <1>1, <1>2, <1>3, <1>4

LEMMA WorkEnd ==
    ASSUME OwnerIInv, EndInv,
           OpenFile \/ CountLetters \/ ReportLetter \/ CreateTimer \/ SetTimer \/ SemInit
           \/ CallSemWait \/ SemWait \/ ReportCpu
    PROVE  EndInv'
<1> DEFINE Work == {"open_file", "count", "report", "return", "timer_create", "timer_set",
                    "sem_init", "sem_wait", "sem_blocked", "rusage"}
<1> USE Threads, EndTypes DEF OwnerIInv, tickVars, otherVars, lifeVars
<1>0. Work \subseteq BodyLabel /\ Work \cap Leaving = {} /\ "none" \notin Work /\ "exit" \notin Work
  BY DEF BodyLabel, Leaving
<1>1. CASE SetTimer /\ Crash
  BY <1>1, CrashEnd
<1>2. CASE ~ (SetTimer /\ Crash)
  <2>1. \E l, m \in Work : \/ /\ At("Letters", l)
                              /\ Goto("Letters", m) \/ LogThen("Letters", m)
                              /\ timer' = timer
                           \/ /\ At("Metrics", l)
                              /\ Goto("Metrics", m) \/ LogThen("Metrics", m)
    BY <1>2 DEF OpenFile, CountLetters, ReportLetter, CreateTimer, SetTimer, SemInit,
                CallSemWait, SemWait, ReportCpu
  <2>2. UNCHANGED << life, pending, shutdown, status, tid, tls, p_logfile >>
    BY <1>2 DEF OpenFile, CountLetters, ReportLetter, CreateTimer, SetTimer, SemInit,
                CallSemWait, SemWait, ReportCpu
  <2> HIDE DEF Work
  <2>3. PICK t \in Worker, l \in Work, m \in Work :
           /\ At(t, l) /\ (Goto(t, m) \/ LogThen(t, m))
           /\ timer' = timer \/ t = "Metrics"
    BY <2>1
  <2>4. place[t] = l /\ place' = [place EXCEPT ![t] = m] /\ calls' \subseteq calls
    BY <1>0, <2>3, BodyStep
  <2> QED
    BY <1>0, <2>2, <2>3, <2>4, OnStep
<1> QED
  BY <1>1, <1>2

\* A step by which thread t, which leaves or is main() at its end, moves on.
LEMMA LeavingStep ==
    ASSUME TypeOK, EndInv, NEW t \in Thread, NEW l \in Leaving, NEW m \in Leaving \cup {"exit"},
           place[t] = l, place' = [place EXCEPT ![t] = m], calls' \subseteq calls,
           UNCHANGED << life, pending, tid, tls, shutdown, status >>,
           \A u \in Thread \ {"Main"} : p_logfile'[u] = p_logfile[u],
           m = "exit" => t = "Main",
           m # "exit" => UNCHANGED p_logfile,
           timer' \in {timer, "deleted"},
           t = "Metrics" /\ m = "close" => timer' \in {"null", "deleted"}
    PROVE  EndInv'
<1> USE Threads, EndTypes
<1>1. place'[t] = m /\ \A u \in Thread \ {t} : place'[u] = place[u]
  OBVIOUS
<1>2. PlaceInv'
  <2>1. ASSUME NEW w \in Worker
        PROVE  /\ life'[w] \notin Active => place'[w] = "none"
               /\ place'[w] \in Leaving => life'[w] = "exiting" /\ ~ tls'[w]
               /\ tid'[w] => life'[w] \notin {"absent", "failed"}
    BY <1>1 DEF EndInv, PlaceInv, Active, Leaving
  <2>2. ASSUME NEW w \in Worker, place'["Main"] \in AfterJoin[w]
        PROVE  life'[w] \in {"joined", "failed"}
    <3>1. l \in AfterJoin[w]
      BY DEF Leaving, AfterJoin
    <3> QED
      BY <1>1, <2>2, <3>1 DEF EndInv, PlaceInv
  <2>3. place'["Metrics"] = "close" => timer' \in {"null", "deleted"}
    BY <1>1 DEF EndInv, PlaceInv
  <2>4. p_logfile'["Main"] = "closed" \/ status' = "exited" => place'["Main"] = "exit"
    <3>1. CASE m = "exit"
      BY <1>1, <3>1
    <3>2. CASE m # "exit"
      <4>1. t = "Main" => p_logfile["Main"] # "closed" /\ status # "exited"
        BY DEF EndInv, PlaceInv, Leaving
      <4> QED
        BY <1>1, <3>2, <4>1 DEF EndInv, PlaceInv
    <3> QED
      BY <3>1, <3>2
  <2> QED
    BY <2>1, <2>2, <2>3, <2>4 DEF PlaceInv
<1>3. CancelInv'
  BY DEF EndInv, CancelInv, Doomed
<1>4. NoLeakAtDeath'
  BY DEF EndInv, NoLeakAtDeath
<1> QED
  BY <1>2, <1>3, <1>4 DEF EndInv

LEMMA CleanupEnd ==
    ASSUME OwnerIInv, EndInv, NEW t \in Thread, Cleanup(t) \/ DeleteTimer(t) \/ CloseLog(t)
    PROVE  EndInv'
<1> USE Threads, EndTypes DEF OwnerIInv, tickVars, otherVars, lifeVars
<1>0. {"cleanup", "delete", "close", "exit"} \subseteq BodyLabel
      /\ Leaving = {"cleanup", "delete", "close"}
  BY DEF BodyLabel, Leaving
<1>1. CASE Cleanup(t)
  <2>1. CASE Crash
    BY <2>1, CrashEnd
  <2>2. CASE ~ Crash
    <3> DEFINE m == IF HasTimer(t) THEN "delete" ELSE "close"
    <3>1. At(t, "cleanup") /\ LogThen(t, m) /\ m \in {"delete", "close"}
      BY <1>1, <2>2 DEF Cleanup
    <3>2. UNCHANGED << life, pending, tid, tls, shutdown, status, p_logfile, timer >>
      BY <1>1, <2>2 DEF Cleanup
    <3>3. t = "Metrics" /\ m = "close" => timer' \in {"null", "deleted"}
      BY <3>2 DEF HasTimer
    <3> HIDE DEF m
    <3>4. place[t] = "cleanup" /\ place' = [place EXCEPT ![t] = m] /\ calls' \subseteq calls
      BY <1>0, <3>1, BodyStep
    <3> QED
      BY <1>0, <3>1, <3>2, <3>3, <3>4, LeavingStep
  <2> QED
    BY <2>1, <2>2
<1>2. CASE DeleteTimer(t)
  <2>1. place[t] = "delete" /\ place' = [place EXCEPT ![t] = "close"] /\ calls' \subseteq calls
    BY <1>0, <1>2, BodyStep DEF DeleteTimer
  <2>2. /\ UNCHANGED << life, pending, tid, tls, shutdown, status, p_logfile >>
        /\ timer' = "deleted"
    BY <1>2 DEF DeleteTimer
  <2> QED
    BY <1>0, <2>1, <2>2, LeavingStep
<1>3. CASE CloseLog(t)
  <2>1. CASE t = "Main"
    <3>1. place[t] = "close" /\ place' = [place EXCEPT ![t] = "exit"] /\ calls' \subseteq calls
      BY <1>0, <1>3, <2>1, BodyStep DEF CloseLog
    <3>2. /\ UNCHANGED << life, pending, tid, tls, shutdown, status, timer >>
          /\ \A u \in Thread \ {"Main"} : p_logfile'[u] = p_logfile[u]
      BY <1>3, <2>1 DEF CloseLog
    <3> QED
      BY <1>0, <2>1, <3>1, <3>2, LeavingStep
  <2>2. CASE t # "Main"
    <3>1. place[t] = "close" /\ place' = [place EXCEPT ![t] = "none"] /\ calls' = calls
      BY <1>3, <2>2, GoneStep DEF CloseLog
    <3>2. /\ place'[t] = "none" /\ \A u \in Thread \ {t} : place'[u] = place[u]
          /\ life' = [life EXCEPT ![t] = "dead"] /\ p_logfile' = [p_logfile EXCEPT ![t] = "closed"]
          /\ UNCHANGED << pending, tid, tls, shutdown, status, timer >>
      BY <1>3, <2>2, <3>1 DEF CloseLog
    <3>3. life[t] = "exiting" /\ ~ tls[t]
      BY <1>0, <2>2, <3>1 DEF EndInv, PlaceInv
    <3>4. t = "Metrics" => timer \in {"null", "deleted"}
      BY <3>1 DEF EndInv, PlaceInv
    <3>5. PlaceInv'
      BY <1>0, <2>2, <3>2, <3>3 DEF EndInv, PlaceInv, Active
    <3>6. CancelInv'
      BY <2>2, <3>1, <3>2, <3>3 DEF EndInv, CancelInv, Doomed, Terminated
    <3>7. NoLeakAtDeath'
      BY <2>2, <3>2, <3>3, <3>4 DEF EndInv, NoLeakAtDeath, Terminated
    <3> QED
      BY <3>5, <3>6, <3>7 DEF EndInv
  <2> QED
    BY <2>1, <2>2
<1> QED
  BY <1>1, <1>2, <1>3

LEMMA HandlerEnd ==
    ASSUME OwnerIInv, EndInv, NEW t \in Thread, Handler(t) \/ HandlerExit(t) \/ ActOnCancel(t)
    PROVE  EndInv'
<1> USE Threads, EndTypes DEF OwnerIInv, tickVars, otherVars, lifeVars
<1>1. CASE Handler(t)
  <2>1. CASE Crash
    BY <2>1, CrashEnd
  <2>2. CASE ~ Crash
    <3> DEFINE m == IF t = "Main" THEN "cancel_Letters" ELSE "pthread_exit"
    <3>1. At(t, "handler") /\ LogThen(t, m)
      BY <1>1, <2>2 DEF Handler
    <3>2. "handler" \in Label \ BodyLabel /\ m \in Label \ BodyLabel
      BY DEF Label, HandlerLabel, BodyLabel
    <3>3. place' = place /\ calls' \subseteq calls \cup (IF t = "Main" THEN {m} ELSE {})
      BY <3>1, <3>2, UpperLogThenStep
    <3>4. calls' \subseteq calls
      BY <3>3 DEF calls
    <3> QED
      BY <1>1, <2>2, <3>3, <3>4, CalmStep DEF Handler
  <2> QED
    BY <2>1, <2>2
<1>2. CASE HandlerExit(t)
  <2>1. At(t, "pthread_exit") /\ ExitThread(t) /\ stack[t] # << >>
    BY <1>2 DEF HandlerExit, At
  <2>2. t # "Main"
    <3>1. SUFFICES ASSUME t = "Main" PROVE FALSE
      OBVIOUS
    <3>2. stack["Main"] \in Seq(Label) /\ stack["Main"] # << >>
      BY <2>1, <3>1 DEF TypeOK
    <3>3. 1 \in 1 .. Len(stack["Main"]) /\ Head(stack["Main"]) = stack["Main"][1]
      BY <3>2
    <3>4. "pthread_exit" \in calls
      BY <2>1, <3>1, <3>3 DEF At, calls
    <3> QED
      BY <3>4 DEF EndInv, CancelInv
  <2> QED
    BY <2>1, <2>2, LeaveStep
<1>3. CASE ActOnCancel(t)
  <2>1. pending[t] /\ ExitThread(t) /\ stack[t] # << >>
    BY <1>3 DEF ActOnCancel, At
  <2>2. t # "Main"
    BY <2>1 DEF EndInv, CancelInv
  <2> QED
    BY <2>1, <2>2, LeaveStep
<1> QED
  BY <1>1, <1>2, <1>3

LEMMA CreateEnd == ASSUME OwnerIInv, EndInv, NEW w \in Worker, Create(w) PROVE EndInv'
<1> USE Threads, EndTypes DEF OwnerIInv, tickVars, otherVars, lifeVars
<1> DEFINE l == [Letters |-> "create_Letters", Metrics |-> "create_Metrics"][w]
<1>1. /\ At("Main", l) /\ l \in BodyLabel /\ Created[w] \in BodyLabel
      /\ l \in BeforeCreate[w]
      /\ Created[w] \notin Leaving \cup {"none", "exit"} /\ l \notin {"none", "exit"}
      /\ \A v \in Worker : Created[w] \in AfterJoin[v] => l \in AfterJoin[v]
  BY DEF Create, Created, BodyLabel, BeforeCreate, Leaving, AfterJoin
<1> HIDE DEF l
<1>2. Bottom("Main") = l
  BY <1>1, BodyTop, TypeSplit
<1>3. life[w] = "absent" /\ stack[w] = << >>
  BY <1>1, <1>2 DEF NotStarted
<1>4. ~ tid[w] /\ ~ Doomed(w)
  BY <1>3 DEF EndInv, PlaceInv, Doomed, Terminated
<1>5. ~ shutdown /\ (w = "Letters" => "cancel_Metrics" \notin calls)
  BY <1>4 DEF EndInv, CancelInv
<1>6. /\ UNCHANGED << status, tid, tls, p_logfile, pending, timer, shutdown >>
      /\ \E s \in {"alive", "failed"} : life' = [life EXCEPT ![w] = s]
  BY DEF Create
<1>7. /\ place["Main"] = l /\ place'["Main"] = Created[w]
      /\ place'[w] = "ids" \/ (place'[w] = place[w] /\ life'[w] = "failed")
      /\ \A u \in Thread \ {"Main", w} : place'[u] = place[u]
      /\ calls' \subseteq calls
      /\ place'[w] = "ids" => life'[w] = "alive"
  <2>1. CASE /\ life' = [life EXCEPT ![w] = "alive"]
             /\ stack' = [stack EXCEPT !["Main"] = << Created[w] >> \o Tail(@), ![w] = << "ids" >>]
    BY <1>1, <2>1, CreateStep
  <2>2. CASE life' = [life EXCEPT ![w] = "failed"] /\ LogThen("Main", Created[w])
    <3>1. place["Main"] = l /\ place' = [place EXCEPT !["Main"] = Created[w]] /\ calls' \subseteq calls
      BY <1>1, <2>2, BodyStep
    <3>2. place[w] = "none"
      BY <1>3 DEF EndInv, PlaceInv, Active
    <3> QED
      BY <2>2, <3>1, <3>2
  <2> QED
    BY <2>1, <2>2 DEF Create
<1>8. place["Main"] # "exit" /\ p_logfile["Main"] # "closed" /\ status # "exited"
  BY <1>1, <1>7 DEF EndInv, PlaceInv
<1>9. PlaceInv'
  <2>1. ASSUME NEW v \in Worker, v # w
        PROVE  /\ life'[v] \notin Active => place'[v] = "none"
               /\ place'[v] \in Leaving => life'[v] = "exiting" /\ ~ tls'[v]
               /\ place'["Main"] \in AfterJoin[v] => life'[v] \in {"joined", "failed"}
               /\ tid'[v] => life'[v] \notin {"absent", "failed"}
    <3>1. place'[v] = place[v] /\ life'[v] = life[v] /\ tls'[v] = tls[v] /\ tid'[v] = tid[v]
      BY <1>6, <1>7, <2>1
    <3> QED
      BY <1>1, <1>7, <3>1 DEF EndInv, PlaceInv
  <2>2. /\ life'[w] \notin Active => place'[w] = "none"
        /\ place'[w] \in Leaving => life'[w] = "exiting" /\ ~ tls'[w]
        /\ place'["Main"] \in AfterJoin[w] => life'[w] \in {"joined", "failed"}
        /\ tid'[w] => life'[w] \notin {"absent", "failed"}
    <3>1. place[w] = "none"
      BY <1>3 DEF EndInv, PlaceInv, Active
    <3>2. l \notin AfterJoin[w]
      BY <1>3, <1>7 DEF EndInv, PlaceInv
    <3> QED
      BY <1>1, <1>4, <1>6, <1>7, <3>1, <3>2 DEF Active, Leaving
  <2>3. place'["Metrics"] = "close" => timer' \in {"null", "deleted"}
    <3>1. CASE w = "Metrics"
      <4>1. place[w] = "none"
        BY <1>3 DEF EndInv, PlaceInv, Active
      <4> QED
        BY <1>7, <3>1, <4>1
    <3>2. CASE w # "Metrics"
      BY <1>6, <1>7, <3>2 DEF EndInv, PlaceInv
    <3> QED
      BY <3>1, <3>2
  <2>4. ~ (p_logfile'["Main"] = "closed" \/ status' = "exited")
    BY <1>6, <1>8
  <2> QED
    BY <2>1, <2>2, <2>3, <2>4 DEF PlaceInv
<1>10. CancelInv'
  <2>1. w # "Letters" => life'["Letters"] = life["Letters"]
    BY <1>6
  <2> QED
    BY <1>5, <1>6, <1>7, <2>1 DEF EndInv, CancelInv, Doomed
<1>11. NoLeakAtDeath'
  <2>1. life'[w] \notin Terminated
    BY <1>6 DEF Terminated
  <2> QED
    BY <1>6, <2>1 DEF EndInv, NoLeakAtDeath
<1> QED
  BY <1>9, <1>10, <1>11 DEF EndInv

LEMMA JoinEnd == ASSUME OwnerIInv, EndInv, NEW w \in Worker, Join(w) PROVE EndInv'
<1> USE Threads, EndTypes DEF OwnerIInv, tickVars, otherVars, lifeVars
<1> DEFINE l == [Letters |-> "join_Letters", Metrics |-> "join_Metrics"][w]
<1>1. /\ At("Main", l) /\ l \in BodyLabel /\ Joined[w] \in BodyLabel
      /\ Joined[w] \notin Leaving \cup {"none", "exit"} /\ l \notin {"none", "exit"}
      /\ \A v \in Worker \ {w} : Joined[w] \in AfterJoin[v] => l \in AfterJoin[v]
  BY DEF Join, Joined, BodyLabel, Leaving, AfterJoin
<1> HIDE DEF l
<1>2. CASE Crash
  BY <1>2, CrashEnd
<1>3. CASE ~ Crash
  <2>1. /\ Goto("Main", Joined[w])
        /\ UNCHANGED << status, tid, tls, p_logfile, pending, timer, shutdown >>
        /\ \/ life[w] = "dead" /\ life' = [life EXCEPT ![w] = "joined"]
           \/ life[w] = "failed" /\ UNCHANGED life
    BY <1>3 DEF Join
  <2>2. place["Main"] = l /\ place' = [place EXCEPT !["Main"] = Joined[w]] /\ calls' \subseteq calls
    BY <1>1, <2>1, BodyStep
  <2>3. place'["Main"] = Joined[w] /\ \A v \in Worker : place'[v] = place[v]
    BY <2>2
  <2>4. /\ life'[w] \in {"joined", "failed"}
        /\ \A v \in Worker \ {w} : life'[v] = life[v]
    BY <2>1
  <2>5. PlaceInv'
    <3>1. ASSUME NEW v \in Worker
          PROVE  /\ life'[v] \notin Active => place'[v] = "none"
                 /\ place'[v] \in Leaving => life'[v] = "exiting" /\ ~ tls'[v]
                 /\ place'["Main"] \in AfterJoin[v] => life'[v] \in {"joined", "failed"}
                 /\ tid'[v] => life'[v] \notin {"absent", "failed"}
      <4>1. CASE v # w
        BY <1>1, <2>1, <2>2, <2>3, <2>4, <4>1 DEF EndInv, PlaceInv
      <4>2. CASE v = w
        <5>1. place[w] = "none" /\ (tid[w] => life[w] = "dead")
          BY <2>1 DEF EndInv, PlaceInv, Active
        <5> QED
          BY <2>1, <2>3, <2>4, <4>2, <5>1 DEF Leaving
      <4> QED
        BY <4>1, <4>2
    <3>2. place'["Metrics"] = "close" => timer' \in {"null", "deleted"}
      BY <2>1, <2>3 DEF EndInv, PlaceInv
    <3>3. ~ (p_logfile'["Main"] = "closed" \/ status' = "exited")
      BY <1>1, <2>1, <2>2 DEF EndInv, PlaceInv
    <3> QED
      BY <3>1, <3>2, <3>3 DEF PlaceInv
  <2>6. CancelInv'
    <3>1. \A v \in Worker : Doomed(v) => life'[v] \in Terminated \cup {"exiting"}
                                         \/ (life'[v] = "alive" /\ pending'[v])
      BY <2>1, <2>4 DEF Doomed, Terminated
    <3> QED
      BY <2>1, <2>2, <3>1 DEF EndInv, CancelInv, Doomed
  <2>7. NoLeakAtDeath'
    BY <2>1, <2>4 DEF EndInv, NoLeakAtDeath, Terminated
  <2> QED
    BY <2>5, <2>6, <2>7 DEF EndInv
<1> QED
  BY <1>2, <1>3

LEMMA CancelEnd == ASSUME OwnerIInv, EndInv, NEW w \in Worker, CancelWorker(w) PROVE EndInv'
<1> USE Threads, EndTypes DEF OwnerIInv, tickVars, otherVars, lifeVars
<1>1. CASE Crash
  BY <1>1, CrashEnd
<1>2. CASE ~ Crash
  <2>1. /\ tid[w]
        /\ pending' = [pending EXCEPT ![w] = @ \/ life[w] = "alive"]
        /\ UNCHANGED << status, life, tid, tls, p_logfile, timer >>
    BY <1>2 DEF CancelWorker
  <2>2. /\ \A v \in Worker : pending[v] => pending'[v]
        /\ life[w] = "alive" => pending'[w]
        /\ pending'["Main"] = pending["Main"]
    BY <2>1
  <2>3. /\ Doomed(w)'
        /\ \A v \in Worker : Doomed(v) => Doomed(v)'
    <3>1. life[w] \in Terminated \cup {"exiting", "alive"}
      BY <2>1 DEF EndInv, PlaceInv, Terminated
    <3> QED
      BY <2>1, <2>2, <3>1 DEF Doomed
  <2>4. {"cancel_Letters", "cancel_Metrics"} \subseteq Label \ BodyLabel
    BY DEF Label, HandlerLabel, BodyLabel
  <2>5. place' = place
        /\ IF w = "Letters" THEN calls' \subseteq calls \cup {"cancel_Metrics"} /\ UNCHANGED shutdown
                            ELSE calls' \subseteq calls /\ "cancel_Metrics" \in calls
    <3>1. CASE w = "Letters"
      <4>1. At("Main", "cancel_Letters") /\ Goto("Main", "cancel_Metrics") /\ UNCHANGED shutdown
        BY <1>2, <3>1 DEF CancelWorker
      <4> QED
        BY <2>4, <3>1, <4>1, UpperGotoStep
    <3>2. CASE w # "Letters"
      <4>1. /\ At("Main", "cancel_Metrics")
            /\ stack' = [stack EXCEPT !["Main"] = Tail(@)]
        BY <1>2, <3>2 DEF CancelWorker
      <4>2. "cancel_Metrics" \in calls
        <5>1. stack["Main"] \in Seq(Label) /\ Len(stack["Main"]) > 1
              /\ stack["Main"][1] = "cancel_Metrics"
          BY <2>4, <4>1, UpperTop, TypeSplit
        <5> QED
          BY <5>1 DEF calls
      <4>3. place' = place /\ calls' \subseteq calls
        BY <2>4, <4>1, UpperPopStep
      <4> QED
        BY <3>2, <4>2, <4>3
    <3> QED
      BY <3>1, <3>2
  <2>6. PlaceInv'
    BY <2>1, <2>5 DEF EndInv, PlaceInv
  <2>7. CancelInv'
    <3>1. "pthread_exit" \notin calls' /\ ~ pending'["Main"]
      BY <2>2, <2>5 DEF EndInv, CancelInv
    <3>2. "cancel_Metrics" \in calls' => Doomed("Letters")'
      BY <2>3, <2>5 DEF EndInv, CancelInv
    <3>3. shutdown' => \A v \in Worker : Doomed(v)'
      BY <2>3, <2>5 DEF EndInv, CancelInv
    <3> QED
      BY <3>1, <3>2, <3>3 DEF CancelInv
  <2>8. NoLeakAtDeath'
    BY <2>1 DEF EndInv, NoLeakAtDeath
  <2> QED
    BY <2>6, <2>7, <2>8 DEF EndInv
<1> QED
  BY <1>1, <1>2

LEMMA LogJoinedEnd == ASSUME OwnerIInv, EndInv, LogJoined PROVE EndInv'
<1> USE Threads, EndTypes DEF OwnerIInv, tickVars, otherVars, lifeVars
<1>1. /\ At("Main", "joined") /\ LogThen("Main", "cleanup")
      /\ UNCHANGED << status, lifeVars, timer, shutdown >>
  BY DEF LogJoined
<1>2. /\ place["Main"] = "joined" /\ place' = [place EXCEPT !["Main"] = "cleanup"]
      /\ calls' \subseteq calls
  <2>1. {"joined", "cleanup"} \subseteq BodyLabel
    BY DEF BodyLabel
  <2> QED
    BY <1>1, <2>1, BodyStep
<1>3. place'["Main"] = "cleanup" /\ \A w \in Worker : place'[w] = place[w]
  BY <1>2
<1>4. \A w \in Worker : "joined" \in AfterJoin[w]
  BY DEF AfterJoin
<1>5. PlaceInv'
  BY <1>1, <1>2, <1>3, <1>4 DEF EndInv, PlaceInv
<1>6. CancelInv'
  BY <1>1, <1>2 DEF EndInv, CancelInv, Doomed
<1>7. NoLeakAtDeath'
  BY <1>1 DEF EndInv, NoLeakAtDeath
<1> QED
  BY <1>5, <1>6, <1>7 DEF EndInv

LEMMA ExitEnd == ASSUME OwnerIInv, EndInv, Exit PROVE EndInv'
<1> USE Threads, EndTypes DEF OwnerIInv, tickVars, otherVars, lifeVars
<1>1. At("Main", "exit") /\ UNCHANGED << stack, lifeVars, timer, shutdown >>
  BY DEF Exit
<1>2. place["Main"] = "exit"
  <2>1. stack["Main"] = << "exit" >>
    BY <1>1, BodyTop, TypeSplit DEF BodyLabel
  <2> QED
    BY <2>1 DEF place
<1>3. place' = place /\ calls' = calls
  BY <1>1, SameStep
<1>4. PlaceInv'
  BY <1>1, <1>2, <1>3 DEF EndInv, PlaceInv
<1>5. CancelInv'
  BY <1>1, <1>3 DEF EndInv, CancelInv, Doomed
<1>6. NoLeakAtDeath'
  BY <1>1 DEF EndInv, NoLeakAtDeath
<1> QED
  BY <1>4, <1>5, <1>6 DEF EndInv

LEMMA InstallEnd == ASSUME OwnerIInv, EndInv, InstallHandlers PROVE EndInv'
<1> USE Threads, EndTypes DEF OwnerIInv, tickVars, otherVars, lifeVars
<1>1. /\ {"signal", "create_Letters"} \subseteq BodyLabel
      /\ "create_Letters" \notin Leaving
      /\ \A w \in Worker : "create_Letters" \notin AfterJoin[w]
  BY DEF BodyLabel, Leaving, AfterJoin
<1>2. /\ place["Main"] = "signal" /\ place' = [place EXCEPT !["Main"] = "create_Letters"]
      /\ calls' \subseteq calls
  BY <1>1, BodyStep DEF InstallHandlers
<1>3. UNCHANGED << life, pending, shutdown, status, tid, tls, p_logfile, timer >>
  BY DEF InstallHandlers
<1> QED
  BY <1>1, <1>2, <1>3, OnStep

LEMMA DeliverEnd ==
    ASSUME OwnerIInv, EndInv, NEW t \in Thread, NEW s \in Signal, Deliver(t, s) PROVE EndInv'
<1> USE DEF OwnerIInv, tickVars, otherVars
<1>1. stack[t] # << >> /\ stack' = [stack EXCEPT ![t] = << "handler" >> \o @]
  BY DEF Deliver, LifeInv, Active
<1>2. place' = place /\ calls' \subseteq calls
  BY <1>1, DeliverStep
<1> QED
  BY <1>2, CalmStep DEF Deliver
------------------------------------------------------------------------------
\* The theorems.

LEMMA EndInit == Init => EndInv
<1> SUFFICES ASSUME Init PROVE EndInv
  OBVIOUS
<1> USE Threads
<1>1. /\ stack["Main"] = << "ids" >>
      /\ \A w \in Worker : stack[w] = << >> /\ life[w] = "absent"
  BY DEF Init
<1>2. place["Main"] = "ids" /\ \A w \in Worker : place[w] = "none"
  BY <1>1 DEF place
<1>3. calls = {}
  <2>1. \A i \in 1 .. Len(stack["Main"]) : stack["Main"][i] = "ids"
    BY <1>1
  <2> QED
    BY <2>1 DEF calls
<1>4. PlaceInv
  BY <1>1, <1>2 DEF Init, PlaceInv, Leaving, AfterJoin
<1>5. CancelInv
  BY <1>3 DEF Init, CancelInv
<1>6. NoLeakAtDeath
  BY <1>1 DEF NoLeakAtDeath, Terminated
<1> QED
  BY <1>4, <1>5, <1>6 DEF EndInv

LEMMA EndNext == OwnerIInv /\ EndInv /\ [Next]_vars => EndInv'
<1> SUFFICES ASSUME OwnerIInv, EndInv, [Next]_vars PROVE EndInv'
  OBVIOUS
<1>1. CASE Expire \/ TimerCb \/ UNCHANGED vars
  BY <1>1, SameStep, CalmStep DEF OwnerIInv, Expire, TimerCb, vars, tickVars, otherVars
<1>2. CASE DeliverToCallback
  BY <1>2, CrashEnd DEF DeliverToCallback
<1>3. ASSUME NEW t \in Thread, Step(t) PROVE EndInv'
  BY <1>3, LogEnd, InitEnd, CleanupEnd, HandlerEnd DEF Step
<1>4. CASE MainStep
  BY <1>4, InstallEnd, LogJoinedEnd, ExitEnd, CreateEnd, JoinEnd, CancelEnd DEF MainStep
<1>5. CASE LettersStep
  <2>1. CASE LettersReturn
    BY <2>1, Threads, LeaveStep DEF LettersReturn, At
  <2>2. CASE ~ LettersReturn
    BY <1>5, <2>2, WorkEnd DEF LettersStep
  <2> QED
    BY <2>1, <2>2
<1>6. CASE MetricsStep
  BY <1>6, WorkEnd DEF MetricsStep
<1>7. ASSUME NEW t \in Thread, NEW s \in Signal, Deliver(t, s) PROVE EndInv'
  BY <1>7, DeliverEnd
<1> QED
  BY <1>1, <1>2, <1>3, <1>4, <1>5, <1>6, <1>7 DEF Next

LEMMA Ends == Spec => [](OwnerIInv /\ EndInv)
<1>1. Init => OwnerIInv /\ EndInv
  BY OwnerInit, EndInit
<1>2. OwnerIInv /\ EndInv /\ [Next]_vars => (OwnerIInv /\ EndInv)'
  BY OwnerNext, EndNext
<1> QED
  BY <1>1, <1>2, PTL DEF Spec

\* A worker that is dead, whatever it died of, has closed its stream, and the
\* timer of the metrics thread no longer runs (threads.c:76-84).
THEOREM NoLeak == Spec => []NoLeakAtDeath
<1>1. OwnerIInv /\ EndInv => NoLeakAtDeath
  BY DEF EndInv
<1> QED
  BY <1>1, Ends, PTL

\* main() closes its stream and exits after all workers (hw3.c:70-79).
THEOREM MainLast == Spec => []MainIsLast
<1>1. OwnerIInv /\ EndInv => MainIsLast
  BY DEF EndInv, PlaceInv, MainIsLast, AfterJoin, Worker
<1> QED
  BY <1>1, Ends, PTL

\* A handler that has run to its end in main() leaves no worker that will not
\* end (hw3.c:99-104).
THEOREM Doom == Spec => []AllDoomed
<1>1. OwnerIInv /\ EndInv => AllDoomed
  BY DEF EndInv, CancelInv, AllDoomed, Doomed
<1> QED
  BY <1>1, Ends, PTL
------------------------------------------------------------------------------
\* The accounts of the timer: the reporter, once it has taken a post, owes a
\* report.

owed    == IF place["Metrics"] = "rusage" THEN 1 ELSE 0
TickInv == reports + metrics_sem + callbacks + owed <= ticks

\* A step of no account.
Neutral == UNCHANGED << reports, metrics_sem, callbacks, ticks >> /\ owed' <= owed

LEMMA TickTypes == ASSUME TypeOK PROVE /\ reports \in Nat /\ metrics_sem \in Nat
                                       /\ callbacks \in Nat /\ ticks \in Nat
                                       /\ owed \in {0, 1}
  BY Hw3Assumption DEF TypeOK, owed

LEMMA NeutralStep == ASSUME TypeOK, TickInv, Neutral PROVE TickInv'
<1>1. owed' \in {0, 1}
  BY DEF owed
<1> QED
  BY <1>1, TickTypes DEF TickInv, Neutral

LEMMA Owed ==
    /\ (place' = place => owed' <= owed)
    /\ (place'["Metrics"] # "rusage" => owed' <= owed)
    /\ (place'["Metrics"] = place["Metrics"] => owed' <= owed)
  BY DEF owed

LEMMA OwedBody ==
    ASSUME OwnerIInv, NEW t \in Thread, NEW l \in BodyLabel, At(t, l),
           NEW m \in BodyLabel \ {"rusage"}, Goto(t, m) \/ LogThen(t, m)
    PROVE  owed' <= owed
<1>1. place' = [place EXCEPT ![t] = m]
  BY BodyStep
<1>2. place'["Metrics"] = place["Metrics"] \/ place'["Metrics"] = m
  BY <1>1, Threads DEF place
<1> QED
  BY <1>2, Owed

LEMMA OwedExit ==
    ASSUME OwnerIInv, NEW t \in Thread, stack[t] # << >>, ExitThread(t)
    PROVE  owed' <= owed
<1>1. place' = [place EXCEPT ![t] = "cleanup"]
  BY ExitStep DEF ExitThread
<1>2. place'["Metrics"] = place["Metrics"] \/ place'["Metrics"] = "cleanup"
  BY <1>1, Threads DEF place
<1> QED
  BY <1>2, Owed

LEMMA StepNeutral == ASSUME OwnerIInv, EndInv, NEW t \in Thread, Step(t) PROVE Neutral
<1> USE DEF tickVars
<1>0. /\ UNCHANGED << reports, metrics_sem, callbacks, ticks >>
  BY DEF Step, LogLock, LogWrite, LogUnlock, StoreIds, SetSpecific, OpenLog, LogIds, Cleanup,
         DeleteTimer, CloseLog, Handler, HandlerExit, ActOnCancel, Crash, ExitThread
<1>1. CASE Crash
  BY <1>0, <1>1, SameStep, Owed DEF Crash, Neutral
<1>2. CASE LogLock(t) \/ (LogWrite(t) /\ ~ Crash)
  <2>1. \E l, m \in Label \ BodyLabel : At(t, l) /\ Goto(t, m)
    BY <1>2 DEF LogLock, LogWrite, Label, LogLabel, BodyLabel
  <2> QED
    BY <1>0, <2>1, UpperGotoStep, Owed DEF Neutral
<1>3. CASE LogUnlock(t)
  <2>1. At(t, "log_unlock") /\ "log_unlock" \in Label \ BodyLabel
        /\ stack' = [stack EXCEPT ![t] = Tail(@)]
    BY <1>3 DEF LogUnlock, Label, LogLabel, BodyLabel
  <2> QED
    BY <1>0, <2>1, UpperPopStep, Owed DEF Neutral
<1>4. CASE \/ StoreIds(t) \/ SetSpecific(t) \/ (OpenLog(t) /\ ~ Crash) \/ LogIds(t)
           \/ (Cleanup(t) /\ ~ Crash) \/ DeleteTimer(t) \/ (CloseLog(t) /\ t = "Main")
  <2>1. AfterInit[t] \in BodyLabel \ {"rusage"}
    BY Threads DEF AfterInit, BodyLabel
  <2>2. \E l \in BodyLabel : \E m \in BodyLabel \ {"rusage"} :
           At(t, l) /\ (Goto(t, m) \/ LogThen(t, m))
    BY <1>4, <2>1 DEF StoreIds, SetSpecific, OpenLog, LogIds, Cleanup, DeleteTimer, CloseLog, BodyLabel
  <2> QED
    BY <1>0, <2>2, OwedBody DEF Neutral
<1>5. CASE CloseLog(t) /\ t # "Main"
  <2>1. t \in Worker /\ At(t, "close") /\ stack' = [stack EXCEPT ![t] = << >>]
    BY <1>5, Threads DEF CloseLog
  <2>2. place' = [place EXCEPT ![t] = "none"]
    BY <2>1, GoneStep
  <2>3. place'["Metrics"] = place["Metrics"] \/ place'["Metrics"] = "none"
    BY <2>2, Threads DEF place
  <2> QED
    BY <1>0, <2>3, Owed DEF Neutral
<1>6. CASE Handler(t) /\ ~ Crash
  <2>1. "handler" \in Label \ BodyLabel
        /\ \E m \in Label \ BodyLabel : At(t, "handler") /\ LogThen(t, m)
    BY <1>6 DEF Handler, Label, HandlerLabel, BodyLabel
  <2> QED
    BY <1>0, <2>1, UpperLogThenStep, Owed DEF Neutral
<1>7. CASE HandlerExit(t) \/ ActOnCancel(t)
  <2>1. stack[t] # << >> /\ ExitThread(t)
    BY <1>7 DEF HandlerExit, ActOnCancel, At
  <2> QED
    BY <1>0, <2>1, OwedExit DEF Neutral
<1> QED
  BY <1>1, <1>2, <1>3, <1>4, <1>5, <1>6, <1>7 DEF Step

LEMMA MainNeutral == ASSUME OwnerIInv, EndInv, MainStep PROVE Neutral
<1> USE Threads DEF tickVars
<1>0. /\ UNCHANGED << reports, metrics_sem, callbacks, ticks >>
  BY DEF MainStep, InstallHandlers, LogJoined, Exit, Create, Join, CancelWorker, Crash
<1>1. CASE Crash \/ Exit
  BY <1>0, <1>1, SameStep, Owed DEF Crash, Exit, Neutral
<1>2. CASE InstallHandlers \/ LogJoined
  <2>1. \E l \in BodyLabel : \E m \in BodyLabel \ {"rusage"} :
           At("Main", l) /\ (Goto("Main", m) \/ LogThen("Main", m))
    BY <1>2 DEF InstallHandlers, LogJoined, BodyLabel
  <2> QED
    BY <1>0, <2>1, OwedBody DEF Neutral
<1>3. ASSUME NEW w \in Worker, Create(w) PROVE Neutral
  <2>1. /\ [Letters |-> "create_Letters", Metrics |-> "create_Metrics"][w] \in BodyLabel
        /\ Created[w] \in BodyLabel \ {"rusage"}
    BY DEF Created, BodyLabel
  <2>2. CASE LogThen("Main", Created[w])
    BY <1>0, <1>3, <2>1, <2>2, OwedBody DEF Create, Neutral
  <2>3. CASE stack' = [stack EXCEPT !["Main"] = << Created[w] >> \o Tail(@), ![w] = << "ids" >>]
    <3>1. place'[w] = "ids" /\ \A u \in Thread \ {"Main", w} : place'[u] = place[u]
      BY <1>3, <2>1, <2>3, CreateStep, ZenonT(60) DEF Create
    <3>2. place'["Metrics"] = place["Metrics"] \/ place'["Metrics"] = "ids"
      BY <3>1
    <3> QED
      BY <1>0, <3>2, Owed DEF Neutral
  <2> QED
    BY <1>3, <2>2, <2>3 DEF Create
<1>4. ASSUME NEW w \in Worker, Join(w) PROVE Neutral
  <2>1. CASE ~ Crash
    <3>1. \E l \in BodyLabel : \E m \in BodyLabel \ {"rusage"} : At("Main", l) /\ Goto("Main", m)
      BY <1>4, <2>1 DEF Join, Joined, BodyLabel
    <3> QED
      BY <1>0, <3>1, OwedBody DEF Neutral
  <2> QED
    BY <1>1, <2>1
<1>5. ASSUME NEW w \in Worker, CancelWorker(w) PROVE Neutral
  <2>0. {"cancel_Letters", "cancel_Metrics"} \subseteq Label \ BodyLabel
    BY DEF Label, HandlerLabel, BodyLabel
  <2>1. CASE ~ Crash /\ w = "Letters"
    <3>1. At("Main", "cancel_Letters") /\ Goto("Main", "cancel_Metrics")
      BY <1>5, <2>1 DEF CancelWorker
    <3> QED
      BY <1>0, <2>0, <3>1, UpperGotoStep, Owed DEF Neutral
  <2>2. CASE ~ Crash /\ w # "Letters"
    <3>1. At("Main", "cancel_Metrics") /\ stack' = [stack EXCEPT !["Main"] = Tail(@)]
      BY <1>5, <2>2 DEF CancelWorker
    <3> QED
      BY <1>0, <2>0, <3>1, UpperPopStep, Owed DEF Neutral
  <2> QED
    BY <1>1, <2>1, <2>2
<1> QED
  BY <1>1, <1>2, <1>3, <1>4, <1>5 DEF MainStep

LEMMA MetricsTicks == ASSUME OwnerIInv, EndInv, TickInv, MetricsStep PROVE TickInv'
<1> USE Threads DEF OwnerIInv, tickVars
<1>1. CASE Crash
  BY <1>1, SameStep, Owed, NeutralStep DEF Crash, Neutral
<1>2. CASE CreateTimer \/ (SetTimer /\ ~ Crash) \/ CallSemWait
  <2>1. \E l \in BodyLabel : \E m \in BodyLabel \ {"rusage"} :
           At("Metrics", l) /\ (Goto("Metrics", m) \/ LogThen("Metrics", m))
    BY <1>2 DEF CreateTimer, SetTimer, CallSemWait, BodyLabel
  <2>2. UNCHANGED << reports, metrics_sem, callbacks, ticks >>
    BY <1>2 DEF CreateTimer, SetTimer, CallSemWait
  <2> QED
    BY <2>1, <2>2, OwedBody, NeutralStep DEF Neutral
<1>3. CASE SemInit
  <2>1. owed' <= owed /\ owed' \in {0, 1}
    BY <1>3, OwedBody DEF SemInit, BodyLabel, owed
  <2>2. metrics_sem' = 0 /\ UNCHANGED << callbacks, ticks, reports >>
    BY <1>3 DEF SemInit
  <2> QED
    BY <2>1, <2>2, TickTypes DEF TickInv
<1>4. CASE SemWait
  <2>1. place["Metrics"] = "sem_blocked" /\ place' = [place EXCEPT !["Metrics"] = "rusage"]
    BY <1>4, BodyStep, ZenonT(60) DEF SemWait, BodyLabel
  <2>2. owed = 0 /\ owed' = 1
    BY <2>1, EndTypes DEF owed
  <2>3. metrics_sem' = metrics_sem - 1 /\ UNCHANGED << callbacks, ticks, reports >>
    BY <1>4 DEF SemWait
  <2> QED
    BY <2>2, <2>3, TickTypes, SMTT(40) DEF TickInv
<1>5. CASE ReportCpu
  <2>1. place["Metrics"] = "rusage" /\ place' = [place EXCEPT !["Metrics"] = "sem_wait"]
    BY <1>5, BodyStep DEF ReportCpu, BodyLabel
  <2>2. owed = 1 /\ owed' = 0
    BY <2>1, EndTypes DEF owed
  <2>3. reports' = reports + 1 /\ UNCHANGED << callbacks, ticks, metrics_sem >>
    BY <1>5 DEF ReportCpu
  <2> QED
    BY <2>2, <2>3, TickTypes DEF TickInv
<1> QED
  BY <1>1, <1>2, <1>3, <1>4, <1>5 DEF MetricsStep

LEMMA TickNext == OwnerIInv /\ EndInv /\ TickInv /\ [Next]_vars => TickInv'
<1> SUFFICES ASSUME OwnerIInv, EndInv, TickInv, [Next]_vars PROVE TickInv'
  OBVIOUS
<1> USE DEF OwnerIInv, tickVars
<1>1. CASE UNCHANGED vars \/ DeliverToCallback
  BY <1>1, SameStep, Owed, NeutralStep DEF vars, DeliverToCallback, Crash, Neutral
<1>2. CASE Expire \/ TimerCb
  <2>1. owed' = owed
    BY <1>2, SameStep DEF Expire, TimerCb, owed
  <2> QED
    BY <1>2, <2>1, TickTypes DEF Expire, TimerCb, TickInv
<1>3. ASSUME NEW t \in Thread, Step(t) PROVE TickInv'
  BY <1>3, StepNeutral, NeutralStep
<1>4. CASE MainStep
  BY <1>4, MainNeutral, NeutralStep
<1>5. CASE LettersStep
  <2>1. UNCHANGED << reports, metrics_sem, callbacks, ticks >>
    BY <1>5 DEF LettersStep, OpenFile, CountLetters, ReportLetter, LettersReturn, ExitThread
  <2>2. CASE LettersReturn
    BY <2>1, <2>2, Threads, OwedExit, NeutralStep DEF LettersReturn, At, Neutral
  <2>3. CASE ~ LettersReturn
    <3>1. \E l \in BodyLabel : \E m \in BodyLabel \ {"rusage"} :
             At("Letters", l) /\ (Goto("Letters", m) \/ LogThen("Letters", m))
      BY <1>5, <2>3 DEF LettersStep, OpenFile, CountLetters, ReportLetter, BodyLabel
    <3> QED
      BY <2>1, <3>1, Threads, OwedBody, NeutralStep DEF Neutral
  <2> QED
    BY <2>2, <2>3
<1>6. CASE MetricsStep
  BY <1>6, MetricsTicks
<1>7. ASSUME NEW t \in Thread, NEW s \in Signal, Deliver(t, s) PROVE TickInv'
  <2>1. stack[t] # << >> /\ stack' = [stack EXCEPT ![t] = << "handler" >> \o @]
    BY <1>7 DEF Deliver, LifeInv, Active
  <2>2. place' = place
    BY <2>1, DeliverStep
  <2>3. Neutral
    BY <1>7, <2>2, Owed DEF Deliver, Neutral
  <2> QED
    BY <2>3, NeutralStep
<1> QED
  BY <1>1, <1>2, <1>3, <1>4, <1>5, <1>6, <1>7 DEF Next

\* No CPU report is made but for an expiration, and for each at most one,
\* whatever is lost to sem_init() or to the reporter's end (metrics.c:30-34,
\* 67-75).
THEOREM TicksAccounted == Spec => []TickAccounting
<1>1. Init => TickInv
  <2> SUFFICES ASSUME Init PROVE TickInv
    OBVIOUS
  <2>1. stack["Metrics"] = << >>
    BY Threads DEF Init
  <2>2. place["Metrics"] = "none"
    BY <2>1, Threads DEF place
  <2> QED
    BY <2>2 DEF Init, TickInv, owed
<1>2. OwnerIInv /\ EndInv /\ TickInv => TickAccounting
  BY TickTypes DEF OwnerIInv, TickInv, TickAccounting
<1> QED
  BY <1>1, <1>2, TickNext, Ends, PTL DEF Spec
------------------------------------------------------------------------------
\* Where signals do not interrupt log_varg(), nothing is on top of a critical
\* section.

TopInv == \A t \in Thread : \A i \in 1 .. Len(stack[t]) : stack[t][i] \in CS => i = 1

LEMMA LoggingWindow == ASSUME NEW t, InLog(t) PROVE Window(t) = "logging"
  BY DEF Window

LEMMA TopKeeps ==
    ASSUME TopInv, NEW t \in Thread, NEW v \in Thread,
           \A u \in Thread \ {t, v} : stack'[u] = stack[u],
           \A i \in 1 .. Len(stack'[t]) : stack'[t][i] \in CS => i = 1,
           \A i \in 1 .. Len(stack'[v]) : stack'[v][i] \in CS => i = 1
    PROVE  TopInv'
  BY DEF TopInv

\* No move but a delivery puts anything there.
LEMMA TopOwn == ASSUME OwnerIInv, TopInv, OwnMove PROVE TopInv'
<1> USE TypeSplit, Threads DEF OwnerIInv
<1>0. /\ \A m \in BodyLabel \cup HandlerLabel : m \notin CS
      /\ "log_lock" \notin CS /\ "log_lock" \in Label \ BodyLabel
      /\ CS \subseteq Label \ BodyLabel /\ HandlerLabel \subseteq Label \ BodyLabel
      /\ "handler" \in HandlerLabel /\ "cancel_Letters" \in HandlerLabel
      /\ "cancel_Metrics" \in HandlerLabel /\ "log_write" \in CS /\ "log_unlock" \in CS
  BY DEF BodyLabel, HandlerLabel, LogLabel, Label, CS
<1>1. ASSUME NEW t \in Thread, BodyMove(t) PROVE TopInv'
  <2>1. PICK l \in BodyLabel, m \in BodyLabel : At(t, l) /\ (Goto(t, m) \/ LogThen(t, m))
    BY <1>1 DEF BodyMove
  <2>2. stack'[t] = << m >> \/ stack'[t] = << "log_lock", m >>
    BY <2>1, BodyGoto, BodyLogThen
  <2>3. \A u \in Thread \ {t} : stack'[u] = stack[u]
    BY <2>1 DEF Goto, LogThen, StacksOK
  <2>4. \A i \in 1 .. Len(stack'[t]) : stack'[t][i] \in CS => i = 1
    BY <1>0, <2>2
  <2> QED
    BY <2>3, <2>4, TopKeeps
<1>2. ASSUME NEW t \in Thread, UnwindMove(t) PROVE TopInv'
  <2>1. \A u \in Thread \ {t} : stack'[u] = stack[u]
    BY <1>2 DEF UnwindMove, StacksOK
  <2>2. stack'[t] = << "cleanup" >> \/ stack'[t] = << >>
    BY <1>2 DEF UnwindMove, StacksOK
  <2>3. \A i \in 1 .. Len(stack'[t]) : stack'[t][i] \in CS => i = 1
    BY <2>2
  <2> QED
    BY <2>1, <2>3, TopKeeps
<1>3. ASSUME NEW t \in Thread, NEW l \in Label \ BodyLabel, At(t, l), NEW m \in Label \ BodyLabel,
             Goto(t, m)
      PROVE  TopInv'
  <2>1. stack[t] \in Seq(Label) /\ Len(stack[t]) > 1 /\ stack[t][1] = l
    BY <1>3, UpperTop
  <2>2. /\ Len(stack'[t]) = Len(stack[t])
        /\ \A i \in 2 .. Len(stack[t]) : stack'[t][i] = stack[t][i]
    BY <1>3, <2>1, ReplaceTop DEF Goto, StacksOK
  <2>3. \A u \in Thread \ {t} : stack'[u] = stack[u]
    BY <1>3 DEF Goto, StacksOK
  <2>4. \A i \in 1 .. Len(stack'[t]) : stack'[t][i] \in CS => i = 1
    BY <2>1, <2>2 DEF TopInv
  <2> QED
    BY <2>3, <2>4, TopKeeps
<1>4. ASSUME NEW t \in Thread, NEW l \in Label \ BodyLabel, At(t, l),
             stack' = [stack EXCEPT ![t] = Tail(@)]
      PROVE  TopInv'
  <2>1. stack[t] \in Seq(Label) /\ Len(stack[t]) > 1 /\ stack[t][1] = l
    BY <1>4, UpperTop
  <2>2. /\ Len(stack'[t]) = Len(stack[t]) - 1
        /\ \A i \in 1 .. Len(stack[t]) - 1 : stack'[t][i] = stack[t][i + 1]
    BY <1>4, <2>1, PopTop DEF StacksOK
  <2>3. \A u \in Thread \ {t} : stack'[u] = stack[u]
    BY <1>4 DEF StacksOK
  <2>4. ASSUME NEW i \in 1 .. Len(stack'[t]), stack'[t][i] \in CS PROVE i = 1
    <3>1. i + 1 \in 1 .. Len(stack[t]) /\ stack'[t][i] = stack[t][i + 1] /\ i + 1 # 1
      BY <2>1, <2>2
    <3> QED
      BY <2>4, <3>1 DEF TopInv
  <2> QED
    BY <2>3, <2>4, TopKeeps, SMTT(40)
<1>5. ASSUME NEW t \in Thread, At(t, "handler"), NEW m \in HandlerLabel, LogThen(t, m)
      PROVE  TopInv'
  <2>1. stack[t] \in Seq(Label) /\ Len(stack[t]) > 1 /\ stack[t][1] = "handler"
    BY <1>0, <1>5, UpperTop
  <2>2. /\ Len(stack'[t]) = Len(stack[t]) + 1
        /\ stack'[t][1] = "log_lock" /\ stack'[t][2] = m
        /\ \A i \in 3 .. Len(stack[t]) + 1 : stack'[t][i] = stack[t][i - 1]
    BY <1>0, <1>5, <2>1, ReplaceTopByTwo DEF LogThen, StacksOK
  <2>3. \A u \in Thread \ {t} : stack'[u] = stack[u]
    BY <1>5 DEF LogThen, StacksOK
  <2>4. ASSUME NEW i \in 1 .. Len(stack'[t]), stack'[t][i] \in CS PROVE i = 1
    <3>1. CASE i \in 3 .. Len(stack[t]) + 1
      <4>1. i - 1 \in 1 .. Len(stack[t]) /\ stack'[t][i] = stack[t][i - 1] /\ i - 1 # 1
        BY <2>1, <2>2, <3>1
      <4> QED
        BY <2>4, <4>1 DEF TopInv
    <3>2. CASE i = 2
      BY <1>0, <2>2, <2>4, <3>2
    <3> QED
      BY <2>1, <2>2, <3>1, <3>2
  <2> QED
    BY <2>3, <2>4, TopKeeps
<1>6. ASSUME NEW w \in Worker, CreateMove(w) PROVE TopInv'
  <2> DEFINE l == [Letters |-> "create_Letters", Metrics |-> "create_Metrics"][w]
  <2>1. At("Main", l) /\ l \in BodyLabel /\ Created[w] \in BodyLabel
    BY <1>6 DEF CreateMove, Created, BodyLabel
  <2> HIDE DEF l
  <2>2. stack["Main"] = << l >>
    BY <2>1, BodyTop
  <2>3. CASE LogThen("Main", Created[w])
    <3>1. stack'["Main"] = << "log_lock", Created[w] >>
      BY <2>1, <2>3, BodyLogThen
    <3>2. \A u \in Thread \ {"Main"} : stack'[u] = stack[u]
      BY <2>3 DEF LogThen, StacksOK
    <3>3. \A i \in 1 .. Len(stack'["Main"]) : stack'["Main"][i] \in CS => i = 1
      BY <1>0, <2>1, <3>1
    <3> QED
      BY <3>2, <3>3, TopKeeps
  <2>4. CASE stack' = [stack EXCEPT !["Main"] = << Created[w] >> \o Tail(@), ![w] = << "ids" >>]
    <3>1. /\ stack'["Main"] = << Created[w] >> /\ stack'[w] = << "ids" >>
          /\ \A u \in Thread \ {"Main", w} : stack'[u] = stack[u]
      <4>1. stack \in [Thread -> Seq(Label)] /\ w \in Thread /\ w # "Main" /\ "Main" \in Thread
        BY DEF StacksOK
      <4>2. << Created[w] >> \o Tail(stack["Main"]) = << Created[w] >>
        BY <2>2
      <4>3. stack' = [stack EXCEPT !["Main"] = << Created[w] >>, ![w] = << "ids" >>]
        BY <2>4, <4>2
      <4> QED
        BY <4>1, <4>3
    <3>2. \A i \in 1 .. Len(stack'["Main"]) : stack'["Main"][i] \in CS => i = 1
      BY <3>1
    <3>3. \A i \in 1 .. Len(stack'[w]) : stack'[w][i] \in CS => i = 1
      BY <3>1
    <3> QED
      BY <3>1, <3>2, <3>3, TopKeeps
  <2> QED
    BY <1>6, <2>3, <2>4 DEF CreateMove
<1>7. ASSUME NEW t \in Thread, LogMove(t) PROVE TopInv'
  BY <1>0, <1>3, <1>4, <1>7 DEF LogMove, LogLock, LogUnlock
<1>8. ASSUME NEW t \in Thread, HandlerMove(t) PROVE TopInv'
  BY <1>0, <1>3, <1>4, <1>5, <1>8 DEF HandlerMove
<1>9. CASE UNCHANGED stack
  BY <1>9 DEF TopInv
<1> QED
  BY <1>1, <1>2, <1>6, <1>7, <1>8, <1>9 DEF OwnMove, QuietMove

LEMMA TopDeliver ==
    ASSUME OwnerIInv, TopInv, "logging" \notin Windows,
           NEW t \in Thread, NEW s \in Signal, Deliver(t, s)
    PROVE  TopInv'
<1> USE DEF OwnerIInv
<1>1. stack[t] \in Seq(Label) /\ Len(stack[t]) \in Nat
  BY DEF TypeOK
<1>2. ~ InLog(t)
  BY LoggingWindow DEF Deliver
<1>3. \A i \in 1 .. Len(stack[t]) : stack[t][i] \notin CS
  BY <1>2 DEF InLog, LogLabel, CS
<1>4. "handler" \in Label
  BY DEF Label, HandlerLabel
<1>5. /\ \A u \in Thread \ {t} : stack'[u] = stack[u]
      /\ Len(stack'[t]) = Len(stack[t]) + 1
      /\ \A i \in 2 .. Len(stack[t]) + 1 : stack'[t][i] = stack[t][i - 1]
  BY <1>1, <1>4, PushTop DEF Deliver, TypeOK
<1>6. ASSUME NEW i \in 1 .. Len(stack'[t]), stack'[t][i] \in CS PROVE i = 1
  <2>1. CASE i \in 2 .. Len(stack[t]) + 1
    <3>1. i - 1 \in 1 .. Len(stack[t]) /\ stack'[t][i] = stack[t][i - 1]
      BY <1>1, <1>5, <2>1
    <3> QED
      BY <1>3, <1>6, <3>1
  <2> QED
    BY <1>1, <1>5, <2>1
<1> QED
  BY <1>5, <1>6, TopKeeps

\* If no signal interrupts log_varg() and stdio is no cancellation point,
\* whoever owns the mutex is about to print or to unlock, whatever else fails
\* (logging.c:63-70).
THEOREM HolderRuns ==
    ASSUME "logging" \notin Windows, ~ StdioCancels
    PROVE  Spec => []HolderCanRun
<1>1. Init => TopInv
  <2> SUFFICES ASSUME Init PROVE TopInv
    OBVIOUS
  <2>1. \A t \in Thread : stack[t] = << "ids" >> \/ stack[t] = << >>
    BY DEF Init
  <2>2. "ids" \notin CS
    BY DEF CS
  <2> QED
    BY <2>1, <2>2 DEF TopInv
<1>2. OwnerIInv /\ TopInv /\ [Next]_vars => TopInv'
  BY OwnMoves, TopOwn, TopDeliver DEF OwnerIInv
<1>3. OwnerIInv /\ TopInv => HolderCanRun
  <2> SUFFICES ASSUME OwnerIInv, TopInv, NEW t \in Thread, log_mutex = t
               PROVE  stack[t] # << >> /\ Head(stack[t]) \in {"log_write", "log_unlock"}
    BY DEF HolderCanRun
  <2>1. InCS(t) /\ stack[t] \in Seq(Label)
    BY DEF OwnerIInv, OwnerInv, TypeOK
  <2>2. PICK i \in 1 .. Len(stack[t]) : stack[t][i] \in CS
    BY <2>1 DEF InCS, CS
  <2>3. i = 1
    BY <2>2 DEF TopInv
  <2> QED
    BY <2>1, <2>2, <2>3 DEF CS
<1> QED
  BY <1>1, <1>2, <1>3, Ends, PTL DEF Spec
------------------------------------------------------------------------------
\* Under these conditions nothing invalid is accessed.
Undisturbed == /\ Windows \subseteq {"quiet"}
               /\ Faults \subseteq {"letter_open"}
               /\ ~ StdioCancels
               /\ "crash" \notin StaleCancel

\* The labels above a thread's own code: it logs, or handles a signal.
marks == [t \in Thread |->
             {x \in LogLabel \cup HandlerLabel : \E i \in 1 .. Len(stack[t]) : stack[t][i] = x}]
handles(t) == marks[t] \cap HandlerLabel # {}

LEMMA UpperLabels == LogLabel \cup HandlerLabel = Label \ BodyLabel
  BY DEF Label, LogLabel, HandlerLabel, BodyLabel

LEMMA MarksSame == ASSUME NEW u \in Thread, stack'[u] = stack[u] PROVE marks'[u] = marks[u]
  BY DEF marks

LEMMA MarksShort ==
    ASSUME NEW t \in Thread, NEW m \in BodyLabel
    PROVE  /\ stack[t] = << m >> => marks[t] = {}
           /\ stack'[t] = << >> => marks'[t] = {}
           /\ stack'[t] = << m >> => marks'[t] = {}
           /\ stack'[t] = << "log_lock", m >> => marks'[t] \subseteq {"log_lock"}
<1>1. m \notin LogLabel \cup HandlerLabel
  BY UpperLabels
<1>2. ASSUME stack[t] = << m >> PROVE marks[t] = {}
  <2>1. \A i \in 1 .. Len(stack[t]) : stack[t][i] = m
    BY <1>2
  <2> QED
    BY <1>1, <2>1 DEF marks
<1>3. ASSUME stack'[t] = << >> PROVE marks'[t] = {}
  BY <1>3 DEF marks
<1>4. ASSUME stack'[t] = << m >> PROVE marks'[t] = {}
  <2>1. \A i \in 1 .. Len(stack'[t]) : stack'[t][i] = m
    BY <1>4
  <2> QED
    BY <1>1, <2>1 DEF marks
<1>5. ASSUME stack'[t] = << "log_lock", m >> PROVE marks'[t] \subseteq {"log_lock"}
  <2>1. \A i \in 1 .. Len(stack'[t]) : stack'[t][i] \in {"log_lock", m}
    BY <1>5
  <2> QED
    BY <1>1, <2>1 DEF marks
<1> QED
  BY <1>2, <1>3, <1>4, <1>5

\* What the steps do to them.
LEMMA MarksBody ==
    ASSUME OwnerIInv, NEW t \in Thread, NEW l \in BodyLabel, At(t, l),
           NEW m \in BodyLabel, Goto(t, m) \/ LogThen(t, m)
    PROVE  /\ marks[t] = {} /\ marks'[t] \subseteq {"log_lock"}
           /\ Goto(t, m) => marks'[t] = {}
           /\ \A u \in Thread \ {t} : marks'[u] = marks[u]
<1> USE TypeSplit DEF OwnerIInv
<1>1. stack[t] = << l >>
  BY BodyTop
<1>2. Goto(t, m) => stack'[t] = << m >>
  BY BodyGoto
<1>3. LogThen(t, m) => stack'[t] = << "log_lock", m >>
  BY BodyLogThen
<1>4. \A u \in Thread \ {t} : stack'[u] = stack[u]
  <2>1. StacksOK
    OBVIOUS
  <2> QED
    BY <2>1 DEF Goto, LogThen, StacksOK
<1> QED
  BY <1>1, <1>2, <1>3, <1>4, MarksShort, MarksSame

LEMMA MarksTop ==
    ASSUME OwnerIInv, NEW t \in Thread, NEW l \in LogLabel \cup HandlerLabel, At(t, l)
    PROVE  /\ l \in marks[t]
           /\ stack[t] \in Seq(Label) /\ Len(stack[t]) > 1 /\ stack[t][1] = l
  BY UpperLabels, UpperTop, TypeSplit DEF OwnerIInv, marks

LEMMA MarksGoto ==
    ASSUME OwnerIInv, NEW t \in Thread, NEW l \in LogLabel \cup HandlerLabel, At(t, l),
           NEW m \in LogLabel \cup HandlerLabel, Goto(t, m)
    PROVE  /\ l \in marks[t] /\ marks'[t] \subseteq marks[t] \cup {m}
           /\ \A u \in Thread \ {t} : marks'[u] = marks[u]
<1> USE TypeSplit, UpperLabels DEF OwnerIInv
<1>1. l \in marks[t] /\ stack[t] \in Seq(Label) /\ Len(stack[t]) > 1
  BY MarksTop
<1>2. /\ Len(stack'[t]) = Len(stack[t]) /\ stack'[t][1] = m
      /\ \A i \in 2 .. Len(stack[t]) : stack'[t][i] = stack[t][i]
  BY <1>1, ReplaceTop DEF Goto, StacksOK
<1>3. \A i \in 1 .. Len(stack'[t]) :
         stack'[t][i] = m \/ (i \in 1 .. Len(stack[t]) /\ stack'[t][i] = stack[t][i])
  BY <1>1, <1>2
<1>4. marks'[t] \subseteq marks[t] \cup {m}
  BY <1>3 DEF marks
<1>5. \A u \in Thread \ {t} : stack'[u] = stack[u]
  BY DEF Goto, StacksOK
<1> QED
  BY <1>1, <1>4, <1>5, MarksSame

LEMMA MarksLogThen ==
    ASSUME OwnerIInv, NEW t \in Thread, NEW l \in LogLabel \cup HandlerLabel, At(t, l),
           NEW m \in LogLabel \cup HandlerLabel, LogThen(t, m)
    PROVE  /\ l \in marks[t] /\ marks'[t] \subseteq marks[t] \cup {"log_lock", m}
           /\ \A u \in Thread \ {t} : marks'[u] = marks[u]
<1> USE TypeSplit, UpperLabels DEF OwnerIInv
<1>1. l \in marks[t] /\ stack[t] \in Seq(Label) /\ Len(stack[t]) > 1 /\ "log_lock" \in Label
  BY MarksTop DEF LogLabel
<1>2. /\ Len(stack'[t]) = Len(stack[t]) + 1 /\ stack'[t][1] = "log_lock" /\ stack'[t][2] = m
      /\ \A i \in 3 .. Len(stack[t]) + 1 : stack'[t][i] = stack[t][i - 1]
  BY <1>1, ReplaceTopByTwo DEF LogThen, StacksOK
<1>3. ASSUME NEW i \in 1 .. Len(stack'[t])
      PROVE  \/ stack'[t][i] \in {"log_lock", m}
             \/ i - 1 \in 1 .. Len(stack[t]) /\ stack'[t][i] = stack[t][i - 1]
  <2>1. i = 1 \/ i = 2 \/ (i \in 3 .. Len(stack[t]) + 1 /\ i - 1 \in 1 .. Len(stack[t]))
    BY <1>1, <1>2
  <2> QED
    BY <1>2, <2>1
<1>4. marks'[t] \subseteq marks[t] \cup {"log_lock", m}
  BY <1>3 DEF marks
<1>5. \A u \in Thread \ {t} : stack'[u] = stack[u]
  BY DEF LogThen, StacksOK
<1> QED
  BY <1>1, <1>4, <1>5, MarksSame

LEMMA MarksPop ==
    ASSUME OwnerIInv, NEW t \in Thread, NEW l \in LogLabel \cup HandlerLabel, At(t, l),
           stack' = [stack EXCEPT ![t] = Tail(@)]
    PROVE  /\ l \in marks[t] /\ marks'[t] \subseteq marks[t]
           /\ \A u \in Thread \ {t} : marks'[u] = marks[u]
<1> USE TypeSplit, UpperLabels DEF OwnerIInv
<1>1. l \in marks[t] /\ stack[t] \in Seq(Label) /\ Len(stack[t]) > 1
  BY MarksTop
<1>2. /\ Len(stack'[t]) = Len(stack[t]) - 1
      /\ \A i \in 1 .. Len(stack[t]) - 1 : stack'[t][i] = stack[t][i + 1]
  BY <1>1, PopTop DEF StacksOK
<1>3. \A i \in 1 .. Len(stack'[t]) :
         i + 1 \in 1 .. Len(stack[t]) /\ stack'[t][i] = stack[t][i + 1]
  BY <1>1, <1>2
<1>4. marks'[t] \subseteq marks[t]
  BY <1>3 DEF marks
<1>5. \A u \in Thread \ {t} : stack'[u] = stack[u]
  BY DEF StacksOK
<1> QED
  BY <1>1, <1>4, <1>5, MarksSame

LEMMA MarksPush ==
    ASSUME OwnerIInv, NEW t \in Thread, stack' = [stack EXCEPT ![t] = << "handler" >> \o @]
    PROVE  /\ marks'[t] \subseteq marks[t] \cup {"handler"}
           /\ \A u \in Thread \ {t} : marks'[u] = marks[u]
<1> USE TypeSplit DEF OwnerIInv
<1>1. stack[t] \in Seq(Label) /\ Len(stack[t]) \in Nat /\ "handler" \in Label
  BY DEF StacksOK, Label, HandlerLabel
<1>2. /\ Len(stack'[t]) = Len(stack[t]) + 1 /\ stack'[t][1] = "handler"
      /\ \A i \in 2 .. Len(stack[t]) + 1 : stack'[t][i] = stack[t][i - 1]
  BY <1>1, PushTop DEF StacksOK
<1>3. ASSUME NEW i \in 1 .. Len(stack'[t])
      PROVE  \/ stack'[t][i] = "handler"
             \/ i - 1 \in 1 .. Len(stack[t]) /\ stack'[t][i] = stack[t][i - 1]
  <2>1. i = 1 \/ (i \in 2 .. Len(stack[t]) + 1 /\ i - 1 \in 1 .. Len(stack[t]))
    BY <1>1, <1>2
  <2> QED
    BY <1>2, <2>1
<1>4. marks'[t] \subseteq marks[t] \cup {"handler"}
  BY <1>3 DEF marks
<1>5. \A u \in Thread \ {t} : stack'[u] = stack[u]
  BY DEF StacksOK
<1> QED
  BY <1>4, <1>5, MarksSame
\* Where a thread has no stream: before thread_init() has opened it, and after
\* thread_cleanup().
Streamless == {"ids", "tls", "open_log", "none", "exit"}

\* A thread that logs or handles a signal has its stream, and one that handles
\* a signal its thread_info: what the steps of thread_init() and of
\* thread_cleanup() leave it with.
ThreadSafe(t) ==
    /\ marks[t] # {} \/ place[t] \notin Streamless => p_logfile[t] = "open"
    /\ handles(t) => tls[t]
    /\ place[t] \in {"tls", "open_log"} \/ p_logfile[t] # "null" => tid[t]
    /\ place[t] = "open_log" => tls[t]
    /\ life[t] = "alive" /\ p_logfile[t] = "open" => tls[t]
    /\ life[t] \in {"exiting", "dead", "joined"} => p_logfile[t] # "null"
    /\ life[t] # "failed"
    /\ life[t] = "absent" => place[t] = "none" /\ p_logfile[t] = "null"
    /\ place[t] = "delete" => t = "Metrics"

SafeInv ==
    /\ status # "crashed"
    /\ \A t \in Thread : ThreadSafe(t)
    /\ handles("Main") => \A w \in Worker : p_logfile[w] # "null"
    /\ place["Metrics"] = "timer_set" => timer = "created"

\* Only thread t changes.
Others(t) == \A u \in Thread \ {t} : /\ marks'[u] = marks[u] /\ place'[u] = place[u]
                                     /\ tid'[u] = tid[u] /\ tls'[u] = tls[u]
                                     /\ p_logfile'[u] = p_logfile[u] /\ life'[u] = life[u]

LEMMA OthersSafe ==
    ASSUME NEW t \in Thread, Others(t), NEW u \in Thread \ {t}, ThreadSafe(u) PROVE ThreadSafe(u)'
<1>1. /\ marks'[u] = marks[u] /\ place'[u] = place[u]
      /\ tid'[u] = tid[u] /\ tls'[u] = tls[u]
      /\ p_logfile'[u] = p_logfile[u] /\ life'[u] = life[u]
  BY DEF Others
<1> QED
  BY <1>1 DEF ThreadSafe, handles

LEMMA OneSafe ==
    ASSUME SafeInv, NEW t \in Thread, Others(t), ThreadSafe(t)', status' # "crashed",
           p_logfile'[t] = "null" => p_logfile[t] = "null",
           handles("Main")' => handles("Main") \/ \A w \in Worker : p_logfile[w] # "null",
           place'["Metrics"] = "timer_set" => timer' = "created"
    PROVE  SafeInv'
<1>1. \A u \in Thread : ThreadSafe(u)'
  BY OthersSafe DEF SafeInv
<1>2. \A w \in Worker : p_logfile'[w] = "null" => p_logfile[w] = "null"
  BY Threads DEF Others
<1> QED
  BY <1>1, <1>2 DEF SafeInv

\* The thread stays where it is in its own code: it logs, or handles a signal.
LEMMA StaySafe ==
    ASSUME SafeInv, NEW t \in Thread, place' = place, status' # "crashed",
           UNCHANGED << life, tid, tls, p_logfile, timer >>,
           \A u \in Thread \ {t} : marks'[u] = marks[u],
           marks'[t] # {} => p_logfile[t] = "open",
           handles(t)' => \/ handles(t)
                          \/ tls[t] /\ (t = "Main" => \A w \in Worker : p_logfile[w] # "null")
    PROVE  SafeInv'
<1>1. Others(t)
  BY DEF Others
<1>2. ThreadSafe(t)
  BY DEF SafeInv
<1>3. ThreadSafe(t)'
  BY <1>2 DEF ThreadSafe
<1>4. handles("Main")' => handles("Main") \/ \A w \in Worker : p_logfile[w] # "null"
  BY Threads DEF handles
<1> QED
  BY <1>1, <1>3, <1>4, OneSafe DEF SafeInv

\* The thread moves on in its own code.
LEMMA GoSafe ==
    ASSUME OwnerIInv, SafeInv, NEW t \in Thread, NEW l \in BodyLabel, At(t, l),
           NEW m \in BodyLabel, Goto(t, m) \/ LogThen(t, m), status' # "crashed",
           \A u \in Thread \ {t} : /\ tid'[u] = tid[u] /\ tls'[u] = tls[u]
                                   /\ p_logfile'[u] = p_logfile[u] /\ life'[u] = life[u],
           p_logfile'[t] = "null" => p_logfile[t] = "null",
           Goto(t, m) \/ p_logfile'[t] = "open",
           m \notin Streamless => p_logfile'[t] = "open",
           m \in {"tls", "open_log"} \/ p_logfile'[t] # "null" => tid'[t],
           m = "open_log" => tls'[t],
           life'[t] = "alive" /\ p_logfile'[t] = "open" => tls'[t],
           life'[t] \in {"exiting", "dead", "joined"} => p_logfile'[t] # "null",
           life'[t] \notin {"failed", "absent"},
           m = "delete" => t = "Metrics",
           t # "Metrics" => timer' = timer,
           t = "Metrics" /\ m = "timer_set" => timer' = "created"
    PROVE  SafeInv'
<1>1. place[t] = l /\ place' = [place EXCEPT ![t] = m]
  BY BodyStep
<1>2. place'[t] = m /\ \A u \in Thread \ {t} : place'[u] = place[u]
  BY <1>1 DEF place
<1>3. /\ marks[t] = {} /\ marks'[t] \subseteq {"log_lock"}
      /\ Goto(t, m) => marks'[t] = {}
      /\ \A u \in Thread \ {t} : marks'[u] = marks[u]
  BY MarksBody
<1>4. Others(t)
  BY <1>2, <1>3 DEF Others
<1>5. ~ handles(t)'
  BY <1>3 DEF handles, HandlerLabel
<1>6. ThreadSafe(t)'
  BY <1>2, <1>3, <1>5 DEF ThreadSafe
<1>7. handles("Main")' => handles("Main")
  <2>1. CASE t # "Main"
    <3>1. marks'["Main"] = marks["Main"]
      BY <1>3, <2>1, Threads
    <3> QED
      BY <3>1 DEF handles
  <2> QED
    BY <1>5, <2>1
<1>8. place'["Metrics"] = "timer_set" => timer' = "created"
  BY <1>2, Threads DEF SafeInv
<1> QED
  BY <1>4, <1>6, <1>7, <1>8, OneSafe

\* It does so with its stream open, and leaves it open.
LEMMA WorkSafe ==
    ASSUME OwnerIInv, SafeInv, NEW t \in Thread, NEW l \in BodyLabel \ Streamless, At(t, l),
           NEW m \in BodyLabel \ Streamless, Goto(t, m) \/ LogThen(t, m), status' # "crashed",
           UNCHANGED << life, tid, tls, p_logfile >>,
           m = "delete" => t = "Metrics",
           t # "Metrics" => timer' = timer,
           t = "Metrics" /\ m = "timer_set" => timer' = "created"
    PROVE  SafeInv'
<1>1. place[t] = l
  BY BodyStep
<1>2. ThreadSafe(t)
  BY DEF SafeInv
<1>3. p_logfile[t] = "open"
  BY <1>1, <1>2 DEF ThreadSafe
<1>4. /\ tid[t] /\ (life[t] = "alive" => tls[t]) /\ life[t] # "failed"
      /\ life[t] # "absent" /\ m \notin {"tls", "open_log"}
  BY <1>2, <1>3 DEF ThreadSafe, Streamless
<1> QED
  BY <1>3, <1>4, GoSafe

\* A thread unwinds, with its stream open.
LEMMA UnwindSafe ==
    ASSUME OwnerIInv, SafeInv, NEW t \in Thread, stack[t] # << >>, ExitThread(t),
           marks[t] # {} \/ place[t] \notin Streamless
    PROVE  SafeInv'
<1> USE DEF OwnerIInv
<1>1. place' = [place EXCEPT ![t] = "cleanup"]
  BY ExitStep DEF ExitThread
<1>2. place'[t] = "cleanup" /\ \A u \in Thread \ {t} : place'[u] = place[u]
  BY <1>1 DEF place
<1>3. stack'[t] = << "cleanup" >> /\ \A u \in Thread \ {t} : stack'[u] = stack[u]
  BY DEF ExitThread, TypeOK
<1>4. marks'[t] = {} /\ \A u \in Thread \ {t} : marks'[u] = marks[u]
  <2>1. "cleanup" \in BodyLabel
    BY DEF BodyLabel
  <2> QED
    BY <1>3, <2>1, MarksShort, MarksSame
<1>5. /\ life'[t] = "exiting" /\ tls'[t] = FALSE
      /\ UNCHANGED << status, tid, p_logfile, timer >>
      /\ \A u \in Thread \ {t} : life'[u] = life[u] /\ tls'[u] = tls[u]
  BY EndTypes DEF ExitThread, tickVars
<1>6. ThreadSafe(t)
  BY DEF SafeInv
<1>7. p_logfile[t] = "open" /\ tid[t]
  BY <1>6 DEF ThreadSafe
<1>8. Others(t)
  BY <1>2, <1>4, <1>5 DEF Others
<1>9. ~ handles(t)'
  BY <1>4 DEF handles
<1>10. ThreadSafe(t)'
  BY <1>2, <1>4, <1>5, <1>7, <1>9 DEF ThreadSafe, Streamless
<1>11. handles("Main")' => handles("Main")
  <2>1. CASE t # "Main"
    <3>1. marks'["Main"] = marks["Main"]
      BY <1>4, <2>1, Threads
    <3> QED
      BY <3>1 DEF handles
  <2> QED
    BY <1>9, <2>1
<1>12. place'["Metrics"] = "timer_set" => timer' = "created"
  BY <1>2, <1>5, Threads DEF SafeInv
<1> QED
  BY <1>5, <1>7, <1>8, <1>10, <1>11, <1>12, OneSafe DEF SafeInv
------------------------------------------------------------------------------
\* Every step preserves it.

LEMMA LogSafe ==
    ASSUME OwnerIInv, SafeInv, NEW t \in Thread, LogLock(t) \/ LogWrite(t) \/ LogUnlock(t)
    PROVE  SafeInv'
<1> USE DEF lifeVars, tickVars
<1>0. LogLabel \subseteq Label \ BodyLabel /\ LogLabel \cap HandlerLabel = {}
      /\ {"log_lock", "log_write", "log_unlock"} \subseteq LogLabel
  BY DEF Label, LogLabel, HandlerLabel, BodyLabel
<1>1. PICK l \in LogLabel : At(t, l)
  BY <1>0 DEF LogLock, LogWrite, LogUnlock
<1>2. l \in marks[t]
  BY <1>1, MarksTop
<1>3. p_logfile[t] = "open"
  BY <1>2 DEF SafeInv, ThreadSafe
<1>4. UNCHANGED << status, life, tid, tls, p_logfile, timer >>
  BY <1>3 DEF LogLock, LogWrite, LogUnlock
<1>5. /\ place' = place /\ marks'[t] \subseteq marks[t] \cup LogLabel
      /\ \A u \in Thread \ {t} : marks'[u] = marks[u]
  <2>1. CASE \E k, m \in LogLabel : At(t, k) /\ Goto(t, m)
    BY <1>0, <2>1, UpperGotoStep, MarksGoto
  <2>2. CASE At(t, "log_unlock") /\ stack' = [stack EXCEPT ![t] = Tail(@)]
    BY <1>0, <2>2, UpperPopStep, MarksPop
  <2> QED
    BY <1>0, <1>3, <2>1, <2>2 DEF LogLock, LogWrite, LogUnlock
<1>6. handles(t)' => handles(t)
  BY <1>0, <1>5 DEF handles
<1>7. status' # "crashed"
  BY <1>4 DEF SafeInv
<1> QED
  BY <1>3, <1>4, <1>5, <1>6, <1>7, StaySafe

LEMMA InitSafe ==
    ASSUME OwnerIInv, SafeInv, "log_open" \notin Faults, NEW t \in Thread,
           StoreIds(t) \/ SetSpecific(t) \/ OpenLog(t) \/ LogIds(t)
    PROVE  SafeInv'
<1> USE EndTypes DEF OwnerIInv, lifeVars, tickVars
<1>0. /\ {"ids", "tls", "open_log", "log_ids", "signal", "open_file", "timer_create"} \subseteq BodyLabel
      /\ Streamless \cap {"log_ids", "signal", "open_file", "timer_create"} = {}
      /\ {"ids", "tls", "open_log"} \subseteq Streamless
  BY DEF BodyLabel, Streamless
<1>1. ThreadSafe(t) /\ status # "crashed"
  BY DEF SafeInv
<1>2. CASE StoreIds(t)
  <2>1. /\ At(t, "ids") /\ Goto(t, "tls")
        /\ tid'[t] = TRUE /\ \A u \in Thread \ {t} : tid'[u] = tid[u]
        /\ UNCHANGED << status, life, tls, p_logfile, timer >>
    BY <1>2 DEF StoreIds
  <2>2. place[t] = "ids"
    BY <1>0, <2>1, BodyStep
  <2> QED
    BY <1>0, <1>1, <2>1, <2>2, GoSafe DEF ThreadSafe
<1>3. CASE SetSpecific(t)
  <2>1. /\ At(t, "tls") /\ Goto(t, "open_log")
        /\ tls'[t] = TRUE /\ \A u \in Thread \ {t} : tls'[u] = tls[u]
        /\ UNCHANGED << status, life, tid, p_logfile, timer >>
    BY <1>3 DEF SetSpecific
  <2>2. place[t] = "tls"
    BY <1>0, <2>1, BodyStep
  <2> QED
    BY <1>0, <1>1, <2>1, <2>2, GoSafe DEF ThreadSafe
<1>4. CASE OpenLog(t)
  <2>1. /\ At(t, "open_log") /\ LogThen(t, "log_ids")
        /\ p_logfile'[t] = "open" /\ \A u \in Thread \ {t} : p_logfile'[u] = p_logfile[u]
        /\ UNCHANGED << status, life, tid, tls, timer >>
    BY <1>4 DEF OpenLog
  <2>2. place[t] = "open_log"
    BY <1>0, <2>1, BodyStep
  <2> QED
    BY <1>0, <1>1, <2>1, <2>2, GoSafe DEF ThreadSafe
<1>5. CASE LogIds(t)
  <2>1. AfterInit[t] \in {"signal", "open_file", "timer_create"}
    BY Threads DEF AfterInit
  <2>2. /\ At(t, "log_ids") /\ LogThen(t, AfterInit[t])
        /\ UNCHANGED << status, life, tid, tls, p_logfile, timer >>
    BY <1>5 DEF LogIds
  <2> QED
    BY <1>0, <1>1, <2>1, <2>2, WorkSafe
<1> QED
  BY <1>2, <1>3, <1>4, <1>5

LEMMA CleanupSafe ==
    ASSUME OwnerIInv, EndInv, SafeInv, NEW t \in Thread, Cleanup(t) \/ DeleteTimer(t) \/ CloseLog(t)
    PROVE  SafeInv'
<1> USE EndTypes DEF OwnerIInv, lifeVars, tickVars
<1>0. /\ {"cleanup", "delete", "close", "exit"} \subseteq BodyLabel
      /\ Streamless \cap {"cleanup", "delete", "close"} = {}
      /\ "exit" \in Streamless /\ "none" \in Streamless
  BY DEF BodyLabel, Streamless
<1>1. PICK l \in {"cleanup", "delete", "close"} : At(t, l)
  BY DEF Cleanup, DeleteTimer, CloseLog
<1>2. place[t] = l
  BY <1>0, <1>1, BodyTop, TypeSplit DEF place
<1>3. ThreadSafe(t) /\ status # "crashed"
  BY DEF SafeInv
<1>4. p_logfile[t] = "open" /\ tid[t] /\ life[t] # "failed" /\ life[t] # "absent"
  BY <1>0, <1>2, <1>3 DEF ThreadSafe
<1>5. CASE Cleanup(t)
  <2> DEFINE m == IF HasTimer(t) THEN "delete" ELSE "close"
  <2>1. /\ At(t, "cleanup") /\ LogThen(t, m) /\ m \in {"delete", "close"}
        /\ m = "delete" => t = "Metrics"
        /\ UNCHANGED << status, life, tid, tls, p_logfile, timer >>
    BY <1>4, <1>5 DEF Cleanup, HasTimer
  <2> HIDE DEF m
  <2> QED
    BY <1>0, <1>3, <2>1, WorkSafe
<1>6. CASE DeleteTimer(t)
  <2>1. /\ At(t, "delete") /\ LogThen(t, "close")
        /\ UNCHANGED << status, life, tid, tls, p_logfile >>
    BY <1>6 DEF DeleteTimer
  <2>2. place[t] = "delete"
    BY <1>0, <2>1, BodyTop, TypeSplit DEF place
  <2>3. t = "Metrics"
    BY <1>3, <2>2 DEF ThreadSafe
  <2> QED
    BY <1>0, <1>3, <2>1, <2>3, WorkSafe
<1>7. CASE CloseLog(t)
  <2>1. /\ At(t, "close")
        /\ p_logfile'[t] = "closed" /\ \A u \in Thread \ {t} : p_logfile'[u] = p_logfile[u]
        /\ UNCHANGED << status, tid, tls, timer >>
    BY <1>7 DEF CloseLog
  <2>2. CASE t = "Main"
    <3>1. Goto(t, "exit") /\ UNCHANGED life
      BY <1>7, <2>2 DEF CloseLog
    <3> QED
      BY <1>0, <1>3, <1>4, <2>1, <2>2, <3>1, GoSafe
  <2>3. CASE t # "Main"
    <3>1. /\ t \in Worker /\ stack' = [stack EXCEPT ![t] = << >>]
          /\ life'[t] = "dead" /\ \A u \in Thread \ {t} : life'[u] = life[u]
      BY <1>7, <2>3, Threads DEF CloseLog
    <3>2. place' = [place EXCEPT ![t] = "none"]
      BY <2>1, <3>1, GoneStep
    <3>3. place'[t] = "none" /\ \A u \in Thread \ {t} : place'[u] = place[u]
      BY <3>2
    <3>4. stack'[t] = << >> /\ \A u \in Thread \ {t} : stack'[u] = stack[u]
      BY <3>1 DEF TypeOK
    <3>5. marks'[t] = {} /\ \A u \in Thread \ {t} : marks'[u] = marks[u]
      BY <1>0, <3>4, MarksShort, MarksSame
    <3>6. Others(t) /\ ~ handles(t)'
      BY <2>1, <3>1, <3>3, <3>5 DEF Others, handles
    <3>7. ThreadSafe(t)'
      BY <1>0, <1>4, <2>1, <3>1, <3>3, <3>5, <3>6 DEF ThreadSafe
    <3>8. handles("Main")' => handles("Main")
      <4>1. marks'["Main"] = marks["Main"]
        BY <2>3, <3>5, Threads
      <4> QED
        BY <4>1 DEF handles
    <3>9. place'["Metrics"] = "timer_set" => timer' = "created"
      BY <2>1, <3>3, Threads DEF SafeInv
    <3> QED
      BY <1>3, <2>1, <3>6, <3>7, <3>8, <3>9, OneSafe
  <2> QED
    BY <2>2, <2>3
<1> QED
  BY <1>5, <1>6, <1>7

LEMMA HandlerSafe ==
    ASSUME OwnerIInv, SafeInv, ~ StdioCancels, NEW t \in Thread,
           Handler(t) \/ HandlerExit(t) \/ ActOnCancel(t)
    PROVE  SafeInv'
<1> USE EndTypes DEF OwnerIInv, lifeVars, tickVars
<1>0. HandlerLabel \subseteq Label \ BodyLabel /\ {"handler", "pthread_exit", "cancel_Letters"} \subseteq HandlerLabel
  BY DEF Label, HandlerLabel, BodyLabel
<1>1. ThreadSafe(t) /\ status # "crashed"
  BY DEF SafeInv
<1>2. CASE Handler(t)
  <2>1. At(t, "handler") /\ "handler" \in marks[t]
    BY <1>0, <1>2, MarksTop DEF Handler
  <2>2. handles(t)
    BY <1>0, <2>1 DEF handles
  <2>3. tls[t] /\ p_logfile[t] = "open"
    BY <1>1, <2>1, <2>2 DEF ThreadSafe
  <2>4. PICK m \in HandlerLabel : LogThen(t, m)
    BY <1>0, <1>2, <2>3 DEF Handler
  <2>5. UNCHANGED << status, life, tid, tls, p_logfile, timer >>
    BY <1>2, <2>3 DEF Handler
  <2>6. place' = place
    BY <1>0, <2>1, <2>4, UpperLogThenStep
  <2>7. \A u \in Thread \ {t} : marks'[u] = marks[u]
    BY <1>0, <2>1, <2>4, MarksLogThen
  <2> QED
    BY <1>1, <2>2, <2>3, <2>5, <2>6, <2>7, StaySafe
<1>3. CASE HandlerExit(t)
  <2>1. At(t, "pthread_exit") /\ ExitThread(t) /\ stack[t] # << >>
    BY <1>3 DEF HandlerExit, At
  <2>2. "pthread_exit" \in marks[t]
    BY <1>0, <2>1, MarksTop
  <2> QED
    BY <2>1, <2>2, UnwindSafe
<1>4. CASE ActOnCancel(t)
  <2>1. PICK l \in {"sem_wait", "sem_blocked"} : At(t, l)
    BY <1>4 DEF ActOnCancel, CancelPoint
  <2>2. l \in BodyLabel \ Streamless
    BY DEF BodyLabel, Streamless
  <2>3. place[t] = l
    <3>1. stack[t] = << l >>
      BY <2>1, <2>2, BodyTop, TypeSplit
    <3>2. << l >> # << >> /\ << l >>[Len(<< l >>)] = l
      OBVIOUS
    <3> QED
      BY <3>1, <3>2, Zenon DEF place
  <2>4. ExitThread(t) /\ stack[t] # << >>
    BY <1>4, <2>1 DEF ActOnCancel, At
  <2> QED
    BY <2>2, <2>3, <2>4, UnwindSafe
<1> QED
  BY <1>2, <1>3, <1>4

LEMMA CreateSafe ==
    ASSUME OwnerIInv, SafeInv, "create" \notin Faults, NEW w \in Worker, Create(w)
    PROVE  SafeInv'
<1> USE Threads, EndTypes DEF OwnerIInv, lifeVars, tickVars
<1> DEFINE l == [Letters |-> "create_Letters", Metrics |-> "create_Metrics"][w]
<1>1. /\ At("Main", l) /\ l \in BodyLabel \ Streamless /\ l \in BeforeCreate[w]
      /\ Created[w] \in BodyLabel \ (Streamless \cup {"delete"})
  BY DEF Create, Created, BodyLabel, BeforeCreate, Streamless
<1> HIDE DEF l
<1>2. /\ stack' = [stack EXCEPT !["Main"] = << Created[w] >> \o Tail(@), ![w] = << "ids" >>]
      /\ life' = [life EXCEPT ![w] = "alive"]
      /\ UNCHANGED << status, tid, tls, p_logfile, timer >>
  BY DEF Create
<1>3. stack["Main"] = << l >> /\ Bottom("Main") = l
  BY <1>1, BodyTop, TypeSplit
<1>4. life[w] = "absent"
  BY <1>1, <1>3 DEF NotStarted
<1>5. p_logfile[w] = "null"
  BY <1>4 DEF SafeInv, ThreadSafe
<1>6. /\ place["Main"] = l /\ place'["Main"] = Created[w] /\ place'[w] = "ids"
      /\ \A u \in Thread \ {"Main", w} : place'[u] = place[u]
  BY <1>1, <1>2, CreateStep
<1>7. /\ stack'["Main"] = << Created[w] >> /\ stack'[w] = << "ids" >>
      /\ \A u \in Thread \ {"Main", w} : stack'[u] = stack[u]
  <2>1. stack \in [Thread -> Seq(Label)] /\ w \in Thread /\ w # "Main" /\ "Main" \in Thread
    BY DEF TypeOK
  <2>2. << Created[w] >> \o Tail(stack["Main"]) = << Created[w] >>
    BY <1>3
  <2>3. stack' = [stack EXCEPT !["Main"] = << Created[w] >>, ![w] = << "ids" >>]
    BY <1>2, <2>2
  <2> QED
    BY <2>1, <2>3
<1>8. /\ marks'["Main"] = {} /\ marks'[w] = {}
      /\ \A u \in Thread \ {"Main", w} : marks'[u] = marks[u]
  <2>1. "ids" \in BodyLabel
    BY DEF BodyLabel
  <2> QED
    BY <1>1, <1>7, <2>1, MarksShort, MarksSame
<1>9. ~ handles("Main")' /\ ~ handles(w)'
  BY <1>8 DEF handles
<1>10. ThreadSafe("Main")'
  <2>1. ThreadSafe("Main")
    BY DEF SafeInv
  <2>2. p_logfile["Main"] = "open" /\ tid["Main"]
    BY <1>1, <1>6, <2>1 DEF ThreadSafe
  <2>3. life'["Main"] = life["Main"] /\ Created[w] \notin {"tls", "open_log", "delete"}
    BY <1>1, <1>2 DEF Streamless
  <2> QED
    BY <1>2, <1>6, <1>8, <1>9, <2>1, <2>2, <2>3 DEF ThreadSafe
<1>11. ThreadSafe(w)'
  BY <1>2, <1>5, <1>6, <1>8, <1>9 DEF ThreadSafe, Streamless
<1>12. ASSUME NEW u \in Thread \ {"Main", w} PROVE ThreadSafe(u)'
  <2>1. /\ marks'[u] = marks[u] /\ place'[u] = place[u] /\ life'[u] = life[u]
        /\ tid'[u] = tid[u] /\ tls'[u] = tls[u] /\ p_logfile'[u] = p_logfile[u]
    BY <1>2, <1>6, <1>8
  <2>2. ThreadSafe(u)
    BY DEF SafeInv
  <2> QED
    BY <2>1, <2>2 DEF ThreadSafe, handles
<1>13. place'["Metrics"] = "timer_set" => timer' = "created"
  BY <1>2, <1>6 DEF SafeInv
<1> QED
  BY <1>2, <1>9, <1>10, <1>11, <1>12, <1>13 DEF SafeInv

LEMMA JoinSafe == ASSUME OwnerIInv, EndInv, SafeInv, NEW w \in Worker, Join(w) PROVE SafeInv'
<1> USE Threads, EndTypes DEF OwnerIInv, lifeVars, tickVars
<1> DEFINE l == [Letters |-> "join_Letters", Metrics |-> "join_Metrics"][w]
<1>1. At("Main", l) /\ l \in BodyLabel \ Streamless /\ Joined[w] \in BodyLabel \ (Streamless \cup {"delete"})
  BY DEF Join, Joined, BodyLabel, Streamless
<1> HIDE DEF l
<1>2. /\ Goto("Main", Joined[w]) /\ life[w] = "dead"
      /\ life'[w] = "joined" /\ \A u \in Thread \ {w} : life'[u] = life[u]
      /\ UNCHANGED << status, tid, tls, p_logfile, timer >>
  <2>1. life[w] # "failed"
    BY DEF SafeInv, ThreadSafe
  <2> QED
    BY <2>1 DEF Join
<1>3. place["Main"] = l /\ place' = [place EXCEPT !["Main"] = Joined[w]]
  BY <1>1, <1>2, BodyStep
<1>4. place'["Main"] = Joined[w] /\ \A u \in Worker : place'[u] = place[u]
  BY <1>3
<1>5. marks'["Main"] = {} /\ \A u \in Worker : marks'[u] = marks[u]
  BY <1>1, <1>2, MarksBody
<1>6. ~ handles("Main")'
  BY <1>5 DEF handles
<1>7. ThreadSafe("Main")'
  <2>1. ThreadSafe("Main")
    BY DEF SafeInv
  <2>2. p_logfile["Main"] = "open" /\ tid["Main"]
    BY <1>1, <1>3, <2>1 DEF ThreadSafe
  <2>3. life'["Main"] = life["Main"] /\ Joined[w] \notin {"tls", "open_log", "delete"}
    BY <1>1, <1>2 DEF Streamless
  <2> QED
    BY <1>2, <1>4, <1>5, <1>6, <2>1, <2>2, <2>3 DEF ThreadSafe
<1>8. ASSUME NEW u \in Worker PROVE ThreadSafe(u)'
  <2>1. ThreadSafe(u)
    BY DEF SafeInv
  <2>2. life'[u] = life[u] \/ (life[u] = "dead" /\ life'[u] = "joined")
    BY <1>2
  <2>3. (handles(u)' <=> handles(u)) /\ p_logfile'[u] = p_logfile[u]
        /\ tid'[u] = tid[u] /\ tls'[u] = tls[u]
    BY <1>2, <1>5 DEF handles
  <2> QED
    BY <1>4, <1>5, <2>1, <2>2, <2>3 DEF ThreadSafe
<1>9. place'["Metrics"] = "timer_set" => timer' = "created"
  BY <1>2, <1>4 DEF SafeInv
<1> QED
  BY <1>2, <1>6, <1>7, <1>8, <1>9 DEF SafeInv

LEMMA CancelSafe ==
    ASSUME OwnerIInv, SafeInv, "crash" \notin StaleCancel, NEW w \in Worker, CancelWorker(w)
    PROVE  SafeInv'
<1> USE Threads, EndTypes DEF OwnerIInv, lifeVars, tickVars
<1>0. /\ HandlerLabel \subseteq Label \ BodyLabel
      /\ {"cancel_Letters", "cancel_Metrics"} \subseteq HandlerLabel
  BY DEF Label, HandlerLabel, BodyLabel
<1>1. PICK l \in {"cancel_Letters", "cancel_Metrics"} : At("Main", l)
  BY DEF CancelWorker
<1>2. l \in marks["Main"]
  BY <1>0, <1>1, MarksTop
<1>3. handles("Main") /\ p_logfile["Main"] = "open"
  BY <1>0, <1>2 DEF handles, SafeInv, ThreadSafe
<1>4. tid[w]
  BY <1>3 DEF SafeInv, ThreadSafe
<1>5. UNCHANGED << status, life, tid, tls, p_logfile, timer >>
  BY <1>4 DEF CancelWorker
<1>6. /\ place' = place
      /\ \A u \in Thread \ {"Main"} : marks'[u] = marks[u]
  <2>1. CASE w = "Letters"
    <3>1. At("Main", "cancel_Letters") /\ Goto("Main", "cancel_Metrics")
      BY <1>4, <2>1 DEF CancelWorker
    <3> QED
      BY <1>0, <3>1, UpperGotoStep, MarksGoto
  <2>2. CASE w # "Letters"
    <3>1. At("Main", "cancel_Metrics") /\ stack' = [stack EXCEPT !["Main"] = Tail(@)]
      BY <1>4, <2>2 DEF CancelWorker
    <3> QED
      BY <1>0, <3>1, UpperPopStep, MarksPop
  <2> QED
    BY <2>1, <2>2
<1>7. status' # "crashed"
  BY <1>5 DEF SafeInv
<1> QED
  BY <1>3, <1>5, <1>6, <1>7, StaySafe

LEMMA MainWorkSafe == ASSUME OwnerIInv, SafeInv, InstallHandlers \/ LogJoined \/ Exit PROVE SafeInv'
<1> USE Threads DEF lifeVars, tickVars
<1>1. CASE InstallHandlers \/ LogJoined
  <2>1. \E l \in BodyLabel \ Streamless : \E m \in BodyLabel \ (Streamless \cup {"delete"}) :
           At("Main", l) /\ (Goto("Main", m) \/ LogThen("Main", m))
    BY <1>1 DEF InstallHandlers, LogJoined, BodyLabel, Streamless
  <2>2. UNCHANGED << status, life, tid, tls, p_logfile, timer >> /\ status # "crashed"
    BY <1>1 DEF InstallHandlers, LogJoined, SafeInv
  <2> QED
    BY <2>1, <2>2, WorkSafe
<1>2. CASE Exit
  <2>1. UNCHANGED << stack, life, tid, tls, p_logfile, timer >> /\ status' # "crashed"
    BY <1>2 DEF Exit
  <2>2. place' = place /\ marks' = marks
    BY <2>1, SameStep DEF marks
  <2>3. (handles("Main")' => handles("Main")) /\ ThreadSafe("Main")
    BY <2>2 DEF handles, SafeInv
  <2>4. marks'["Main"] # {} => p_logfile["Main"] = "open"
    BY <2>2, <2>3 DEF ThreadSafe
  <2> QED
    BY <2>1, <2>2, <2>3, <2>4, StaySafe
<1> QED
  BY <1>1, <1>2

LEMMA LettersSafe == ASSUME OwnerIInv, SafeInv, LettersStep PROVE SafeInv'
<1> USE Threads DEF lifeVars, tickVars
<1>1. CASE LettersReturn
  <2>1. At("Letters", "return") /\ "return" \in BodyLabel \ Streamless /\ ExitThread("Letters")
    BY <1>1 DEF LettersReturn, BodyLabel, Streamless
  <2>2. stack["Letters"] = << "return" >>
    BY <2>1, BodyTop, TypeSplit DEF OwnerIInv
  <2>3. stack["Letters"] # << >> /\ place["Letters"] = "return"
    BY <2>2 DEF place
  <2> QED
    BY <2>1, <2>3, UnwindSafe
<1>2. CASE ~ LettersReturn
  <2>1. \E l \in BodyLabel \ Streamless : \E m \in BodyLabel \ (Streamless \cup {"delete"}) :
           At("Letters", l) /\ (Goto("Letters", m) \/ LogThen("Letters", m))
    BY <1>2 DEF LettersStep, OpenFile, CountLetters, ReportLetter, BodyLabel, Streamless
  <2>2. UNCHANGED << status, life, tid, tls, p_logfile, timer >> /\ status # "crashed"
    BY <1>2 DEF LettersStep, OpenFile, CountLetters, ReportLetter, SafeInv
  <2> QED
    BY <2>1, <2>2, WorkSafe
<1> QED
  BY <1>1, <1>2

LEMMA MetricsSafe == ASSUME OwnerIInv, SafeInv, "timer" \notin Faults, MetricsStep PROVE SafeInv'
<1> USE Threads DEF lifeVars, tickVars
<1>1. SetTimer => timer = "created"
  <2>1. SUFFICES ASSUME SetTimer PROVE place["Metrics"] = "timer_set"
    BY DEF SafeInv
  <2>2. stack["Metrics"] = << "timer_set" >>
    BY <2>1, BodyTop, TypeSplit DEF OwnerIInv, SetTimer, BodyLabel
  <2> QED
    BY <2>2 DEF place
<1>2. \E l \in BodyLabel \ Streamless : \E m \in BodyLabel \ (Streamless \cup {"delete"}) :
         /\ At("Metrics", l) /\ (Goto("Metrics", m) \/ LogThen("Metrics", m))
         /\ m = "timer_set" => timer' = "created"
  BY <1>1 DEF MetricsStep, CreateTimer, SetTimer, SemInit, CallSemWait, SemWait, ReportCpu,
              BodyLabel, Streamless
<1>3. UNCHANGED << status, life, tid, tls, p_logfile >> /\ status # "crashed"
  BY <1>1 DEF MetricsStep, CreateTimer, SetTimer, SemInit, CallSemWait, SemWait, ReportCpu, SafeInv
<1> QED
  BY <1>2, <1>3, WorkSafe

\* A signal that finds a thread in its quiet window finds its thread_info in
\* place and, in main(), that of every worker.
LEMMA DeliverSafe ==
    ASSUME OwnerIInv, SafeInv, Windows \subseteq {"quiet"},
           NEW t \in Thread, NEW s \in Signal, Deliver(t, s)
    PROVE  SafeInv'
<1> USE Threads, EndTypes DEF OwnerIInv, lifeVars, tickVars
<1>1. life[t] \in {"alive", "exiting"} /\ Window(t) = "quiet"
  BY DEF Deliver
<1>2. /\ ~ InLog(t) /\ life[t] = "alive" /\ p_logfile[t] = "open"
      /\ t = "Main" => \A w \in Worker : ~ NotSetUp(w)
  <2>1. ~ InLog(t)
    BY <1>1, LoggingWindow
  <2>2. life[t] = "alive" /\ p_logfile[t] # "closed"
    BY <1>1, <2>1 DEF Window
  <2>3. p_logfile[t] # "null" /\ (t = "Main" => \A w \in Worker : ~ NotSetUp(w))
    BY <1>1, <2>1, <2>2 DEF Window
  <2> QED
    BY <2>1, <2>2, <2>3
<1>3. tls[t] /\ (t = "Main" => \A w \in Worker : p_logfile[w] # "null")
  BY <1>2 DEF SafeInv, ThreadSafe, NotSetUp
<1>4. stack[t] # << >> /\ stack' = [stack EXCEPT ![t] = << "handler" >> \o @]
  BY DEF Deliver, LifeInv, Active
<1>5. place' = place
  BY <1>4, DeliverStep
<1>6. \A u \in Thread \ {t} : marks'[u] = marks[u]
  BY <1>4, MarksPush
<1>7. UNCHANGED << status, life, tid, tls, p_logfile, timer >> /\ status' # "crashed"
  BY DEF Deliver, SafeInv
<1> QED
  BY <1>2, <1>3, <1>5, <1>6, <1>7, StaySafe

LEMMA SafeInit == Init => SafeInv
<1> SUFFICES ASSUME Init PROVE SafeInv
  OBVIOUS
<1> USE Threads
<1>1. /\ stack["Main"] = << "ids" >>
      /\ \A w \in Worker : stack[w] = << >> /\ life[w] = "absent"
  BY DEF Init
<1>2. place["Main"] = "ids" /\ \A w \in Worker : place[w] = "none"
  BY <1>1 DEF place
<1>3. \A t \in Thread : marks[t] = {}
  <2>1. marks["Main"] = {}
    <3>1. "ids" \in BodyLabel
      BY DEF BodyLabel
    <3> QED
      BY <1>1, <3>1, MarksShort
  <2>2. \A w \in Worker : marks[w] = {}
    BY <1>1 DEF marks
  <2> QED
    BY <2>1, <2>2
<1>4. \A t \in Thread : ~ handles(t)
  BY <1>3 DEF handles
<1>5. \A t \in Thread : ThreadSafe(t)
  BY <1>1, <1>2, <1>3, <1>4 DEF Init, ThreadSafe, Streamless
<1> QED
  BY <1>2, <1>4, <1>5 DEF Init, SafeInv

LEMMA SafeNext ==
    ASSUME Undisturbed PROVE OwnerIInv /\ EndInv /\ SafeInv /\ [Next]_vars => SafeInv'
<1> SUFFICES ASSUME OwnerIInv, EndInv, SafeInv, [Next]_vars PROVE SafeInv'
  OBVIOUS
<1>0. /\ "log_open" \notin Faults /\ "create" \notin Faults /\ "timer" \notin Faults
      /\ ~ StdioCancels /\ "crash" \notin StaleCancel
      /\ Windows \subseteq {"quiet"} /\ "callback" \notin Windows
  BY DEF Undisturbed
<1>1. CASE Expire \/ TimerCb \/ UNCHANGED vars
  <2>1. UNCHANGED << status, stack, life, tid, tls, p_logfile, timer >>
    BY <1>1 DEF Expire, TimerCb, vars, lifeVars, tickVars
  <2>2. place' = place /\ marks' = marks
    BY <2>1, SameStep DEF marks
  <2>3. (handles("Main")' => handles("Main")) /\ ThreadSafe("Main") /\ status' # "crashed"
    BY <2>1, <2>2, Threads DEF handles, SafeInv
  <2>4. marks'["Main"] # {} => p_logfile["Main"] = "open"
    BY <2>2, <2>3 DEF ThreadSafe
  <2> QED
    BY <2>1, <2>2, <2>3, <2>4, StaySafe, Threads
<1>2. CASE DeliverToCallback
  BY <1>0, <1>2 DEF DeliverToCallback
<1>3. ASSUME NEW t \in Thread, Step(t) PROVE SafeInv'
  BY <1>0, <1>3, LogSafe, InitSafe, CleanupSafe, HandlerSafe DEF Step
<1>4. CASE MainStep
  BY <1>0, <1>4, MainWorkSafe, CreateSafe, JoinSafe, CancelSafe DEF MainStep
<1>5. CASE LettersStep
  BY <1>5, LettersSafe
<1>6. CASE MetricsStep
  BY <1>0, <1>6, MetricsSafe
<1>7. ASSUME NEW t \in Thread, NEW s \in Signal, Deliver(t, s) PROVE SafeInv'
  BY <1>0, <1>7, DeliverSafe
<1> QED
  BY <1>1, <1>2, <1>3, <1>4, <1>5, <1>6, <1>7 DEF Next

\* If signals come when no thread is logging, starting or cleaning up, and only
\* the letter counter's fopen() fails, no pointer is null or stale when it is
\* used, however many signals there are (hw3.c:84-109, threads.c:22-90).
THEOREM Survives == ASSUME Undisturbed PROVE Spec => []NeverCrashes
<1>1. OwnerIInv /\ EndInv /\ SafeInv => NeverCrashes
  BY DEF SafeInv, NeverCrashes
<1>2. OwnerIInv /\ EndInv /\ SafeInv /\ [Next]_vars => SafeInv'
  BY SafeNext
<1> QED
  BY <1>1, <1>2, SafeInit, Ends, PTL DEF Spec
==============================================================================
