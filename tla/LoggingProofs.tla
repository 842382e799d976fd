---------------------------- MODULE LoggingProofs ----------------------------
(***************************************************************************)
(* Proofs about Logging: an inductive invariant, and from it that the type *)
(* is right, that streams are clean outside the critical section, and that *)
(* log_varg() implements AtomicLog.  The invariant follows the line of the *)
(* thread in the critical section piece by piece from its stream's buffer  *)
(* to the file, and knows that no call's line is printed twice.            *)
(***************************************************************************)
EXTENDS Logging, SequenceTheorems, TLAPS

\* How far the line of call c has come, when log_varg() is about to execute pc,
\* in the file (tl) and in the buffer of the thread's stream (bf).
Progress(pc, c, tl, bf) ==
    LET T == [call |-> c, part |-> "time"]
        N == [call |-> c, part |-> "name"]
        B == [call |-> c, part |-> "body"]
    IN  CASE pc = "time"   -> tl = << >> /\ bf = << >>
          [] pc = "name"   -> \/ tl = << >> /\ bf = << T >>
                              \/ tl = << T >> /\ bf = << >>
          [] pc = "body"   -> \/ tl = << >> /\ bf = << T, N >>
                              \/ tl = << T >> /\ bf = << N >>
                              \/ tl = << T, N >> /\ bf = << >>
          [] pc = "flush"  -> \/ tl = << >> /\ bf = << T, N, B >>
                              \/ tl = << T >> /\ bf = << N, B >>
                              \/ tl = << T, N >> /\ bf = << B >>
                              \/ tl = << >> /\ bf = << >>
          [] pc = "unlock" -> tl = << >> /\ bf = << >>
          [] OTHER -> TRUE

\* A thread's invocations are its own, and no two of them are the same call.
StackInv ==
    \A t \in Thread : \A i \in 1 .. Len(stack[t]) :
        /\ stack[t][i].call.thread = t
        /\ stack[t][i].call.time < clock
        /\ \A j \in 1 .. Len(stack[t]) : i # j => stack[t][i].call # stack[t][j].call

\* Who is in the critical section owns the mutex, and is there once.
MutexInv ==
    \A t \in Thread : \A i \in 1 .. Len(stack[t]) :
        stack[t][i].pc \in Inside =>
            /\ log_mutex = t
            /\ \A j \in 1 .. Len(stack[t]) : i # j => stack[t][j].pc = "lock"

\* File and buffer hold together what has been printed of the line.
ProgressInv ==
    \A t \in Thread : \A i \in 1 .. Len(stack[t]) :
        stack[t][i].pc \in Inside => Progress(stack[t][i].pc, stack[t][i].call, tail, buf[t])

\* The log holds whole lines of calls that were made.
LinesInv == \A i \in 1 .. Len(lines) : \E c \in Call : c.time < clock /\ lines[i] = Log!Line(c)

\* Is the line of t's invocation at pc still to be completed in the file?
Unfinished(t, pc) == pc \in Printing \cup {"lock"} \/ (pc = "flush" /\ buf[t] # << >>)

\* No line is in the log before it is completed.
UnloggedInv ==
    \A t \in Thread : \A i \in 1 .. Len(stack[t]) :
        Unfinished(t, stack[t][i].pc) => ~ Log!Logged(stack[t][i].call)

IInv == TypeOK /\ StackInv /\ MutexInv /\ StreamsClean /\ ProgressInv /\ LinesInv /\ UnloggedInv
------------------------------------------------------------------------------
Labels == Inside \cup {"lock"}

\* A step of the innermost invocation of t changes the label of its frame only.
LEMMA GotoFrames ==
    ASSUME TypeOK, NEW t \in Thread, NEW p0, At(t, p0), NEW pc \in Labels, Goto(t, pc)
    PROVE  /\ stack' \in [Thread -> Seq(Frame)]
           /\ \A u \in Thread \ {t} : stack'[u] = stack[u]
           /\ Len(stack'[t]) = Len(stack[t]) /\ Len(stack[t]) > 0
           /\ stack[t][1].pc = p0
           /\ stack'[t][1].pc = pc
           /\ stack'[t][1].call = stack[t][1].call
           /\ \A i \in 2 .. Len(stack[t]) : stack'[t][i] = stack[t][i]
<1> DEFINE f == Head(stack[t])
           g == [f EXCEPT !.pc = pc]
<1>1. stack[t] \in Seq(Frame) /\ stack[t] # << >> /\ f \in Frame /\ f = stack[t][1] /\ f.pc = p0
  BY DEF TypeOK, At
<1>2. g \in Frame /\ g.pc = pc /\ g.call = f.call
  BY <1>1 DEF Frame, Labels
<1>3. stack' = [stack EXCEPT ![t] = << g >> \o Tail(stack[t])]
  BY DEF Goto
<1> HIDE DEF f, g
<1>4. /\ << g >> \o Tail(stack[t]) \in Seq(Frame)
      /\ Len(<< g >> \o Tail(stack[t])) = Len(stack[t])
      /\ (<< g >> \o Tail(stack[t]))[1] = g
      /\ \A i \in 2 .. Len(stack[t]) : (<< g >> \o Tail(stack[t]))[i] = stack[t][i]
  BY <1>1, <1>2
<1> QED
  BY <1>1, <1>2, <1>3, <1>4 DEF TypeOK

\* The frames of a typed stack are typed.
LEMMA FramesTyped ==
    ASSUME TypeOK, NEW u \in Thread
    PROVE  /\ stack[u] \in Seq(Frame)
           /\ Len(stack[u]) \in Nat
           /\ \A i \in 1 .. Len(stack[u]) : /\ stack[u][i] \in Frame
                                            /\ stack[u][i].pc \in Labels
                                            /\ stack[u][i].call \in Call
<1>1. stack[u] \in Seq(Frame)
  BY DEF TypeOK
<1>2. \A i \in 1 .. Len(stack[u]) : stack[u][i] \in Frame
  BY <1>1
<1> QED
  BY <1>1, <1>2 DEF Frame, Labels

\* While the mutex is free, every invocation waits for it.
LEMMA AllWait ==
    ASSUME IInv, log_mutex = NoThread
    PROVE  /\ \A u \in Thread : \A i \in 1 .. Len(stack[u]) : stack[u][i].pc = "lock"
           /\ tail = << >> /\ \A u \in Thread : buf[u] = << >>
<1>1. \A u \in Thread : \A i \in 1 .. Len(stack[u]) : stack[u][i].pc \in Labels
  BY FramesTyped DEF IInv
<1>2. \A u \in Thread : \A i \in 1 .. Len(stack[u]) : stack[u][i].pc \notin Inside
  BY LoggingAssumption DEF IInv, MutexInv
<1> QED
  BY <1>1, <1>2, LoggingAssumption DEF Labels, IInv, StreamsClean

\* A thread that executes the critical section is alone in it.
LEMMA OthersWait ==
    ASSUME IInv, NEW t \in Thread, NEW pc \in Inside, At(t, pc)
    PROVE  /\ log_mutex = t
           /\ 1 \in 1 .. Len(stack[t])
           /\ stack[t][1].pc = pc
           /\ stack[t][1] \in Frame
           /\ \A i \in 2 .. Len(stack[t]) : stack[t][i].pc = "lock"
           /\ \A u \in Thread \ {t} :
                 /\ buf[u] = << >>
                 /\ \A i \in 1 .. Len(stack[u]) : stack[u][i].pc = "lock"
           /\ Progress(pc, stack[t][1].call, tail, buf[t])
<1>1. stack[t] \in Seq(Frame) /\ 1 \in 1 .. Len(stack[t]) /\ stack[t][1].pc = pc /\ stack[t][1] \in Frame
  BY DEF IInv, TypeOK, At
<1>2. /\ log_mutex = t
      /\ \A i \in 2 .. Len(stack[t]) : stack[t][i].pc = "lock"
      /\ Progress(pc, stack[t][1].call, tail, buf[t])
  BY <1>1 DEF IInv, MutexInv, ProgressInv
<1>3. \A u \in Thread : \A i \in 1 .. Len(stack[u]) : stack[u][i].pc \in Labels
  BY FramesTyped DEF IInv
<1>4. \A u \in Thread \ {t} : \A i \in 1 .. Len(stack[u]) : stack[u][i].pc \notin Inside
  BY <1>2 DEF IInv, MutexInv
<1> QED
  BY <1>1, <1>2, <1>3, <1>4 DEF Labels, IInv, StreamsClean

\* What pushing and popping a frame does to a stack.
LEMMA PushFrame ==
    ASSUME NEW s \in Seq(Frame), NEW f \in Frame
    PROVE  /\ << f >> \o s \in Seq(Frame)
           /\ Len(<< f >> \o s) = Len(s) + 1
           /\ (<< f >> \o s)[1] = f
           /\ \A i \in 2 .. Len(s) + 1 : (<< f >> \o s)[i] = s[i - 1]
  OBVIOUS

LEMMA PopFrame ==
    ASSUME NEW s \in Seq(Frame), s # << >>
    PROVE  /\ Tail(s) \in Seq(Frame)
           /\ Len(Tail(s)) = Len(s) - 1
           /\ \A i \in 1 .. Len(s) - 1 : Tail(s)[i] = s[i + 1]
  OBVIOUS

\* The invariant holds at first, and every action preserves it.
LEMMA InitInv == Init => IInv
  BY LoggingAssumption DEF Init, IInv, TypeOK, StackInv, MutexInv, StreamsClean, ProgressInv,
     LinesInv, UnloggedInv, Log!Logged

LEMMA BeginInv == ASSUME IInv, NEW t \in Thread, Begin(t) PROVE IInv'
<1> DEFINE c == [thread |-> t, time |-> clock]
           f == [pc |-> "lock", call |-> c]
<1>1. c \in Call /\ f \in Frame /\ f.pc = "lock" /\ f.call = c /\ c.thread = t /\ c.time = clock
  BY LoggingAssumption DEF Begin, Call, Frame, IInv, TypeOK
<1>2. stack' = [stack EXCEPT ![t] = << f >> \o stack[t]] /\ stack[t] \in Seq(Frame)
  BY DEF Begin, IInv, TypeOK
<1>3. UNCHANGED << log_mutex, buf, lines, tail >> /\ clock' = clock + 1
      /\ clock \in Nat /\ clock < MaxCalls
  BY LoggingAssumption DEF Begin, IInv, TypeOK
<1> HIDE DEF c, f
<1>4. /\ stack' \in [Thread -> Seq(Frame)]
      /\ \A u \in Thread \ {t} : stack'[u] = stack[u]
      /\ Len(stack'[t]) = Len(stack[t]) + 1
      /\ stack'[t][1] = f
      /\ \A i \in 2 .. Len(stack[t]) + 1 : stack'[t][i] = stack[t][i - 1]
  BY <1>1, <1>2, PushFrame DEF IInv, TypeOK
<1>5. TypeOK'
  BY <1>3, <1>4, LoggingAssumption DEF IInv, TypeOK
<1>6. \A u \in Thread : \A i \in 1 .. Len(stack[u]) : stack[u][i] \in Frame
  BY DEF IInv, TypeOK
<1>7. StackInv'
  <2> SUFFICES ASSUME NEW u \in Thread, NEW i \in 1 .. Len(stack'[u]) PROVE
        /\ stack'[u][i].call.thread = u
        /\ stack'[u][i].call.time < clock + 1
        /\ \A j \in 1 .. Len(stack'[u]) : i # j => stack'[u][i].call # stack'[u][j].call
    BY <1>3 DEF StackInv
  <2>1. \A k \in 1 .. Len(stack[u]) : stack[u][k].call.time \in Nat /\ stack[u][k].call.time < clock
    BY <1>6, LoggingAssumption DEF IInv, StackInv, Frame, Call
  <2>2. CASE u # t
    <3>1. stack'[u] = stack[u] /\ i \in 1 .. Len(stack[u])
      BY <2>2, <1>4
    <3>2. stack[u][i].call.time < clock + 1
      BY <2>1, <3>1, <1>3
    <3>3. /\ stack[u][i].call.thread = u
          /\ \A j \in 1 .. Len(stack[u]) : i # j => stack[u][i].call # stack[u][j].call
      BY <3>1 DEF IInv, StackInv
    <3> QED
      BY <3>1, <3>2, <3>3
  <2>3. CASE u = t
    <3>1. \A j \in 1 .. Len(stack'[t]) : j # 1 => stack'[t][j].call.time < clock
      BY <1>4, <2>1, <2>3, SMTT(40)
    <3>2. CASE i = 1
      BY <2>3, <3>1, <3>2, <1>1, <1>3, <1>4
    <3>3. CASE i # 1
      <4>1. stack'[t][i] = stack[t][i - 1] /\ i - 1 \in 1 .. Len(stack[t])
        BY <3>3, <2>3, <1>4
      <4>2. stack'[t][1].call.time = clock /\ stack'[t][i].call.time < clock
        BY <1>1, <1>4, <2>1, <2>3, <4>1
      <4>3. \A j \in 1 .. Len(stack'[t]) : i # j => stack'[t][i].call # stack'[t][j].call
        <5> SUFFICES ASSUME NEW j \in 1 .. Len(stack'[t]), i # j
                     PROVE  stack'[t][i].call # stack'[t][j].call
          OBVIOUS
        <5>1. CASE j = 1
          BY <4>2, <5>1, <1>3
        <5>2. CASE j # 1
          <6>1. stack'[t][j] = stack[t][j - 1] /\ j - 1 \in 1 .. Len(stack[t]) /\ i - 1 # j - 1
            BY <5>2, <1>4
          <6> QED
            BY <4>1, <6>1 DEF IInv, StackInv
        <5> QED
          BY <5>1, <5>2
      <4> QED
        BY <2>1, <2>3, <4>1, <4>2, <4>3, <1>3 DEF IInv, StackInv
    <3> QED
      BY <3>2, <3>3
  <2> QED
    BY <2>2, <2>3
<1>8. MutexInv'
  <2> SUFFICES ASSUME NEW u \in Thread, NEW i \in 1 .. Len(stack'[u]), stack'[u][i].pc \in Inside
               PROVE  /\ log_mutex = u
                      /\ \A j \in 1 .. Len(stack'[u]) : i # j => stack'[u][j].pc = "lock"
    BY <1>3 DEF MutexInv
  <2>1. CASE u # t
    BY <2>1, <1>4 DEF IInv, MutexInv
  <2>2. CASE u = t
    <3>1. i # 1 /\ i - 1 \in 1 .. Len(stack[t]) /\ stack'[t][i] = stack[t][i - 1]
      BY <2>2, <1>1, <1>4 DEF Inside, Printing
    <3>2. \A j \in 1 .. Len(stack[t]) : i - 1 # j => stack[t][j].pc = "lock"
      BY <2>2, <3>1 DEF IInv, MutexInv
    <3>3. \A j \in 2 .. Len(stack'[t]) :
             i # j => stack'[t][j] = stack[t][j - 1] /\ j - 1 \in 1 .. Len(stack[t]) /\ i - 1 # j - 1
      BY <2>2, <1>2, <1>4
    <3>4. \A j \in 2 .. Len(stack'[t]) : i # j => stack'[t][j].pc = "lock"
      BY <3>2, <3>3
    <3> QED
      BY <2>2, <3>1, <3>4, <1>1, <1>4 DEF IInv, MutexInv
  <2> QED
    BY <2>1, <2>2
<1>9. StreamsClean'
  BY <1>3 DEF IInv, StreamsClean
<1>10. ProgressInv'
  <2> SUFFICES ASSUME NEW u \in Thread, NEW i \in 1 .. Len(stack'[u]), stack'[u][i].pc \in Inside
               PROVE  Progress(stack'[u][i].pc, stack'[u][i].call, tail, buf[u])
    BY <1>3 DEF ProgressInv
  <2>1. CASE u # t
    BY <2>1, <1>4 DEF IInv, ProgressInv
  <2>2. CASE u = t
    <3>1. i # 1 /\ i - 1 \in 1 .. Len(stack[t]) /\ stack'[t][i] = stack[t][i - 1]
      BY <2>2, <1>1, <1>4 DEF Inside, Printing
    <3> QED
      BY <2>2, <3>1 DEF IInv, ProgressInv
  <2> QED
    BY <2>1, <2>2
<1>11. LinesInv'
  BY <1>3, LoggingAssumption DEF IInv, LinesInv, Call
<1>12. UnloggedInv'
  <2>1. ~ Log!Logged(c)
    <3> SUFFICES ASSUME NEW i \in 1 .. Len(lines), lines[i] = Log!Line(c) PROVE FALSE
      BY DEF Log!Logged
    <3>1. PICK d \in Call : d.time < clock /\ lines[i] = Log!Line(d)
      BY DEF IInv, LinesInv
    <3>2. d = c
      BY <3>1 DEF Log!Line
    <3> QED
      BY <3>1, <3>2, <1>1, <1>3
  <2> SUFFICES ASSUME NEW u \in Thread, NEW i \in 1 .. Len(stack'[u]), Unfinished(u, stack'[u][i].pc)
               PROVE  ~ Log!Logged(stack'[u][i].call)
    BY <1>3 DEF UnloggedInv, Log!Logged, Unfinished
  <2>2. CASE u # t
    BY <2>2, <1>4 DEF IInv, UnloggedInv
  <2>3. CASE u = t /\ i = 1
    BY <2>3, <2>1, <1>1, <1>4
  <2>4. CASE u = t /\ i # 1
    <3>1. i - 1 \in 1 .. Len(stack[t]) /\ stack'[t][i] = stack[t][i - 1]
      BY <2>4, <1>4
    <3> QED
      BY <2>4, <3>1 DEF IInv, UnloggedInv
  <2> QED
    BY <2>2, <2>3, <2>4
<1> QED
  BY <1>5, <1>7, <1>8, <1>9, <1>10, <1>11, <1>12 DEF IInv

\* The calls of the stacks do not change when an invocation goes on.
LEMMA GotoStackInv ==
    ASSUME IInv, NEW t \in Thread, NEW p0, At(t, p0), NEW pc \in Labels, Goto(t, pc),
           UNCHANGED clock
    PROVE  StackInv'
<1>1. /\ \A u \in Thread \ {t} : stack'[u] = stack[u]
      /\ Len(stack'[t]) = Len(stack[t])
      /\ stack'[t][1].call = stack[t][1].call
      /\ \A i \in 2 .. Len(stack[t]) : stack'[t][i] = stack[t][i]
  BY GotoFrames DEF IInv
<1>2. \A u \in Thread : /\ Len(stack'[u]) = Len(stack[u])
                        /\ \A i \in 1 .. Len(stack[u]) : stack'[u][i].call = stack[u][i].call
  BY <1>1, FramesTyped DEF IInv
<1> QED
  BY <1>2 DEF IInv, StackInv

\* Nor are there two in the critical section.
LEMMA GotoMutexInv ==
    ASSUME IInv, NEW t \in Thread, NEW p0, At(t, p0), NEW pc \in Inside, Goto(t, pc),
           log_mutex' = t, p0 \in Inside \/ log_mutex = NoThread
    PROVE  /\ MutexInv'
           /\ \A u \in Thread : \A i \in 1 .. Len(stack'[u]) :
                 stack'[u][i].pc \in Inside => u = t /\ i = 1
<1>1. /\ \A i \in 2 .. Len(stack[t]) : stack[t][i].pc = "lock"
      /\ \A u \in Thread \ {t} : \A i \in 1 .. Len(stack[u]) : stack[u][i].pc = "lock"
  BY AllWait, OthersWait
<1>2. /\ \A u \in Thread \ {t} : stack'[u] = stack[u]
      /\ Len(stack'[t]) = Len(stack[t])
      /\ \A i \in 2 .. Len(stack[t]) : stack'[t][i] = stack[t][i]
  BY GotoFrames DEF IInv, Labels
<1>3. Len(stack[t]) \in Nat
  BY DEF IInv, TypeOK
<1>4. /\ \A i \in 2 .. Len(stack'[t]) : stack'[t][i].pc = "lock"
      /\ \A u \in Thread \ {t} : \A i \in 1 .. Len(stack'[u]) : stack'[u][i].pc = "lock"
  BY <1>1, <1>2
<1>5. \A i \in 1 .. Len(stack'[t]) : i = 1 \/ i \in 2 .. Len(stack'[t])
  BY <1>2, <1>3
<1> QED
  BY <1>4, <1>5 DEF MutexInv, Inside, Printing

LEMMA LockInv == ASSUME IInv, NEW t \in Thread, Lock(t) PROVE IInv'
<1> USE DEF Lock
<1>1. "time" \in Inside /\ "time" \in Labels
  BY DEF Labels, Inside, Printing
<1>2. StackInv'
  BY <1>1, GotoStackInv
<1>3. /\ MutexInv'
      /\ \A u \in Thread : \A i \in 1 .. Len(stack'[u]) :
            stack'[u][i].pc \in Inside => u = t /\ i = 1
  BY <1>1, GotoMutexInv
<1>4. /\ stack' \in [Thread -> Seq(Frame)]
      /\ \A u \in Thread \ {t} : stack'[u] = stack[u]
      /\ Len(stack'[t]) = Len(stack[t])
      /\ stack[t][1].pc = "lock" /\ stack'[t][1].pc = "time"
      /\ stack'[t][1].call = stack[t][1].call
      /\ \A i \in 2 .. Len(stack[t]) : stack'[t][i] = stack[t][i]
  BY <1>1, GotoFrames DEF IInv
<1>5. tail = << >> /\ \A u \in Thread : buf[u] = << >>
  BY AllWait
<1>6. TypeOK'
  BY <1>4 DEF IInv, TypeOK
<1>7. StreamsClean'
  BY <1>5, LoggingAssumption DEF StreamsClean
<1>8. ProgressInv'
  BY <1>3, <1>4, <1>5 DEF ProgressInv, Progress
<1>9. LinesInv'
  BY DEF IInv, LinesInv
<1>10. UnloggedInv'
  <2> SUFFICES ASSUME NEW u \in Thread, NEW i \in 1 .. Len(stack'[u])
               PROVE  ~ Log!Logged(stack'[u][i].call)
    BY DEF UnloggedInv, Log!Logged
  <2>1. i \in 1 .. Len(stack[u]) /\ stack'[u][i].call = stack[u][i].call
    BY <1>4, FramesTyped DEF IInv
  <2>2. Unfinished(u, stack[u][i].pc)
    BY <2>1, AllWait DEF Unfinished
  <2> QED
    BY <2>1, <2>2 DEF IInv, UnloggedInv
<1> QED
  BY <1>2, <1>3, <1>6, <1>7, <1>8, <1>9, <1>10 DEF IInv
------------------------------------------------------------------------------
\* What the lines of this module need to know of short sequences.
LEMMA AppendTuple ==
    ASSUME NEW S, NEW a \in S, NEW b \in S, NEW c \in S
    PROVE  /\ Append(<< >>, a) = << a >>
           /\ Append(<< a >>, b) = << a, b >>
           /\ Append(<< a, b >>, c) = << a, b, c >>
<1>1. Append(<< >>, a) = << a >>
  OBVIOUS
<1>2. Append(<< a >>, b) = << a, b >>
  <2>1. Append(<< a >>, b) \in Seq(S) /\ << a, b >> \in Seq(S)
    OBVIOUS
  <2>2. Len(Append(<< a >>, b)) = 2 /\ Len(<< a, b >>) = 2
    OBVIOUS
  <2>3. \A i \in 1 .. 2 : Append(<< a >>, b)[i] = << a, b >>[i]
    OBVIOUS
  <2> QED
    BY <2>1, <2>2, <2>3, SeqEqual
<1>3. Append(<< a, b >>, c) = << a, b, c >>
  <2>1. Append(<< a, b >>, c) \in Seq(S) /\ << a, b, c >> \in Seq(S)
    OBVIOUS
  <2>2. Len(Append(<< a, b >>, c)) = 3 /\ Len(<< a, b, c >>) = 3
    OBVIOUS
  <2>3. \A i \in 1 .. 3 : Append(<< a, b >>, c)[i] = << a, b, c >>[i]
    OBVIOUS
  <2> QED
    BY <2>1, <2>2, <2>3, SeqEqual
<1> QED
  BY <1>1, <1>2, <1>3

\* The same for taking the first piece away.
LEMMA HeadTailTuple ==
    ASSUME NEW S, NEW a \in S, NEW b \in S, NEW c \in S
    PROVE  /\ Head(<< a >>) = a /\ Tail(<< a >>) = << >>
           /\ Head(<< a, b >>) = a /\ Tail(<< a, b >>) = << b >>
           /\ Head(<< a, b, c >>) = a /\ Tail(<< a, b, c >>) = << b, c >>
<1>1. Head(<< a >>) = a /\ Head(<< a, b >>) = a /\ Head(<< a, b, c >>) = a
  OBVIOUS
<1>2. Tail(<< a >>) = << >>
  OBVIOUS
<1>3. Tail(<< a, b >>) = << b >>
  OBVIOUS
<1>4. Tail(<< a, b, c >>) = << b, c >>
  OBVIOUS
<1> QED
  BY <1>1, <1>2, <1>3, <1>4

\* Printing a piece brings the line of c on by it.
LEMMA ProgressFprintf ==
    ASSUME NEW p \in Printing, NEW c \in Call, NEW tl, NEW bf \in Seq(Piece), Progress(p, c, tl, bf)
    PROVE  Progress(AfterPart[p], c, tl, Append(bf, [call |-> c, part |-> p]))
<1> DEFINE T == [call |-> c, part |-> "time"]
           N == [call |-> c, part |-> "name"]
           B == [call |-> c, part |-> "body"]
<1>0. T \in Piece /\ N \in Piece /\ B \in Piece
  BY DEF Piece, Printing
<1> HIDE DEF T, N, B
<1>1. /\ Append(<< >>, T) = << T >>
      /\ Append(<< >>, N) = << N >> /\ Append(<< T >>, N) = << T, N >>
      /\ Append(<< >>, B) = << B >> /\ Append(<< N >>, B) = << N, B >>
      /\ Append(<< T, N >>, B) = << T, N, B >>
  BY <1>0, AppendTuple
<1>2. CASE p = "time"
  BY <1>1, <1>2 DEF Progress, AfterPart, T
<1>3. CASE p = "name"
  BY <1>1, <1>3 DEF Progress, AfterPart, T, N
<1>4. CASE p = "body"
  BY <1>1, <1>4 DEF Progress, AfterPart, T, N, B
<1> QED
  BY <1>2, <1>3, <1>4 DEF Printing

\* A piece that reaches the file takes its place in the line of c; the last
\* one completes it.
LEMMA ProgressDrain ==
    ASSUME NEW pc \in InStdio, NEW c \in Call, NEW tl, NEW bf, bf # << >>, Progress(pc, c, tl, bf)
    PROVE  \/ /\ Head(bf).part # "body"
              /\ Progress(pc, c, Append(tl, Head(bf)), Tail(bf))
              /\ pc = "flush" => Tail(bf) # << >>
           \/ /\ Head(bf).part = "body"
              /\ pc = "flush"
              /\ Append(tl, Head(bf)) = Log!Line(c)
              /\ Tail(bf) = << >>
<1> DEFINE T == [call |-> c, part |-> "time"]
           N == [call |-> c, part |-> "name"]
           B == [call |-> c, part |-> "body"]
<1>0. T \in Piece /\ N \in Piece /\ B \in Piece
  BY DEF Piece, Printing
<1>1. T.part = "time" /\ N.part = "name" /\ B.part = "body" /\ Log!Line(c) = << T, N, B >>
  BY DEF Log!Line
<1> HIDE DEF T, N, B
<1>2. /\ Append(<< >>, T) = << T >> /\ Append(<< T >>, N) = << T, N >>
      /\ Append(<< T, N >>, B) = << T, N, B >>
      /\ Head(<< T >>) = T /\ Tail(<< T >>) = << >>
      /\ Head(<< N >>) = N /\ Tail(<< N >>) = << >>
      /\ Head(<< B >>) = B /\ Tail(<< B >>) = << >>
      /\ Head(<< T, N >>) = T /\ Tail(<< T, N >>) = << N >>
      /\ Head(<< N, B >>) = N /\ Tail(<< N, B >>) = << B >>
      /\ Head(<< T, N, B >>) = T /\ Tail(<< T, N, B >>) = << N, B >>
      /\ << B >> # << >> /\ << N, B >> # << >>
  BY <1>0, AppendTuple, HeadTailTuple
<1>3. CASE pc = "time"
  BY <1>3 DEF Progress
<1>4. CASE pc = "name"
  BY <1>1, <1>2, <1>4 DEF Progress, T
<1>5. CASE pc = "body"
  BY <1>1, <1>2, <1>5 DEF Progress, T, N
<1>6. CASE pc = "flush"
  <2>1. \/ tl = << >> /\ bf = << T, N, B >>
        \/ tl = << T >> /\ bf = << N, B >>
        \/ tl = << T, N >> /\ bf = << B >>
    BY <1>6 DEF Progress, T, N, B
  <2>3. CASE tl = << >> /\ bf = << T, N, B >>
    BY <2>3, <1>1, <1>2, <1>6 DEF Progress, T, N, B
  <2>4. CASE tl = << T >> /\ bf = << N, B >>
    BY <2>4, <1>1, <1>2, <1>6 DEF Progress, T, N, B
  <2>5. CASE tl = << T, N >> /\ bf = << B >>
    BY <2>5, <1>1, <1>2, <1>6
  <2> QED
    BY <2>1, <2>3, <2>4, <2>5
<1> QED
  BY <1>3, <1>4, <1>5, <1>6 DEF InStdio, Printing
------------------------------------------------------------------------------
LEMMA FprintfInv == ASSUME IInv, NEW t \in Thread, Fprintf(t) PROVE IInv'
<1>0. PICK p \in Printing :
        /\ At(t, p)
        /\ buf' = [buf EXCEPT ![t] = Append(@, [call |-> Head(stack[t]).call, part |-> p])]
        /\ Goto(t, AfterPart[p])
        /\ UNCHANGED << log_mutex, lines, tail, clock >>
  BY DEF Fprintf
<1> DEFINE c == stack[t][1].call
           x == [call |-> c, part |-> p]
<1>1. p \in Inside /\ AfterPart[p] \in Inside /\ AfterPart[p] \in Labels
  BY DEF AfterPart, Labels, Inside, Printing
<1>2. /\ log_mutex = t /\ 1 \in 1 .. Len(stack[t]) /\ stack[t][1].pc = p
      /\ \A i \in 2 .. Len(stack[t]) : stack[t][i].pc = "lock"
      /\ \A u \in Thread \ {t} : /\ buf[u] = << >>
                                 /\ \A i \in 1 .. Len(stack[u]) : stack[u][i].pc = "lock"
      /\ Progress(p, c, tail, buf[t])
  BY <1>0, <1>1, OthersWait
<1>3. StackInv'
  BY <1>0, <1>1, GotoStackInv
<1>4. /\ MutexInv'
      /\ \A u \in Thread : \A i \in 1 .. Len(stack'[u]) :
            stack'[u][i].pc \in Inside => u = t /\ i = 1
  BY <1>0, <1>1, <1>2, GotoMutexInv
<1>5. /\ stack' \in [Thread -> Seq(Frame)]
      /\ \A u \in Thread \ {t} : stack'[u] = stack[u]
      /\ Len(stack'[t]) = Len(stack[t])
      /\ stack'[t][1].pc = AfterPart[p]
      /\ stack'[t][1].call = c
      /\ \A i \in 2 .. Len(stack[t]) : stack'[t][i] = stack[t][i]
  BY <1>0, <1>1, GotoFrames DEF IInv
<1>6. c \in Call /\ x \in Piece /\ buf[t] \in Seq(Piece) /\ Head(stack[t]).call = c
  <2>1. stack[t] \in Seq(Frame) /\ c \in Call /\ buf[t] \in Seq(Piece)
    BY <1>2, FramesTyped DEF IInv, TypeOK
  <2>2. Head(stack[t]) = stack[t][1]
    BY <1>2, <2>1
  <2> QED
    BY <2>1, <2>2 DEF Piece
<1> HIDE DEF c, x
<1>7. /\ buf' \in [Thread -> Seq(Piece)] /\ buf'[t] = Append(buf[t], x)
      /\ \A u \in Thread \ {t} : buf'[u] = buf[u]
  BY <1>0, <1>6 DEF IInv, TypeOK, x
<1>8. TypeOK'
  BY <1>0, <1>5, <1>7 DEF IInv, TypeOK
<1>9. StreamsClean'
  BY <1>0, <1>2, <1>7, LoggingAssumption DEF StreamsClean
<1>10. ProgressInv'
  <2>1. Progress(AfterPart[p], c, tail, buf'[t])
    BY <1>2, <1>6, <1>7, ProgressFprintf DEF x
  <2> QED
    BY <2>1, <1>0, <1>4, <1>5 DEF ProgressInv
<1>11. LinesInv'
  BY <1>0 DEF IInv, LinesInv
<1>12. UnloggedInv'
  <2> SUFFICES ASSUME NEW u \in Thread, NEW i \in 1 .. Len(stack'[u])
               PROVE  ~ Log!Logged(stack'[u][i].call)
    BY <1>0 DEF UnloggedInv, Log!Logged
  <2>1. i \in 1 .. Len(stack[u]) /\ stack'[u][i].call = stack[u][i].call
    BY <1>2, <1>5, FramesTyped DEF IInv, c
  <2>2. stack[u][i].pc \in Printing \cup {"lock"}
    BY <2>1, <1>2, FramesTyped DEF IInv
  <2> QED
    BY <2>1, <2>2 DEF IInv, UnloggedInv, Unfinished
<1> QED
  BY <1>3, <1>4, <1>8, <1>9, <1>10, <1>11, <1>12 DEF IInv

LEMMA FlushInv == ASSUME IInv, NEW t \in Thread, Flush(t) PROVE IInv'
<1> USE DEF Flush
<1>1. "flush" \in Inside /\ "unlock" \in Inside /\ "unlock" \in Labels
  BY DEF Labels, Inside, Printing
<1>2. /\ log_mutex = t /\ 1 \in 1 .. Len(stack[t]) /\ stack[t][1].pc = "flush"
      /\ Progress("flush", stack[t][1].call, tail, buf[t])
  BY <1>1, OthersWait
<1>3. StackInv'
  BY <1>1, GotoStackInv
<1>4. /\ MutexInv'
      /\ \A u \in Thread : \A i \in 1 .. Len(stack'[u]) :
            stack'[u][i].pc \in Inside => u = t /\ i = 1
  BY <1>1, <1>2, GotoMutexInv
<1>5. /\ stack' \in [Thread -> Seq(Frame)]
      /\ \A u \in Thread \ {t} : stack'[u] = stack[u]
      /\ Len(stack'[t]) = Len(stack[t])
      /\ stack'[t][1].pc = "unlock"
      /\ \A i \in 2 .. Len(stack[t]) : stack'[t][i] = stack[t][i]
  BY <1>1, GotoFrames DEF IInv
<1>6. TypeOK'
  BY <1>5 DEF IInv, TypeOK
<1>7. StreamsClean'
  BY DEF IInv, StreamsClean
<1>8. ProgressInv'
  <2>1. tail = << >> /\ buf[t] = << >>
    BY <1>2 DEF Progress
  <2> QED
    BY <2>1, <1>4, <1>5 DEF ProgressInv, Progress
<1>9. LinesInv'
  BY DEF IInv, LinesInv
<1>10. UnloggedInv'
  <2> SUFFICES ASSUME NEW u \in Thread, NEW i \in 1 .. Len(stack'[u]), Unfinished(u, stack'[u][i].pc)
               PROVE  ~ Log!Logged(stack'[u][i].call)
    BY DEF UnloggedInv, Log!Logged, Unfinished
  <2>1. ~ (u = t /\ i = 1)
    BY <1>5 DEF Unfinished, Printing
  <2>2. i \in 1 .. Len(stack[u]) /\ stack'[u][i] = stack[u][i]
    BY <2>1, <1>5, FramesTyped DEF IInv
  <2> QED
    BY <2>2 DEF IInv, UnloggedInv
<1> QED
  BY <1>3, <1>4, <1>6, <1>7, <1>8, <1>9, <1>10 DEF IInv

\* When the mutex is given back, or a thread ends, frames disappear only.
LEMMA UnlockInv == ASSUME IInv, NEW t \in Thread, Unlock(t) PROVE IInv'
<1>1. /\ log_mutex = t /\ 1 \in 1 .. Len(stack[t])
      /\ \A i \in 2 .. Len(stack[t]) : stack[t][i].pc = "lock"
      /\ \A u \in Thread \ {t} : /\ buf[u] = << >>
                                 /\ \A i \in 1 .. Len(stack[u]) : stack[u][i].pc = "lock"
      /\ Progress("unlock", stack[t][1].call, tail, buf[t])
  BY OthersWait DEF Unlock, Inside
<1>2. tail = << >> /\ \A u \in Thread : buf[u] = << >>
  BY <1>1 DEF Progress
<1>3. log_mutex' = NoThread /\ UNCHANGED << buf, lines, tail, clock >>
  BY DEF Unlock
<1>4. stack[t] \in Seq(Frame) /\ stack[t] # << >> /\ Len(stack[t]) \in Nat
  BY <1>1, FramesTyped DEF IInv
<1>5. /\ stack' \in [Thread -> Seq(Frame)]
      /\ \A u \in Thread \ {t} : stack'[u] = stack[u]
      /\ \A i \in 1 .. Len(stack'[t]) : i + 1 \in 2 .. Len(stack[t]) /\ stack'[t][i] = stack[t][i + 1]
  <2>1. CASE stack' = [stack EXCEPT ![t] = Tail(@)]
    <3>1. stack'[t] = Tail(stack[t]) /\ stack' \in [Thread -> Seq(Frame)]
      BY <2>1, <1>4, PopFrame DEF IInv, TypeOK
    <3> QED
      BY <2>1, <3>1, <1>4, PopFrame
  <2>2. CASE stack' = [stack EXCEPT ![t] = << >>]
    BY <2>2 DEF IInv, TypeOK
  <2> QED
    BY <2>1, <2>2 DEF Unlock
<1>6. \A u \in Thread : \A i \in 1 .. Len(stack'[u]) : stack'[u][i].pc = "lock"
  <2> SUFFICES ASSUME NEW u \in Thread, NEW i \in 1 .. Len(stack'[u]) PROVE stack'[u][i].pc = "lock"
    OBVIOUS
  <2> QED
    BY <1>1, <1>5
<1>7. TypeOK'
  BY <1>3, <1>5 DEF IInv, TypeOK
<1>8. StackInv'
  <2> SUFFICES ASSUME NEW u \in Thread, NEW i \in 1 .. Len(stack'[u]) PROVE
        /\ stack'[u][i].call.thread = u
        /\ stack'[u][i].call.time < clock
        /\ \A j \in 1 .. Len(stack'[u]) : i # j => stack'[u][i].call # stack'[u][j].call
    BY <1>3 DEF StackInv
  <2>1. CASE u # t
    <3>1. stack'[u] = stack[u] /\ i \in 1 .. Len(stack[u])
      BY <2>1, <1>5
    <3> QED
      BY <3>1 DEF IInv, StackInv
  <2>2. CASE u = t
    <3>1. \A j \in 1 .. Len(stack'[t]) : j + 1 \in 1 .. Len(stack[t]) /\ stack'[t][j] = stack[t][j + 1]
      <4> SUFFICES ASSUME NEW j \in 1 .. Len(stack'[t])
                   PROVE  j + 1 \in 1 .. Len(stack[t]) /\ stack'[t][j] = stack[t][j + 1]
        OBVIOUS
      <4>1. j + 1 \in 2 .. Len(stack[t]) /\ stack'[t][j] = stack[t][j + 1]
        BY <1>5
      <4> QED
        BY <4>1, <1>4
    <3>2. \A j \in 1 .. Len(stack'[t]) : i # j => stack[t][i + 1].call # stack[t][j + 1].call
      <4> SUFFICES ASSUME NEW j \in 1 .. Len(stack'[t]), i # j
                   PROVE  stack[t][i + 1].call # stack[t][j + 1].call
        OBVIOUS
      <4>1. i + 1 # j + 1 /\ i + 1 \in 1 .. Len(stack[t]) /\ j + 1 \in 1 .. Len(stack[t])
        BY <2>2, <3>1
      <4> QED
        BY <4>1 DEF IInv, StackInv
    <3>3. i + 1 \in 1 .. Len(stack[t]) /\ stack'[t][i] = stack[t][i + 1]
      BY <2>2, <3>1
    <3>4. stack[t][i + 1].call.thread = t /\ stack[t][i + 1].call.time < clock
      BY <3>3 DEF IInv, StackInv
    <3>5. \A j \in 1 .. Len(stack'[t]) : i # j => stack'[t][i].call # stack'[t][j].call
      BY <3>1, <3>2, <3>3
    <3> QED
      BY <2>2, <3>3, <3>4, <3>5
  <2> QED
    BY <2>1, <2>2
<1>9. MutexInv' /\ ProgressInv'
  BY <1>6 DEF MutexInv, ProgressInv, Inside, Printing
<1>10. StreamsClean'
  BY <1>2, <1>3 DEF StreamsClean
<1>11. LinesInv'
  BY <1>3 DEF IInv, LinesInv
<1>12. UnloggedInv'
  <2> SUFFICES ASSUME NEW u \in Thread, NEW i \in 1 .. Len(stack'[u])
               PROVE  ~ Log!Logged(stack'[u][i].call)
    BY <1>3 DEF UnloggedInv, Log!Logged
  <2>1. CASE u # t
    BY <2>1, <1>1, <1>5 DEF IInv, UnloggedInv, Unfinished
  <2>2. CASE u = t
    <3>1. i + 1 \in 1 .. Len(stack[t]) /\ stack'[t][i] = stack[t][i + 1] /\ stack[t][i + 1].pc = "lock"
      BY <2>2, <1>1, <1>4, <1>5
    <3> QED
      BY <2>2, <3>1 DEF IInv, UnloggedInv, Unfinished
  <2> QED
    BY <2>1, <2>2
<1> QED
  BY <1>7, <1>8, <1>9, <1>10, <1>11, <1>12 DEF IInv

LEMMA CancelInv == ASSUME IInv, NEW t \in Thread, Cancel(t) PROVE IInv'
<1>1. /\ stack' \in [Thread -> Seq(Frame)]
      /\ \A u \in Thread \ {t} : stack'[u] = stack[u]
      /\ stack'[t] = << >>
      /\ UNCHANGED << log_mutex, buf, lines, tail, clock >>
  BY DEF Cancel, IInv, TypeOK
<1>2. TypeOK'
  BY <1>1 DEF IInv, TypeOK
<1>3. StackInv'
  BY <1>1 DEF IInv, StackInv
<1>4. MutexInv'
  BY <1>1 DEF IInv, MutexInv
<1>5. ProgressInv'
  BY <1>1 DEF IInv, ProgressInv
<1>6. UnloggedInv'
  BY <1>1 DEF IInv, UnloggedInv, Unfinished, Log!Logged
<1> QED
  BY <1>1, <1>2, <1>3, <1>4, <1>5, <1>6 DEF IInv, StreamsClean, LinesInv
------------------------------------------------------------------------------
\* What a step of stdio writing out its buffer does: a piece of an unfinished
\* line moves, or the line of the call is completed.
LEMMA DrainCases ==
    ASSUME IInv, NEW t \in Thread, Drain(t)
    PROVE  \E pc \in InStdio : \E c \in Call :
              /\ log_mutex = t
              /\ 1 \in 1 .. Len(stack[t]) /\ stack[t][1].pc = pc /\ stack[t][1].call = c
              /\ \A i \in 2 .. Len(stack[t]) : stack[t][i].pc = "lock"
              /\ \A u \in Thread \ {t} : /\ buf[u] = << >>
                                         /\ \A i \in 1 .. Len(stack[u]) : stack[u][i].pc = "lock"
              /\ buf' \in [Thread -> Seq(Piece)]
              /\ \A u \in Thread \ {t} : buf'[u] = buf[u]
              /\ buf[t] # << >>
              /\ UNCHANGED << log_mutex, stack, clock >>
              /\ \/ /\ lines' = lines
                    /\ tail' \in Seq(Piece)
                    /\ Progress(pc, c, tail', buf'[t])
                    /\ pc = "flush" => buf'[t] # << >>
                 \/ /\ pc = "flush"
                    /\ lines' = Append(lines, Log!Line(c))
                    /\ tail' = << >> /\ buf'[t] = << >>
<1>1. PICK pc \in InStdio : At(t, pc)
  BY DEF Drain
<1> DEFINE c == stack[t][1].call
<1>2. /\ log_mutex = t /\ 1 \in 1 .. Len(stack[t]) /\ stack[t][1].pc = pc
      /\ \A i \in 2 .. Len(stack[t]) : stack[t][i].pc = "lock"
      /\ \A u \in Thread \ {t} : /\ buf[u] = << >>
                                 /\ \A i \in 1 .. Len(stack[u]) : stack[u][i].pc = "lock"
      /\ Progress(pc, c, tail, buf[t])
  <2>1. pc \in Inside
    BY DEF InStdio, Inside
  <2> QED
    BY <1>1, <2>1, OthersWait
<1>3. c \in Call
  BY <1>2, FramesTyped DEF IInv
<1>4. /\ buf[t] # << >> /\ buf[t] \in Seq(Piece) /\ tail \in Seq(Piece)
      /\ Write(Head(buf[t]))
      /\ buf' = [buf EXCEPT ![t] = Tail(@)]
      /\ UNCHANGED << log_mutex, stack, clock >>
  BY DEF Drain, IInv, TypeOK
<1>5. Head(buf[t]) \in Piece /\ Tail(buf[t]) \in Seq(Piece)
  BY <1>4
<1>6. /\ buf' \in [Thread -> Seq(Piece)] /\ buf'[t] = Tail(buf[t])
      /\ \A u \in Thread \ {t} : buf'[u] = buf[u]
  BY <1>4, <1>5 DEF IInv, TypeOK
<1> HIDE DEF c
<1>7. \/ /\ lines' = lines
         /\ tail' \in Seq(Piece)
         /\ Progress(pc, c, tail', buf'[t])
         /\ pc = "flush" => buf'[t] # << >>
      \/ /\ pc = "flush"
         /\ lines' = Append(lines, Log!Line(c))
         /\ tail' = << >> /\ buf'[t] = << >>
  <2>1. CASE Head(buf[t]).part # "body"
    <3>1. lines' = lines /\ tail' = Append(tail, Head(buf[t]))
      BY <2>1, <1>4 DEF Write
    <3>2. Progress(pc, c, Append(tail, Head(buf[t])), Tail(buf[t])) /\ (pc = "flush" => Tail(buf[t]) # << >>)
      BY <2>1, <1>2, <1>3, <1>4, ProgressDrain
    <3>3. Append(tail, Head(buf[t])) \in Seq(Piece)
      BY <1>4, <1>5
    <3> QED
      BY <3>1, <3>2, <3>3, <1>6
  <2>2. CASE Head(buf[t]).part = "body"
    <3>1. lines' = Append(lines, Append(tail, Head(buf[t]))) /\ tail' = << >>
      BY <2>2, <1>4 DEF Write
    <3>2. pc = "flush" /\ Append(tail, Head(buf[t])) = Log!Line(c) /\ Tail(buf[t]) = << >>
      BY <2>2, <1>2, <1>3, <1>4, ProgressDrain
    <3> QED
      BY <3>1, <3>2, <1>6
  <2> QED
    BY <2>1, <2>2
<1>8. stack[t][1].call = c
  BY DEF c
<1> QED
  BY <1>2, <1>3, <1>4, <1>6, <1>7, <1>8

\* A line tells its call.
LEMMA LineInjective ==
    ASSUME NEW c \in Call, NEW d \in Call, Log!Line(c) = Log!Line(d)
    PROVE  c = d
  BY DEF Log!Line

LEMMA LineTyped == ASSUME NEW c \in Call PROVE Log!Line(c) \in Seq(Piece)
  BY DEF Log!Line, Piece, Printing

LEMMA DrainInv == ASSUME IInv, NEW t \in Thread, Drain(t) PROVE IInv'
<1>1. PICK pc \in InStdio, c \in Call :
              /\ log_mutex = t
              /\ 1 \in 1 .. Len(stack[t]) /\ stack[t][1].pc = pc /\ stack[t][1].call = c
              /\ \A i \in 2 .. Len(stack[t]) : stack[t][i].pc = "lock"
              /\ \A u \in Thread \ {t} : /\ buf[u] = << >>
                                         /\ \A i \in 1 .. Len(stack[u]) : stack[u][i].pc = "lock"
              /\ buf' \in [Thread -> Seq(Piece)]
              /\ \A u \in Thread \ {t} : buf'[u] = buf[u]
              /\ buf[t] # << >>
              /\ UNCHANGED << log_mutex, stack, clock >>
              /\ \/ /\ lines' = lines
                    /\ tail' \in Seq(Piece)
                    /\ Progress(pc, c, tail', buf'[t])
                    /\ pc = "flush" => buf'[t] # << >>
                 \/ /\ pc = "flush"
                    /\ lines' = Append(lines, Log!Line(c))
                    /\ tail' = << >> /\ buf'[t] = << >>
  BY DrainCases
<1>2. StackInv' /\ MutexInv'
  BY <1>1 DEF IInv, StackInv, MutexInv
<1>3. StreamsClean'
  BY <1>1, LoggingAssumption DEF IInv, StreamsClean
<1>4. \A u \in Thread : \A i \in 1 .. Len(stack[u]) : stack[u][i].pc \in Inside => u = t /\ i = 1
  <2> SUFFICES ASSUME NEW u \in Thread, NEW i \in 1 .. Len(stack[u]), ~ (u = t /\ i = 1)
               PROVE  stack[u][i].pc = "lock"
    BY DEF Inside, Printing
  <2>1. u = t => i \in 2 .. Len(stack[t])
    BY FramesTyped DEF IInv
  <2> QED
    BY <1>1, <2>1
<1>5. lines \in Seq(Seq(Piece))
  BY DEF IInv, TypeOK
<1>6. CASE lines' = lines /\ tail' \in Seq(Piece) /\ Progress(pc, c, tail', buf'[t])
  <2>1. TypeOK'
    BY <1>1, <1>6 DEF IInv, TypeOK
  <2>2. ProgressInv'
    BY <1>1, <1>4, <1>6 DEF ProgressInv
  <2>3. LinesInv'
    BY <1>1, <1>6 DEF IInv, LinesInv
  <2>4. UnloggedInv'
    <3>1. \A u \in Thread : \A i \in 1 .. Len(stack[u]) :
            Unfinished(u, stack[u][i].pc)' => Unfinished(u, stack[u][i].pc)
      BY <1>1, <1>4 DEF Unfinished, Inside
    <3> QED
      BY <3>1, <1>1, <1>6 DEF IInv, UnloggedInv, Log!Logged, Unfinished
  <2> QED
    BY <1>2, <1>3, <2>1, <2>2, <2>3, <2>4 DEF IInv
<1>7. CASE /\ pc = "flush" /\ lines' = Append(lines, Log!Line(c)) /\ tail' = << >> /\ buf'[t] = << >>
  <2>1. /\ lines' \in Seq(Seq(Piece)) /\ Len(lines') = Len(lines) + 1
        /\ \A i \in 1 .. Len(lines) : lines'[i] = lines[i]
        /\ lines'[Len(lines) + 1] = Log!Line(c)
    BY <1>5, <1>7, LineTyped
  <2>2. TypeOK'
    BY <1>1, <1>7, <2>1 DEF IInv, TypeOK
  <2>3. ProgressInv'
    BY <1>1, <1>4, <1>7 DEF ProgressInv, Progress
  <2>4. LinesInv'
    <3> SUFFICES ASSUME NEW i \in 1 .. Len(lines')
                 PROVE  \E d \in Call : d.time < clock /\ lines'[i] = Log!Line(d)
      BY <1>1 DEF LinesInv
    <3>1. CASE i = Len(lines) + 1
      <4>1. c.time < clock
        BY <1>1 DEF IInv, StackInv
      <4> QED
        BY <2>1, <3>1, <4>1
    <3>2. CASE i # Len(lines) + 1
      <4>1. i \in 1 .. Len(lines)
        BY <1>5, <2>1, <3>2
      <4> QED
        BY <2>1, <4>1 DEF IInv, LinesInv
    <3> QED
      BY <3>1, <3>2
  <2>5. UnloggedInv'
    <3> SUFFICES ASSUME NEW u \in Thread, NEW i \in 1 .. Len(stack[u]), Unfinished(u, stack[u][i].pc)',
                        NEW k \in 1 .. Len(lines'), lines'[k] = Log!Line(stack[u][i].call)
                 PROVE  FALSE
      BY <1>1 DEF UnloggedInv, Log!Logged, Unfinished
    <3>1. ~ (u = t /\ i = 1)
      BY <1>1, <1>7 DEF Unfinished, Printing
    <3>2. stack[u][i].pc = "lock" /\ stack[u][i].call \in Call
      <4>1. stack[u][i].pc \in Labels /\ stack[u][i].call \in Call
        BY FramesTyped DEF IInv
      <4> QED
        BY <3>1, <4>1, <1>4 DEF Labels
    <3>3. ~ Log!Logged(stack[u][i].call)
      BY <3>2 DEF IInv, UnloggedInv, Unfinished
    <3>4. k = Len(lines) + 1
      <4>1. k \notin 1 .. Len(lines)
        BY <2>1, <3>3 DEF Log!Logged
      <4> QED
        BY <1>5, <2>1, <4>1
    <3>5. c = stack[u][i].call
      BY <2>1, <3>2, <3>4, LineInjective
    <3>6. u = t /\ i # 1
      <4>1. stack[t][1].call.thread = t
        BY <1>1 DEF IInv, StackInv
      <4>2. stack[u][i].call.thread = u
        BY DEF IInv, StackInv
      <4> QED
        BY <1>1, <3>1, <3>5, <4>1, <4>2
    <3> QED
      BY <1>1, <3>5, <3>6 DEF IInv, StackInv
  <2> QED
    BY <1>2, <1>3, <2>2, <2>3, <2>4, <2>5 DEF IInv
<1> QED
  BY <1>1, <1>6, <1>7
------------------------------------------------------------------------------
\* The invariant holds in every reachable state, whatever the bounds.
THEOREM Invariance == Spec => []IInv
<1>1. IInv /\ [Next]_vars => IInv'
  <2> SUFFICES ASSUME IInv, [Next]_vars PROVE IInv'
    OBVIOUS
  <2>1. ASSUME NEW t \in Thread, Begin(t) \/ Step(t) \/ Cancel(t) PROVE IInv'
    BY <2>1, BeginInv, LockInv, FprintfInv, DrainInv, FlushInv, UnlockInv, CancelInv DEF Step
  <2>2. CASE UNCHANGED vars
    BY <2>2 DEF vars, IInv, TypeOK, StackInv, MutexInv, StreamsClean, ProgressInv, LinesInv,
                UnloggedInv, Unfinished, Log!Logged
  <2> QED
    BY <2>1, <2>2 DEF Next
<1> QED
  BY InitInv, <1>1, PTL DEF Spec

\* Every variable keeps its type (module Logging).
THEOREM TypeCorrect == Spec => []TypeOK
<1>1. IInv => TypeOK
  BY DEF IInv
<1> QED
  BY Invariance, <1>1, PTL

\* While the mutex is free the log ends with a newline, and only the stream of
\* its owner ever holds text back (logging.c:61-70).
THEOREM Clean == Spec => []StreamsClean
<1>1. IInv => StreamsClean
  BY DEF IInv
<1> QED
  BY Invariance, <1>1, PTL

\* log_varg() implements the atomic log that logging.h:47-52 promises: every
\* step appends one whole line of a call not logged before, or changes nothing.
THEOREM Refinement == Spec => AtomicLines
<1>1. Init => Log!Init
  BY DEF Init, Log!Init
<1>2. IInv /\ [Next]_vars => [Log!Next]_lines
  <2> SUFFICES ASSUME IInv, [Next]_vars PROVE Log!Next \/ UNCHANGED lines
    OBVIOUS
  <2>1. ASSUME NEW t \in Thread, Drain(t) PROVE Log!Next \/ UNCHANGED lines
    <3>1. PICK pc \in InStdio, c \in Call :
              /\ 1 \in 1 .. Len(stack[t]) /\ stack[t][1].pc = pc /\ stack[t][1].call = c
              /\ buf[t] # << >>
              /\ \/ lines' = lines
                 \/ pc = "flush" /\ lines' = Append(lines, Log!Line(c))
      BY <2>1, DrainCases
    <3>2. CASE pc = "flush" /\ lines' = Append(lines, Log!Line(c))
      <4>1. ~ Log!Logged(c)
        BY <3>1, <3>2 DEF IInv, UnloggedInv, Unfinished
      <4> QED
        BY <3>2, <4>1 DEF Log!Next, Log!LogLine
    <3> QED
      BY <3>1, <3>2
  <2>2. ASSUME NEW t \in Thread, Begin(t) \/ Lock(t) \/ Fprintf(t) \/ Flush(t) \/ Unlock(t) \/ Cancel(t)
        PROVE  UNCHANGED lines
    BY <2>2 DEF Begin, Lock, Fprintf, Flush, Unlock, Cancel
  <2>3. CASE UNCHANGED vars
    BY <2>3 DEF vars
  <2> QED
    BY <2>1, <2>2, <2>3 DEF Next, Step
<1> QED
  BY Invariance, <1>1, <1>2, PTL DEF Spec, AtomicLines, Log!Spec
==============================================================================
