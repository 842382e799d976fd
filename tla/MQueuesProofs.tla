----------------------------- MODULE MQueuesProofs -----------------------------
(***************************************************************************)
(* Proofs about MQueues: its types, and from whom the messages come, for   *)
(* every capacity of the queues and every number of executions.            *)
(***************************************************************************)
EXTENDS MQueues, MessagesProofs

Text(p) == Flat(Sent[p])
Line(p) == msg_to_str(Sent[p])

\* The inductive invariant: the queues that are in use exist, one for each
\* execution and name; ...
Pending(p) == IF pc[p] = "create" THEN 1 ELSE 0

NumbersOK == /\ run \in 1 .. MaxRuns
             /\ made \in Nat
             /\ made + Pending("parent") + Pending("child") <= 2 * run
             /\ pc \in [Process -> Label]
             /\ name \in [Process -> Nat]
             /\ own \in [Process -> Nat]
             /\ out \in [Process -> Nat]
             /\ \A p \in Process : name[p] <= made /\ own[p] <= made /\ out[p] <= made

\* ... a process reads from the queue under its name and writes to one that it
\* has opened; ...
Opened == {"open", "retry", "spin", "send", "receive", "unlink"}

PlacesOK == \A p \in Process :
    /\ pc[p] \in Opened => own[p] # None /\ own[p] = name[p]
    /\ pc[p] = "send" => out[p] # None
    /\ pc[p] \in {"create", "open", "retry", "spin"} => out[p] = None

\* ... the parent's queues are neither the child's nor the one it writes to; ...
ApartOK == \A q \in {name["parent"], own["parent"]} :
              q # None => q \notin {name["child"], own["child"], out["parent"]}

\* ... queues hold what was sent, and none before they are created; ...
QueuesOK == /\ queue \in [Queue -> Seq(Payload)]
            /\ \A q \in Queue : Len(queue[q]) <= MaxMsgCount
            /\ \A q \in Queue : q > made => queue[q] = << >>

\* ... the parent's hold nothing but the child's messages and, in a fresh system,
\* the child's nothing but the parent's, unless the child sends to itself; ...
AllFrom(p, s) == \A i \in 1 .. Len(s) : s[i] = Text(p)

SendersOK == /\ \A q \in {name["parent"], own["parent"]} : q # None => AllFrom("child", queue[q])
             /\ run = 1 /\ ~ Misopened =>
                   \A q \in {name["child"], own["child"]} : q # None => AllFrom("parent", queue[q])

\* ... and what is printed is what was received.
PrintedOK == /\ printed \in [Process -> {Nothing, Line("parent"), Line("child")}]
             /\ printed["parent"] # Line("parent")
             /\ run = 1 /\ printed["child"] = Line("child") => Misopened

BufferOK == msg_buf \in [Process -> Buffer]

IInv == NumbersOK /\ PlacesOK /\ ApartOK /\ QueuesOK /\ SendersOK /\ PrintedOK /\ BufferOK

\* p's message in a buffer.
LEMMA Buffers ==
    ASSUME NEW p \in Process, NEW b \in Buffer
    PROVE  /\ Overwrite(b, Text(p)) \in Buffer
           /\ msgbuf_to_msg(Overwrite(b, Text(p))) = Sent[p]
           /\ SubSeq(msg_to_msgbuf(b, Sent[p]), 1, HeaderSize + Sent[p].data_len) = Text(p)
  BY SentBuffer, MQueuesAssumption DEF Process, Buffer, Text

LEMMA QueueNumbers ==
    ASSUME NumbersOK, NEW n \in Nat, n <= made, n # None PROVE n \in Queue
  BY MQueuesAssumption DEF NumbersOK, Pending, Queue, None

LEMMA HeadTail ==
    ASSUME NEW S, NEW s \in Seq(S), s # << >>
    PROVE  /\ Tail(s) \in Seq(S) /\ Len(Tail(s)) = Len(s) - 1 /\ Len(s) >= 1
           /\ Head(s) = s[1] /\ Head(s) \in S
           /\ \A i \in 1 .. Len(Tail(s)) : Tail(s)[i] = s[i + 1] /\ i + 1 \in 1 .. Len(s)
  OBVIOUS

LEMMA AppendCells ==
    ASSUME NEW S, NEW s \in Seq(S), NEW e \in S
    PROVE  /\ Append(s, e) \in Seq(S) /\ Len(Append(s, e)) = Len(s) + 1
           /\ \A i \in 1 .. Len(Append(s, e)) :
                 Append(s, e)[i] = e \/ (i \in 1 .. Len(s) /\ Append(s, e)[i] = s[i])
  OBVIOUS
------------------------------------------------------------------------------
\* Numbers and places.

LEMMA NumbersNext == ASSUME IInv, [Next]_vars PROVE NumbersOK'
<1> USE DEF IInv, NumbersOK, Pending, Process, Label
<1>1. CASE UNCHANGED vars
  BY <1>1 DEF vars
<1>2. CASE Rerun
  BY <1>2, MQueuesAssumption DEF Rerun, Forked, None
<1>3. ASSUME NEW p \in Process, Create(p)
      PROVE  NumbersOK'
  BY <1>3 DEF Create, Goto
<1>4. ASSUME NEW p \in Process, Open(p) \/ Retry(p)
      PROVE  NumbersOK'
  BY <1>4 DEF Open, Retry, TryOpen, Goto, Peer, RetryName, localVars
<1>5. ASSUME NEW p \in Process, Send(p) \/ Receive(p) \/ Unlink(p) \/ OpenFails(p)
      PROVE  NumbersOK'
  BY <1>5, SMTT(40) DEF Send, Put, Receive, Unlink, OpenFails, Goto, None
<1> QED
  BY <1>1, <1>2, <1>3, <1>4, <1>5 DEF Next, Step

LEMMA PlacesNext == ASSUME IInv, [Next]_vars PROVE PlacesOK'
<1> USE DEF IInv, NumbersOK, PlacesOK, Process, Label, Opened, None
<1>1. CASE UNCHANGED vars
  BY <1>1 DEF vars
<1>2. CASE Rerun
  BY <1>2 DEF Rerun, Forked
<1>3. ASSUME NEW p \in Process, Create(p)
      PROVE  PlacesOK'
  BY <1>3 DEF Create, Goto
<1>4. ASSUME NEW p \in Process, Open(p) \/ Retry(p)
      PROVE  PlacesOK'
  BY <1>4 DEF Open, Retry, TryOpen, Goto, Peer, RetryName, localVars
<1>5. ASSUME NEW p \in Process, Send(p) \/ Receive(p) \/ Unlink(p) \/ OpenFails(p)
      PROVE  PlacesOK'
  BY <1>5 DEF Send, Put, Receive, Unlink, OpenFails, Goto
<1> QED
  BY <1>1, <1>2, <1>3, <1>4, <1>5 DEF Next, Step

LEMMA ApartNext == ASSUME IInv, [Next]_vars PROVE ApartOK'
<1> USE DEF IInv, NumbersOK, PlacesOK, ApartOK, Process, Opened, None
<1>1. CASE UNCHANGED vars
  BY <1>1 DEF vars
<1>2. CASE Rerun
  BY <1>2 DEF Rerun
<1>3. ASSUME NEW p \in Process, Create(p)
      PROVE  ApartOK'
  BY <1>3 DEF Create, Goto
<1>4. ASSUME NEW p \in Process, Open(p) \/ Retry(p)
      PROVE  ApartOK'
  BY <1>4 DEF Open, Retry, TryOpen, Goto, Peer, RetryName, localVars
<1>5. ASSUME NEW p \in Process, Send(p) \/ Receive(p) \/ Unlink(p) \/ OpenFails(p)
      PROVE  ApartOK'
  BY <1>5 DEF Send, Put, Receive, Unlink, OpenFails, Goto
<1> QED
  BY <1>1, <1>2, <1>3, <1>4, <1>5 DEF Next, Step
------------------------------------------------------------------------------
\* What sending and receiving do to the queues and the buffers.

LEMMA Texts == ASSUME NEW p \in Process PROVE Text(p) \in Payload
  BY DEF Text, Payload

LEMMA SendStep ==
    ASSUME IInv, NEW p \in Process, Send(p)
    PROVE  /\ out[p] \in Queue
           /\ queue' = [queue EXCEPT ![out[p]] = Append(queue[out[p]], Text(p))]
           /\ Len(queue[out[p]]) < MaxMsgCount
           /\ msg_buf' \in [Process -> Buffer]
<1>1. pc[p] = "send" /\ Put(p, out[p]) /\ Len(queue[out[p]]) < MaxMsgCount
  BY DEF Send
<1>2. out[p] \in Queue
  <2>1. out[p] \in Nat /\ out[p] <= made /\ out[p] # None
    BY <1>1 DEF IInv, NumbersOK, PlacesOK
  <2> QED
    BY <2>1, QueueNumbers DEF IInv
<1>3. msg_buf[p] \in Buffer
  BY DEF IInv, BufferOK
<1>4. queue' = [queue EXCEPT ![out[p]] = Append(queue[out[p]], Text(p))]
  <2>1. queue' = [queue EXCEPT ![out[p]] =
                     Append(queue[out[p]], SubSeq(msg_to_msgbuf(msg_buf[p], Sent[p]), 1,
                                                  HeaderSize + Sent[p].data_len))]
    BY <1>1 DEF Put
  <2> QED
    BY <1>3, <2>1, Buffers
<1>5. msg_buf' \in [Process -> Buffer]
  <2>1. msg_buf' = [msg_buf EXCEPT ![p] = Overwrite(msg_buf[p], Text(p))]
    BY <1>1 DEF Put, msg_to_msgbuf, Text
  <2>2. Overwrite(msg_buf[p], Text(p)) \in Buffer
    BY <1>3, Buffers
  <2> QED
    BY <2>1, <2>2 DEF IInv, BufferOK
<1> QED
  BY <1>1, <1>2, <1>4, <1>5

LEMMA ReceiveStep ==
    ASSUME IInv, NEW p \in Process, Receive(p)
    PROVE  /\ own[p] \in Queue /\ queue[own[p]] \in Seq(Payload) /\ queue[own[p]] # << >>
           /\ queue' = [queue EXCEPT ![own[p]] = Tail(queue[own[p]])]
           /\ msg_buf' \in [Process -> Buffer]
           /\ \E q \in Process : /\ Text(q) = Head(queue[own[p]])
                                 /\ printed' = [printed EXCEPT ![p] = Line(q)]
<1> DEFINE buf == Overwrite(msg_buf[p], Head(queue[own[p]]))
<1>1. own[p] \in Queue
  <2>1. own[p] \in Nat /\ own[p] <= made /\ own[p] # None
    BY DEF IInv, NumbersOK, PlacesOK, Receive, Opened
  <2> QED
    BY <2>1, QueueNumbers DEF IInv
<1>2. queue[own[p]] \in Seq(Payload) /\ queue[own[p]] # << >>
  BY <1>1 DEF IInv, QueuesOK, Receive
<1>3. Head(queue[own[p]]) \in Payload
  BY <1>2, HeadTail
<1>4. PICK q \in Process : Head(queue[own[p]]) = Text(q)
  BY <1>3 DEF Payload, Text
<1>5. msg_buf[p] \in Buffer
  BY DEF IInv, BufferOK
<1>6. buf \in Buffer /\ msgbuf_to_msg(buf) = Sent[q]
  BY <1>4, <1>5, Buffers
<1>7. /\ msg_buf' = [msg_buf EXCEPT ![p] = buf]
      /\ printed' = [printed EXCEPT ![p] = msg_to_str(msgbuf_to_msg(buf))]
      /\ queue' = [queue EXCEPT ![own[p]] = Tail(queue[own[p]])]
  BY DEF Receive
<1> HIDE DEF buf
<1>8. msg_buf' \in [Process -> Buffer]
  BY <1>6, <1>7 DEF IInv, BufferOK
<1>9. printed' = [printed EXCEPT ![p] = Line(q)]
  BY <1>6, <1>7 DEF Line
<1> QED
  BY <1>1, <1>2, <1>4, <1>7, <1>8, <1>9

\* In all other steps they stay as they are.
LEMMA OtherSteps ==
    ASSUME [Next]_vars, \A p \in Process : ~ Send(p) /\ ~ Receive(p)
    PROVE  queue' = queue /\ (Rerun \/ (msg_buf' = msg_buf /\ printed' = printed /\ run' = run))
  BY DEF Next, Step, Rerun, Create, Open, Retry, TryOpen, Unlink, OpenFails, vars, localVars

LEMMA MadeGrows == ASSUME IInv, [Next]_vars PROVE made' \in Nat /\ made' >= made
  BY DEF IInv, NumbersOK, Next, Step, Rerun, Create, Open, Retry, TryOpen, Unlink, OpenFails,
         Send, Put, Receive, vars

LEMMA BufferNext == ASSUME IInv, [Next]_vars PROVE BufferOK'
<1>1. ASSUME NEW p \in Process, Send(p)
      PROVE  BufferOK'
  BY <1>1, SendStep DEF BufferOK
<1>2. ASSUME NEW p \in Process, Receive(p)
      PROVE  BufferOK'
  BY <1>2, ReceiveStep DEF BufferOK
<1>3. CASE Rerun
  <2>1. Unset \in [Process -> Buffer]
    BY DEF Unset, Buffer
  <2> QED
    BY <1>3, <2>1 DEF Rerun, BufferOK
<1>4. CASE msg_buf' = msg_buf
  BY <1>4 DEF IInv, BufferOK
<1> QED
  BY <1>1, <1>2, <1>3, <1>4, OtherSteps

LEMMA QueuesNext == ASSUME IInv, [Next]_vars PROVE QueuesOK'
<1>1. ASSUME NEW p \in Process, Send(p)
      PROVE  QueuesOK'
  <2> DEFINE q == out[p]
             s == Append(queue[q], Text(p))
  <2>1. /\ q \in Queue /\ queue' = [queue EXCEPT ![q] = s] /\ Len(queue[q]) < MaxMsgCount
    BY <1>1, SendStep
  <2>2. queue[q] \in Seq(Payload) /\ Text(p) \in Payload
    BY <2>1, Texts DEF IInv, QueuesOK
  <2>3. s \in Seq(Payload) /\ Len(s) = Len(queue[q]) + 1
    BY <2>2, AppendCells
  <2>4. Len(s) <= MaxMsgCount
    BY <2>1, <2>2, <2>3, MQueuesAssumption
  <2>5. q <= made /\ made' = made
    BY <1>1 DEF IInv, NumbersOK, Send, Put
  <2> HIDE DEF s, q
  <2>6. queue' \in [Queue -> Seq(Payload)]
    BY <2>1, <2>3 DEF IInv, QueuesOK
  <2>7. \A r \in Queue : Len(queue'[r]) <= MaxMsgCount
    BY <2>1, <2>4 DEF IInv, QueuesOK
  <2>8. \A r \in Queue : r > made' => queue'[r] = << >>
    <3> SUFFICES ASSUME NEW r \in Queue, r > made'
                 PROVE  queue'[r] = << >>
      OBVIOUS
    <3>1. r # q /\ r > made
      BY <2>1, <2>5 DEF IInv, NumbersOK, Queue
    <3> QED
      BY <2>1, <3>1 DEF IInv, QueuesOK
  <2> QED
    BY <2>6, <2>7, <2>8 DEF QueuesOK
<1>2. ASSUME NEW p \in Process, Receive(p)
      PROVE  QueuesOK'
  <2> DEFINE q == own[p]
             s == Tail(queue[q])
  <2>1. /\ q \in Queue /\ queue' = [queue EXCEPT ![q] = s]
        /\ queue[q] \in Seq(Payload) /\ queue[q] # << >>
    BY <1>2, ReceiveStep
  <2>2. s \in Seq(Payload) /\ Len(s) = Len(queue[q]) - 1
    BY <2>1, HeadTail
  <2>3. Len(queue[q]) \in Nat /\ Len(queue[q]) <= MaxMsgCount
    BY <2>1 DEF IInv, QueuesOK
  <2>4. Len(s) <= MaxMsgCount
    BY <2>2, <2>3, MQueuesAssumption
  <2>5. made' = made /\ (q > made => queue[q] = << >>)
    BY <1>2, <2>1 DEF IInv, QueuesOK, Receive
  <2> HIDE DEF s, q
  <2>6. queue' \in [Queue -> Seq(Payload)]
    BY <2>1, <2>2 DEF IInv, QueuesOK
  <2>7. \A r \in Queue : Len(queue'[r]) <= MaxMsgCount
    BY <2>1, <2>4 DEF IInv, QueuesOK
  <2>8. \A r \in Queue : r > made' => queue'[r] = << >>
    BY <2>1, <2>5 DEF IInv, QueuesOK
  <2> QED
    BY <2>6, <2>7, <2>8 DEF QueuesOK
<1>3. CASE queue' = queue
  <2>1. \A r \in Queue : r > made' => r > made
    BY MadeGrows DEF IInv, NumbersOK, Queue
  <2> QED
    BY <1>3, <2>1 DEF IInv, QueuesOK
<1> QED
  BY <1>1, <1>2, <1>3, OtherSteps
------------------------------------------------------------------------------
\* Who is the sender.

LEMMA AllChange ==
    ASSUME NEW p \in Process, NEW s \in Seq(Payload), AllFrom(p, s)
    PROVE  /\ AllFrom(p, Append(s, Text(p)))
           /\ s # << >> => AllFrom(p, Tail(s)) /\ Head(s) = Text(p)
<1>1. AllFrom(p, Append(s, Text(p)))
  BY Texts, AppendCells DEF AllFrom
<1>2. ASSUME s # << >>
      PROVE  AllFrom(p, Tail(s)) /\ Head(s) = Text(p)
  <2>1. /\ \A i \in 1 .. Len(Tail(s)) : Tail(s)[i] = s[i + 1] /\ i + 1 \in 1 .. Len(s)
        /\ Head(s) = s[1] /\ Len(s) >= 1
    BY <1>2, HeadTail
  <2>2. 1 \in 1 .. Len(s)
    BY <2>1
  <2> QED
    BY <2>1, <2>2 DEF AllFrom
<1> QED
  BY <1>1, <1>2

LEMMA AllEmpty == ASSUME NEW p \in Process PROVE AllFrom(p, << >>)
  BY DEF AllFrom

\* A queue that is in use has its messages.
LEMMA InUse ==
    ASSUME IInv, NEW p \in Process, NEW q \in {name[p], own[p]}, q # None
    PROVE  q \in Queue /\ queue[q] \in Seq(Payload)
<1>1. q \in Queue
  BY QueueNumbers DEF IInv, NumbersOK
<1> QED
  BY <1>1 DEF IInv, QueuesOK

LEMMA SendersNext == ASSUME IInv, [Next]_vars PROVE SendersOK'
<1>1. CASE Send("parent")
  <2> DEFINE o == out["parent"]
  <2>1. /\ o \in Queue /\ queue' = [queue EXCEPT ![o] = Append(queue[o], Text("parent"))]
    BY <1>1, SendStep DEF Process
  <2>2. UNCHANGED << run, name, own, out >> /\ o # None
    BY <1>1 DEF Send, Put, IInv, PlacesOK, Process
  <2>3. \A q \in {name["parent"], own["parent"]} : q # None => AllFrom("child", queue'[q])
    <3> SUFFICES ASSUME NEW q \in {name["parent"], own["parent"]}, q # None
                 PROVE  AllFrom("child", queue'[q])
      OBVIOUS
    <3>1. q # o
      BY DEF IInv, ApartOK
    <3>2. q \in Queue
      BY InUse DEF Process
    <3>3. queue'[q] = queue[q]
      BY <2>1, <3>1, <3>2 DEF IInv, QueuesOK
    <3> QED
      BY <3>3 DEF IInv, SendersOK
  <2>4. ASSUME run = 1, ~ Misopened, NEW q \in {name["child"], own["child"]}, q # None
        PROVE  AllFrom("parent", queue'[q])
    <3>1. q \in Queue /\ queue[q] \in Seq(Payload)
      BY <2>4, InUse DEF Process
    <3>2. AllFrom("parent", queue[q])
      BY <2>4 DEF IInv, SendersOK
    <3>3. AllFrom("parent", Append(queue[q], Text("parent")))
      BY <3>1, <3>2, AllChange DEF Process
    <3>4. queue'[q] = IF q = o THEN Append(queue[q], Text("parent")) ELSE queue[q]
      BY <2>1, <3>1 DEF IInv, QueuesOK
    <3> QED
      BY <3>2, <3>3, <3>4
  <2> QED
    BY <2>2, <2>3, <2>4 DEF SendersOK, Misopened
<1>2. CASE Send("child")
  <2> DEFINE o == out["child"]
  <2>1. /\ o \in Queue /\ queue' = [queue EXCEPT ![o] = Append(queue[o], Text("child"))]
    BY <1>2, SendStep DEF Process
  <2>2. /\ UNCHANGED << run, name, own, out >> /\ o # None
        /\ own["child"] = name["child"]
    BY <1>2 DEF Send, Put, IInv, PlacesOK, Process, Opened
  <2>3. \A q \in {name["parent"], own["parent"]} : q # None => AllFrom("child", queue'[q])
    <3> SUFFICES ASSUME NEW q \in {name["parent"], own["parent"]}, q # None
                 PROVE  AllFrom("child", queue'[q])
      OBVIOUS
    <3>1. q \in Queue /\ queue[q] \in Seq(Payload)
      BY InUse DEF Process
    <3>2. AllFrom("child", queue[q])
      BY DEF IInv, SendersOK
    <3>3. AllFrom("child", Append(queue[q], Text("child")))
      BY <3>1, <3>2, AllChange DEF Process
    <3>4. queue'[q] = IF q = o THEN Append(queue[q], Text("child")) ELSE queue[q]
      BY <2>1, <3>1 DEF IInv, QueuesOK
    <3> QED
      BY <3>2, <3>3, <3>4
  <2>4. ASSUME run = 1, ~ Misopened, NEW q \in {name["child"], own["child"]}, q # None
        PROVE  AllFrom("parent", queue'[q])
    <3>1. q # o
      BY <2>2, <2>4 DEF Misopened
    <3>2. q \in Queue
      BY <2>4, InUse DEF Process
    <3>3. queue'[q] = queue[q]
      BY <2>1, <3>1, <3>2 DEF IInv, QueuesOK
    <3> QED
      BY <2>4, <3>3 DEF IInv, SendersOK
  <2> QED
    BY <2>2, <2>3, <2>4 DEF SendersOK, Misopened
<1>3. ASSUME NEW p \in Process, Receive(p)
      PROVE  SendersOK'
  <2> DEFINE o == own[p]
  <2>1. /\ o \in Queue /\ queue[o] # << >> /\ queue[o] \in Seq(Payload)
        /\ queue' = [queue EXCEPT ![o] = Tail(queue[o])]
    BY <1>3, ReceiveStep
  <2>2. UNCHANGED << run, name, own, out >>
    BY <1>3 DEF Receive
  <2>3. ASSUME NEW c \in Process, NEW q \in Queue, AllFrom(c, queue[q])
        PROVE  AllFrom(c, queue'[q])
    <3>1. queue'[q] = IF q = o THEN Tail(queue[o]) ELSE queue[q]
      BY <2>1 DEF IInv, QueuesOK
    <3>2. q = o => AllFrom(c, Tail(queue[o]))
      BY <2>1, <2>3, AllChange
    <3> QED
      BY <2>3, <3>1, <3>2
  <2>4. \A c \in Process : \A q \in {name[c], own[c]} : q # None => q \in Queue
    BY InUse
  <2> QED
    BY <2>2, <2>3, <2>4 DEF IInv, SendersOK, Misopened, Process
<1>4. CASE queue' = queue
  <2>1. CASE Rerun
    <3>1. run' # 1
      BY <2>1, MQueuesAssumption DEF Rerun, IInv, NumbersOK
    <3> QED
      BY <1>4, <2>1, <3>1 DEF Rerun, IInv, SendersOK, Process
  <2>2. ASSUME NEW p \in Process, Create(p)
        PROVE  SendersOK'
    <3>1. run' = run /\ out' = out
      BY <2>2 DEF Create
    <3>2. Misopened' = Misopened
      BY <2>2, <3>1 DEF Create, Misopened, IInv, NumbersOK, PlacesOK, Process, None
    <3>3. CASE name[p] # None
      BY <1>4, <2>2, <3>1, <3>2, <3>3
         DEF Create, IInv, SendersOK, NumbersOK, Process
    <3>4. CASE name[p] = None
      <4>1. /\ name' = [name EXCEPT ![p] = made + 1]
            /\ own' = [own EXCEPT ![p] = made + 1]
            /\ made' = made + 1
        BY <2>2, <3>4 DEF Create
      <4>2. made + 1 \in Nat /\ made + 1 # None /\ made + 1 \in Queue
        <5>1. made + 1 <= 2 * run
          BY <2>2 DEF Create, IInv, NumbersOK, Pending, Process
        <5> QED
          BY <5>1, MQueuesAssumption DEF IInv, NumbersOK, None, Queue
      <4>3. queue[made + 1] = << >>
        BY <4>2 DEF IInv, NumbersOK, QueuesOK
      <4>4. \A c \in Process : AllFrom(c, queue[made + 1])
        BY <4>3, AllEmpty
      <4>5. \A c \in Process : /\ name'[c] = IF c = p THEN made + 1 ELSE name[c]
                               /\ own'[c] = IF c = p THEN made + 1 ELSE own[c]
        BY <4>1 DEF IInv, NumbersOK
      <4> QED
        BY <1>4, <3>1, <3>2, <4>4, <4>5 DEF IInv, SendersOK, Process
    <3> QED
      BY <3>3, <3>4
  <2>3. ASSUME NEW p \in Process, Open(p) \/ Retry(p)
        PROVE  SendersOK'
    <3>1. UNCHANGED << run, name, own >>
      BY <2>3 DEF Open, Retry, TryOpen
    <3>2. Misopened => Misopened'
      <4>1. CASE out' = out
        BY <3>1, <4>1 DEF Misopened
      <4>2. CASE out' # out
        <5>1. out[p] = None /\ \A c \in Process \ {p} : out'[c] = out[c]
          BY <2>3, <4>2 DEF Open, Retry, TryOpen, IInv, NumbersOK, PlacesOK
        <5> QED
          BY <3>1, <5>1 DEF Misopened, Process
      <4> QED
        BY <4>1, <4>2
    <3> QED
      BY <1>4, <3>1, <3>2 DEF IInv, SendersOK
  <2>4. ASSUME NEW p \in Process, Unlink(p) \/ OpenFails(p)
        PROVE  SendersOK'
    BY <1>4, <2>4 DEF Unlink, OpenFails, IInv, SendersOK, Misopened, NumbersOK, Process
  <2>5. CASE UNCHANGED vars
    BY <2>5 DEF vars, IInv, SendersOK, Misopened
  <2>6. ASSUME NEW p \in Process, Send(p) \/ Receive(p)
        PROVE  SendersOK'
    BY <1>1, <1>2, <1>3, <2>6 DEF Process
  <2> QED
    BY <2>1, <2>2, <2>3, <2>4, <2>5, <2>6 DEF Next, Step
<1> QED
  BY <1>1, <1>2, <1>3, <1>4, OtherSteps DEF Process
LEMMA Lines == Nothing # Line("parent") /\ Nothing # Line("child") /\ Line("parent") # Line("child")
  BY Authors DEF Line

LEMMA TextsDiffer == Text("parent") # Text("child")
  BY FlatsDiffer DEF Text

LEMMA PrintedNext == ASSUME IInv, [Next]_vars PROVE PrintedOK'
<1>1. CASE Receive("parent")
  <2> DEFINE s == queue[own["parent"]]
  <2>1. s \in Seq(Payload) /\ s # << >>
    BY <1>1, ReceiveStep DEF Process
  <2>2. PICK q \in Process : /\ Text(q) = Head(s)
                             /\ printed' = [printed EXCEPT !["parent"] = Line(q)]
    BY <1>1, ReceiveStep DEF Process
  <2>3. own["parent"] # None
    BY <1>1 DEF Receive, IInv, PlacesOK, Process, Opened
  <2>4. AllFrom("child", s)
    BY <2>3 DEF IInv, SendersOK
  <2> HIDE DEF s
  <2>5. Head(s) = Text("child")
    BY <2>1, <2>4, AllChange DEF Process
  <2>6. q = "child"
    BY <2>2, <2>5, TextsDiffer DEF Process
  <2>7. UNCHANGED << run, own, out >>
    BY <1>1 DEF Receive
  <2> QED
    BY <2>2, <2>6, <2>7, Lines DEF IInv, PrintedOK, Misopened, Process
<1>2. CASE Receive("child")
  <2> DEFINE s == queue[own["child"]]
  <2>1. s \in Seq(Payload) /\ s # << >>
    BY <1>2, ReceiveStep DEF Process
  <2>2. PICK q \in Process : /\ Text(q) = Head(s)
                             /\ printed' = [printed EXCEPT !["child"] = Line(q)]
    BY <1>2, ReceiveStep DEF Process
  <2>3. own["child"] # None
    BY <1>2 DEF Receive, IInv, PlacesOK, Process, Opened
  <2>4. UNCHANGED << run, own, out >>
    BY <1>2 DEF Receive
  <2>5. ASSUME run = 1, ~ Misopened
        PROVE  q = "parent"
    <3>1. AllFrom("parent", s)
      BY <2>3, <2>5 DEF IInv, SendersOK
    <3> HIDE DEF s
    <3>2. Head(s) = Text("parent")
      BY <2>1, <3>1, AllChange DEF Process
    <3> QED
      BY <2>2, <3>2, TextsDiffer DEF Process
  <2> QED
    BY <2>2, <2>4, <2>5, Lines DEF IInv, PrintedOK, Misopened, Process
<1>3. CASE Rerun
  <2>1. printed' = [p \in Process |-> Nothing]
    BY <1>3 DEF Rerun
  <2> QED
    BY <2>1, Lines DEF PrintedOK, Process
<1>4. CASE printed' = printed /\ run' = run
  <2>1. run = 1 /\ printed["child"] = Line("child") => Misopened'
    <3> SUFFICES ASSUME run = 1, printed["child"] = Line("child"), Misopened
                 PROVE  Misopened'
      BY DEF IInv, PrintedOK
    <3>1. out["child"] # None /\ own["child"] = out["child"]
      BY DEF Misopened
    <3>2. pc["child"] \notin {"create", "open", "retry"}
      BY <3>1 DEF IInv, PlacesOK, Process
    <3>3. out'["child"] = out["child"] /\ own'["child"] = own["child"]
      <4>1. ~ Create("child") /\ ~ Open("child") /\ ~ Retry("child") /\ ~ Rerun
        BY <1>4, <3>2, MQueuesAssumption
           DEF Create, Open, Retry, TryOpen, Rerun, IInv, NumbersOK
      <4>2. CASE UNCHANGED << out, own >>
        BY <4>2
      <4>3. CASE Create("parent") \/ Open("parent") \/ Retry("parent")
        BY <4>3 DEF Create, Open, Retry, TryOpen, IInv, NumbersOK, Process
      <4> QED
        BY <4>1, <4>2, <4>3
           DEF Next, Step, Send, Put, Receive, Unlink, OpenFails, vars, Process
    <3> QED
      BY <3>1, <3>3 DEF Misopened
  <2> QED
    BY <1>4, <2>1 DEF IInv, PrintedOK
<1>5. ASSUME NEW p \in Process, Send(p)
      PROVE  printed' = printed /\ run' = run
  BY <1>5 DEF Send, Put
<1> QED
  BY <1>1, <1>2, <1>3, <1>4, <1>5, OtherSteps DEF Process

LEMMA Invariance == Spec => []IInv
<1>1. Init => IInv
  <2>1. SUFFICES ASSUME Init PROVE IInv
    OBVIOUS
  <2>2. NumbersOK
    BY <2>1, MQueuesAssumption DEF Init, Forked, NumbersOK, Pending, Process, Label, None
  <2>3. PlacesOK /\ ApartOK
    BY <2>1 DEF Init, Forked, PlacesOK, ApartOK, Process, Opened, None
  <2>4. QueuesOK
    BY <2>1, MQueuesAssumption DEF Init, QueuesOK
  <2>5. SendersOK
    BY <2>1 DEF Init, SendersOK, Process, None
  <2>6. PrintedOK
    BY <2>1, Lines DEF Init, PrintedOK, Process
  <2>7. BufferOK
    BY <2>1 DEF Init, Unset, Buffer, BufferOK
  <2> QED
    BY <2>2, <2>3, <2>4, <2>5, <2>6, <2>7 DEF IInv
<1>2. IInv /\ [Next]_vars => IInv'
  BY NumbersNext, PlacesNext, ApartNext, QueuesNext, SendersNext, PrintedNext, BufferNext
     DEF IInv
<1> QED
  BY <1>1, <1>2, PTL DEF Spec

\* Every variable of MQueues has its type in every reachable state: a run creates
\* at most two queues, none ever holds more than MAX_MSG_COUNT messages, and each
\* message is one that was sent as a whole (hw4p2_mqueues.c).
THEOREM TypeCorrect == Spec => []TypeOK
<1>1. ASSUME IInv PROVE TypeOK
  <2>1. made \in 0 .. 2 * MaxRuns
    BY <1>1, MQueuesAssumption DEF IInv, NumbersOK, Pending
  <2>2. \A p \in Process : /\ name[p] \in Queue \cup {None}
                           /\ own[p] \in Queue \cup {None}
                           /\ out[p] \in Queue \cup {None}
    BY <1>1, QueueNumbers DEF IInv, NumbersOK, None
  <2>3. /\ name \in [Process -> Queue \cup {None}]
        /\ own \in [Process -> Queue \cup {None}]
        /\ out \in [Process -> Queue \cup {None}]
    BY <1>1, <2>2 DEF IInv, NumbersOK
  <2>4. printed \in [Process -> Seq(Nat)]
    <3>1. \A p \in Process : printed[p] \in Seq(Nat)
      <4>1. Nothing \in Seq(Nat)
        BY DEF Nothing
      <4>2. Line("parent") \in Seq(Nat) /\ Line("child") \in Seq(Nat)
        BY Authors DEF Line
      <4> QED
        BY <1>1, <4>1, <4>2 DEF IInv, PrintedOK
    <3> QED
      BY <1>1, <3>1 DEF IInv, PrintedOK
  <2>5. run \in 1 .. MaxRuns /\ pc \in [Process -> Label]
    BY <1>1 DEF IInv, NumbersOK
  <2> QED
    BY <1>1, <2>1, <2>3, <2>4, <2>5 DEF TypeOK, IInv, QueuesOK, BufferOK
<1> QED
  BY <1>1, Invariance, PTL

\* Whatever earlier executions left in the queues, the parent prints only the
\* child's message; in a fresh system the child prints its own only if it has
\* opened its own queue for writing, after an mq_open() that came too early
\* (hw4p2_mqueues.c:102-129, 161-200).
THEOREM ProvenanceHolds == Spec => []Provenance
<1>1. ASSUME IInv PROVE Provenance
  <2>1. /\ \A p \in Process : got[p] = Author(printed[p])
        /\ Author(Nothing) = "nobody"
        /\ Author(Line("parent")) = "parent" /\ Author(Line("child")) = "child"
    BY Authors DEF got, Line
  <2>2. printed["parent"] \in {Nothing, Line("child")}
    BY <1>1 DEF IInv, PrintedOK, Process
  <2>3. printed["child"] \in {Nothing, Line("parent"), Line("child")}
    BY <1>1 DEF IInv, PrintedOK, Process
  <2>4. run = 1 /\ got["child"] = "child" => Misopened
    <3> SUFFICES ASSUME run = 1, got["child"] = "child"
                 PROVE  Misopened
      OBVIOUS
    <3>1. printed["child"] = Line("child")
      BY <2>1, <2>3 DEF Process
    <3> QED
      BY <1>1, <3>1 DEF IInv, PrintedOK
  <2> QED
    BY <2>1, <2>2, <2>3, <2>4 DEF Provenance, Process
<1> QED
  BY <1>1, Invariance, PTL
==============================================================================
