----------------------------- MODULE SocketsProofs -----------------------------
(***************************************************************************)
(* Proofs about Sockets: its types, and that it implements Exchange for    *)
(* every length of the text, every number of executions and every choice   *)
(* of the calls that may fail; and, at the end, about Pipes: its types,    *)
(* and that only the death of a process lets the other one print garbage.  *)
(***************************************************************************)
EXTENDS Sockets, Pipes, MessagesProofs

\* The one message that p can be sent, the mail that holds it, and the line that
\* p prints for it.
FromPeer(p) == Flat(Sent[Peer[p]])
Mail(p)     == << FromPeer(p) >>
Line(p)     == msg_to_str(Sent[Peer[p]])

\* Where a process is once it has sent its message, and once it has received
\* that of the other.
AfterSend == [parent |-> {"close", "remove", "done", "failed"},
              child  |-> {"receive", "close", "remove", "done", "failed"}]
AfterMail == [parent |-> {"send", "close", "remove", "done", "failed"},
              child  |-> {"close", "remove", "done", "failed"}]

\* The inductive invariant: a process is sent one message, by the other one, and
\* not before that one has come to where it sends; it prints nothing else.
ControlOK == /\ run \in 1 .. MaxRuns
             /\ pc \in [Process -> Label]
             /\ path \in [Process -> {"absent", "bound", "closed"}]

BufferOK == msg_buf \in [Process -> Buffer]

InboxOK == /\ inbox \in [Process -> {<< >>, Mail("parent"), Mail("child")}]
           /\ \A p \in Process : inbox[p] \in {<< >>, Mail(p)}
           /\ \A p \in Process : inbox[Peer[p]] # << >> => pc[p] \in AfterSend[p]

PrintedOK == /\ printed \in [Process -> {Nothing, Line("parent"), Line("child")}]
             /\ \A p \in Process : printed[p] \in {Nothing, Line(p)}
             /\ \A p \in Process : printed[p] # Nothing => pc[p] \in AfterMail[p]

IInv == ControlOK /\ BufferOK /\ InboxOK /\ PrintedOK

LEMMA Peers == \A p \in Process : Peer[p] \in Process /\ Peer[p] # p /\ Peer[Peer[p]] = p
  BY DEF Process, Peer

\* p's message in a buffer.
LEMMA Buffers ==
    ASSUME NEW p \in Process, NEW b \in Buffer
    PROVE  /\ Overwrite(b, Flat(Sent[p])) \in Buffer
           /\ msgbuf_to_msg(Overwrite(b, Flat(Sent[p]))) = Sent[p]
           /\ SubSeq(msg_to_msgbuf(b, Sent[p]), 1, HeaderSize + Sent[p].data_len) = Flat(Sent[p])
  BY SentBuffer, SocketsAssumption DEF Process, Buffer

LEMMA Mails ==
    ASSUME NEW p \in Process
    PROVE  /\ Mail(p) # << >> /\ Head(Mail(p)) = FromPeer(p) /\ Tail(Mail(p)) = << >>
           /\ Append(<< >>, FromPeer(p)) = Mail(p)
           /\ Mail(p) \in Seq(Payload) /\ Len(Mail(p)) = 1
<1>1. FromPeer(p) \in Payload
  BY Peers DEF FromPeer, Payload
<1> HIDE DEF FromPeer
<1> QED
  BY <1>1 DEF Mail
------------------------------------------------------------------------------
\* What a process is sent and prints.

LEMMA ReceiveStep ==
    ASSUME IInv, NEW p \in Process, Receive(p)
    PROVE  /\ msg_buf' \in [Process -> Buffer]
           /\ printed' = [printed EXCEPT ![p] = Line(p)]
           /\ inbox' = [inbox EXCEPT ![p] = << >>]
<1> DEFINE q == Peer[p]
           buf == Overwrite(msg_buf[p], Head(inbox[p]))
<1>1. q \in Process
  BY Peers
<1>2. inbox[p] = Mail(p)
  BY DEF Receive, IInv, InboxOK
<1>3. Head(inbox[p]) = Flat(Sent[q]) /\ Tail(inbox[p]) = << >>
  BY <1>2, Mails DEF FromPeer
<1>4. msg_buf[p] \in Buffer
  BY DEF IInv, BufferOK
<1>5. buf \in Buffer
  BY <1>1, <1>3, <1>4, Buffers
<1>6. msgbuf_to_msg(buf) = Sent[q]
  BY <1>1, <1>3, <1>4, Buffers
<1>7. /\ msg_buf' = [msg_buf EXCEPT ![p] = buf]
      /\ printed' = [printed EXCEPT ![p] = msg_to_str(msgbuf_to_msg(buf))]
      /\ inbox' = [inbox EXCEPT ![p] = Tail(inbox[p])]
  BY DEF Receive
<1> HIDE DEF buf
<1>8. msg_buf' \in [Process -> Buffer]
  BY <1>5, <1>7 DEF IInv, BufferOK
<1> QED
  BY <1>3, <1>6, <1>7, <1>8 DEF Line

LEMMA SerializeStep ==
    ASSUME IInv, NEW p \in Process, Serialize(p)
    PROVE  msg_buf' \in [Process -> Buffer]
<1>1. msg_buf[p] \in Buffer
  BY DEF IInv, BufferOK
<1>2. Serialized(p) \in Buffer
  BY <1>1, Buffers DEF Serialized, msg_to_msgbuf
<1> QED
  BY <1>2 DEF Serialize, IInv, BufferOK

LEMMA DeliverStep ==
    ASSUME IInv, NEW p \in Process, Deliver(p), pc[p] \notin AfterSend[p]
    PROVE  inbox' = [inbox EXCEPT ![Peer[p]] = Mail(Peer[p])]
<1> DEFINE q == Peer[p]
<1>1. q \in Process /\ Peer[q] = p
  BY Peers
<1>2. inbox[q] = << >>
  BY DEF IInv, InboxOK
<1>3. msg_buf[p] \in Buffer
  BY DEF IInv, BufferOK
<1>4. SubSeq(Serialized(p), 1, HeaderSize + Sent[p].data_len) = FromPeer(q)
  BY <1>1, <1>3, Buffers DEF Serialized, FromPeer
<1>5. Append(inbox[q], FromPeer(q)) = Mail(q)
  BY <1>1, <1>2, Mails
<1>6. inbox' = [inbox EXCEPT ![q] =
                  Append(inbox[q], SubSeq(Serialized(p), 1, HeaderSize + Sent[p].data_len))]
  BY DEF Deliver
<1> QED
  BY <1>4, <1>5, <1>6
------------------------------------------------------------------------------
LEMMA ControlNext == ASSUME IInv, [Next]_vars PROVE ControlOK'
<1> USE DEF IInv, ControlOK, Process, Label
<1>1. CASE UNCHANGED vars
  BY <1>1 DEF vars
<1>2. CASE Rerun
  BY <1>2, SocketsAssumption DEF Rerun, Forked
<1>3. CASE Answer
  BY <1>3 DEF Answer, Goto
<1>4. CASE Request
  BY <1>4 DEF Request, Goto, Return, Closed
<1>5. ASSUME NEW p \in Process, Step(p)
      PROVE  ControlOK'
  <2>1. CASE Socket(p) \/ Unlink(p)
    BY <2>1 DEF Socket, Unlink, Goto
  <2>2. CASE Bind(p)
    BY <2>2 DEF Bind, Goto, Return, Closed, AfterBind
  <2>3. CASE Receive(p)
    BY <2>3 DEF Receive, Goto, AfterReceive
  <2>4. CASE Close(p) \/ Remove(p)
    BY <2>4 DEF Close, Remove, Goto, Closed
  <2> QED
    BY <1>5, <2>1, <2>2, <2>3, <2>4 DEF Step
<1>6. ASSUME NEW p \in Process, CallFails(p)
      PROVE  ControlOK'
  BY <1>6 DEF CallFails, Return, Goto, Closed
<1> QED
  BY <1>1, <1>2, <1>3, <1>4, <1>5, <1>6 DEF Next

LEMMA BufferNext == ASSUME IInv, [Next]_vars PROVE BufferOK'
<1>1. CASE msg_buf' = msg_buf
  BY <1>1 DEF IInv, BufferOK
<1>2. CASE Rerun
  <2>1. Unset \in [Process -> Buffer]
    BY DEF Unset, Buffer
  <2> QED
    BY <1>2, <2>1 DEF Rerun, BufferOK
<1>3. CASE Answer
  BY <1>3, SerializeStep DEF Answer, BufferOK, Process
<1>4. CASE Request
  BY <1>4, SerializeStep DEF Request, BufferOK, Process
<1>5. ASSUME NEW p \in Process, Receive(p)
      PROVE  BufferOK'
  BY <1>5, ReceiveStep DEF BufferOK
<1>6. CASE UNCHANGED vars
  BY <1>1, <1>6 DEF vars
<1>7. ASSUME NEW p \in Process, Step(p) \/ CallFails(p)
      PROVE  BufferOK'
  BY <1>1, <1>5, <1>7 DEF Step, CallFails, Socket, Unlink, Bind, Close, Remove
<1> QED
  BY <1>2, <1>3, <1>4, <1>6, <1>7 DEF Next

\* Who is at which label when it sends or receives.
LEMMA Places ==
    /\ \A p \in Process : AfterSend[p] \subseteq Label /\ AfterMail[p] \subseteq Label
    /\ \A p \in Process : \A l \in {"socket", "unlink", "bind", "send"} : l \notin AfterSend[p]
    /\ \A p \in Process : \A l \in {"close", "remove", "done", "failed"} :
          l \in AfterSend[p] /\ l \in AfterMail[p]
    /\ \A p \in Process : \A l \in {"socket", "unlink", "bind", "receive"} : l \notin AfterMail[p]
    /\ AfterReceive["parent"] = "send" /\ AfterReceive["child"] = "close"
    /\ "send" \in AfterMail["parent"] /\ "send" \notin AfterMail["child"]
    /\ "receive" \in AfterSend["child"] /\ "receive" \notin AfterSend["parent"]
  BY DEF AfterSend, AfterMail, AfterReceive, Process, Label

\* How inbox may change: it is emptied, or p's message is put into that of its
\* peer when p comes to where it has sent.
Emptied(p)   == inbox' = [inbox EXCEPT ![p] = << >>]
Delivered(p) == /\ inbox' = [inbox EXCEPT ![Peer[p]] = Mail(Peer[p])]
                /\ pc[p] \notin AfterSend[p] /\ pc'[p] \in AfterSend[p]
                /\ \A q \in Process \ {p} : pc'[q] = pc[q]

\* No process goes back to before it has sent, or received.
Forward == \A p \in Process : /\ pc[p] \in AfterSend[p] => pc'[p] \in AfterSend[p]
                              /\ pc[p] \in AfterMail[p] => pc'[p] \in AfterMail[p]

LEMMA StepForward ==
    ASSUME IInv, Next, ~ Rerun PROVE Forward
<1> USE DEF IInv, ControlOK, Forward, Goto
<1>1. CASE Answer
  BY <1>1 DEF Answer, AfterSend, AfterMail, Process
<1>2. CASE Request
  <2>1. path["parent"] \in {"absent", "bound", "closed"}
    BY DEF Process
  <2>2. pc["child"] = "send"
        /\ (pc' = pc \/ \E l \in {"receive", "failed"} : pc' = [pc EXCEPT !["child"] = l])
    BY <1>2, <2>1 DEF Request, Return
  <2> QED
    BY <2>2 DEF AfterSend, AfterMail, Process
<1>3. ASSUME NEW p \in Process, Step(p)
      PROVE  Forward
  <2>1. CASE Socket(p) \/ Unlink(p)
    BY <2>1, Places DEF Socket, Unlink
  <2>2. CASE Bind(p)
    BY <2>2, Places DEF Bind, Return
  <2>3. CASE Receive(p)
    BY <2>3 DEF Receive, AfterReceive, AfterSend, AfterMail, Process
  <2>4. CASE Close(p) \/ Remove(p)
    BY <2>4, Places DEF Close, Remove
  <2> QED
    BY <1>3, <2>1, <2>2, <2>3, <2>4 DEF Step
<1>4. ASSUME NEW p \in Process, CallFails(p)
      PROVE  Forward
  BY <1>4, Places DEF CallFails, Return
<1> QED
  BY <1>1, <1>2, <1>3, <1>4 DEF Next

LEMMA InboxStep ==
    ASSUME IInv, Next, ~ Rerun
    PROVE  \/ inbox' = inbox
           \/ \E p \in Process : Emptied(p)
           \/ \E p \in Process : Delivered(p)
<1>1. CASE Answer
  <2>1. CASE path["child"] = "bound"
    <3>1. Deliver("parent") /\ pc["parent"] = "send" /\ pc' = [pc EXCEPT !["parent"] = "close"]
      BY <1>1, <2>1 DEF Answer, Goto
    <3>2. pc["parent"] \notin AfterSend["parent"]
      BY <3>1, Places DEF Process
    <3>3. inbox' = [inbox EXCEPT ![Peer["parent"]] = Mail(Peer["parent"])]
      BY <3>1, <3>2, DeliverStep DEF Process
    <3>4. Delivered("parent")
      BY <3>1, <3>2, <3>3, Places DEF Delivered, IInv, ControlOK, Process
    <3> QED
      BY <3>4 DEF Process
  <2> QED
    BY <1>1, <2>1 DEF Answer
<1>2. CASE Request
  <2>1. CASE path["parent"] = "bound"
    <3>1. Deliver("child") /\ pc["child"] = "send" /\ pc' = [pc EXCEPT !["child"] = "receive"]
      BY <1>2, <2>1 DEF Request, Goto
    <3>2. pc["child"] \notin AfterSend["child"]
      BY <3>1, Places DEF Process
    <3>3. inbox' = [inbox EXCEPT ![Peer["child"]] = Mail(Peer["child"])]
      BY <3>1, <3>2, DeliverStep DEF Process
    <3>4. Delivered("child")
      BY <3>1, <3>2, <3>3, Places DEF Delivered, IInv, ControlOK, Process
    <3> QED
      BY <3>4 DEF Process
  <2>2. CASE path["parent"] # "bound"
    <3>1. path["parent"] \in {"absent", "closed"}
      BY <2>2 DEF IInv, ControlOK, Process
    <3>2. inbox' = inbox \/ Return("child")
      BY <1>2, <3>1 DEF Request
    <3> QED
      BY <3>2 DEF Return, Emptied, Process
  <2> QED
    BY <2>1, <2>2
<1>3. ASSUME NEW p \in Process, Step(p)
      PROVE  inbox' = inbox \/ Emptied(p)
  <2>1. CASE Receive(p)
    BY <2>1, ReceiveStep DEF Emptied
  <2>2. CASE Socket(p) \/ Unlink(p) \/ Bind(p) \/ Close(p) \/ Remove(p)
    BY <2>2 DEF Socket, Unlink, Bind, Close, Remove, Return, Emptied
  <2> QED
    BY <1>3, <2>1, <2>2 DEF Step
<1>4. ASSUME NEW p \in Process, CallFails(p)
      PROVE  Emptied(p)
  BY <1>4 DEF CallFails, Return, Emptied
<1> QED
  BY <1>1, <1>2, <1>3, <1>4 DEF Next

LEMMA InboxNext == ASSUME IInv, [Next]_vars PROVE InboxOK'
<1>1. CASE UNCHANGED vars
  BY <1>1 DEF vars, IInv, InboxOK
<1>2. CASE Rerun
  <2>1. inbox' = [p \in Process |-> << >>]
    BY <1>2 DEF Rerun
  <2> QED
    BY <2>1, Peers DEF InboxOK
<1>3. CASE Next /\ ~ Rerun
  <2>1. Forward
    BY <1>3, StepForward
  <2>2. CASE inbox' = inbox
    BY <2>1, <2>2, Peers DEF IInv, InboxOK, Forward
  <2>3. ASSUME NEW p \in Process, Emptied(p)
        PROVE  InboxOK'
    BY <2>1, <2>3, Peers DEF IInv, InboxOK, Forward, Emptied
  <2>4. ASSUME NEW p \in Process, Delivered(p)
        PROVE  InboxOK'
    <3> DEFINE q == Peer[p]
    <3>1. q \in Process /\ Peer[q] = p /\ q # p
      BY Peers
    <3>2. inbox' = [inbox EXCEPT ![q] = Mail(q)] /\ pc'[p] \in AfterSend[p]
      BY <2>4 DEF Delivered
    <3>3. Mail(q) \in {<< >>, Mail("parent"), Mail("child")}
      BY <3>1 DEF Process
    <3>4. inbox' \in [Process -> {<< >>, Mail("parent"), Mail("child")}]
      BY <3>1, <3>2, <3>3 DEF IInv, InboxOK
    <3>5. \A r \in Process : inbox'[r] \in {<< >>, Mail(r)}
      BY <3>1, <3>2 DEF IInv, InboxOK
    <3>6. ASSUME NEW r \in Process, inbox'[Peer[r]] # << >>
          PROVE  pc'[r] \in AfterSend[r]
      <4>1. CASE r = p
        BY <3>2, <4>1
      <4>2. CASE r # p
        <5>1. Peer[r] # q /\ Peer[r] \in Process
          BY <3>1, <4>2, Peers
        <5>2. inbox'[Peer[r]] = inbox[Peer[r]]
          BY <3>2, <5>1 DEF IInv, InboxOK
        <5> QED
          BY <2>1, <3>6, <5>2 DEF IInv, InboxOK, Forward
      <4> QED
        BY <4>1, <4>2
    <3> QED
      BY <3>4, <3>5, <3>6 DEF InboxOK
  <2> QED
    BY <1>3, <2>2, <2>3, <2>4, InboxStep
<1> QED
  BY <1>1, <1>2, <1>3
LEMMA PrintedNext == ASSUME IInv, [Next]_vars PROVE PrintedOK'
<1>1. CASE UNCHANGED vars
  BY <1>1 DEF vars, IInv, PrintedOK
<1>2. CASE Rerun
  <2>1. printed' = [p \in Process |-> Nothing]
    BY <1>2 DEF Rerun
  <2> QED
    BY <2>1 DEF PrintedOK
<1>3. CASE Next /\ ~ Rerun
  <2>1. Forward
    BY <1>3, StepForward
  <2>2. CASE printed' = printed
    BY <2>1, <2>2 DEF IInv, PrintedOK, Forward
  <2>3. ASSUME NEW p \in Process, Receive(p)
        PROVE  PrintedOK'
    <3>1. printed' = [printed EXCEPT ![p] = Line(p)]
      BY <2>3, ReceiveStep
    <3>2. Line(p) \in {Nothing, Line("parent"), Line("child")}
      BY DEF Process
    <3>3. pc'[p] \in AfterMail[p]
      BY <2>3, Places DEF Receive, Goto, IInv, ControlOK, Process
    <3> QED
      BY <2>1, <3>1, <3>2, <3>3 DEF IInv, PrintedOK, Forward
  <2>4. printed' = printed \/ \E p \in Process : Receive(p)
    BY <1>3 DEF Next, Step, CallFails, Answer, Request, Socket, Unlink, Bind, Close, Remove
  <2> QED
    BY <2>2, <2>3, <2>4
<1> QED
  BY <1>1, <1>2, <1>3

LEMMA Invariance == Spec => []IInv
<1>1. Init => IInv
  <2>1. SUFFICES ASSUME Init PROVE IInv
    OBVIOUS
  <2>2. ControlOK
    BY <2>1, SocketsAssumption DEF Init, Forked, ControlOK, Process, Label
  <2>3. BufferOK
    BY <2>1 DEF Init, Unset, Buffer, BufferOK
  <2>4. InboxOK
    BY <2>1, Peers DEF Init, InboxOK
  <2>5. PrintedOK
    BY <2>1 DEF Init, PrintedOK
  <2> QED
    BY <2>2, <2>3, <2>4, <2>5 DEF IInv
<1>2. IInv /\ [Next]_vars => IInv'
  BY ControlNext, BufferNext, InboxNext, PrintedNext DEF IInv
<1> QED
  BY <1>1, <1>2, PTL DEF Spec

\* Every variable of Sockets has its type in every reachable state: no more than
\* one message ever waits at a socket, each fits its buffer, and each is one that
\* was sent as a whole (hw4p2_sockets.c).
THEOREM TypeCorrect == Spec => []TypeOK
<1>1. ASSUME IInv PROVE TypeOK
  <2>1. /\ inbox \in [Process -> Seq(Payload)]
        /\ \A p \in Process : Len(inbox[p]) <= 1
    <3>1. << >> \in Seq(Payload) /\ Len(<< >>) <= 1
      OBVIOUS
    <3>2. \A p \in Process : inbox[p] \in Seq(Payload) /\ Len(inbox[p]) <= 1
      <4> SUFFICES ASSUME NEW p \in Process
                   PROVE  inbox[p] \in Seq(Payload) /\ Len(inbox[p]) <= 1
        OBVIOUS
      <4>1. inbox[p] = << >> \/ inbox[p] = Mail(p)
        BY <1>1 DEF IInv, InboxOK
      <4>2. Mail(p) \in Seq(Payload) /\ Len(Mail(p)) <= 1
        <5>1. Mail(p) \in Seq(Payload) /\ Len(Mail(p)) = 1
          BY Mails
        <5> HIDE DEF Mail
        <5> QED
          BY <5>1
      <4> HIDE DEF Mail
      <4>3. CASE inbox[p] = << >>
        BY <3>1, <4>3, Zenon
      <4>4. CASE inbox[p] = Mail(p)
        BY <4>2, <4>4, Zenon
      <4> QED
        BY <4>1, <4>3, <4>4
    <3>3. inbox = [p \in Process |-> inbox[p]]
      BY <1>1 DEF IInv, InboxOK
    <3> QED
      BY <3>2, <3>3
  <2>2. printed \in [Process -> Seq(Nat)]
    <3>1. \A p \in Process : Line(p) \in Seq(Nat)
      BY Peers, Authors DEF Line, Process
    <3>2. Nothing \in Seq(Nat)
      BY DEF Nothing
    <3>3. \A p \in Process : printed[p] \in Seq(Nat)
      BY <1>1, <3>1, <3>2 DEF IInv, PrintedOK
    <3> QED
      BY <1>1, <3>3 DEF IInv, PrintedOK
  <2> QED
    BY <1>1, <2>1, <2>2 DEF TypeOK, IInv, ControlOK, BufferOK
<1> QED
  BY <1>1, Invariance, PTL

\* Whatever happened in earlier executions and whatever fails in this one, a
\* process that prints a message prints that of its peer, whole, and once: every
\* step of Sockets is one of Exchange or leaves the printed messages alone
\* (hw4p2_sockets.c:99-120, 171-191, messages.c:62-102).
THEOREM ExchangeRefinement == Spec => PeersExchange
<1>1. Init => X!Init
  BY Authors DEF Init, X!Init, got, X!Process, Process
<1>2. ASSUME IInv, [Next]_vars PROVE [X!Next]_got
  <2>1. CASE Rerun
    <3>1. got' = [p \in Process |-> "nobody"]
      BY <2>1, Authors DEF Rerun, got
    <3> QED
      BY <3>1 DEF X!Next, X!Restart, X!Process, Process
  <2>2. ASSUME NEW p \in Process, Receive(p)
        PROVE  X!Receive(p)
    <3>1. pc[p] = "receive" /\ printed' = [printed EXCEPT ![p] = Line(p)]
      BY <1>2, <2>2, ReceiveStep DEF Receive
    <3>2. printed[p] = Nothing
      BY <1>2, <3>1, Places DEF IInv, PrintedOK
    <3>3. got[p] = "nobody"
      BY <3>2, Authors DEF got
    <3>4. Author(Line(p)) = Peer[p]
      BY Peers, Authors DEF Line, Process
    <3>5. \A q \in Process : printed'[q] = IF q = p THEN Line(p) ELSE printed[q]
      BY <1>2, <3>1 DEF IInv, PrintedOK
    <3>6. got' = [q \in Process |-> IF q = p THEN Peer[p] ELSE Author(printed[q])]
      BY <3>4, <3>5 DEF got
    <3>7. got' = [got EXCEPT ![p] = Peer[p]]
      BY <3>6 DEF got
    <3> QED
      BY <3>3, <3>7 DEF X!Receive, X!Peer, Peer
  <2>3. CASE printed' = printed
    BY <2>3 DEF got
  <2>4. Rerun \/ printed' = printed \/ \E p \in Process : Receive(p)
    BY <1>2 DEF Next, Step, CallFails, Answer, Request, Socket, Unlink, Bind, Close, Remove,
                vars
  <2> QED
    BY <2>1, <2>2, <2>3, <2>4 DEF X!Next, X!Process, Process
<1> QED
  BY <1>1, <1>2, Invariance, PTL DEF Spec, PeersExchange, X!Spec
------------------------------------------------------------------------------
(***************************************************************************)
(* Pipes: who holds which end, and what is left to read.                   *)
(***************************************************************************)

\* How many pieces p has written, and how many it has tried to read; what that
\* leaves in the pipe between a writer and a reader.
Written(p) ==
    IF p = "parent" THEN IF pipe_pc[p] <= 3 THEN 0 ELSE IF pipe_pc[p] = 4 THEN 1 ELSE 2
                    ELSE IF pipe_pc[p] <= 5 THEN 0 ELSE IF pipe_pc[p] = 6 THEN 1 ELSE 2
HasRead(p) ==
    IF p = "parent" THEN IF pipe_pc[p] <= 5 THEN 0 ELSE IF pipe_pc[p] = 6 THEN 1 ELSE 2
                    ELSE IF pipe_pc[p] <= 3 THEN 0 ELSE IF pipe_pc[p] = 4 THEN 1 ELSE 2

Left(r, w) == IF r = 0 /\ w = 1 THEN << "header" >>
              ELSE IF r = 0 /\ w = 2 THEN << "header", "data" >>
              ELSE IF r = 1 /\ w = 2 THEN << "data" >>
              ELSE << >>

\* A process has its own end of a pipe as long as it runs, and that of its peer
\* until it closes it.
HeldOK == /\ life \in [Process -> {"running", "exited", "dead"}]
          /\ pipe_pc \in [Process -> 1 .. 7]
          /\ kills \in 0 .. MaxKills
          /\ readers = [p \in Process |->
                           {q \in Process : life[q] = "running" /\ (q = p \/ pipe_pc[q] <= 2)}]
          /\ writers = [p \in Process |->
                           {q \in Process : life[q] = "running" /\ (q = Peer[p] \/ pipe_pc[q] = 1)}]
          /\ \A p \in Process : life[p] = "exited" => pipe_pc[p] = 7

\* What is in the pipes, and what has been made of it; a process that has read
\* more than was written has a dead peer.
ReadOK == /\ pipe = [p \in Process |-> Left(HasRead(p), Written(Peer[p]))]
          /\ \A p \in Process : HasRead(p) > Written(Peer[p]) => life[Peer[p]] = "dead"
          /\ header \in [Process -> {"own", "peer", "unset"}]
          /\ \A p \in Process : HasRead(p) = 1 => header[p] = "peer" \/ Written(Peer[p]) = 0
          /\ heard \in [Process -> {"nobody", "peer", "garbage"}]
          /\ \A p \in Process : /\ HasRead(p) = 2 => heard[p] # "nobody"
                                /\ heard[p] = "garbage" => life[Peer[p]] = "dead"

LEMMA Ends ==
    /\ \A p \in Process : Peer[p] \in Process /\ Peer[p] # p /\ Peer[Peer[p]] = p
    /\ \A p, q \in Process : q = p \/ q = Peer[p]
  BY DEF Process, Peer

LEMMA Lefts ==
    /\ \A r, w \in 0 .. 2 : Left(r, w) \in Seq(Piece) /\ Len(Left(r, w)) <= 2
    /\ \A w \in 0 .. 2 : /\ Left(0, w) = << >> <=> w = 0
                         /\ w # 0 => Left(1, w) = Tail(Left(0, w))
                         /\ Left(1, w) = << >> <=> w # 2
    /\ Left(1, 0) = << >> /\ Left(2, 2) = Tail(Left(1, 2)) /\ \A w \in 0 .. 2 : Left(2, w) = << >>
    /\ Left(0, 1) = Append(Left(0, 0), "header")
    /\ \A r \in 0 .. 1 : Left(r, 2) = Append(Left(r, 1), "data")
<1>1. \A a \in Piece : Tail(<< a >>) = << >>
  <2>1. SUFFICES ASSUME NEW a \in Piece PROVE Tail(<< a >>) = << >>
    OBVIOUS
  <2>2. << a >> \in Seq(Piece) /\ << a >> # << >> /\ Len(<< a >>) = 1
    OBVIOUS
  <2>3. Tail(<< a >>) \in Seq(Piece) /\ Len(Tail(<< a >>)) = 0
    BY <2>2
  <2> QED
    BY <2>3
<1>3. Tail(<< "header", "data" >>) = << "data" >>
  OBVIOUS
<1>4. Append(<< >>, "header") = << "header" >>
  OBVIOUS
<1>5. Append(<< >>, "data") = << "data" >>
  OBVIOUS
<1>6. \A a, b \in Piece : Append(<< a >>, b) = << a, b >>
  <2>1. SUFFICES ASSUME NEW a \in Piece, NEW b \in Piece PROVE Append(<< a >>, b) = << a, b >>
    OBVIOUS
  <2>2. << a >> \in Seq(Piece) /\ Len(<< a >>) = 1 /\ << a >>[1] = a
    OBVIOUS
  <2>3. /\ Append(<< a >>, b) \in Seq(Piece) /\ Len(Append(<< a >>, b)) = 2
        /\ Append(<< a >>, b)[1] = a /\ Append(<< a >>, b)[2] = b
    BY <2>2
  <2>4. << a, b >> \in Seq(Piece) /\ Len(<< a, b >>) = 2 /\ << a, b >>[1] = a /\ << a, b >>[2] = b
    OBVIOUS
  <2>5. ASSUME NEW s \in Seq(Piece), NEW t \in Seq(Piece), Len(s) = 2, Len(t) = 2,
               s[1] = t[1], s[2] = t[2]
        PROVE  s = t
    <3>1. \A i \in 1 .. 2 : s[i] = t[i]
      BY <2>5
    <3> QED
      BY <2>5, <3>1
  <2> QED
    BY <2>3, <2>4, <2>5
<1>7. "header" \in Piece /\ "data" \in Piece
  BY DEF Piece
<1>2. /\ << >> \in Seq(Piece) /\ << "header" >> \in Seq(Piece) /\ << "data" >> \in Seq(Piece)
      /\ << "header", "data" >> \in Seq(Piece)
      /\ Len(<< >>) = 0 /\ Len(<< "header" >>) = 1 /\ Len(<< "data" >>) = 1
      /\ Len(<< "header", "data" >>) = 2
  BY DEF Piece
<1>8. << "header" >> # << >> /\ << "data" >> # << >> /\ << "header", "data" >> # << >>
  BY <1>2
<1> QED
  BY <1>1, <1>2, <1>3, <1>4, <1>5, <1>6, <1>7, <1>8 DEF Left

\* Where a process is, and what it has read and written there.
LEMMA Positions ==
    ASSUME pipe_pc \in [Process -> 1 .. 7], NEW p \in Process
    PROVE  /\ HasRead(p) \in 0 .. 2 /\ Written(p) \in 0 .. 2
           /\ pipe_pc[p] <= 3 => HasRead(p) = 0 /\ Written(p) = 0
           /\ pipe_pc[p] = 7 => HasRead(p) = 2 /\ Written(p) = 2
           /\ Written(p) = 1 => HasRead(p) # 1
  BY DEF Process, HasRead, Written

\* A process of which only the position is one further.
Further(p) == pipe_pc' = [pipe_pc EXCEPT ![p] = @ + 1] /\ life' = life

LEMMA PipesLabels ==
    ASSUME HeldOK, NEW p \in Process, NEW l, At(p, l)
    PROVE  /\ life[p] = "running"
           /\ l = "close_out" => pipe_pc[p] = 1
           /\ l = "close_in" => pipe_pc[p] = 2
           /\ l = "write_header" => pipe_pc[p] \in 3 .. 6 /\ Written(p) = 0 /\ HasRead(p) # 1
           /\ l = "write_data" => pipe_pc[p] \in 3 .. 6 /\ Written(p) = 1
           /\ l = "read_header" => pipe_pc[p] \in 3 .. 6 /\ HasRead(p) = 0
           /\ l = "read_data" => pipe_pc[p] \in 3 .. 6 /\ HasRead(p) = 1
           /\ l = "exit" => pipe_pc[p] = 7
<1>1. pipe_pc[p] \in 1 .. 7 /\ (pipe_pc[p] = 1 \/ pipe_pc[p] = 2 \/ pipe_pc[p] = 3 \/ pipe_pc[p] = 4 \/ pipe_pc[p] = 5
                           \/ pipe_pc[p] = 6 \/ pipe_pc[p] = 7)
  BY DEF HeldOK
<1>2. l = Program[p][pipe_pc[p]] /\ life[p] = "running"
  BY DEF At
<1>3. CASE p = "parent"
  BY <1>1, <1>2, <1>3 DEF Program, HasRead, Written
<1>4. CASE p = "child"
  BY <1>1, <1>2, <1>4 DEF Program, HasRead, Written
<1> QED
  BY <1>3, <1>4 DEF Process

LEMMA PipesSteps ==
    ASSUME HeldOK, NEW p \in Process, pipe_pc[p] \in 1 .. 6, Further(p)
    PROVE  /\ pipe_pc' \in [Process -> 1 .. 7] /\ pipe_pc'[p] = pipe_pc[p] + 1 /\ pipe_pc'[Peer[p]] = pipe_pc[Peer[p]]
           /\ HasRead(Peer[p])' = HasRead(Peer[p]) /\ Written(Peer[p])' = Written(Peer[p])
           /\ pipe_pc[p] <= 2 => HasRead(p)' = 0 /\ Written(p)' = 0
           /\ At(p, "write_header") => HasRead(p)' = HasRead(p) /\ Written(p)' = 1
           /\ At(p, "write_data") => HasRead(p)' = HasRead(p) /\ Written(p)' = 2
           /\ At(p, "read_header") => HasRead(p)' = 1 /\ Written(p)' = Written(p)
           /\ At(p, "read_data") => HasRead(p)' = 2 /\ Written(p)' = Written(p)
<1>1. /\ pipe_pc' \in [Process -> 1 .. 7] /\ pipe_pc'[p] = pipe_pc[p] + 1 /\ pipe_pc'[Peer[p]] = pipe_pc[Peer[p]]
  BY Ends DEF HeldOK, Further
<1>2. HasRead(Peer[p])' = HasRead(Peer[p]) /\ Written(Peer[p])' = Written(Peer[p])
  BY <1>1 DEF HasRead, Written
<1>3. pipe_pc[p] <= 2 => HasRead(p)' = 0 /\ Written(p)' = 0
  BY <1>1, Positions DEF HasRead, Written
<1>4. pipe_pc[p] = 1 \/ pipe_pc[p] = 2 \/ pipe_pc[p] = 3 \/ pipe_pc[p] = 4 \/ pipe_pc[p] = 5 \/ pipe_pc[p] = 6
  OBVIOUS
<1>5. /\ At(p, "write_header") => HasRead(p)' = HasRead(p) /\ Written(p)' = 1
      /\ At(p, "write_data") => HasRead(p)' = HasRead(p) /\ Written(p)' = 2
      /\ At(p, "read_header") => HasRead(p)' = 1 /\ Written(p)' = Written(p)
      /\ At(p, "read_data") => HasRead(p)' = 2 /\ Written(p)' = Written(p)
  <2>1. CASE p = "parent"
    BY <1>1, <1>4, <2>1 DEF At, Program, HasRead, Written
  <2>2. CASE p = "child"
    BY <1>1, <1>4, <2>2 DEF At, Program, HasRead, Written
  <2> QED
    BY <2>1, <2>2 DEF Process
<1> QED
  BY <1>1, <1>2, <1>3, <1>5

\* The ends of the pipes.
LEMMA FurtherHeld ==
    ASSUME HeldOK, NEW p \in Process, pipe_pc[p] \in 3 .. 6, life[p] = "running", Further(p),
           UNCHANGED << readers, writers, kills >>
    PROVE  HeldOK'
<1>1. /\ life' = life /\ pipe_pc' \in [Process -> 1 .. 7] /\ pipe_pc'[p] = pipe_pc[p] + 1
      /\ \A q \in Process \ {p} : pipe_pc'[q] = pipe_pc[q]
  BY DEF HeldOK, Further
<1>2. \A q \in Process : (pipe_pc'[q] <= 2 <=> pipe_pc[q] <= 2) /\ (pipe_pc'[q] = 1 <=> pipe_pc[q] = 1)
  BY <1>1 DEF HeldOK
<1>3. \A q \in Process : life'[q] = "exited" => pipe_pc'[q] = 7
  BY <1>1 DEF HeldOK
<1>4. /\ readers' = [q \in Process |->
                        {r \in Process : life'[r] = "running" /\ (r = q \/ pipe_pc'[r] <= 2)}]
      /\ writers' = [q \in Process |->
                        {r \in Process : life'[r] = "running" /\ (r = Peer[q] \/ pipe_pc'[r] = 1)}]
  BY <1>1, <1>2 DEF HeldOK
<1>5. life' \in [Process -> {"running", "exited", "dead"}] /\ kills' \in 0 .. MaxKills
  BY DEF HeldOK, Further
<1> QED
  BY <1>1, <1>3, <1>4, <1>5 DEF HeldOK

LEMMA CloseHeld ==
    ASSUME HeldOK, NEW p \in Process, CloseOut(p) \/ CloseIn(p)
    PROVE  HeldOK'
<1>1. life[p] = "running" /\ (CloseOut(p) => pipe_pc[p] = 1) /\ (CloseIn(p) => pipe_pc[p] = 2)
  BY PipesLabels DEF CloseOut, CloseIn
<1>2. /\ life' = life /\ pipe_pc' \in [Process -> 1 .. 7] /\ pipe_pc'[p] = pipe_pc[p] + 1
      /\ \A q \in Process \ {p} : pipe_pc'[q] = pipe_pc[q]
      /\ kills' = kills
  <2>1. /\ life' = life /\ pipe_pc' = [pipe_pc EXCEPT ![p] = pipe_pc[p] + 1] /\ kills' = kills
    BY DEF CloseOut, CloseIn, Advance
  <2>2. pipe_pc \in [Process -> 1 .. 7] /\ pipe_pc[p] + 1 \in 1 .. 7
    BY <1>1 DEF HeldOK
  <2> QED
    BY <2>1, <2>2
<1>3. \A q \in Process : life'[q] = "exited" => pipe_pc'[q] = 7
  BY <1>1, <1>2 DEF HeldOK
<1>4. /\ readers = [q \in Process |-> {r \in Process : life[r] = "running" /\ (r = q \/ pipe_pc[r] <= 2)}]
      /\ writers = [q \in Process |-> {r \in Process : life[r] = "running" /\ (r = Peer[q] \/ pipe_pc[r] = 1)}]
  BY DEF HeldOK
<1>5. CASE CloseOut(p)
  <2>1. /\ readers' = readers /\ writers' = [writers EXCEPT ![p] = writers[p] \ {p}]
        /\ pipe_pc[p] = 1 /\ pipe_pc'[p] = 2
    BY <1>1, <1>2, <1>5 DEF CloseOut
  <2>2. readers' = [q \in Process |-> {r \in Process : life'[r] = "running" /\ (r = q \/ pipe_pc'[r] <= 2)}]
    BY <1>2, <1>4, <2>1
  <2>3. ASSUME NEW q \in Process
        PROVE  writers'[q] = {r \in Process : life'[r] = "running" /\ (r = Peer[q] \/ pipe_pc'[r] = 1)}
    <3>1. writers[q] = {r \in Process : life[r] = "running" /\ (r = Peer[q] \/ pipe_pc[r] = 1)}
      BY <1>4
    <3>2. CASE q = p
      <4>1. writers'[q] = writers[q] \ {p} /\ Peer[q] # p
        BY <1>4, <2>1, <3>2, Ends
      <4> QED
        BY <1>2, <2>1, <3>1, <4>1
    <3>3. CASE q # p
      <4>1. writers'[q] = writers[q] /\ Peer[q] = p
        BY <1>4, <2>1, <3>3, Ends
      <4> QED
        BY <1>2, <2>1, <3>1, <4>1
    <3> QED
      BY <3>2, <3>3
  <2>4. writers' = [q \in Process |-> writers'[q]]
    BY <1>4, <2>1
  <2> QED
    BY <1>2, <1>3, <2>2, <2>3, <2>4 DEF HeldOK
<1>6. CASE CloseIn(p)
  <2>1. /\ writers' = writers /\ readers' = [readers EXCEPT ![Peer[p]] = readers[Peer[p]] \ {p}]
        /\ pipe_pc[p] = 2 /\ pipe_pc'[p] = 3
    BY <1>1, <1>2, <1>6 DEF CloseIn
  <2>2. writers' = [q \in Process |-> {r \in Process : life'[r] = "running" /\ (r = Peer[q] \/ pipe_pc'[r] = 1)}]
    BY <1>2, <1>4, <2>1
  <2>3. ASSUME NEW q \in Process
        PROVE  readers'[q] = {r \in Process : life'[r] = "running" /\ (r = q \/ pipe_pc'[r] <= 2)}
    <3>1. readers[q] = {r \in Process : life[r] = "running" /\ (r = q \/ pipe_pc[r] <= 2)}
      BY <1>4
    <3>2. CASE q = Peer[p]
      <4>1. readers'[q] = readers[q] \ {p} /\ q # p
        BY <1>4, <2>1, <3>2, Ends
      <4> QED
        BY <1>2, <2>1, <3>1, <4>1
    <3>3. CASE q # Peer[p]
      <4>1. readers'[q] = readers[q] /\ q = p
        BY <1>4, <2>1, <3>3, Ends
      <4> QED
        BY <1>2, <2>1, <3>1, <4>1
    <3> QED
      BY <3>2, <3>3
  <2>4. readers' = [q \in Process |-> readers'[q]]
    BY <1>4, <2>1
  <2> QED
    BY <1>2, <1>3, <2>2, <2>3, <2>4 DEF HeldOK
<1> QED
  BY <1>5, <1>6

LEMMA EndHeld ==
    ASSUME HeldOK, NEW p \in Process, life[p] = "running", NEW how \in {"exited", "dead"},
           how = "exited" => pipe_pc[p] = 7, End(p, how), kills' \in 0 .. MaxKills
    PROVE  HeldOK'
<1>1. /\ pipe_pc' = pipe_pc /\ life' \in [Process -> {"running", "exited", "dead"}] /\ life'[p] = how
      /\ \A q \in Process \ {p} : life'[q] = life[q]
  BY DEF HeldOK, End
<1>2. \A q \in Process : life'[q] = "running" <=> life[q] = "running" /\ q # p
  BY <1>1
<1>3. /\ readers' = [q \in Process |-> {r \in Process : life'[r] = "running" /\ (r = q \/ pipe_pc'[r] <= 2)}]
      /\ writers' = [q \in Process |-> {r \in Process : life'[r] = "running" /\ (r = Peer[q] \/ pipe_pc'[r] = 1)}]
  BY <1>1, <1>2 DEF HeldOK, End
<1> QED
  BY <1>1, <1>3 DEF HeldOK

\* What is read.
LEMMA ReadNow ==
    ASSUME NEW p \in Process,
           pipe' = [r \in Process |-> pipe'[r]],
           header' \in [Process -> {"own", "peer", "unset"}],
           heard' \in [Process -> {"nobody", "peer", "garbage"}],
           \A r \in {p, Peer[p]} :
              /\ pipe'[r] = Left(HasRead(r)', Written(Peer[r])')
              /\ HasRead(r)' > Written(Peer[r])' => life'[Peer[r]] = "dead"
              /\ HasRead(r)' = 1 => header'[r] = "peer" \/ Written(Peer[r])' = 0
              /\ HasRead(r)' = 2 => heard'[r] # "nobody"
              /\ heard'[r] = "garbage" => life'[Peer[r]] = "dead"
    PROVE  ReadOK'
<1>1. \A r \in Process : r \in {p, Peer[p]}
  BY Ends
<1> QED
  BY <1>1 DEF ReadOK

LEMMA EndRead ==
    ASSUME HeldOK, ReadOK, NEW p \in Process, life[p] = "running", NEW how, End(p, how),
           UNCHANGED << pipe, heard >>, header' \in [Process -> {"own", "peer", "unset"}],
           \A r \in Process : HasRead(r) = 1 => header'[r] = header[r]
    PROVE  ReadOK'
<1>1. pipe_pc' = pipe_pc /\ pipe' = pipe /\ heard' = heard /\ \A q \in Process : life[q] = "dead" => life'[q] = "dead"
  BY DEF HeldOK, End
<1>2. \A q \in Process : HasRead(q)' = HasRead(q) /\ Written(q)' = Written(q)
  BY <1>1 DEF HasRead, Written
<1>3. \A r \in Process : Peer[r] \in Process
  BY Ends
<1>4. \A r \in Process :
              /\ pipe'[r] = Left(HasRead(r)', Written(Peer[r])')
              /\ HasRead(r)' > Written(Peer[r])' => life'[Peer[r]] = "dead"
              /\ HasRead(r)' = 1 => header'[r] = "peer" \/ Written(Peer[r])' = 0
              /\ HasRead(r)' = 2 => heard'[r] # "nobody"
              /\ heard'[r] = "garbage" => life'[Peer[r]] = "dead"
  BY <1>1, <1>2, <1>3 DEF ReadOK
<1>5. pipe' = [r \in Process |-> pipe'[r]] /\ heard' \in [Process -> {"nobody", "peer", "garbage"}]
  BY <1>1 DEF ReadOK
<1> QED
  BY <1>3, <1>4, <1>5, ReadNow

\* A process that only closes an end.
LEMMA CloseRead ==
    ASSUME HeldOK, ReadOK, NEW p \in Process, CloseOut(p) \/ CloseIn(p)
    PROVE  ReadOK'
<1>1. pipe_pc[p] \in 1 .. 2 /\ Further(p) /\ pipe' = pipe /\ header' = header /\ heard' = heard
  BY PipesLabels DEF CloseOut, CloseIn, Advance, Further
<1>2. HasRead(p) = 0 /\ Written(p) = 0
  BY <1>1, Positions DEF HeldOK
<1>3. /\ HasRead(p)' = HasRead(p) /\ Written(p)' = Written(p)
      /\ HasRead(Peer[p])' = HasRead(Peer[p]) /\ Written(Peer[p])' = Written(Peer[p])
  BY <1>1, <1>2, PipesSteps
<1>4. life' = life /\ p \in Process /\ Peer[p] \in Process /\ Peer[Peer[p]] = p
  BY <1>1, Ends DEF Further
<1>5. \A r \in {p, Peer[p]} :
              /\ pipe'[r] = Left(HasRead(r)', Written(Peer[r])')
              /\ HasRead(r)' > Written(Peer[r])' => life'[Peer[r]] = "dead"
              /\ HasRead(r)' = 1 => header'[r] = "peer" \/ Written(Peer[r])' = 0
              /\ HasRead(r)' = 2 => heard'[r] # "nobody"
              /\ heard'[r] = "garbage" => life'[Peer[r]] = "dead"
  BY <1>1, <1>3, <1>4 DEF ReadOK
<1>6. pipe' = [r \in Process |-> pipe'[r]]
  BY <1>1 DEF ReadOK
<1> QED
  BY <1>1, <1>5, <1>6, ReadNow DEF ReadOK

\* A process that writes, to a peer that has not yet read what it writes.
LEMMA WriteRead ==
    ASSUME HeldOK, ReadOK, NEW p \in Process, NEW piece \in Piece,
           \/ At(p, "write_header") /\ piece = "header"
           \/ At(p, "write_data") /\ piece = "data",
           Advance(p), pipe' = [pipe EXCEPT ![Peer[p]] = Append(@, piece)], heard' = heard,
           header' \in [Process -> {"own", "peer", "unset"}],
           \A r \in Process : HasRead(r) = 1 => header'[r] = header[r]
    PROVE  ReadOK'
<1> DEFINE q == Peer[p]
<1>1. p \in Process /\ q \in Process /\ q # p /\ Peer[q] = p
  BY Ends
<1>2. /\ life[p] = "running" /\ pipe_pc[p] \in 1 .. 6 /\ Further(p)
      /\ Written(p) = (IF piece = "header" THEN 0 ELSE 1)
  BY PipesLabels DEF Advance, Further
<1>3. /\ HasRead(p)' = HasRead(p) /\ Written(p)' = (IF piece = "header" THEN 1 ELSE 2)
      /\ HasRead(q)' = HasRead(q) /\ Written(q)' = Written(q)
  BY <1>2, PipesSteps
<1> HIDE DEF q
<1>4. /\ HasRead(q) \in 0 .. 2 /\ HasRead(q) <= Written(p) /\ life' = life
  <2>1. HasRead(q) \in 0 .. 2 /\ Written(p) \in 0 .. 2
    BY <1>1, Positions DEF HeldOK
  <2>2. ~ (HasRead(q) > Written(p))
    BY <1>1, <1>2 DEF ReadOK
  <2> QED
    BY <1>2, <2>1, <2>2 DEF Further
<1>5. pipe'[q] = Left(HasRead(q)', Written(p)')
  <2>1. pipe'[q] = Append(Left(HasRead(q), Written(p)), piece)
    BY <1>1 DEF ReadOK, q
  <2>2. CASE piece = "header"
    <3>1. HasRead(q) = 0 /\ Written(p) = 0 /\ HasRead(q)' = 0 /\ Written(p)' = 1
      BY <1>2, <1>3, <1>4, <2>2
    <3> QED
      BY <2>1, <2>2, <3>1, Lefts
  <2>3. CASE piece # "header"
    <3>1. HasRead(q) \in 0 .. 1 /\ Written(p) = 1 /\ HasRead(q)' = HasRead(q) /\ Written(p)' = 2
          /\ piece = "data"
      BY <1>2, <1>3, <1>4, <2>3
    <3> QED
      BY <2>1, <3>1, Lefts
  <2> QED
    BY <2>2, <2>3
<1>6. /\ pipe'[p] = Left(HasRead(p)', Written(q)')
      /\ HasRead(p)' > Written(q)' => life'[q] = "dead"
      /\ HasRead(p)' = 1 => header'[p] = "peer" \/ Written(q)' = 0
      /\ HasRead(p)' = 2 => heard'[p] # "nobody"
      /\ heard'[p] = "garbage" => life'[q] = "dead"
  BY <1>1, <1>3, <1>4 DEF ReadOK, q
<1>7. /\ ~ (HasRead(q)' > Written(p)')
      /\ HasRead(q)' = 1 => header'[q] = "peer"
      /\ HasRead(q)' = 2 => heard'[q] # "nobody"
      /\ heard'[q] = "garbage" => life'[p] = "dead"
  <2>1. ~ (HasRead(q)' > Written(p)')
    BY <1>2, <1>3, <1>4
  <2>2. HasRead(q) = 1 => Written(p) # 0
    BY <1>4
  <2> QED
    BY <1>1, <1>3, <1>4, <2>1, <2>2 DEF ReadOK
<1>8. pipe' = [r \in Process |-> pipe'[r]]
  BY DEF ReadOK
<1>9. \A r \in {p, Peer[p]} :
              /\ pipe'[r] = Left(HasRead(r)', Written(Peer[r])')
              /\ HasRead(r)' > Written(Peer[r])' => life'[Peer[r]] = "dead"
              /\ HasRead(r)' = 1 => header'[r] = "peer" \/ Written(Peer[r])' = 0
              /\ HasRead(r)' = 2 => heard'[r] # "nobody"
              /\ heard'[r] = "garbage" => life'[Peer[r]] = "dead"
  BY <1>1, <1>5, <1>6, <1>7 DEF q
<1>10. heard' \in [Process -> {"nobody", "peer", "garbage"}]
  BY DEF ReadOK
<1> QED
  BY <1>8, <1>9, <1>10, ReadNow

\* At the end of file the peer has died, before it wrote all.
LEMMA EofMeansDead ==
    ASSUME HeldOK, ReadOK, NEW p \in Process, HasRead(p) # 2, AtEof(p)
    PROVE  /\ life[Peer[p]] = "dead" /\ HasRead(p) >= Written(Peer[p])
           /\ Written(Peer[p]) # 2
<1> DEFINE q == Peer[p]
<1>1. q \in Process /\ Peer[q] = p /\ HasRead(p) \in 0 .. 2 /\ Written(q) \in 0 .. 2
  BY Ends, Positions DEF HeldOK
<1>2. pipe[p] = << >> /\ writers[p] = {}
  BY DEF AtEof
<1>3. life[q] # "running"
  BY <1>1, <1>2 DEF HeldOK
<1>4. Left(HasRead(p), Written(q)) = << >>
  BY <1>2 DEF ReadOK
<1>5. HasRead(p) = 0 \/ HasRead(p) = 1
  BY <1>1
<1>6. Written(q) # 2 /\ HasRead(p) >= Written(q)
  BY <1>1, <1>4, <1>5, Lefts
<1>7. life[q] # "exited"
  BY <1>1, <1>6, Positions DEF HeldOK
<1> QED
  BY <1>1, <1>3, <1>6, <1>7 DEF HeldOK

\* A process that has read, or met the end of file.
LEMMA ReadRead ==
    ASSUME HeldOK, ReadOK, NEW p \in Process, Advance(p),
           At(p, "read_header") \/ At(p, "read_data"),
           \/ pipe[p] # << >> /\ pipe' = [pipe EXCEPT ![p] = Tail(@)]
           \/ AtEof(p) /\ pipe' = pipe,
           header' \in [Process -> {"own", "peer", "unset"}], header'[Peer[p]] = header[Peer[p]],
           heard' \in [Process -> {"nobody", "peer", "garbage"}], heard'[Peer[p]] = heard[Peer[p]],
           At(p, "read_header") => heard'[p] = heard[p] /\ (pipe[p] # << >> => header'[p] = "peer"),
           At(p, "read_data") => /\ heard'[p] # "nobody"
                                 /\ heard'[p] = "garbage" => header[p] # "peer" \/ AtEof(p)
    PROVE  ReadOK'
<1> DEFINE q == Peer[p]
           r == HasRead(p)
           w == Written(q)
<1>1. p \in Process /\ q \in Process /\ q # p /\ Peer[q] = p
  BY Ends
<1>2. /\ pipe_pc[p] \in 1 .. 6 /\ Further(p) /\ life' = life
      /\ r = (IF At(p, "read_header") THEN 0 ELSE 1)
  BY PipesLabels DEF Advance, Further
<1>3. /\ HasRead(p)' = r + 1 /\ Written(p)' = Written(p) /\ HasRead(q)' = HasRead(q) /\ Written(q)' = w
  BY <1>2, PipesSteps
<1>4. r \in 0 .. 1 /\ w \in 0 .. 2 /\ pipe[p] = Left(r, w)
  BY <1>1, <1>2, Positions DEF HeldOK, ReadOK
<1>6. ASSUME pipe'[q] = pipe[q]
      PROVE  /\ pipe'[q] = Left(HasRead(q)', Written(p)')
             /\ HasRead(q)' > Written(p)' => life'[p] = "dead"
             /\ HasRead(q)' = 1 => header'[q] = "peer" \/ Written(p)' = 0
             /\ HasRead(q)' = 2 => heard'[q] # "nobody"
             /\ heard'[q] = "garbage" => life'[p] = "dead"
  BY <1>1, <1>2, <1>3, <1>6 DEF ReadOK
<1>7. ASSUME pipe' = [x \in Process |-> pipe'[x]], \A x \in Process : x # p => pipe'[x] = pipe[x],
             pipe'[p] = Left(r + 1, w), r + 1 > w => life'[q] = "dead",
             r + 1 = 1 => header'[p] = "peer" \/ w = 0, r + 1 = 2 => heard'[p] # "nobody",
             heard'[p] = "garbage" => life'[q] = "dead"
      PROVE  ReadOK'
  <2>1. \A x \in {p, Peer[p]} :
              /\ pipe'[x] = Left(HasRead(x)', Written(Peer[x])')
              /\ HasRead(x)' > Written(Peer[x])' => life'[Peer[x]] = "dead"
              /\ HasRead(x)' = 1 => header'[x] = "peer" \/ Written(Peer[x])' = 0
              /\ HasRead(x)' = 2 => heard'[x] # "nobody"
              /\ heard'[x] = "garbage" => life'[Peer[x]] = "dead"
    BY <1>1, <1>3, <1>6, <1>7
  <2> QED
    BY <1>7, <2>1, ReadNow
<1>5. CASE pipe[p] # << >> /\ pipe' = [pipe EXCEPT ![p] = Tail(@)]
  <2>1. w > r /\ Left(r + 1, w) = Tail(Left(r, w))
    <3>1. CASE r = 0
      BY <1>4, <1>5, <3>1, Lefts
    <3>2. CASE r = 1
      BY <1>4, <1>5, <3>2, Lefts
    <3> QED
      BY <1>4, <3>1, <3>2
  <2>2. pipe'[p] = Left(r + 1, w)
    BY <1>1, <1>4, <1>5, <2>1 DEF ReadOK
  <2>3. r + 1 = 1 => header'[p] = "peer"
    BY <1>2, <1>5
  <2>4. r + 1 = 2 => heard'[p] # "nobody"
    BY <1>2
  <2>5. heard'[p] = "garbage" => life'[q] = "dead"
    <3>1. CASE r = 0
      BY <1>1, <1>2, <3>1 DEF ReadOK
    <3>2. CASE r = 1
      <4>1. ~ AtEof(p) /\ At(p, "read_data")
        BY <1>2, <1>5, <3>2 DEF AtEof
      <4>2. header[p] = "peer"
        BY <1>4, <2>1, <3>2 DEF ReadOK
      <4> QED
        BY <4>1, <4>2
    <3> QED
      BY <1>4, <3>1, <3>2
  <2>6. pipe' = [x \in Process |-> pipe'[x]] /\ \A x \in Process : x # p => pipe'[x] = pipe[x]
    BY <1>5 DEF ReadOK
  <2>7. ~ (r + 1 > w)
    BY <1>4, <2>1
  <2> QED
    BY <1>6, <1>7, <2>2, <2>3, <2>4, <2>5, <2>6, <2>7
<1>8. CASE AtEof(p) /\ pipe' = pipe
  <2>1. life[q] = "dead" /\ r >= w /\ w # 2
    BY <1>2, <1>8, EofMeansDead
  <2>2. Left(r + 1, w) = << >>
    <3>1. CASE r = 0
      <4>1. w = 0
        BY <1>4, <2>1, <3>1
      <4> QED
        BY <3>1, <4>1, Lefts
    <3>2. CASE r = 1
      BY <1>4, <3>2, Lefts
    <3> QED
      BY <1>4, <3>1, <3>2
  <2>3. pipe'[p] = Left(r + 1, w)
    BY <1>8, <2>2 DEF AtEof
  <2>4. r + 1 = 1 => w = 0
    BY <1>4, <2>1
  <2>5. r + 1 = 2 => heard'[p] # "nobody"
    BY <1>2, <1>4
  <2>6. pipe' = [x \in Process |-> pipe'[x]] /\ \A x \in Process : x # p => pipe'[x] = pipe[x]
    BY <1>8 DEF ReadOK
  <2> QED
    BY <1>2, <1>6, <1>7, <2>1, <2>3, <2>4, <2>5, <2>6
<1> QED
  BY <1>5, <1>8

\* The inductive invariant.
PipesInv == HeldOK /\ ReadOK

LEMMA PipesStepInv ==
    ASSUME PipesInv, NEW p \in Process, PipesStep(p)
    PROVE  PipesInv'
<1>1. HeldOK /\ ReadOK
  BY DEF PipesInv
<1>2. kills' = kills /\ kills' \in 0 .. MaxKills
  BY <1>1 DEF PipesStep, CloseOut, CloseIn, WriteHeader, WriteData, ReadHeader, ReadData, Exit, HeldOK
<1>3. CASE CloseOut(p) \/ CloseIn(p)
  BY <1>1, <1>3, CloseHeld, CloseRead DEF PipesInv
<1>4. ASSUME pipe_pc[p] \in 3 .. 6, life[p] = "running", Advance(p), UNCHANGED << readers, writers >>
      PROVE  HeldOK'
  BY <1>1, <1>2, <1>4, FurtherHeld DEF Advance, Further
<1>5. ASSUME life[p] = "running", End(p, "dead") PROVE HeldOK'
  BY <1>1, <1>2, <1>5, EndHeld
<1>6. ASSUME NEW piece \in Piece,
             \/ At(p, "write_header") /\ piece = "header"
             \/ At(p, "write_data") /\ piece = "data",
             WriteTo(p, piece), heard' = heard,
             header' \in [Process -> {"own", "peer", "unset"}],
             \A r \in Process : HasRead(r) = 1 => header'[r] = header[r]
      PROVE  PipesInv'
  <2>1. pipe_pc[p] \in 3 .. 6 /\ life[p] = "running"
    BY <1>1, <1>6, PipesLabels
  <2>2. CASE End(p, "dead") /\ UNCHANGED pipe
    BY <1>1, <1>5, <1>6, <2>1, <2>2, EndRead DEF PipesInv
  <2>3. CASE /\ Advance(p) /\ pipe' = [pipe EXCEPT ![Peer[p]] = Append(@, piece)]
             /\ UNCHANGED << readers, writers >>
    <3>1. HeldOK'
      BY <1>4, <2>1, <2>3
    <3>2. ReadOK'
      BY <1>1, <1>6, <2>3, WriteRead
    <3> QED
      BY <3>1, <3>2 DEF PipesInv
  <2> QED
    BY <1>6, <2>2, <2>3 DEF WriteTo
<1>7. CASE WriteHeader(p)
  <2>1. HasRead(p) # 1
    BY <1>1, <1>7, PipesLabels DEF WriteHeader
  <2>2. /\ header' \in [Process -> {"own", "peer", "unset"}]
        /\ \A r \in Process : HasRead(r) = 1 => header'[r] = header[r]
    BY <1>1, <1>7, <2>1 DEF WriteHeader, ReadOK
  <2> QED
    BY <1>6, <1>7, <2>2 DEF WriteHeader, Piece
<1>8. CASE WriteData(p)
  <2>1. header' = header /\ header' \in [Process -> {"own", "peer", "unset"}]
    BY <1>1, <1>8 DEF WriteData, ReadOK
  <2> QED
    BY <1>6, <1>8, <2>1 DEF WriteData, Piece
<1>9. CASE ReadHeader(p)
  <2>1. pipe_pc[p] \in 3 .. 6 /\ life[p] = "running" /\ At(p, "read_header") /\ ~ At(p, "read_data")
    BY <1>1, <1>9, PipesLabels DEF ReadHeader, At
  <2>2. HeldOK'
    BY <1>4, <1>9, <2>1 DEF ReadHeader
  <2>3. /\ header' \in [Process -> {"own", "peer", "unset"}] /\ header'[Peer[p]] = header[Peer[p]]
        /\ heard' = heard /\ heard' \in [Process -> {"nobody", "peer", "garbage"}]
        /\ pipe[p] # << >> => header'[p] = "peer"
    BY <1>1, <1>9, Ends DEF ReadHeader, ReadOK, AtEof
  <2>4. ReadOK'
    BY <1>1, <1>9, <2>1, <2>3, ReadRead DEF ReadHeader
  <2> QED
    BY <2>2, <2>4 DEF PipesInv
<1>10. CASE ReadData(p)
  <2>1. pipe_pc[p] \in 3 .. 6 /\ life[p] = "running" /\ At(p, "read_data") /\ ~ At(p, "read_header")
    BY <1>1, <1>10, PipesLabels DEF ReadData, At
  <2>2. CASE Advance(p) /\ UNCHANGED << readers, writers >>
             /\ (\/ /\ pipe[p] # << >> /\ pipe' = [pipe EXCEPT ![p] = Tail(@)]
                    /\ heard' = [heard EXCEPT ![p] = IF header[p] = "peer" THEN "peer" ELSE "garbage"]
                 \/ AtEof(p) /\ pipe' = pipe /\ heard' = [heard EXCEPT ![p] = "garbage"])
    <3>1. HeldOK'
      BY <1>4, <2>1, <2>2
    <3>2. header' = header /\ header' \in [Process -> {"own", "peer", "unset"}]
      BY <1>1, <1>10 DEF ReadData, ReadOK
    <3>3. /\ heard' \in [Process -> {"nobody", "peer", "garbage"}] /\ heard'[Peer[p]] = heard[Peer[p]]
          /\ heard'[p] # "nobody" /\ heard'[p] = "garbage" => header[p] # "peer" \/ AtEof(p)
      BY <1>1, <2>2, Ends DEF ReadOK
    <3>4. ReadOK'
      BY <1>1, <2>1, <2>2, <3>2, <3>3, ReadRead
    <3> QED
      BY <3>1, <3>4 DEF PipesInv
  <2>3. CASE End(p, "dead") /\ UNCHANGED << pipe, heard >>
    <3>1. header' = header /\ header' \in [Process -> {"own", "peer", "unset"}]
      BY <1>1, <1>10 DEF ReadData, ReadOK
    <3> QED
      BY <1>1, <1>5, <2>1, <2>3, <3>1, EndRead DEF PipesInv
  <2> QED
    BY <1>10, <2>2, <2>3 DEF ReadData
<1>11. CASE Exit(p)
  <2>1. pipe_pc[p] = 7 /\ life[p] = "running" /\ End(p, "exited") /\ UNCHANGED << pipe, header, heard >>
    BY <1>1, <1>11, PipesLabels DEF Exit
  <2>2. HeldOK'
    BY <1>1, <1>2, <2>1, EndHeld
  <2>3. header' \in [Process -> {"own", "peer", "unset"}]
    BY <1>1, <2>1 DEF ReadOK
  <2> QED
    BY <1>1, <2>1, <2>2, <2>3, EndRead DEF PipesInv
<1> QED
  BY <1>3, <1>7, <1>8, <1>9, <1>10, <1>11 DEF PipesStep

LEMMA PipesKillInv ==
    ASSUME PipesInv, NEW p \in Process, Kill(p)
    PROVE  PipesInv'
<1>1. HeldOK /\ ReadOK /\ MaxKills \in Nat
  BY PipesAssumption DEF PipesInv
<1>2. life[p] = "running" /\ End(p, "dead") /\ UNCHANGED << pipe, header, heard >>
      /\ kills' \in 0 .. MaxKills
  BY <1>1 DEF Kill, HeldOK
<1>3. HeldOK'
  BY <1>1, <1>2, EndHeld
<1>4. header' \in [Process -> {"own", "peer", "unset"}]
  BY <1>1, <1>2 DEF ReadOK
<1> QED
  BY <1>1, <1>2, <1>3, <1>4, EndRead DEF PipesInv

LEMMA PipesInitInv == PipesInit => PipesInv
<1> SUFFICES ASSUME PipesInit PROVE PipesInv
  OBVIOUS
<1>1. /\ life \in [Process -> {"running", "exited", "dead"}]
      /\ \A p \in Process : life[p] # "exited" /\ pipe_pc[p] = 1
      /\ pipe_pc \in [Process -> 1 .. 7] /\ kills \in 0 .. MaxKills
  BY PipesAssumption DEF PipesInit, Process
<1>2. readers = [p \in Process |->
                    {q \in Process : life[q] = "running" /\ (q = p \/ pipe_pc[q] <= 2)}]
  BY <1>1 DEF PipesInit, Process
<1>3. writers = [p \in Process |->
                    {q \in Process : life[q] = "running" /\ (q = Peer[p] \/ pipe_pc[q] = 1)}]
  BY <1>1 DEF PipesInit, Process
<1>4. \A p \in Process : HasRead(p) = 0 /\ Written(p) = 0
  BY <1>1, Positions
<1>5. ReadOK
  BY <1>4, Lefts, Ends DEF PipesInit, ReadOK, Process
<1> QED
  BY <1>1, <1>2, <1>3, <1>5 DEF PipesInv, HeldOK

LEMMA PipesInvariance == PipesSpec => []PipesInv
<1>1. PipesInv /\ [PipesNext]_pipesVars => PipesInv'
  <2> SUFFICES ASSUME PipesInv, [PipesNext]_pipesVars PROVE PipesInv'
    OBVIOUS
  <2>1. CASE UNCHANGED pipesVars
    BY <2>1 DEF pipesVars, PipesInv, HeldOK, ReadOK, HasRead, Written
  <2> QED
    BY <2>1, PipesStepInv, PipesKillInv DEF PipesNext
<1> QED
  BY <1>1, PipesInitInv, PTL DEF PipesSpec

\* Every state of the program that uses pipes has the declared types: above all,
\* no pipe ever holds more than the header and the data of one message
\* (hw4p2_pipes.c:105-111, 138-153).
THEOREM PipesTypeCorrect == PipesSpec => []PipesTypeOK
<1>1. PipesInv => PipesTypeOK
  <2> SUFFICES ASSUME PipesInv PROVE PipesTypeOK
    OBVIOUS
  <2>1. HeldOK /\ ReadOK
    BY DEF PipesInv
  <2>2. \A p \in Process : HasRead(p) \in 0 .. 2 /\ Written(Peer[p]) \in 0 .. 2
    BY <2>1, Ends, Positions DEF HeldOK
  <2>3. \A p \in Process : pipe[p] \in Seq(Piece) /\ Len(pipe[p]) <= 2
    BY <2>1, <2>2, Lefts DEF ReadOK
  <2>4. pipe \in [Process -> Seq(Piece)]
    BY <2>1, <2>3 DEF ReadOK
  <2>5. readers \in [Process -> SUBSET Process] /\ writers \in [Process -> SUBSET Process]
    BY <2>1 DEF HeldOK
  <2> QED
    BY <2>1, <2>3, <2>4, <2>5 DEF HeldOK, ReadOK, PipesTypeOK
<1> QED
  BY <1>1, PipesInvariance, PTL

\* However the two processes interleave and whenever either is killed: what one
\* prints is what the other wrote, or that one died, and no process exits without
\* having printed (hw4p2_pipes.c:105-112, 138-153).
THEOREM WholeOrKilled == PipesSpec => []WholeUnlessKilled
<1>1. PipesInv => WholeUnlessKilled
  <2> SUFFICES ASSUME PipesInv, NEW p \in Process
               PROVE  /\ heard[p] = "garbage" => life[Peer[p]] = "dead"
                      /\ life[p] = "exited" => heard[p] # "nobody"
    BY DEF WholeUnlessKilled
  <2>1. HeldOK /\ ReadOK
    BY DEF PipesInv
  <2>2. life[p] = "exited" => HasRead(p) = 2
    BY <2>1, Positions DEF HeldOK
  <2> QED
    BY <2>1, <2>2 DEF ReadOK
<1> QED
  BY <1>1, PipesInvariance, PTL
==============================================================================
