------------------------------- MODULE Sockets -------------------------------
(***************************************************************************)
(* hw4/p2, IPC over Unix-domain datagram sockets (hw4p2_sockets.c).  The   *)
(* parent is the server: it binds a path, receives one message and answers *)
(* to its sender.  The child binds a path of its own, sends, retrying      *)
(* while the server's path does not exist, and receives the answer.        *)
(*                                                                         *)
(* The path of a bound socket outlives the process that bound it.  To send *)
(* to a path without a file fails with ENOENT, to one whose socket is      *)
(* closed with ECONNREFUSED.  A process sends and receives through one     *)
(* buffer.                                                                 *)
(***************************************************************************)
EXTENDS Messages, Processes

CONSTANTS BUFFER_SIZE,
          Faults,   \* the calls that may fail
          MaxRuns   \* bound: executions of the program

ASSUME SocketsAssumption == /\ BUFFER_SIZE \in Nat
                            /\ \A p \in {"parent", "child"} :
                                  HeaderSize + Sent[p].data_len <= BUFFER_SIZE
                            /\ Faults \subseteq {"fork", "socket", "bind", "receive"}
                            /\ MaxRuns \in Nat \ {0}

VARIABLES run,    \* executions of the program so far
          pc,     \* pc[p]: what process p does next
          path,   \* path[p]: the file at the path of p's socket
          inbox,  \* inbox[p]: the messages waiting at p's socket
          msg_buf, \* msg_buf[p]: what is in p's buffer
          printed \* printed[p]: what p has printed as received

vars == << run, pc, path, inbox, msg_buf, printed >>

Payload == {Flat(Sent[p]) : p \in Process}
Buffer  == [1 .. BUFFER_SIZE -> Nat]

\* malloc() returns what it returns.
Unset == [p \in Process |-> [i \in 1 .. BUFFER_SIZE |-> 255]]

\* A process that returns early does not close and unlink: "failed".
Label == {"socket", "unlink", "bind", "receive", "send", "close", "remove", "done", "failed"}

TypeOK == /\ run \in 1 .. MaxRuns
          /\ pc \in [Process -> Label]
          /\ path \in [Process -> {"absent", "bound", "closed"}]
          /\ inbox \in [Process -> Seq(Payload)]
          /\ \A p \in Process : Len(inbox[p]) <= 1
          /\ msg_buf \in [Process -> Buffer]
          /\ printed \in [Process -> Seq(Nat)]

\* fork() has returned; if it failed there is only a parent.
Forked == {[p \in Process |-> "socket"]} \cup
          (IF "fork" \in Faults THEN {[parent |-> "socket", child |-> "failed"]} ELSE {})

Init == /\ run = 1
        /\ pc \in Forked
        /\ path = [p \in Process |-> "absent"]
        /\ inbox = [p \in Process |-> << >>]
        /\ msg_buf = Unset
        /\ printed = [p \in Process |-> Nothing]
------------------------------------------------------------------------------
Goto(p, l) == pc' = [pc EXCEPT ![p] = l]

\* What is bound to a path is no longer once its process has returned.
Closed(p) == [path EXCEPT ![p] = IF @ = "bound" THEN "closed" ELSE @]

\* The process returns early; a socket that it had is closed.
Return(p) == /\ Goto(p, "failed")
             /\ path' = Closed(p)
             /\ inbox' = [inbox EXCEPT ![p] = << >>]

\* socket(), bind() or recvfrom() fails.
CallFails(p) ==
    /\ pc[p] \in Faults
    /\ Return(p)
    /\ UNCHANGED << run, msg_buf, printed >>

Socket(p) ==
    /\ pc[p] = "socket"
    /\ Goto(p, "unlink")
    /\ UNCHANGED << run, path, inbox, msg_buf, printed >>

Unlink(p) ==
    /\ pc[p] = "unlink"
    /\ path' = [path EXCEPT ![p] = "absent"]
    /\ Goto(p, "bind")
    /\ UNCHANGED << run, inbox, msg_buf, printed >>

AfterBind == [parent |-> "receive", child |-> "send"]

\* bind() fails if the file exists.
Bind(p) ==
    /\ pc[p] = "bind"
    /\ IF path[p] = "absent"
       THEN /\ path' = [path EXCEPT ![p] = "bound"]
            /\ Goto(p, AfterBind[p])
            /\ UNCHANGED inbox
       ELSE Return(p)
    /\ UNCHANGED << run, msg_buf, printed >>

AfterReceive == [parent |-> "send", child |-> "close"]

\* recvfrom() blocks while no message has come.
Receive(p) ==
    /\ pc[p] = "receive"
    /\ inbox[p] # << >>
    /\ LET buf == Overwrite(msg_buf[p], Head(inbox[p]))
       IN  /\ msg_buf' = [msg_buf EXCEPT ![p] = buf]
           /\ printed' = [printed EXCEPT ![p] = msg_to_str(msgbuf_to_msg(buf))]
    /\ inbox' = [inbox EXCEPT ![p] = Tail(@)]
    /\ Goto(p, AfterReceive[p])
    /\ UNCHANGED << run, path >>

\* p's message is put into its buffer, and so much of it sent as returned.
Serialized(p) == msg_to_msgbuf(msg_buf[p], Sent[p])

Serialize(p) == msg_buf' = [msg_buf EXCEPT ![p] = Serialized(p)]

Deliver(p) ==
    inbox' = [inbox EXCEPT ![Peer[p]] =
                Append(@, SubSeq(Serialized(p), 1, HeaderSize + Sent[p].data_len))]

\* Mutant: the server closes its socket instead of answering.
AnswerSkipped ==
    /\ pc["parent"] = "send"
    /\ Goto("parent", "close")
    /\ UNCHANGED << run, path, inbox, msg_buf, printed >>

\* The server's sendto() is not checked.
Answer ==
    /\ pc["parent"] = "send"
    /\ Serialize("parent")
    /\ IF path["child"] = "bound" THEN Deliver("parent") ELSE UNCHANGED inbox
    /\ Goto("parent", "close")
    /\ UNCHANGED << run, path, printed >>

\* Mutant: the child sends again although its message was accepted.
RequestAgain ==
    /\ pc["child"] = "send"
    /\ path["parent"] = "bound"
    /\ Deliver("child")
    /\ UNCHANGED << run, pc, path, msg_buf, printed >>

\* The child retries after ENOENT only; it returns after any other error.
Request ==
    /\ pc["child"] = "send"
    /\ CASE path["parent"] = "bound"  -> Deliver("child") /\ Goto("child", "receive")
                                         /\ UNCHANGED path
         [] path["parent"] = "absent" -> UNCHANGED << pc, inbox, path >>
         [] path["parent"] = "closed" -> Return("child")
    /\ Serialize("child")
    /\ UNCHANGED << run, printed >>

Close(p) ==
    /\ pc[p] = "close"
    /\ path' = Closed(p)
    /\ inbox' = [inbox EXCEPT ![p] = << >>]
    /\ Goto(p, "remove")
    /\ UNCHANGED << run, msg_buf, printed >>

Remove(p) ==
    /\ pc[p] = "remove"
    /\ path' = [path EXCEPT ![p] = "absent"]
    /\ Goto(p, "done")
    /\ UNCHANGED << run, inbox, msg_buf, printed >>

\* Both processes end, wherever they are, and the program is started again.
Rerun ==
    /\ run < MaxRuns
    /\ run' = run + 1
    /\ pc' \in Forked
    /\ path' = [p \in Process |-> IF path[p] = "bound" THEN "closed" ELSE path[p]]
    /\ inbox' = [p \in Process |-> << >>]
    /\ msg_buf' = Unset
    /\ printed' = [p \in Process |-> Nothing]

Step(p) == Socket(p) \/ Unlink(p) \/ Bind(p) \/ Receive(p) \/ Close(p) \/ Remove(p)

Next == Rerun \/ Answer \/ Request \/ \E p \in Process : Step(p) \/ CallFails(p)

Spec == Init /\ [][Next]_vars

\* The scheduler runs every process that can run; no call has to fail.
FairSpec == /\ Spec
            /\ \A p \in Process : WF_vars(Step(p))
            /\ WF_vars(Answer) /\ WF_vars(Request)
------------------------------------------------------------------------------
Done == \A p \in Process : pc[p] = "done"

\* The sender of the message that p has printed.
got == [p \in Process |-> Author(printed[p])]

X == INSTANCE Exchange

\* Whatever an earlier execution left behind, whoever receives a message prints
\* the one that the other process sent in this execution, whole and as it was
\* built, although it arrives in a buffer that held another one
\* (hw4p2_sockets.c:99-120, 171-191): the implementation of module Exchange.
PeersExchange == X!Spec

Failed == \E p \in Process : pc[p] = "failed"

\* Once the child's message has been accepted, both processes come to their
\* end unless a recvfrom() fails: the server's answer finds the client's
\* socket, whatever paths were left (112-123, 185-194).
SentMeansDone == \A r \in 1 .. MaxRuns :
    (run = r /\ pc["child"] = "receive") ~> (Done \/ Failed \/ run > r)
==============================================================================
