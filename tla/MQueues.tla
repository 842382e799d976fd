------------------------------- MODULE MQueues -------------------------------
(***************************************************************************)
(* hw4/p2, IPC over POSIX message queues (hw4p2_mqueues.c).  Each process  *)
(* creates the queue it reads, opens the queue of the other one, sends one *)
(* message, receives one, and unlinks its queue.                           *)
(*                                                                         *)
(* Queues are kernel objects with a name: a descriptor stays valid after   *)
(* mq_unlink(), and name, queue and the messages in it outlive a process   *)
(* that is killed.  A process receives into the buffer from which it sent. *)
(***************************************************************************)
EXTENDS Messages, Processes

CONSTANTS MAX_MSG_SIZE,
          MaxMsgCount,  \* MAX_MSG_COUNT, the capacity of a queue
          Faults,       \* the calls that may fail
          MaxRuns       \* bound: executions of the program

ASSUME MQueuesAssumption == /\ MAX_MSG_SIZE \in Nat
                            /\ \A p \in {"parent", "child"} :
                                  HeaderSize + Sent[p].data_len <= MAX_MSG_SIZE
                            /\ MaxMsgCount \in Nat \ {0}
                            /\ MaxRuns \in Nat \ {0}
                            /\ Faults \subseteq {"fork", "open"}

\* A run creates a queue under each of the two names at most once.
Queue == 1 .. 2 * MaxRuns
None  == 0

VARIABLES run,    \* executions of the program so far
          made,   \* queues created so far
          pc,     \* pc[p]: what process p does next
          name,   \* name[p]: the queue under the name of p's own queue, or None
          queue,  \* queue[q]: the messages in q
          own,    \* own[p]: p's descriptor for reading
          out,    \* out[p]: p's descriptor for writing
          msg_buf, \* msg_buf[p]: what is in p's buffer
          printed \* printed[p]: what p has printed as received

localVars == << msg_buf, printed >>
vars      == << run, made, pc, name, queue, own, out, localVars >>

Payload == {Flat(Sent[p]) : p \in Process}
Buffer  == [1 .. MAX_MSG_SIZE -> Nat]

\* malloc() returns what it returns.
Unset == [p \in Process |-> [i \in 1 .. MAX_MSG_SIZE |-> 255]]

Label == {"create", "open", "retry", "spin", "send", "receive", "unlink", "done", "absent"}

TypeOK == /\ run \in 1 .. MaxRuns
          /\ made \in 0 .. 2 * MaxRuns
          /\ pc \in [Process -> Label]
          /\ name \in [Process -> Queue \cup {None}]
          /\ queue \in [Queue -> Seq(Payload)]
          /\ \A q \in Queue : Len(queue[q]) <= MaxMsgCount
          /\ own \in [Process -> Queue \cup {None}]
          /\ out \in [Process -> Queue \cup {None}]
          /\ msg_buf \in [Process -> Buffer]
          /\ printed \in [Process -> Seq(Nat)]

\* fork() has returned; if it failed, its -1 sends the parent to parent().
Forked == {[p \in Process |-> "create"]} \cup
          (IF "fork" \in Faults THEN {[parent |-> "create", child |-> "absent"]} ELSE {})

Init == /\ run = 1
        /\ made = 0
        /\ pc \in Forked
        /\ name = [p \in Process |-> None]
        /\ queue = [q \in Queue |-> << >>]
        /\ own = [p \in Process |-> None]
        /\ out = [p \in Process |-> None]
        /\ msg_buf = Unset
        /\ printed = [p \in Process |-> Nothing]
------------------------------------------------------------------------------
Goto(p, l) == pc' = [pc EXCEPT ![p] = l]

\* mq_open(own name, O_CREAT | O_RDONLY): an existing queue is opened as it is.
Create(p) ==
    /\ pc[p] = "create"
    /\ \/ /\ name[p] = None
          /\ made' = made + 1
          /\ name' = [name EXCEPT ![p] = made + 1]
          /\ own' = [own EXCEPT ![p] = made + 1]
          /\ Goto(p, "open")
       \/ /\ name[p] # None
          /\ own' = [own EXCEPT ![p] = name[p]]
          /\ Goto(p, "open")
          /\ UNCHANGED << made, name >>
    /\ UNCHANGED << run, queue, out, localVars >>

\* mq_open(n, O_WRONLY), by p at label l.
TryOpen(p, l, n) ==
    /\ pc[p] = l
    /\ \/ /\ name[n] # None
          /\ out' = [out EXCEPT ![p] = name[n]]
          /\ Goto(p, "send")
       \/ /\ name[n] = None
          /\ Goto(p, "retry")
          /\ UNCHANGED out
    /\ UNCHANGED << run, made, name, queue, own, localVars >>

\* Mutant: both processes open the parent's queue for writing.
OpenParent(p) == TryOpen(p, "open", "parent")

Open(p) == TryOpen(p, "open", Peer[p])

\* The name that the loop of each process tries: MQ_NAME_C, in both.
RetryName == [parent |-> "child", child |-> "child"]

Retry(p) == TryOpen(p, "retry", RetryName[p])

\* mq_open() fails, with another error than ENOENT: the process returns, or,
\* if its own queue is open, prints for ever in a loop that opens nothing.
OpenFails(p) ==
    /\ "open" \in Faults
    /\ \/ pc[p] = "create" /\ Goto(p, "done")
       \/ pc[p] \in {"open", "retry"} /\ Goto(p, "spin")
    /\ UNCHANGED << run, made, name, queue, own, out, localVars >>

\* The message is put into msg_buf, and so much of it into queue q.
Put(p, q) ==
    LET buf == msg_to_msgbuf(msg_buf[p], Sent[p])
    IN  /\ msg_buf' = [msg_buf EXCEPT ![p] = buf]
        /\ queue' = [queue EXCEPT ![q] =
                       Append(@, SubSeq(buf, 1, HeaderSize + Sent[p].data_len))]
        /\ Goto(p, "receive")
        /\ UNCHANGED << run, made, name, own, out, printed >>

\* Mutant: the capacity is not observed.
SendUnbounded(p) == pc[p] = "send" /\ Put(p, out[p])

\* mq_send() blocks while the queue is full.
Send(p) == pc[p] = "send" /\ Len(queue[out[p]]) < MaxMsgCount /\ Put(p, out[p])

\* mq_receive() blocks while the queue is empty.
Receive(p) ==
    /\ pc[p] = "receive"
    /\ queue[own[p]] # << >>
    /\ LET buf == Overwrite(msg_buf[p], Head(queue[own[p]]))
       IN  /\ msg_buf' = [msg_buf EXCEPT ![p] = buf]
           /\ printed' = [printed EXCEPT ![p] = msg_to_str(msgbuf_to_msg(buf))]
    /\ queue' = [queue EXCEPT ![own[p]] = Tail(@)]
    /\ Goto(p, "unlink")
    /\ UNCHANGED << run, made, name, own, out >>

Unlink(p) ==
    /\ pc[p] = "unlink"
    /\ name' = [name EXCEPT ![p] = None]
    /\ Goto(p, "done")
    /\ UNCHANGED << run, made, queue, own, out, localVars >>

\* Both processes end, wherever they are, and the program is started again.
\* The kernel keeps the named queues and what is in them.
Rerun ==
    /\ run < MaxRuns
    /\ run' = run + 1
    /\ pc' \in Forked
    /\ own' = [p \in Process |-> None]
    /\ out' = [p \in Process |-> None]
    /\ msg_buf' = Unset
    /\ printed' = [p \in Process |-> Nothing]
    /\ UNCHANGED << made, name, queue >>

Step(p) == Create(p) \/ Open(p) \/ Retry(p) \/ Send(p) \/ Receive(p) \/ Unlink(p)

Next == Rerun \/ \E p \in Process : Step(p) \/ OpenFails(p)

Spec == Init /\ [][Next]_vars

\* The scheduler runs every process that can run; no call has to fail.
FairSpec == Spec /\ \A p \in Process : WF_vars(Step(p))
------------------------------------------------------------------------------
Done == \A p \in Process : pc[p] = "done"

\* Has the child opened its own queue for writing?
Misopened == out["child"] # None /\ out["child"] = own["child"]

\* The sender of the message that p has printed.
got == [p \in Process |-> Author(printed[p])]

X == INSTANCE Exchange

\* The parent never prints anything but the child's message, whole and as it was
\* built, whatever earlier executions left in its queue and whatever it has sent
\* from the same buffer; so does the child with the parent's, and in a fresh
\* system it prints its own message only if it opened its own queue for writing
\* (hw4p2_mqueues.c:102-129, 161-200, messages.c:62-76).
Provenance == /\ got["parent"] \in {"nobody", "child"}
              /\ got["child"] \in {"nobody", "parent", "child"}
              /\ run = 1 /\ got["child"] = "child" => Misopened

\* In a fresh system, once the child has opened the parent's queue both
\* processes end, unless the program is interrupted or the parent cannot open
\* the child's queue (87-97, 116-129, 187-200).
OpenedMeansDone ==
    (run = 1 /\ pc["child"] = "send" /\ ~ Misopened)
        ~> (Done \/ pc["parent"] = "spin" \/ run > 1)

\* Each process prints the message of the other one (hw4p2_mqueues.c:64-65,
\* 141-142): the implementation of module Exchange.
PeersExchange == X!Spec
==============================================================================
