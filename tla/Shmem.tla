-------------------------------- MODULE Shmem --------------------------------
(***************************************************************************)
(* hw4/p2, IPC over POSIX shared memory (hw4p2_shmem.c).  Each process has *)
(* a mailbox, a named shared memory segment, and a named semaphore that is *)
(* posted when a message is in it.  Both processes create whatever does    *)
(* not exist yet, and both unlink everything.                              *)
(*                                                                         *)
(* Segments and semaphores are kernel objects: a mapping or an open        *)
(* semaphore survives the unlinking of its name, and a name and its object *)
(* survive a process that is killed.  A new segment has size 0, and an     *)
(* access to a mapping beyond the segment's size kills the process.        *)
(*                                                                         *)
(* A message is copied to and from a mailbox in place, header first, while *)
(* the other process runs.                                                 *)
(***************************************************************************)
EXTENDS Messages, Processes

CONSTANTS SHM_SIZE,
          Faults,   \* the calls that may fail
          MaxRuns   \* bound: executions of the program

ASSUME ShmemAssumption == /\ SHM_SIZE \in Nat
                          /\ \A p \in {"parent", "child"} :
                                HeaderSize + Sent[p].data_len <= SHM_SIZE
                          /\ Faults \subseteq {"fork", "shm"}
                          /\ MaxRuns \in Nat \ {0}

\* Within a run a name is created at most twice: it is unlinked only by a
\* process that creates nothing any more.
Object == 1 .. 4 * MaxRuns
None   == 0

Cells == [1 .. SHM_SIZE -> Nat]
Zeros == [i \in 1 .. SHM_SIZE |-> 0]   \* the contents of a new segment

VARIABLES run,       \* executions of the program so far
          pc,        \* pc[p]: p's position in Program[p], Failed or Sigbus
          shm, sem,  \* shm[p], sem[p]: the segment and the semaphore under
                     \* the names of p's mailbox, or None
          size,      \* size[o]: has segment o been given SHM_SIZE bytes?
          mail,      \* mail[o]: the contents of segment o
          count,     \* count[o]: the value of semaphore o
          made,      \* segments and semaphores created so far, one counter each
          read_shm, write_shm,  \* the segments that each process has mapped
          read_sem, write_sem,  \* the semaphores that each process has open
          header,    \* header[p]: the header that p has read, and has not printed
          printed    \* printed[p]: what p has printed as received

kernelVars == << shm, sem, size, mail, count, made >>
handleVars == << read_shm, write_shm, read_sem, write_sem >>
localVars  == << handleVars, header, printed >>
vars       == << run, pc, kernelVars, localVars >>

UnlinkAll(p) == << << "unlink_shm", p >>, << "unlink_shm", Peer[p] >>,
                   << "unlink_sem", "child" >>, << "unlink_sem", "parent" >> >>

\* The two programs: labels, each with the process whose mailbox it is about.
Program ==
    [parent |-> << << "open_write_sem", "child" >>, << "open_read_sem", "parent" >>,
                   << "map_read", "parent" >>, << "map_write", "child" >>,
                   << "write_header", "child" >>, << "write_data", "child" >>,
                   << "post", "child" >>, << "wait", "parent" >>,
                   << "read_header", "parent" >>, << "read_data", "parent" >> >>
                \o UnlinkAll("parent") \o << << "done", "parent" >> >>,
     child  |-> << << "open_write_sem", "parent" >>, << "open_read_sem", "child" >>,
                   << "map_read", "child" >>, << "map_write", "parent" >>,
                   << "wait", "child" >>,
                   << "read_header", "child" >>, << "read_data", "child" >>,
                   << "write_header", "parent" >>, << "write_data", "parent" >>,
                   << "post", "parent" >> >>
                \o UnlinkAll("child") \o << << "done", "child" >> >>]

Last   == 15   \* the position of "done"
Failed == 16   \* returned early, or never created
Sigbus == 17   \* killed while reading

TypeOK == /\ run \in 1 .. MaxRuns
          /\ pc \in [Process -> 1 .. Sigbus]
          /\ shm \in [Process -> Object \cup {None}]
          /\ sem \in [Process -> Object \cup {None}]
          /\ size \in [Object -> BOOLEAN]
          /\ mail \in [Object -> Cells]
          /\ count \in [Object -> 0 .. 2 * MaxRuns]
          /\ made \in [shm : 0 .. 4 * MaxRuns, sem : 0 .. 4 * MaxRuns]
          /\ read_shm \in [Process -> Object \cup {None}]
          /\ write_shm \in [Process -> Object \cup {None}]
          /\ read_sem \in [Process -> Object \cup {None}]
          /\ write_sem \in [Process -> Object \cup {None}]
          /\ header \in [Process -> Seq(Nat)]
          /\ printed \in [Process -> Seq(Nat)]

Closed == [p \in Process |-> None]

\* fork() has returned; if it failed there is only a parent.
Forked == {[p \in Process |-> 1]} \cup
          (IF "fork" \in Faults THEN {[parent |-> 1, child |-> Failed]} ELSE {})

Init == /\ run = 1
        /\ pc \in Forked
        /\ shm = Closed /\ sem = Closed
        /\ size = [o \in Object |-> FALSE]
        /\ mail = [o \in Object |-> Zeros]
        /\ count = [o \in Object |-> 0]
        /\ made = [shm |-> 0, sem |-> 0]
        /\ read_shm = Closed /\ write_shm = Closed
        /\ read_sem = Closed /\ write_sem = Closed
        /\ header = [p \in Process |-> Nothing]
        /\ printed = [p \in Process |-> Nothing]
------------------------------------------------------------------------------
\* Process p executes label l, about the mailbox of n, and goes on.
At(p, l, n) == /\ pc[p] <= Last
               /\ Program[p][pc[p]] = << l, n >>

Advance(p) == pc' = [pc EXCEPT ![p] = @ + 1]

\* sem_open(O_CREAT, value 0): o is the semaphore under the name of n.
SemOpen(n, o) ==
    \/ sem[n] # None /\ o = sem[n] /\ UNCHANGED << sem, made >>
    \/ /\ sem[n] = None
       /\ o = made.sem + 1
       /\ sem' = [sem EXCEPT ![n] = o]
       /\ made' = [made EXCEPT !.sem = o]

OpenWriteSem(p, n) ==
    /\ At(p, "open_write_sem", n)
    /\ \E o \in Object : SemOpen(n, o) /\ write_sem' = [write_sem EXCEPT ![p] = o]
    /\ Advance(p)
    /\ UNCHANGED << run, shm, size, mail, count, read_shm, write_shm, read_sem,
                    header, printed >>

OpenReadSem(p, n) ==
    /\ At(p, "open_read_sem", n)
    /\ \E o \in Object : SemOpen(n, o) /\ read_sem' = [read_sem EXCEPT ![p] = o]
    /\ Advance(p)
    /\ UNCHANGED << run, shm, size, mail, count, read_shm, write_shm, write_sem,
                    header, printed >>

\* shm_open(O_CREAT), likewise.
ShmOpen(n, o) ==
    \/ shm[n] # None /\ o = shm[n] /\ UNCHANGED << shm, made >>
    \/ /\ shm[n] = None
       /\ o = made.shm + 1
       /\ shm' = [shm EXCEPT ![n] = o]
       /\ made' = [made EXCEPT !.shm = o]

\* ftruncate() fails: the segment is open for reading only.
MapRead(p, n) ==
    /\ At(p, "map_read", n)
    /\ \E o \in Object : ShmOpen(n, o) /\ read_shm' = [read_shm EXCEPT ![p] = o]
    /\ Advance(p)
    /\ UNCHANGED << run, sem, size, mail, count, write_shm, read_sem, write_sem,
                    header, printed >>

\* Mutant: the segment is not given a size.
MapWriteUnsized(p, n) ==
    /\ At(p, "map_write", n)
    /\ \E o \in Object : ShmOpen(n, o) /\ write_shm' = [write_shm EXCEPT ![p] = o]
    /\ Advance(p)
    /\ UNCHANGED << run, sem, size, mail, count, read_shm, read_sem, write_sem,
                    header, printed >>

MapWrite(p, n) ==
    /\ At(p, "map_write", n)
    /\ \E o \in Object : /\ ShmOpen(n, o)
                         /\ write_shm' = [write_shm EXCEPT ![p] = o]
                         /\ size' = [size EXCEPT ![o] = TRUE]
    /\ Advance(p)
    /\ UNCHANGED << run, sem, mail, count, read_shm, read_sem, write_sem,
                    header, printed >>

\* shm_open() fails, or mmap() after it: the process returns and unlinks
\* nothing.  (The child goes on after a failed shm_open(), to a mmap() that
\* fails.)
Fail(p, n) ==
    /\ "shm" \in Faults
    /\ \E l \in {"map_read", "map_write"} :
          /\ At(p, l, n)
          /\ \/ UNCHANGED << shm, made, size >>
             \/ \E o \in Object :
                   /\ ShmOpen(n, o)
                   /\ size' = [size EXCEPT ![o] = @ \/ l = "map_write"]
    /\ pc' = [pc EXCEPT ![p] = Failed]
    /\ UNCHANGED << run, sem, mail, count, localVars >>

\* msg_to_msgbuf() into the peer's mailbox.
WriteHeader(p, n) ==
    /\ At(p, "write_header", n)
    /\ mail' = [mail EXCEPT ![write_shm[p]] =
                   Overwrite(@, SubSeq(Flat(Sent[p]), 1, HeaderSize))]
    /\ Advance(p)
    /\ UNCHANGED << run, shm, sem, size, count, made, localVars >>

WriteData(p, n) ==
    /\ At(p, "write_data", n)
    /\ mail' = [mail EXCEPT ![write_shm[p]] =
                   Overwrite(msg_to_msgbuf(@, Sent[p]), SubSeq(@, 1, HeaderSize))]
    /\ Advance(p)
    /\ UNCHANGED << run, shm, sem, size, count, made, localVars >>

\* Mutant: the semaphore is not posted.
PostSkipped(p, n) ==
    /\ At(p, "post", n)
    /\ Advance(p)
    /\ UNCHANGED << run, kernelVars, localVars >>

\* Mutant: the semaphore is posted again and again.
PostAgain(p, n) ==
    /\ At(p, "post", n)
    /\ count' = [count EXCEPT ![write_sem[p]] = @ + 1]
    /\ UNCHANGED << run, pc, shm, sem, size, mail, made, localVars >>

Post(p, n) ==
    /\ At(p, "post", n)
    /\ count' = [count EXCEPT ![write_sem[p]] = @ + 1]
    /\ Advance(p)
    /\ UNCHANGED << run, shm, sem, size, mail, made, localVars >>

\* Mutant: the semaphore is not waited for.
WaitSkipped(p, n) ==
    /\ At(p, "wait", n)
    /\ Advance(p)
    /\ UNCHANGED << run, kernelVars, localVars >>

Wait(p, n) ==
    /\ At(p, "wait", n)
    /\ count[read_sem[p]] > 0
    /\ count' = [count EXCEPT ![read_sem[p]] = @ - 1]
    /\ Advance(p)
    /\ UNCHANGED << run, shm, sem, size, mail, made, localVars >>

\* msgbuf_to_msg() from p's mailbox.
ReadHeader(p, n) ==
    /\ At(p, "read_header", n)
    /\ \/ /\ size[read_shm[p]]
          /\ header' = [header EXCEPT ![p] = SubSeq(mail[read_shm[p]], 1, HeaderSize)]
          /\ Advance(p)
       \/ /\ ~ size[read_shm[p]]
          /\ pc' = [pc EXCEPT ![p] = Sigbus]
          /\ UNCHANGED header
    /\ UNCHANGED << run, kernelVars, handleVars, printed >>

\* The data is read under the header read before, and the message printed.
ReadData(p, n) ==
    /\ At(p, "read_data", n)
    /\ LET buf == Overwrite(mail[read_shm[p]], header[p])
       IN  printed' = [printed EXCEPT ![p] = msg_to_str(msgbuf_to_msg(buf))]
    /\ header' = [header EXCEPT ![p] = Nothing]
    /\ Advance(p)
    /\ UNCHANGED << run, kernelVars, handleVars >>

UnlinkShm(p, n) ==
    /\ At(p, "unlink_shm", n)
    /\ shm' = [shm EXCEPT ![n] = None]
    /\ Advance(p)
    /\ UNCHANGED << run, sem, size, mail, count, made, localVars >>

UnlinkSem(p, n) ==
    /\ At(p, "unlink_sem", n)
    /\ sem' = [sem EXCEPT ![n] = None]
    /\ Advance(p)
    /\ UNCHANGED << run, shm, size, mail, count, made, localVars >>

\* Both processes end, wherever they are, and the program is started again.
Rerun ==
    /\ run < MaxRuns
    /\ run' = run + 1
    /\ pc' \in Forked
    /\ read_shm' = Closed /\ write_shm' = Closed
    /\ read_sem' = Closed /\ write_sem' = Closed
    /\ header' = [p \in Process |-> Nothing]
    /\ printed' = [p \in Process |-> Nothing]
    /\ UNCHANGED kernelVars

Step(p) == \E n \in Process :
    \/ OpenWriteSem(p, n) \/ OpenReadSem(p, n) \/ MapRead(p, n) \/ MapWrite(p, n)
    \/ WriteHeader(p, n) \/ WriteData(p, n) \/ Post(p, n)
    \/ Wait(p, n) \/ ReadHeader(p, n) \/ ReadData(p, n)
    \/ UnlinkShm(p, n) \/ UnlinkSem(p, n) \/ Fail(p, n)

Next == Rerun \/ \E p \in Process : Step(p)

Spec == Init /\ [][Next]_vars

\* The scheduler runs every process that can run.
FairSpec == Spec /\ \A p \in Process : WF_vars(Step(p))
------------------------------------------------------------------------------
\* The first execution finds a fresh system.
Fresh == run = 1

\* The sender of the message that p has printed in it.
got == [p \in Process |-> IF Fresh THEN Author(printed[p]) ELSE "nobody"]

X == INSTANCE Exchange

Done(p) == pc[p] = Last

\* In a fresh system, a process that has passed its sem_wait() finds the
\* message of the other in its mailbox, complete and in a segment that has been
\* sized, and it stays as it is until it has been read, as "Becomes available
\* when a message is present" says of the semaphore (hw4p2_shmem.c:81, 136-137,
\* 203-208).  A semaphore left by an execution that was killed breaks this.
MessagePresent ==
    Fresh => \A p \in Process : \A n \in Process :
        (At(p, "read_header", n) \/ At(p, "read_data", n)) =>
            LET flat == Flat(Sent[Peer[p]])
            IN  /\ size[read_shm[p]]
                /\ SubSeq(mail[read_shm[p]], 1, Len(flat)) = flat

\* In a fresh system each process prints the message of the other (65-67,
\* 152-154), whole and as it was built: the implementation of module Exchange.
PeersExchange == X!Spec

\* In a fresh system both processes come to their end, whoever creates and
\* whoever unlinks first, unless one of them fails (84-144, 171-225).
BothEnd == (Fresh /\ \A p \in Process : pc[p] = 1)
    ~> ((\A p \in Process : Done(p)) \/ (\E p \in Process : pc[p] = Failed) \/ ~ Fresh)
==============================================================================
