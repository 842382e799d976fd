# A verification of ecen5013_apes

This directory holds TLA+ models of the programs of this repository, the TLC
runs that check them, and proofs that TLAPS checks. Every definition is
translated from the C source; the comment of an action or a property names the
lines it is about, and `PROJECT.json` maps every definition to its lines.

## The system

The repository is a course's worth of programs. Those with state and
concurrency of their own are modelled, see the table of modules below.

| Part | State | Operations | What is hard |
|---|---|---|---|
| hw3 logging (`logging.c`) | a mutex, a stdio stream per thread, the shared log file | `logit`, `log_with_tinfo`, both through `log_varg` | a line is three prints into a buffer, under a mutex that is not recursive, in code that signal handlers call too |
| hw3 threads (`hw3.c`, `threads.c`, `letters.c`, `metrics.c`) | `thread_info[]`, the thread-specific-data key, a POSIX timer, a semaphore | the lives of the threads Main, Letters and Metrics, the signal handler, `thread_cleanup` as a destructor | signals at any point of any thread, cancellation, three ways to end a thread, failing calls |
| linked list (`hw2/p6/linked_list.c`, copied to hw3) | `prev` and `next` of every node | insert, delete, walk, from any node with any offset, `DESTROY` | pointers of deleted and of freed nodes, both ends, one node |
| letter counter (`hw3/src/letters.c`) as a client of the list | a list with a count for every letter | build the list, count a character, report | offsets into a list that is built backwards; characters that are no letters |
| hw4/p2 message queues, sockets, shared memory, pipes | two processes and named kernel objects between them | create, open, send, receive, unlink | the processes race; objects outlive a killed execution; failing calls |
| hw4/p4 kernel module | a timer, a kfifo, a kernel thread | load, timer callback, logger loop, unload | softirq, thread and module code run concurrently and share everything |
| hw4/p2 messages (`messages.c`) | none | a message to a flat buffer and back, to a string | lengths; buffers that still hold another message |
| hw4/p3 kernel module | a position in the kernel's process tree, a count | walks from the current process to the root | it takes no lock: processes are forked, exit, are reaped and freed meanwhile |
| hw2/p5 kernel module | a timer | load, timer callback, unload | the callback starts the timer again, during unloading too |
| hw2/p2, p3, p4, scripts | none | straight-line | |

The parts interact as follows. In hw3 every thread logs through `log_varg`,
and the letter counter keeps its counts in a linked list; the signal handler
logs, cancels and exits threads; the destructor of the thread-specific data
logs and deletes the timer. The four programs of hw4/p2 do the same thing
(two processes exchange one message each) over four kinds of objects, with the
message functions of `messages.c`. The kernel modules stand alone, but hw4/p4
grew out of hw2/p5 and handles its timer in the same way.

## Modules

| Module | Models | Checked by |
|---|---|---|
| `AtomicLog` | what `logging.h:47-52` promises: whole lines, each once | |
| `Logging` | `log_varg` piece by piece, with nested handlers and cancellation; implements `AtomicLog` | `logging` |
| `LoggingProofs` | theorems about `Logging` | TLAPS |
| `Hw3` | the whole program hw3: three threads, handler, cancellation, timer, semaphore | `hw3_safety`, `hw3_live`, `hw3_cancel` |
| `Hw3Proofs` | theorems about `Hw3`, in three parts: type, mutex, ends of threads | TLAPS |
| `Processes` | the two processes of a program of hw4/p2 | with those programs |
| `Exchange` | what the programs of hw4/p2 promise: each process gets the other's message | |
| `Messages` | `messages.c` as operators on memory, and the messages that are sent | with the next three |
| `MessagesProofs` | theorems about `Messages`: the round trip | TLAPS |
| `MQueues`, `Sockets`, `Shmem` | hw4/p2 over those objects, several executions in a row; extend `Messages`, related to `Exchange` | `mqueues`, `mqueues_exchange`, `pipes_sockets`, `shmem` |
| `MQueuesProofs`, `SocketsProofs`, `ShmemProofs` | theorems about these, from those about `Messages`; and about `Pipes` | TLAPS |
| `Pipes` | hw4/p2 over pipes, with processes killed on the way; proved in `SocketsProofs` | `pipes_sockets` |
| `Apes` | the timer module hw2/p5: a timer that starts itself again | |
| `Hw4p4` | the kernel module hw4/p4, loading to unloading; its timer implements `Apes` | `kernel` |
| `Hw4p4Proofs` | theorems about `Hw4p4` and `ProcTree` | TLAPS |
| `ProcTree` | the walk of hw4/p3, in a process tree that changes | `kernel`, `proc_tree_counts` |
| `LinkedList` | the list library on its pointers | `linked_list` |
| `Letters` | the letter counter, extends `LinkedList` | `linked_list` |
| `Returns` | `LinkedList` with a history of what the header says is returned | `list_returns` |
| `LinkedListProofs` | theorems about `LinkedList` and `Letters` | TLAPS |
| `MC...` | instances of these for TLC | |

Actions carry the names of what they do and their comments the lines; where a C
function is a loop or a sequence with other threads in between, there is one
action per step at which another thread can be seen or can interfere, and a
label (`pc`, or the top of a `stack`) says where each thread is. A `Mutant` is a
variant of the definition after it, with a bug in it: the property named for it
in `PROJECT.json` must fail when the variant takes its place.

### Logging and AtomicLog

A call of `log_varg` is known by its thread and the time it read. Its line is
three pieces (time, name, text with the newline). A piece enters the buffer of
the thread's stream in `Fprintf` and reaches the file in `Drain`, at the latest
within `Flush`; stdio may drain earlier. `Begin` may put a call on top of
another one of the same thread: a signal handler logs. `Unlock` in such a
nested call may end the thread (`pthread_exit`), `Cancel` may end it in any
stdio call and leaves the mutex locked.

### Hw3

`stack[t]` is what thread t executes, innermost first. `LogThen(t, l)` logs and
goes on at l; the handler is pushed by `Deliver` and popped by its return in
main, or replaced by `thread_cleanup` (`ExitThread`) in a worker. Signals are
delivered in a *window* (`Window`): while the thread is logging, starting up,
cleaning up, in a timer callback, or in none of these ("quiet"). The constant
`Windows` says in which ones signals arrive, and `Faults` which calls fail, so
that a run can say under which conditions a property holds. `StdioCancels`:
POSIX lets the C library decide whether stdio functions are cancellation points.

### Messages and hw4/p2

Memory is a sequence of cells that hold numbers: one for each field of a
header, one for each byte of data. `msg_to_msgbuf` overwrites the beginning of a
buffer, `msgbuf_to_msg` takes from a buffer as much as the header says, and
`msg_to_str` makes the line that a process prints. Characters are numbers, and
lengths small; what matters is that the two messages differ in type and length,
and that a buffer can hold the remains of another one: in the message queue and
socket programs a process receives into the buffer it has sent from. `Author`
tells from a line whose message it is, so that the properties are about what is
printed.

Each process is a sequence of labels. Kernel objects (queues, socket files,
segments, semaphores) have names that outlive a process: `Rerun` ends both
processes wherever they are and starts the program again over what they left.
`Pipes` keeps of a message only its two pieces, header and data, and who wrote
them; which ends of which pipe a process still holds (`readers`, `writers`)
decides between end of file, SIGPIPE and waiting. `PipesInit` is the state after
`fork()`; a `pipe()` that fails is left out, as `main` returns before it forks
(hw4p2_pipes.c:49-61).
In `Shmem` header and data are written to the segment, and read from it, in two
steps each, as the program copies in place, and a new segment holds zeros.

### Hw4p4 and Apes

Three actors: the module's init and exit functions (`pc`), the timer callback
(`callback`), the logger (`logger`, `runnable`). The kfifo is a sequence of
bytes, so that a record can be cut. `races` is a history variable that records
which races of the code have happened: `NeverOops` and `UnloadEnds` say that
nothing else does harm.

`Apes` is hw2/p5 with the same three operations, and `Hw4p4` is shown to
implement it (`TimerOfApes`) under the mapping of `A` in `Hw4p4`: what the later
module adds, a kfifo and a thread between expiration and restart, neither loses
a tick nor adds one. The exception is a logger that cannot be created: the
module is then not loaded, but its timer runs ("orphan" in `races`).

### ProcTree

The kernel keeps the children of a task in a circular list through their
`sibling` links, which starts at the `children` link of the parent. `Fork`,
`Exit`, `Reap` and `Free` are what the kernel does to it (external: modelled
from the links that `list_for_each` follows); the module's walk takes one
step per link, at which `walk_pc` says where it is. `changes` records what happened to the tree during the walk, and
whether it happened to the link at which the walk stands.

### LinkedList and Letters

The pointers are functions; the walks of `get_head`, `get_tail` and
`get_offset` are a recursive function of the number of steps. The client
inserts only nodes that it has allocated and that are not in its list, as all
callers in the repository do; `DESTROY` frees the nodes one by one.

`Letters` is one such client, with its own Next (`LettersNext`): the run takes
both, the arbitrary client and this one (`AnySpec` in `MCLinkedList`).

`Returns` adds to the arbitrary client a history variable: whether the
description of the last function called says that it returns NULL. That cannot
be seen in the list afterwards, as the two calls that disagree with their
description leave everything as it was.

## Runs

All bounds are in the `.cfg` files. `CHECK_DEADLOCK FALSE` stands where the
program ends, or really can wait for ever.

- `logging` (2 threads, 4 calls, nesting 2): the log is only ever changed by
  appending a whole line (`AtomicLines`); streams are clean whenever the mutex
  is free; every call returns unless the mutex is orphaned. Two threads with two levels contain
  every pairwise interference: handler over print, print beside handler, and a
  cancelled owner beside a waiting thread.
- `hw3_safety` (2 signals of 2 kinds, 2 ticks, every window, every fault): the
  mutex has the right owner, dead workers have closed their stream and deleted
  the timer, main is last, every worker is doomed after the handler, ticks are
  not invented.
- `hw3_live` (2 signals in quiet windows, 2 ticks, no faults): the same program
  ends as hw3.c:11-13 promise, crashes nowhere, and reports every expiration
  whose post or callback comes after `sem_init()` (`ReportsCatchUp`; an earlier
  post is erased, and no report is ever made for it). Two signals are enough for
  every pair of threads to handle one, and for main to cancel a worker that
  handles its own; two ticks for one before and one after `sem_init()`, and for
  two that wait for the reporter together.
- `hw3_cancel`: a counterexample to that promise, see below.
- `mqueues` (capacity 2, 3 executions): two cut-off executions can fill a queue
  for the third. In this and the next three the string has 3 characters and a
  buffer 7 cells: the longer message takes 6, the other 3, so that both a longer
  one is overwritten by a shorter one, and part of a buffer never is.
- `pipes_sockets` (both processes of `Pipes` may be killed; 3 executions of
  `Sockets`), `shmem` (2 executions): every cut-off point of one execution is a
  start of the next. `MCPipesSockets` runs the two programs one after the other;
  they share nothing.
- `mqueues_exchange`: a counterexample.
- `kernel`: two kernel modules that have nothing to do with each other. `MCKernel`
  loads `Hw4p4`, and if there is no memory for its kfifo, and so nothing of it
  left, `ProcTree` instead.
  - `Hw4p4` (records of 3 bytes, kfifo of 8, 6 ticks): 3 does not divide 8, as the
    record does not divide 1024; the third unread record is cut.
  - `ProcTree` (5 tasks, 3 forks, a uint up to 2, so that counts wrap around):
    every tree of three processes beside the root and process 1, and the memory
    of one used again. Nothing happens to the walk: it prints every ancestor, and
    first the number of children of the current process; anything happens: which
    races can keep it from ending.
- `proc_tree_counts` (process 1 and two more): a counterexample.
- `linked_list` (4 nodes): lists of up to three nodes beside a deleted or freed
  one with old pointers, every base, every offset past both ends; and the letter
  counter with an alphabet of three letters on every file of up to four
  characters out of A, C, a and two that are just outside of the alphabet.
  `SequenceSemantics` claims nothing in the two cases of `list_returns`.
- `list_returns` (2 nodes): a counterexample.

Fairness is weak fairness of every thread's, process's or kernel actor's steps:
the scheduler runs what can run, and mutexes and semaphores here need no more,
as the bounds leave finitely many competitors. Armed timers expire. Nobody is
assumed to send signals, kill, restart or unload.

## Findings

- `hw3_cancel`: main's handler cancels a worker inside `log_varg`; where stdio
  is a cancellation point (it is in glibc, through write()), `log_mutex` stays
  locked and nobody can clean up any more.
- `mqueues_exchange`: if the parent's queue does not exist yet the child opens
  its own (hw4p2_mqueues.c:165), and receives its own message.
- `proc_tree_counts`: hw4p3.c:25 sets `child_count` to zero once, so that each
  count of children after the first includes all before it, where lines 31-32
  announce the number of children of each process.
- `list_returns`: `delete_from_position` of the only node returns that node
  (linked_list.c:153), where linked_list.h:115 says the head, or NULL. If this is
  put right the same run finds that `insert_at_position` returns the head if the
  offset is bad (linked_list.c:78), where linked_list.h:90 says NULL. There is no
  third case: with these two left out the property holds.

Also seen in the models, and stated by the conditions of their properties: with
"logging" or "cleanup" among `Windows`, a worker that is signalled while it owns
the mutex waits for itself, and a thread signalled twice dereferences NULL
(`HolderCanRun`, `NeverCrashes`); a stale semaphore lets a process read a
mailbox without a message (`MessagePresent` is about the first execution); the
path of a killed execution makes the socket client give up (`Request`); a
process whose peer died prints what it never received (`WholeUnlessKilled`); a
signal to main before the workers have stored their `pthread_tid` makes it
cancel thread 0 (window "startup" of `Hw3`); the walk of hw4/p3 may never end
when the child at which it stands is reaped or handed over to init (`WalkEnds`);
the nodes of the letter counter and the data of received messages are never
freed.

## Proofs

The proofs hold for every value of the constants, under the named assumptions
of the modules (`LoggingAssumption`, `Hw3Assumption`, `MessagesAssumption` and
so on) alone, unless a theorem names a condition of its own.

`LoggingProofs` proves the three safety properties that the run `logging`
checks: `TypeCorrect`, `Clean` and `Refinement`. The last two are not inductive:
that `Drain` never completes a line in pieces of another one rests on who may
be where. `IInv` adds

- `StackInv`: no two open invocations are the same call, so that a frame of a
  handler is not confused with the one it interrupted;
- `MutexInv`: a frame past the lock is innermost in its stack, and its thread
  owns the mutex: everything below it and beside it still waits (`OthersWait`);
- `ProgressInv`: how the pieces printed so far are divided between buffer and
  file, at every label and for every choice that stdio has when to drain;
- `LinesInv`, `UnloggedInv`: the file holds whole lines of past calls, and not
  yet that of a call which is still to complete it.

`ProgressFprintf` and `ProgressDrain` move one piece, `DrainCases` draws the
conclusion that the file gains nothing but pieces of the owner's line in order,
and `Refinement` that a step of `Logging` is a step of `AtomicLog` or none.

`Hw3Proofs!TypeCorrect`: the type invariant of `Hw3` holds for every choice of
signals, windows, faults and bounds. It is inductive once split into the part
about stacks (every label pushed or replaced is one of `Label`; lemmas
`ReplaceTop` to `LogThenStack`) and the rest.

`Hw3Proofs!Ownership`: `MutexOwnership` holds for every choice of these.
`OwnMove` and `Move` sum the actions up by what they do to the stacks, and each
kind of move preserves `OwnerIInv`, which adds

- `Shape`: a thread's own label is at the bottom of its stack, and only there;
- `NotStarted`, `LifeInv`: `Create` overwrites only an empty stack, and signals
  reach only threads with something to interrupt;
- `MutexInv`: a label in the critical section is unique, and when something is
  on top of it that is a handler which has not logged, or waits for the mutex:
  a thread that exits from its handler is never inside;
- `OwnerInv`: the second half of the property.

The third part of `Hw3Proofs` proves the remaining invariants of `hw3_safety`: `NoLeak`,
`MainLast`, `Doom` and `TicksAccounted`. It looks at a stack from its bottom
(`place`, where a thread is in its own code) and at the calls a handler in main
has still to make (`calls`): the lemmas `BodyStep` to `DeliverStep` say what
every kind of step does to these two, and then stacks are not mentioned any
more. `EndInv` adds to `OwnerIInv`

- `PlaceInv`: place and life of a worker agree, main is past a join only when
  the worker is joined, a stream is closed last, and the metrics thread closes
  it without a timer;
- `CancelInv`: when main's handler comes to the second worker the first one is
  doomed, and doom is for ever: the worker's request is never taken back.

`TicksAccounted` adds that a reporter which has taken a post owes a report
(`owed`). `HolderRuns` is about signals that do not interrupt `log_varg` and a
stdio without cancellation points: then a label in the critical section is on
top of its stack (`TopInv`), so that `HolderCanRun` holds, whatever fails.

`Survives` proves `NeverCrashes` under the conditions of the run `hw3_live`
(`Undisturbed`: signals in the quiet window only, no failing library call but
the letter counter's `fopen`, stdio no cancellation point). `SafeInv` says what
a thread has where it is: its own code (`place`) past `thread_init` and before
`fclose`, and any label above it (`marks`), need an open stream; a handler
(`handles`) needs the value under `tinfo_key`, and in main the stream, and so
the `pthread_tid`, of every worker. Each condition is needed by one step: the
window by `Deliver`, the faults by `OpenLog`, `Join` and `SetTimer`, the
cancellation points by `ActOnCancel`, the stale `pthread_t` by `CancelWorker`.

`MessagesProofs!RoundTrip`: what is copied into a buffer that is large enough,
and out of it again, is the message, whatever was in the buffer. The lemmas
about the two messages of the programs (`SentArrives`, `FlatsDiffer`, `Authors`)
serve the next two.

`SocketsProofs`: `TypeCorrect` and `ExchangeRefinement`, that the socket program
implements `Exchange` in every execution, whatever paths earlier ones left.
Beyond the type, `IInv` says that each process gets at most one message, its
peer's and not before the peer has come to send (`InboxOK`), and what is in a
buffer that is about to be used (`BufferOK`). The serialization enters only
through the lemmas of `MessagesProofs`.

`MQueuesProofs`: `TypeCorrect` and `ProvenanceHolds`. A queue of an earlier
execution may hold anything that was sent; the invariant says that the parent's
queue is neither the child's nor the one that the parent writes to (`ApartOK`),
that it holds the child's messages only, and the child's queue the parent's
only, in a fresh system and unless the child has opened its own queue by mistake
(`SendersOK`), and that at most two queues are made in one execution, so that
the bound on their number is none.

`ShmemProofs`: `TypeCorrect`, `ObjectsSuffice`, `PresentHolds` and
`ExchangeRefinement`. What holds in every execution is the type, which handles a
process has where it is (`HandlesOK`), which headers a mailbox can hold
(`ContentsOK`), and how often each process has posted and opened names so far
(`CountOK`, `MadeOK`), so that the model's bound on objects is none
(`ObjectsSuffice`). The rest is about a fresh system, in which two processes
create, wait and unlink in every order:

- `ShmNames`, `SemNames`: whatever stands under the name of a mailbox, is open for
  reading or is open for writing is one object, and another one than that of the
  other mailbox; a name is gone only if neither or both have opened it;
- `WaitOK`: a semaphore counts only what was posted, and a process is past its
  `sem_wait` only if the other one is past its `sem_post`;
- `MailOK`, `ReadOK`: what a process has written is in its mailbox and stays there,
  and what the other one has read is that.

`LinkedListProofs`: `TypeCorrect`, `ListSound` and `Sequences`, for every set of
nodes and so for lists of any length, and `CounterListSound` and
`CounterSequences`, the same of the letter counter; and `Reports`. `Sequences`
covers every call but the two that `Returns` is about. The invariant is that the
pointers are those of one sequence without repetitions, the one that is found
from the head (`IsList(List)`; `PointersOK` is the type). That a walk of
`get_head`, `get_tail`, `get_offset` or `List` is where the sequence says it is
goes by induction over the steps of the walk, for which there is no rule with an
operator parameter: `Least` draws a smallest counterexample from the
well-foundedness of < on the naturals, and `WalkIs` refutes it. `Short`, that a
sequence without repetitions is no longer than the set of nodes, makes the
walks' bound none. `InsertChain` and `RemoveChain` say that the pointers which
an insertion or a deletion leaves are those of the longer or shorter sequence,
wherever it happens; a lemma for each function of the library then says where.
`Letters` is a client that never violates the library's demands.

`Reports` is `ReportsExact` for every alphabet, file and choice of nodes. The list
ends with the last letter while it is built, searched and walked down, so that one
formula gives the letter of each place (`Lettered`), and its count is the number
of `Occurrences` of that letter so far. `UpperIs` says which characters clearing
bit 5 maps to a letter, `OneMore` that a character adds to one letter's
occurrences or to none, and `CountsInv` that what is reported at any time are the
letters before `p_head` that have the count (`Hits`).

`Hw4p4Proofs`: `TypeCorrect`; `OopsNeedsRace`, that the kernel does not oops but
after one of four races noted in `races`; `WholeRecords`, that as long as no
record was cut the logger takes whole records in their order; and
`TimerRefinement`, that the timer is that of `Apes`. `RaceInv` says which race
must have happened when the timer ticks while something its callback uses does
not exist, `QuietInv` that the timer is not pending while its callback runs, and
`Whole` that the kfifo consists of the records stored and not taken.

The names of `ProcTree` are not those of `Hw4p4`, nor those of `Pipes` those of
`Sockets`, so that one module can extend both and hold the proofs about both.

`Hw4p4Proofs` on `ProcTree`: `TreeTypeCorrect`, `ListsIntact`, `PrintsExactly`
and `StaysOnList`, for any number of tasks, forks and exits.
The type invariant, by which `next` is a permutation of the links, is proved
together with the shape of the tree. `TreeOK` says that every process has a living
parent and that a task which is no process is linked to nothing but itself
(`FamilyOK`), and that the links of every task's children are one circular list
with its head, in the order of a sequence without repetitions (`RingsOK`): `Fork`
adds to one such sequence, `Reap` takes out of one, and `Exit` hands one over to
init. That two of the lists share no link, so that an operation on one leaves the
others as they are, carries the proof.

`PrintsExactly` is `WalkExact`: if no process exits, what is printed are the
current task, its parent and so on up to process 1; if nothing happens at all,
the first count is the number of children of the current task, modulo the width
of a uint. The invariant behind it (`CountOK`) says what the later counts are:
each goes on from the one before. `StaysOnList` is what the walk's loop relies
on: only when the very link at which it stands is unlinked does the walk leave
the list whose head it waits for.

`SocketsProofs` on `Pipes`: `PipesTypeCorrect` and `WholeOrKilled`. How far a
process has come determines what it has written and has tried to read, so that
what is in a pipe is a function of the two positions (`Left`), and who holds an
end is one of position and life (`HeldOK`). `ReadOK` draws the line between
waiting and giving up: a process has read more than was written only if its peer
is dead. For that the end of file must mean that the peer died before it had
written all (`EofMeansDead`): a process that runs holds the end it writes to, and
one that has exited has written both pieces.

Only model-checked are the liveness properties, which hold under fairness (`CallsReturn`, `GracefulShutdown`, `WorkerExits`,
`ReportsCatchUp`, `OpenedMeansDone`, `SentMeansDone`, `BothEnd`, `UnloadEnds`,
`WalkEnds`; `BothEnd` in two programs): weak fairness is a statement about
ENABLED, which is out of this prover's reach. Every invariant, action property
and refinement that a passing run checks is proved.

## Not modelled

- hw2/p2 and hw2/p4: straight-line sequences of file and system calls that are
  printed or timed; no state is kept between them.
- hw2/p3: a test of a sort system call that is not in the repository.
  `check_sort` is one pass that compares neighbours.
- scripts and makefiles.
