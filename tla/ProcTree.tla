------------------------------- MODULE ProcTree -------------------------------
(***************************************************************************)
(* The kernel module hw4/p3 (hw4p3.c): when it is loaded it walks from the *)
(* current process to the root of the process tree, and prints every       *)
(* process on the way with a count of children.  It takes no lock.         *)
(*                                                                         *)
(* The tree is the kernel's, which changes it under a lock that excludes   *)
(* nobody here.  The children of a task are linked through their sibling   *)
(* links in a circular list that starts at the children link of their      *)
(* parent: next is a permutation of the links, and an unlinked link is its *)
(* own successor.  A task that exits hands its children over to init; its  *)
(* parent unlinks it, and some time later its memory is freed.             *)
(*                                                                         *)
(* Its names are not those of Hw4p4, so that one module can hold the       *)
(* proofs about both kernel modules.                                       *)
(***************************************************************************)
EXTENDS Naturals, Sequences, FiniteSets

CONSTANTS Task,             \* the memory of tasks
          init_task, init,  \* the root of the tree, and process 1
          UintMax,          \* the largest uint
          MaxForks          \* bound: forks during an execution

ASSUME ProcTreeAssumption == /\ {init_task, init} \subseteq Task /\ init_task # init
                             /\ UintMax \in Nat /\ MaxForks \in Nat

Link == Task \X {"children", "sibling"}

children(t) == << t, "children" >>
sibling(t)  == << t, "sibling" >>

VARIABLES state,        \* state[t]: what has become of task t
          parent,       \* parent[t]: t->parent
          next,         \* next[l]: the link after l
          forks,        \* forks so far
          walk_pc,      \* what hw4p3_init() does next
          task, node,   \* its variables
          child_count,
          current,      \* the process that loads the module
          printed,      \* the lines it has printed: a task and a count
          changes       \* history: what has happened to the tree since it began

treeVars     == << state, parent, next, forks >>
walkVars     == << walk_pc, task, node, child_count, current, printed >>
procTreeVars == << treeVars, walkVars, changes >>

\* "fork", "exit", "reap": this has happened to a task; "unlink": the link at
\* which the walk stands has been unlinked, or moved to the list of init;
\* "free": the memory of the task or the link at which it stands, or comes to,
\* has been freed.
Change == {"fork", "exit", "reap", "unlink", "free"}

TreeTypeOK == /\ state \in [Task -> {"free", "alive", "zombie", "unlinked"}]
              /\ parent \in [Task -> Task]
              /\ next \in [Link -> Link]
              /\ \A k, l \in Link : next[k] = next[l] => k = l
              /\ forks \in 0 .. MaxForks
              /\ walk_pc \in {"load", "task", "children", "done"}
              /\ task \in Task
              /\ node \in Link
              /\ child_count \in 0 .. UintMax
              /\ current \in Task
              /\ printed \in Seq([task : Task, count : 0 .. UintMax])
              /\ changes \subseteq Change

TreeInit == /\ state = [t \in Task |-> IF t \in {init_task, init} THEN "alive" ELSE "free"]
            /\ parent = [t \in Task |-> init_task]
            /\ next = [l \in Link |-> CASE l = children(init_task) -> sibling(init)
                                        [] l = sibling(init) -> children(init_task)
                                        [] OTHER -> l]
            /\ forks = 0
            /\ walk_pc = "load"
            /\ task = init /\ node = children(init) /\ child_count = 0
            /\ current = init
            /\ printed = << >>
            /\ changes = {}
------------------------------------------------------------------------------
\* The kernel.

Walking == walk_pc \in {"task", "children"}

\* What happens while the module walks is noted.
NoteChange(R) == changes' = IF Walking THEN changes \cup R ELSE changes

Before(l) == CHOOSE k \in Link : next[k] = l

\* The child goes to the end of its parent's list.
Fork(p, t) ==
    /\ state[p] = "alive" /\ p # init_task
    /\ state[t] = "free"
    /\ forks < MaxForks
    /\ forks' = forks + 1
    /\ state' = [state EXCEPT ![t] = "alive"]
    /\ parent' = [parent EXCEPT ![t] = p]
    /\ next' = [next EXCEPT ![Before(children(p))] = sibling(t),
                            ![sibling(t)] = children(p)]
    /\ NoteChange({"fork"})
    /\ UNCHANGED walkVars

\* Does the walk stand at the link of a child of t?
AtChildOf(t) == walk_pc = "children" /\ node[2] = "sibling" /\ parent[node[1]] = t

\* The list of t's children is appended to that of init.
Exit(t) ==
    /\ state[t] = "alive"
    /\ t \notin {init_task, init}
    /\ Walking => t # current
    /\ state' = [state EXCEPT ![t] = "zombie"]
    /\ parent' = [c \in Task |-> IF parent[c] = t /\ state[c] \in {"alive", "zombie"}
                                 THEN init ELSE parent[c]]
    /\ next' = IF next[children(t)] = children(t) THEN next
               ELSE [next EXCEPT ![Before(children(init))] = next[children(t)],
                                 ![Before(children(t))] = children(init),
                                 ![children(t)] = children(t)]
    /\ NoteChange({"exit"} \cup IF AtChildOf(t) THEN {"unlink"} ELSE {})
    /\ UNCHANGED << forks, walkVars >>

Reap(t) ==
    /\ state[t] = "zombie"
    /\ state' = [state EXCEPT ![t] = "unlinked"]
    /\ next' = [next EXCEPT ![Before(sibling(t))] = next[sibling(t)],
                            ![sibling(t)] = sibling(t)]
    /\ NoteChange({"reap"} \cup IF walk_pc = "children" /\ node = sibling(t) THEN {"unlink"} ELSE {})
    /\ UNCHANGED << parent, forks, walkVars >>

Free(t) ==
    /\ state[t] = "unlinked"
    /\ state' = [state EXCEPT ![t] = "free"]
    /\ NoteChange(IF t = task \/ t = node[1] THEN {"free"} ELSE {})
    /\ UNCHANGED << parent, next, forks, walkVars >>
------------------------------------------------------------------------------
\* hw4p3_init().

Load == /\ walk_pc = "load"
        /\ \E t \in Task \ {init_task} :
              state[t] = "alive" /\ current' = t /\ task' = t
        /\ child_count' = 0
        /\ walk_pc' = "task"
        /\ UNCHANGED << treeVars, node, printed, changes >>

\* The outer loop, and the beginning of the inner one.
NextTask ==
    /\ walk_pc = "task"
    /\ IF task = init_task
       THEN walk_pc' = "done" /\ UNCHANGED node
       ELSE walk_pc' = "children" /\ node' = next[children(task)]
    /\ UNCHANGED << treeVars, task, child_count, current, printed, changes >>

\* Mutant: the count does not wrap around.
CountChildWide ==
    /\ walk_pc = "children"
    /\ node # children(task)
    /\ child_count' = child_count + 1
    /\ node' = next[node]
    /\ UNCHANGED << treeVars, walk_pc, task, current, printed, changes >>

\* Mutant: the list is taken to end at the head of that of the first process.
CountChildOfCurrent ==
    /\ walk_pc = "children"
    /\ node # children(current)
    /\ child_count' = (child_count + 1) % (UintMax + 1)
    /\ node' = next[node]
    /\ UNCHANGED << treeVars, walk_pc, task, current, printed, changes >>

CountChild ==
    /\ walk_pc = "children"
    /\ node # children(task)
    /\ child_count' = (child_count + 1) % (UintMax + 1)
    /\ node' = next[node]
    /\ UNCHANGED << treeVars, walk_pc, task, current, printed, changes >>

\* Mutant: the next process is the parent of the one that loads the module.
PrintTaskOfCurrent ==
    /\ walk_pc = "children"
    /\ node = children(task)
    /\ printed' = Append(printed, [task |-> task, count |-> child_count])
    /\ task' = IF task = current THEN parent[current] ELSE init_task
    /\ walk_pc' = "task"
    /\ UNCHANGED << treeVars, node, child_count, current, changes >>

PrintTask ==
    /\ walk_pc = "children"
    /\ node = children(task)
    /\ printed' = Append(printed, [task |-> task, count |-> child_count])
    /\ task' = parent[task]
    /\ walk_pc' = "task"
    /\ NoteChange(IF state[parent[task]] = "free" THEN {"free"} ELSE {})
    /\ UNCHANGED << treeVars, node, child_count, current >>

Walk == NextTask \/ CountChild \/ PrintTask

\* What the kernel does after the walk is of no interest.
Kernel == /\ walk_pc # "done"
          /\ \/ \E p, t \in Task : Fork(p, t)
             \/ \E t \in Task : Exit(t) \/ Reap(t) \/ Free(t)

TreeNext == Load \/ Walk \/ Kernel

TreeSpec == TreeInit /\ [][TreeNext]_procTreeVars

\* The process that loads the module is scheduled; nobody has to fork or exit.
TreeFairness == WF_procTreeVars(Walk)

TreeFairSpec == TreeSpec /\ TreeFairness
------------------------------------------------------------------------------
Count(t) == Cardinality({c \in Task : parent[c] = t /\ state[c] \in {"alive", "zombie"}})

\* As long as no process exits, the lines are about the current process and
\* then about the parent of the one before, up to process 1 and no further;
\* and if none is forked either, the first count is that of the current
\* process's children, as far as a uint holds it (hw4p3.c:31-46).
WalkExact ==
    LET n == Len(printed)
    IN  /\ "exit" \notin changes =>
              /\ n > 0 => printed[1].task = current
              /\ \A i \in 2 .. n : printed[i].task = parent[printed[i - 1].task]
              /\ walk_pc = "done" => n > 0 /\ printed[n].task = init
        /\ changes = {} /\ n > 0 =>
              printed[1].count = Count(printed[1].task) % (UintMax + 1)

\* "Print name, PID, status, # of children, and nice value of current process
\* and all anscestor processes" (hw4p3.c:31-32): if the tree does not change
\* meanwhile, every count is that of the children of the process it is printed
\* for.  It is not: child_count is set to zero once (25), so that from the second
\* process on a count includes the children of all those printed before (43-46).
CountsOwnChildren ==
    changes = {} => \A i \in 1 .. Len(printed) :
                       printed[i].count = Count(printed[i].task) % (UintMax + 1)

\* If the tree changes elsewhere, or only by processes that are forked, the
\* walk comes to its end.  It may not if the child at which it stands is
\* unlinked, moved to another list or freed: it then never meets the head of
\* the list at which it would stop (33, 43-45).
WalkEnds == walk_pc = "task" ~> (walk_pc = "done" \/ changes \cap {"unlink", "free"} # {})
==============================================================================
