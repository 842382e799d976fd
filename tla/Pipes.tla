-------------------------------- MODULE Pipes --------------------------------
(***************************************************************************)
(* hw4/p2, IPC over anonymous pipes (hw4p2_pipes.c).  After fork() both    *)
(* processes hold both ends of both pipes, and each closes the two it does *)
(* not use.  A message crosses as two writes and two reads, of the header  *)
(* and of the data; no result is checked.                                  *)
(*                                                                         *)
(* A process that dies has its descriptors closed: a read from an empty    *)
(* pipe that nobody can write to returns 0 (end of file), and a write to a *)
(* pipe that nobody can read kills the writer (SIGPIPE).                   *)
(*                                                                         *)
(* Its names are not those of Sockets, so that one module can hold the     *)
(* proofs about both programs.                                             *)
(***************************************************************************)
EXTENDS Naturals, Sequences, Processes

CONSTANTS PipeFaults, \* the calls that may fail
          MaxKills    \* bound: processes killed from outside

ASSUME PipesAssumption == PipeFaults \subseteq {"fork"} /\ MaxKills \in Nat

VARIABLES life,     \* life[p]: is process p running, or how did it end?
          pipe_pc,  \* pipe_pc[p]: its position in Program[p]
          pipe,     \* pipe[p]: the pieces in the pipe to p
          readers,  \* readers[p]: who can read the pipe to p
          writers,  \* writers[p]: who can write to it
          header,   \* header[p]: whose header is in p's msg: p's own, the
                    \* peer's, or nothing but what the stack held
          heard,    \* heard[p]: the sender of the message that p printed
          kills     \* processes killed so far

pipesVars == << life, pipe_pc, pipe, readers, writers, header, heard, kills >>

\* The two programs.
Program == [parent |-> << "close_out", "close_in", "write_header", "write_data",
                          "read_header", "read_data", "exit" >>,
            child  |-> << "close_out", "close_in", "read_header", "read_data",
                          "write_header", "write_data", "exit" >>]

Piece == {"header", "data"}

PipesTypeOK == /\ life \in [Process -> {"running", "exited", "dead"}]
               /\ pipe_pc \in [Process -> 1 .. 7]
               /\ pipe \in [Process -> Seq(Piece)]
               /\ \A p \in Process : Len(pipe[p]) <= 2
               /\ readers \in [Process -> SUBSET Process]
               /\ writers \in [Process -> SUBSET Process]
               /\ header \in [Process -> {"own", "peer", "unset"}]
               /\ heard \in [Process -> {"nobody", "peer", "garbage"}]
               /\ kills \in 0 .. MaxKills

\* Both pipes have been made and fork() has returned; if that failed there is no
\* child.  A pipe() that fails is left out: main() returns before it forks.
PipesInit == /\ pipe_pc = [p \in Process |-> 1]
             /\ pipe = [p \in Process |-> << >>]
             /\ header = [parent |-> "own", child |-> "unset"]
             /\ heard = [p \in Process |-> "nobody"]
             /\ kills = 0
             /\ \/ /\ life = [p \in Process |-> "running"]
                   /\ readers = [p \in Process |-> Process]
                   /\ writers = [p \in Process |-> Process]
                \/ /\ "fork" \in PipeFaults
                   /\ life = [parent |-> "running", child |-> "dead"]
                   /\ readers = [p \in Process |-> {"parent"}]
                   /\ writers = [p \in Process |-> {"parent"}]
------------------------------------------------------------------------------
At(p, l) == life[p] = "running" /\ Program[p][pipe_pc[p]] = l

Advance(p) == pipe_pc' = [pipe_pc EXCEPT ![p] = @ + 1] /\ UNCHANGED life

\* p ends, and the kernel closes its descriptors.
End(p, how) == /\ life' = [life EXCEPT ![p] = how]
               /\ UNCHANGED pipe_pc
               /\ readers' = [q \in Process |-> readers[q] \ {p}]
               /\ writers' = [q \in Process |-> writers[q] \ {p}]

\* Mutant: the end for writing to the process itself stays open.
CloseOutSkipped(p) == /\ At(p, "close_out")
                      /\ Advance(p)
                      /\ UNCHANGED << pipe, readers, writers, header, heard, kills >>

CloseOut(p) == /\ At(p, "close_out")
               /\ Advance(p)
               /\ writers' = [writers EXCEPT ![p] = @ \ {p}]
               /\ UNCHANGED << pipe, readers, header, heard, kills >>

CloseIn(p) == /\ At(p, "close_in")
              /\ Advance(p)
              /\ readers' = [readers EXCEPT ![Peer[p]] = @ \ {p}]
              /\ UNCHANGED << pipe, writers, header, heard, kills >>

WriteTo(p, piece) ==
    IF readers[Peer[p]] = {}
    THEN End(p, "dead") /\ UNCHANGED pipe
    ELSE /\ Advance(p)
         /\ pipe' = [pipe EXCEPT ![Peer[p]] = Append(@, piece)]
         /\ UNCHANGED << readers, writers >>

\* Mutant: the header is written again after it has been written.
WriteHeaderAgain(p) == /\ At(p, "write_header")
                       /\ pipe' = [pipe EXCEPT ![Peer[p]] = Append(@, "header")]
                       /\ header' = [header EXCEPT ![p] = "own"]
                       /\ UNCHANGED << life, pipe_pc, readers, writers, heard, kills >>

\* The child builds its message in the msg it received into.
WriteHeader(p) == /\ At(p, "write_header")
                  /\ WriteTo(p, "header")
                  /\ header' = [header EXCEPT ![p] = "own"]
                  /\ UNCHANGED << heard, kills >>

WriteData(p) == /\ At(p, "write_data")
                /\ WriteTo(p, "data")
                /\ UNCHANGED << header, heard, kills >>

AtEof(p) == pipe[p] = << >> /\ writers[p] = {}

\* At end of file the header stays as it was.
ReadHeader(p) ==
    /\ At(p, "read_header")
    /\ \/ /\ pipe[p] # << >>
          /\ pipe' = [pipe EXCEPT ![p] = Tail(@)]
          /\ header' = [header EXCEPT ![p] = "peer"]
       \/ AtEof(p) /\ UNCHANGED << pipe, header >>
    /\ Advance(p)
    /\ UNCHANGED << readers, writers, heard, kills >>

\* Mutant: the data is not awaited.
ReadDataEarly(p) ==
    /\ At(p, "read_data")
    /\ pipe' = [pipe EXCEPT ![p] = << >>]
    /\ heard' = [heard EXCEPT ![p] = IF pipe[p] # << >> /\ header[p] = "peer"
                                     THEN "peer" ELSE "garbage"]
    /\ Advance(p)
    /\ UNCHANGED << readers, writers, header, kills >>

\* The buffer is as malloc() returned it if nothing is read into it, and is
\* printed regardless; after a header that was never set, malloc() may also
\* have returned NULL, which msg_to_str() dereferences.
ReadData(p) ==
    /\ At(p, "read_data")
    /\ \/ /\ pipe[p] # << >>
          /\ pipe' = [pipe EXCEPT ![p] = Tail(@)]
          /\ heard' = [heard EXCEPT ![p] = IF header[p] = "peer" THEN "peer" ELSE "garbage"]
          /\ Advance(p)
          /\ UNCHANGED << readers, writers >>
       \/ /\ AtEof(p)
          /\ heard' = [heard EXCEPT ![p] = "garbage"]
          /\ Advance(p)
          /\ UNCHANGED << pipe, readers, writers >>
       \/ /\ AtEof(p)
          /\ header[p] = "unset"
          /\ End(p, "dead")
          /\ UNCHANGED << pipe, heard >>
    /\ UNCHANGED << header, kills >>

Exit(p) == /\ At(p, "exit")
           /\ End(p, "exited")
           /\ UNCHANGED << pipe, header, heard, kills >>

Kill(p) == /\ life[p] = "running"
           /\ kills < MaxKills
           /\ kills' = kills + 1
           /\ End(p, "dead")
           /\ UNCHANGED << pipe, header, heard >>

PipesStep(p) == CloseOut(p) \/ CloseIn(p) \/ WriteHeader(p) \/ WriteData(p)
                \/ ReadHeader(p) \/ ReadData(p) \/ Exit(p)

PipesNext == \E p \in Process : PipesStep(p) \/ Kill(p)

PipesSpec == PipesInit /\ [][PipesNext]_pipesVars

\* The scheduler runs every process that can run.
PipesFairness == \A p \in Process : WF_pipesVars(PipesStep(p))

PipesFairSpec == PipesSpec /\ PipesFairness
------------------------------------------------------------------------------
\* A process prints something other than the message of its peer only if the
\* peer died on the way; a process that exits has printed something
\* (hw4p2_pipes.c:105-112, 138-153).
WholeUnlessKilled ==
    \A p \in Process : /\ heard[p] = "garbage" => life[Peer[p]] = "dead"
                       /\ life[p] = "exited" => heard[p] # "nobody"

\* Nobody waits for ever, even for a peer that died or never existed: the ends
\* that a process does not use are closed (84-85, 128-129).
BothEnd == <>(\A p \in Process : life[p] # "running")
==============================================================================
