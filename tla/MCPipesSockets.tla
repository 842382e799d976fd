---------------------------- MODULE MCPipesSockets ----------------------------
(***************************************************************************)
(* Instances of Pipes and Sockets for TLC: hw4p2_pipes is executed once,   *)
(* and hw4p2_sockets, any number of times, when its processes have ended.  *)
(***************************************************************************)
EXTENDS Pipes, Sockets

BothInit == PipesInit /\ Init

PipesDone == \A p \in Process : life[p] # "running"

BothNext == \/ PipesNext /\ UNCHANGED vars
            \/ PipesDone /\ Next /\ UNCHANGED pipesVars

\* The fairness of Sockets, which does not keep Pipes from getting stuck.
SocketsFairness == /\ \A p \in Process : WF_vars(PipesDone /\ Step(p))
                   /\ WF_vars(PipesDone /\ Answer) /\ WF_vars(PipesDone /\ Request)

BothSpec == /\ BothInit
            /\ [][BothNext]_<< pipesVars, vars >>
            /\ PipesFairness /\ SocketsFairness
==============================================================================
