------------------------------- MODULE MCKernel -------------------------------
(***************************************************************************)
(* Instances of the kernel modules Hw4p4 and ProcTree for TLC.  hw4/p4 is  *)
(* loaded; if there is no memory for its kfifo, nothing of it is left, and *)
(* hw4/p3 is loaded instead.                                               *)
(***************************************************************************)
EXTENDS Hw4p4, ProcTree

KernelInit == Init /\ TreeInit

\* Nothing of Hw4p4 is enabled then; nor is the walk of ProcTree before, so that
\* the fairness of one does not force the other.
NotLoaded == pc = "failed" /\ "orphan" \notin races

KernelNext == \/ Next /\ UNCHANGED procTreeVars
              \/ NotLoaded /\ TreeNext /\ UNCHANGED vars

KernelSpec == /\ KernelInit
              /\ [][KernelNext]_<< vars, procTreeVars >>
              /\ Fairness /\ TreeFairness
==============================================================================
