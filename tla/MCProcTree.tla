----------------------------- MODULE MCProcTree -----------------------------
(* Instances of ProcTree alone for TLC. *)
EXTENDS ProcTree
==============================================================================
