------------------------------ MODULE MCMQueues ------------------------------
(* Instances of MQueues for TLC. *)
EXTENDS MQueues
==============================================================================
