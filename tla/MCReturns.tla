------------------------------ MODULE MCReturns ------------------------------
(* Instances of Returns for TLC. *)
EXTENDS Returns
==============================================================================
