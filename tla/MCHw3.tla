-------------------------------- MODULE MCHw3 --------------------------------
(* Instances of Hw3 for TLC. *)
EXTENDS Hw3, TLC

SignalSymmetry == Permutations(Signal)
==============================================================================
