----------------------------- MODULE MCLinkedList -----------------------------
(***************************************************************************)
(* Instances of LinkedList for TLC: the client is letter_counter(), or any *)
(* program, which makes all legal calls.                                   *)
(***************************************************************************)
EXTENDS Letters, TLC

AnyInit == CounterInit /\ pc \in {"open", "other"}

AnyNext == LettersNext \/ (pc = "other" /\ Next /\ UNCHANGED counterVars)

AnySpec == AnyInit /\ [][AnyNext]_<< vars, counterVars >>

NodeSymmetry == Permutations(Node)
==============================================================================
