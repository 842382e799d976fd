------------------------------- MODULE MCShmem -------------------------------
(* Instances of Shmem for TLC. *)
EXTENDS Shmem
==============================================================================
