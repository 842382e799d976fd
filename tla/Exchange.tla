------------------------------- MODULE Exchange -------------------------------
(***************************************************************************)
(* What the four programs of hw4/p2 set out to do: a parent and a child    *)
(* process each print one message that the other one sent.  got[p] is who  *)
(* wrote the message that p printed as received.  The program can be       *)
(* interrupted and started again at any time.                              *)
(***************************************************************************)
EXTENDS Processes

VARIABLE got

Init == got = [p \in Process |-> "nobody"]

Receive(p) == /\ got[p] = "nobody"
              /\ got' = [got EXCEPT ![p] = Peer[p]]

Restart == got' = [p \in Process |-> "nobody"]

Next == Restart \/ \E p \in Process : Receive(p)

Spec == Init /\ [][Next]_got
==============================================================================
