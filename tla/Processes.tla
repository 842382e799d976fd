------------------------------ MODULE Processes ------------------------------
(* The two processes that each program of hw4/p2 has after its fork().     *)
Process == {"parent", "child"}
Peer    == [parent |-> "child", child |-> "parent"]
==============================================================================
