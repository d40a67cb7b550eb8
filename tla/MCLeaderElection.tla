------------------------- MODULE MCLeaderElection -------------------------
(* Small instances of LeaderElection for TLC.                              *)
EXTENDS LeaderElection

CONSTANTS n1, n2

\* Clocks that agree, and a second node whose clock is a tick fast.
SameClocks == [n \in Nodes |-> 0]
FastClock == [n \in Nodes |-> IF n = n2 THEN 1 ELSE 0]
=============================================================================
