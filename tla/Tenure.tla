------------------------------- MODULE Tenure -------------------------------
(* What a row of leader_leases promises to the primaries that rely on it:  *)
(* whoever holds the lease keeps it for as long as it was given, and can   *)
(* only gain time by renewing it.                                          *)
EXTENDS Integers

CONSTANTS Nodes, NoNode, Lease, TxTicks, Past, Skew

VARIABLES
  holder,  \* who has the lease, or had it last
  left     \* how far ahead it expires

tenureVars == <<holder, left>>

Init == holder \in Nodes \cup {NoNode} /\ left = -Past

\* A lease is given for Lease, less what the transaction took.
Give(n) == holder' = n /\ left' \in (Lease - TxTicks)..Lease

Take(n) ==
  /\ holder # n
  /\ holder = NoNode \/ left < 0 \/ left < Skew[n]
  /\ Give(n)

Renew(n) == holder = n /\ Give(n) /\ left' >= left

Pass == left > -Past /\ left' = left - 1 /\ UNCHANGED holder

Next == Pass \/ \E n \in Nodes : Take(n) \/ Renew(n)

Spec == Init /\ [][Next]_tenureVars
=============================================================================
