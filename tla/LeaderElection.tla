--------------------------- MODULE LeaderElection ---------------------------
(***************************************************************************)
(* The lease of daemon/internal/leader: each primary's Leader.Acquire loop *)
(* polls one row of leader_leases, inside a transaction that locks the row *)
(* with SELECT ... FOR UPDATE.                                             *)
(*                                                                         *)
(* Time is relative: a duration is counted in ticks, an instant is how far *)
(* it lies ahead, so nothing grows. Postgres's NOW() is the instant the    *)
(* transaction began; time.Now() is the node's own clock.                  *)
(***************************************************************************)
EXTENDS Integers

CONSTANTS
  Nodes,     \* the primaries, by config.Node.Name
  NoNode,    \* the absent row's holder
  Lease,     \* INTERVAL '30 seconds'
  Poll,      \* time.NewTicker(15 * time.Second)
  TxTicks,   \* bound: ticks a transaction may last
  Skew,      \* how far a node's clock is ahead of the database's
  Past,      \* bound: an instant further back than this is `long ago`
  Seeded,    \* does the row exist at the start (left by an earlier run)
  Errors,    \* may a statement or a COMMIT fail while the context lives
  Crashes    \* may a process be killed

ASSUME LeaderAssumption ==
  /\ NoNode \notin Nodes
  /\ Lease \in Nat \ {0} /\ Poll \in Nat \ {0} /\ TxTicks \in Nat
  /\ Skew \in [Nodes -> Int]
  /\ Past \in Nat /\ Past > Lease + Poll /\ Past > TxTicks
  /\ \A n \in Nodes : Skew[n] > -Past
  /\ Seeded \in BOOLEAN /\ Errors \in BOOLEAN /\ Crashes \in BOOLEAN

VARIABLES
  lease,     \* the committed row: holder, and how far ahead expires_at is
  locker,    \* the transaction that holds the row's lock, or the key's
  seen,      \* the row as a node's SELECT returned it
  writes,    \* has the open transaction of a node written the row
  pc,        \* where Acquire and tryAcquire stand in each process
  isLeader,  \* l.isLeader
  ctxDone,   \* has SIGTERM cancelled the context
  age,       \* ticks since the node's transaction began
  due,       \* ticks until the node's ticker fires
  gone       \* ticks since the node was killed

vars == <<lease, locker, seen, writes, pc, isLeader, ctxDone, age, due, gone>>

Row == [holder : Nodes \cup {NoNode}, left : (-Past)..Lease]
NoRow == [holder |-> NoNode, left |-> -Past]

TypeOK ==
  /\ lease \in Row
  /\ locker \in Nodes \cup {NoNode}
  /\ seen \in [Nodes -> Row]
  /\ writes \in [Nodes -> BOOLEAN]
  /\ pc \in [Nodes -> {"idle", "select", "insert", "decide", "commit",
                       "stopped", "down"}]
  /\ isLeader \in [Nodes -> BOOLEAN]
  /\ ctxDone \in [Nodes -> BOOLEAN]
  /\ age \in [Nodes -> 0..TxTicks]
  /\ due \in [Nodes -> 0..Poll]
  /\ gone \in [Nodes -> 0..Past]

\* A seeded row was left by a leader of an earlier run, and has expired.
Init ==
  /\ IF Seeded THEN \E n \in Nodes : lease = [holder |-> n, left |-> -Past]
     ELSE lease = NoRow
  /\ locker = NoNode
  /\ seen = [n \in Nodes |-> NoRow]
  /\ writes = [n \in Nodes |-> FALSE]
  /\ pc = [n \in Nodes |-> "idle"]
  /\ isLeader = [n \in Nodes |-> FALSE]
  /\ ctxDone = [n \in Nodes |-> FALSE]
  /\ age = [n \in Nodes |-> 0]
  /\ due = [n \in Nodes |-> 0]
  /\ gone = [n \in Nodes |-> 0]

InTx(n) == pc[n] \in {"select", "insert", "decide", "commit"}
Alive(n) == pc[n] \notin {"stopped", "down"}

Goto(n, l) == pc' = [pc EXCEPT ![n] = l]

\* The transaction of n is over; its lock and uncommitted write go with it.
End(n, l) ==
  /\ Goto(n, l)
  /\ locker' = IF locker = n THEN NoNode ELSE locker
  /\ writes' = [writes EXCEPT ![n] = FALSE]
  /\ seen' = [seen EXCEPT ![n] = NoRow]
  /\ age' = [age EXCEPT ![n] = 0]

-----------------------------------------------------------------------------
(* tryAcquire.                                                             *)

Begin(n) ==
  /\ pc[n] = "idle" /\ due[n] = 0 /\ ~ctxDone[n]
  /\ Goto(n, "select")
  /\ due' = [due EXCEPT ![n] = Poll]
  /\ UNCHANGED <<lease, locker, seen, writes, isLeader, ctxDone, age, gone>>

\* pool.Begin fails: the node keeps whatever it believed.
BeginFails(n) ==
  /\ Errors
  /\ pc[n] = "idle" /\ due[n] = 0 /\ ~ctxDone[n]
  /\ due' = [due EXCEPT ![n] = Poll]
  /\ UNCHANGED <<lease, locker, seen, writes, pc, isLeader, ctxDone, age, gone>>

\* Mutant: SELECT without FOR UPDATE.
BugSelectRow(n) ==
  /\ pc[n] = "select" /\ ~ctxDone[n]
  /\ lease.holder # NoNode
  /\ seen' = [seen EXCEPT ![n] = lease]
  /\ Goto(n, "decide")
  /\ UNCHANGED <<lease, locker, writes, isLeader, ctxDone, age, due, gone>>

\* SELECT ... FOR UPDATE waits for the row's lock and takes it.
SelectRow(n) ==
  /\ pc[n] = "select" /\ ~ctxDone[n]
  /\ lease.holder # NoNode
  /\ locker = NoNode
  /\ locker' = n
  /\ seen' = [seen EXCEPT ![n] = lease]
  /\ Goto(n, "decide")
  /\ UNCHANGED <<lease, writes, isLeader, ctxDone, age, due, gone>>

\* No committed row: ErrNoRows, and nothing is locked.
SelectNothing(n) ==
  /\ pc[n] = "select" /\ ~ctxDone[n]
  /\ lease.holder = NoNode
  /\ Goto(n, "insert")
  /\ UNCHANGED <<lease, locker, seen, writes, isLeader, ctxDone, age, due, gone>>

\* INSERT ... ON CONFLICT DO UPDATE ... WHERE waits for a concurrent writer of
\* the key. isLeader is set whether or not a row was written.
Insert(n) ==
  /\ pc[n] = "insert" /\ ~ctxDone[n]
  /\ locker = NoNode
  /\ locker' = n
  /\ writes' = [writes EXCEPT
       ![n] = lease.holder \in {NoNode, n} \/ lease.left < -age[n]]
  /\ isLeader' = [isLeader EXCEPT ![n] = TRUE]
  /\ Goto(n, "commit")
  /\ UNCHANGED <<lease, seen, ctxDone, age, due, gone>>

\* Mutant: only a released lease is taken over.
BugMayTake(n) == seen[n].holder \in {n, NoNode}

MayTake(n) == seen[n].holder = n \/ seen[n].left < Skew[n]

\* Mutant: a node that finds another holder does not step down.
BugDecide(n) ==
  /\ pc[n] = "decide" /\ ~ctxDone[n]
  /\ locker \in {n, NoNode}
  /\ locker' = n
  /\ writes' = [writes EXCEPT ![n] = MayTake(n)]
  /\ isLeader' = [isLeader EXCEPT ![n] = MayTake(n) \/ isLeader[n]]
  /\ Goto(n, "commit")
  /\ UNCHANGED <<lease, seen, ctxDone, age, due, gone>>

\* The holder, or anyone once the lease has expired by its own clock, writes
\* the row; the others step down. (An UPDATE waits for the row's lock, which
\* the node holds already.)
Decide(n) ==
  /\ pc[n] = "decide" /\ ~ctxDone[n]
  /\ locker \in {n, NoNode}
  /\ locker' = n
  /\ writes' = [writes EXCEPT ![n] = MayTake(n)]
  /\ isLeader' = [isLeader EXCEPT ![n] = MayTake(n)]
  /\ Goto(n, "commit")
  /\ UNCHANGED <<lease, seen, ctxDone, age, due, gone>>

\* Mutant: the lease lasts as long as the polling period.
BugCommit(n) ==
  /\ pc[n] = "commit" /\ ~ctxDone[n]
  /\ lease' = IF writes[n] THEN [holder |-> n, left |-> Poll - age[n]] ELSE lease
  /\ End(n, "idle")
  /\ UNCHANGED <<isLeader, ctxDone, due, gone>>

\* Mutant: the lease is counted from the COMMIT, and the wait added to it.
BugCommitLate(n) ==
  /\ pc[n] = "commit" /\ ~ctxDone[n]
  /\ lease' = IF writes[n] THEN [holder |-> n, left |-> Lease + age[n]] ELSE lease
  /\ End(n, "idle")
  /\ UNCHANGED <<isLeader, ctxDone, due, gone>>

\* NOW() + 30s was computed with the instant the transaction began.
Commit(n) ==
  /\ pc[n] = "commit" /\ ~ctxDone[n]
  /\ lease' = IF writes[n] THEN [holder |-> n, left |-> Lease - age[n]] ELSE lease
  /\ End(n, "idle")
  /\ UNCHANGED <<isLeader, ctxDone, due, gone>>

\* A statement or the COMMIT fails, by an error or because the context is
\* cancelled: the transaction is rolled back and isLeader stays as it is. (An
\* error of the SELECT aborts the transaction, so the INSERT fails too; a failed
\* UPDATE is followed by a COMMIT that rolls back.)
TxFails(n) ==
  /\ Errors \/ ctxDone[n]
  /\ InTx(n)
  /\ End(n, "idle")
  /\ UNCHANGED <<lease, isLeader, ctxDone, due, gone>>

-----------------------------------------------------------------------------
(* The process around it.                                                  *)

Terminate(n) ==
  /\ Crashes
  /\ Alive(n) /\ ~ctxDone[n]
  /\ ctxDone' = [ctxDone EXCEPT ![n] = TRUE]
  /\ UNCHANGED <<lease, locker, seen, writes, pc, isLeader, age, due, gone>>

\* release: the UPDATE is executed with the cancelled context, which pgxpool
\* refuses before it reaches the database; then the process ends.
Release(n) ==
  /\ pc[n] = "idle" /\ ctxDone[n]
  /\ isLeader' = [isLeader EXCEPT ![n] = FALSE]
  /\ Goto(n, "stopped")
  /\ UNCHANGED <<lease, locker, seen, writes, ctxDone, age, due, gone>>

\* Killed, or main returned before Acquire's goroutine came to release.
Crash(n) ==
  /\ Crashes
  /\ Alive(n)
  /\ isLeader' = [isLeader EXCEPT ![n] = FALSE]
  /\ ctxDone' = [ctxDone EXCEPT ![n] = FALSE]
  /\ gone' = [gone EXCEPT ![n] = 0]
  /\ End(n, "down")
  /\ UNCHANGED <<lease, due>>

\* Acquire tries once before its ticker first fires.
Restart(n) ==
  /\ ~Alive(n)
  /\ Goto(n, "idle")
  /\ ctxDone' = [ctxDone EXCEPT ![n] = FALSE]
  /\ due' = [due EXCEPT ![n] = 0]
  /\ gone' = [gone EXCEPT ![n] = 0]
  /\ UNCHANGED <<lease, locker, seen, writes, isLeader, age>>

Earlier(left) == IF left > -Past THEN left - 1 ELSE left

\* A tick passes. The ticker of an idle node is punctual, a transaction lasts
\* at most TxTicks, and a cancelled node does not linger.
Tick ==
  /\ \A n \in Nodes : /\ InTx(n) => age[n] < TxTicks
                      /\ pc[n] = "idle" => due[n] > 0 /\ ~ctxDone[n]
  /\ lease' = [lease EXCEPT !.left = Earlier(@)]
  /\ seen' = [n \in Nodes |-> [seen[n] EXCEPT !.left = Earlier(@)]]
  /\ age' = [n \in Nodes |-> IF InTx(n) THEN age[n] + 1 ELSE age[n]]
  /\ due' = [n \in Nodes |-> IF Alive(n) /\ due[n] > 0 THEN due[n] - 1 ELSE due[n]]
  /\ gone' = [n \in Nodes |-> IF pc[n] = "down" /\ gone[n] < Past
                              THEN gone[n] + 1 ELSE gone[n]]
  /\ UNCHANGED <<locker, writes, pc, isLeader, ctxDone>>

NodeStep(n) ==
  \/ Begin(n) \/ BeginFails(n) \/ SelectRow(n) \/ SelectNothing(n) \/ Insert(n)
  \/ Decide(n) \/ Commit(n) \/ TxFails(n) \/ Release(n)

Next ==
  \/ \E n \in Nodes : NodeStep(n) \/ Terminate(n) \/ Crash(n) \/ Restart(n)
  \/ Tick

Spec == Init /\ [][Next]_vars

\* The database keeps a node from reading, or from taking, the lease. (A failed
\* COMMIT of a node that wrote nothing is a COMMIT as good as any.)
DatabaseError ==
  \E n \in Nodes :
    \/ BeginFails(n)
    \/ /\ TxFails(n) /\ ~ctxDone[n]
       /\ pc[n] = "commit" => writes[n] /\ lease.holder # n

\* Time does not stand still and every node's calls return; the errors that
\* keep a node from the lease end some day. Nothing restarts a dead process.
Fairness ==
  /\ SF_vars(Tick)
  /\ \A n \in Nodes : SF_vars(NodeStep(n))
  /\ <>[][~DatabaseError]_vars

FairSpec == Spec /\ Fairness

-----------------------------------------------------------------------------
(* Properties.                                                             *)

\* The lease changes hands only after it has expired, by the database's clock
\* or by that of the node that takes it, however transactions interleave or
\* fail: what a node decides on is still the row when its write commits.
NoEarlyTakeover ==
  [][lease'.holder # lease.holder /\ lease.holder # NoNode
       => lease.left < 0 \/ lease.left < Skew[lease'.holder]]_vars

\* Whoever holds the lease keeps it for as long as it was given: it is written
\* for at least Lease less a transaction, and a renewal, however delayed, never
\* shortens it, although its end is counted from where the transaction began.
Promise == INSTANCE Tenure WITH holder <- lease.holder, left <- lease.left
LeaseIsKept == Promise!Spec

\* Two primaries that are not shutting down never both believe to be leader,
\* although l.isLeader is not tied to expires_at: the holder renews early enough
\* that no clock, however fast within the bound, sees its lease expire while it
\* lives.
SoleLeader ==
  \A m, n \in Nodes :
    /\ isLeader[m] /\ ~ctxDone[m]
    /\ isLeader[n] /\ ~ctxDone[n]
    => m = n

\* A primary that has polled and is waiting for its next poll.
Standby(n) == pc[n] = "idle" /\ due[n] > 0 /\ ~ctxDone[n]

\* Once the holder is killed another primary takes the lease within one lease
\* and one polling period, and what a transaction may last.
TakeoverBounded ==
  \A n \in Nodes :
    /\ pc[n] = "down" /\ lease.holder = n
    /\ \E m \in Nodes : Standby(m)
    => gone[n] <= Lease + Poll + TxTicks

\* A node that believes to be leader while another holds the lease finds out:
\* a belief set by the losing side of an INSERT race, or kept through a delayed
\* transaction while the lease expired, does not last.
BeliefIsRevised ==
  \A n \in Nodes :
    isLeader[n] /\ lease.holder # n ~> ~isLeader[n] \/ lease.holder = n

=============================================================================
