------------------------ MODULE LeaderElectionProofs ------------------------
(***************************************************************************)
(* The lease never changes hands early, for every number of primaries, any *)
(* clocks, durations, crashes and errors. A node decides on the row it     *)
(* read, some ticks before its write commits, so the invariant has to say  *)
(* that the row is still the same: the lock it took with the read is what  *)
(* keeps it so.                                                            *)
(*                                                                         *)
(* Since a node's polls follow one another, its renewals only lengthen the *)
(* lease: LeaderElection implements Tenure.                                *)
(*                                                                         *)
(* Where polls are punctual and calls succeed, more follows: the age of    *)
(* each node's last poll bounds from below what is left of its lease, and  *)
(* from above how long a dead node's lease has been left to it.            *)
(***************************************************************************)
EXTENDS LeaderElection, TLAPS

\* What justifies the write a node is about to commit.
Entitled(n) == \/ lease.holder \in {NoNode, n}
               \/ lease.left < 0
               \/ lease.left < Skew[n]

LockProtects ==
  /\ lease \in Row
  /\ age \in [Nodes -> 0..TxTicks]
  /\ pc \in [Nodes -> {"idle", "select", "insert", "decide", "commit",
                       "stopped", "down"}]
  /\ seen \in [Nodes -> Row]
  /\ writes \in [Nodes -> BOOLEAN]
  /\ \A n \in Nodes :
       /\ pc[n] \in {"decide", "commit"} => locker = n
       /\ pc[n] = "decide" => seen[n] = lease
       /\ writes[n] => pc[n] = "commit" /\ Entitled(n)

LEMMA InitLock == Init => LockProtects
  BY LeaderAssumption DEF Init, LockProtects, Row, NoRow, LeaderAssumption

\* While a row's lock is held only its holder commits, so what the others know
\* of the row stands.
LEMMA EndLock ==
  ASSUME LockProtects, NEW n \in Nodes, NEW l \in {"idle", "down"}, End(n, l),
         UNCHANGED lease
  PROVE  LockProtects'
<1>1. \A m \in Nodes : m # n =>
        /\ pc'[m] = pc[m] /\ writes'[m] = writes[m] /\ seen'[m] = seen[m]
  BY DEF LockProtects, End, Goto
<1>2. pc'[n] = l /\ ~writes'[n]
  BY DEF LockProtects, End, Goto
<1>3. \A m \in Nodes : m # n /\ locker = m => locker' = m
  BY DEF End
<1>4. /\ pc' \in [Nodes -> {"idle", "select", "insert", "decide", "commit",
                            "stopped", "down"}]
      /\ writes' \in [Nodes -> BOOLEAN]
      /\ age' \in [Nodes -> 0..TxTicks]
  BY LeaderAssumption DEF LockProtects, End, Goto, LeaderAssumption
<1>5. seen' \in [Nodes -> Row]
  BY LeaderAssumption DEF LockProtects, End, Row, NoRow, LeaderAssumption
<1> QED BY <1>1, <1>2, <1>3, <1>4, <1>5 DEF LockProtects, Entitled

LEMMA CommitLock ==
  ASSUME LockProtects, NEW n \in Nodes, Commit(n) PROVE LockProtects'
<1>1. locker = n
  BY DEF LockProtects, Commit
<1>2. \A m \in Nodes \ {n} : pc[m] \notin {"decide", "commit"} /\ ~writes[m]
  BY <1>1 DEF LockProtects
<1>3. \A m \in Nodes \ {n} :
        /\ pc'[m] = pc[m] /\ writes'[m] = writes[m] /\ seen'[m] = seen[m]
  BY DEF LockProtects, Commit, End, Goto
<1>4. pc'[n] = "idle" /\ ~writes'[n]
  BY DEF LockProtects, Commit, End, Goto
<1>5. lease' \in Row
  <2>1. CASE writes[n]
    <3>1. lease' = [holder |-> n, left |-> Lease - age[n]]
      BY <2>1 DEF Commit
    <3>2. age[n] \in 0..TxTicks
      BY DEF LockProtects
    <3> QED BY <3>1, <3>2, LeaderAssumption DEF Row, LeaderAssumption
  <2> QED BY <2>1 DEF Commit, LockProtects
<1>6. /\ pc' \in [Nodes -> {"idle", "select", "insert", "decide", "commit",
                            "stopped", "down"}]
      /\ writes' \in [Nodes -> BOOLEAN]
      /\ age' \in [Nodes -> 0..TxTicks]
  BY LeaderAssumption DEF LockProtects, Commit, End, Goto, LeaderAssumption
<1>7. seen' \in [Nodes -> Row]
  BY LeaderAssumption DEF LockProtects, Commit, End, Row, NoRow, LeaderAssumption
<1> QED BY <1>2, <1>3, <1>4, <1>5, <1>6, <1>7 DEF LockProtects

\* Time passes for the row and for every copy of it alike, and a lease that had
\* run out stays so.
LEMMA TickLock == ASSUME LockProtects, Tick PROVE LockProtects'
<1>1. lease' = [holder |-> lease.holder, left |-> Earlier(lease.left)]
  BY DEF Tick, LockProtects, Row
<1>2. \A n \in Nodes :
        seen'[n] = [holder |-> seen[n].holder, left |-> Earlier(seen[n].left)]
  BY DEF Tick, LockProtects, Row
<1>3. \A i \in (-Past)..Lease :
        Earlier(i) \in (-Past)..Lease /\ Earlier(i) <= i
  BY LeaderAssumption DEF Earlier, LeaderAssumption
<1>4. lease' \in Row
  BY <1>1, <1>3 DEF LockProtects, Row
<1>5. seen' \in [Nodes -> Row]
  <2>1. ASSUME NEW n \in Nodes PROVE seen'[n] \in Row
    <3>1. seen[n].holder \in Nodes \cup {NoNode} /\ seen[n].left \in (-Past)..Lease
      BY DEF LockProtects, Row
    <3>2. Earlier(seen[n].left) \in (-Past)..Lease
      BY <1>3, <3>1
    <3> DEFINE h == seen[n].holder
               e == Earlier(seen[n].left)
    <3>3. seen'[n] = [holder |-> h, left |-> e]
      BY <1>2
    <3>4. h \in Nodes \cup {NoNode} /\ e \in (-Past)..Lease
      BY <3>1, <3>2
    <3> HIDE DEF h, e
    <3> QED BY <3>3, <3>4 DEF Row
  <2> QED BY <2>1 DEF Tick
<1>6. age' \in [Nodes -> 0..TxTicks]
  BY LeaderAssumption DEF Tick, LockProtects, LeaderAssumption
<1>7. \A n \in Nodes : Entitled(n) => Entitled(n)'
  <2> TAKE n \in Nodes
  <2>1. lease.left \in Int /\ lease'.left <= lease.left /\ lease'.left \in Int
    BY <1>1, <1>3 DEF LockProtects, Row
  <2>2. lease'.holder = lease.holder /\ Skew[n] \in Int
    BY <1>1, LeaderAssumption DEF LeaderAssumption
  <2> QED BY <2>1, <2>2 DEF Entitled
<1>8. \A n \in Nodes : seen[n] = lease => seen'[n] = lease'
  BY <1>1, <1>2
<1>9. UNCHANGED <<pc, writes, locker>>
  BY DEF Tick
<1> QED BY <1>4, <1>5, <1>6, <1>7, <1>8, <1>9 DEF LockProtects

LEMMA LockFree ==
  ASSUME LockProtects, locker = NoNode
  PROVE  \A n \in Nodes : pc[n] \notin {"decide", "commit"} /\ ~writes[n]
  BY LeaderAssumption DEF LockProtects, LeaderAssumption

LEMMA LockInductive == LockProtects /\ [Next]_vars => LockProtects'
<1> SUFFICES ASSUME LockProtects, [Next]_vars PROVE LockProtects'
  OBVIOUS
<1>1. CASE UNCHANGED vars
  BY <1>1 DEF vars, LockProtects, Entitled
<1>2. CASE Tick
  BY <1>2, TickLock
<1>3. ASSUME NEW n \in Nodes, NodeStep(n) PROVE LockProtects'
  <2>1. CASE Begin(n)
    BY <2>1 DEF Begin, Goto, LockProtects, Entitled
  <2>2. CASE BeginFails(n)
    BY <2>2 DEF BeginFails, LockProtects, Entitled
  <2>3. CASE SelectRow(n)
    <3>1. \A m \in Nodes : pc[m] \notin {"decide", "commit"} /\ ~writes[m]
      BY <2>3, LockFree DEF SelectRow
    <3>2. pc' = [pc EXCEPT ![n] = "decide"] /\ UNCHANGED <<lease, writes, age>>
      BY <2>3 DEF SelectRow, Goto
    <3>3. seen' = [seen EXCEPT ![n] = lease] /\ locker' = n
      BY <2>3 DEF SelectRow
    <3> QED BY <3>1, <3>2, <3>3 DEF LockProtects
  <2>4. CASE SelectNothing(n)
    BY <2>4 DEF SelectNothing, Goto, LockProtects, Entitled
  <2>5. CASE Insert(n)
    <3>1. age[n] >= 0 /\ age[n] \in Int /\ lease.left \in Int
      BY LeaderAssumption DEF LockProtects, Row, LeaderAssumption
    <3>2. lease.left < -age[n] => lease.left < 0
      BY <3>1
    <3>3. \A m \in Nodes : pc[m] \notin {"decide", "commit"} /\ ~writes[m]
      BY <2>5, LockFree DEF Insert
    <3>4. pc' = [pc EXCEPT ![n] = "commit"] /\ UNCHANGED <<lease, seen, age>>
      BY <2>5 DEF Insert, Goto
    <3>5. locker' = n
      BY <2>5 DEF Insert
    <3>6. writes' = [writes EXCEPT
            ![n] = lease.holder \in {NoNode, n} \/ lease.left < -age[n]]
      BY <2>5 DEF Insert
    <3>7. writes' \in [Nodes -> BOOLEAN]
      BY <3>6 DEF LockProtects
    <3>8. \A m \in Nodes : writes'[m] => m = n /\ Entitled(n)
      BY <3>2, <3>3, <3>6 DEF LockProtects, Entitled
    <3>9. \A m \in Nodes : pc'[m] \in {"decide", "commit"} => m = n
      BY <3>3, <3>4 DEF LockProtects
    <3> QED BY <3>4, <3>5, <3>7, <3>8, <3>9 DEF LockProtects, Entitled
  <2>6. CASE Decide(n)
    <3>1. pc[n] = "decide" /\ locker = n /\ seen[n] = lease
      BY <2>6 DEF Decide, LockProtects
    <3>2. MayTake(n) => Entitled(n)
      BY <3>1 DEF MayTake, Entitled
    <3>3. \A m \in Nodes : m # n => pc[m] \notin {"decide", "commit"} /\ ~writes[m]
      BY <3>1 DEF LockProtects
    <3>4. pc' = [pc EXCEPT ![n] = "commit"] /\ UNCHANGED <<lease, seen, age>>
      BY <2>6 DEF Decide, Goto
    <3>5. locker' = n /\ writes' = [writes EXCEPT ![n] = MayTake(n)]
      BY <2>6 DEF Decide
    <3>6. MayTake(n) \in BOOLEAN
      BY DEF MayTake
    <3> HIDE DEF MayTake
    <3>7. writes' \in [Nodes -> BOOLEAN]
      BY <3>5, <3>6 DEF LockProtects
    <3>8. \A m \in Nodes : writes'[m] => m = n /\ Entitled(n)
      BY <3>2, <3>3, <3>5 DEF LockProtects
    <3>9. \A m \in Nodes : pc'[m] \in {"decide", "commit"} => m = n
      BY <3>3, <3>4 DEF LockProtects
    <3> QED BY <3>4, <3>5, <3>7, <3>8, <3>9 DEF LockProtects, Entitled
  <2>7. CASE Commit(n)
    BY <2>7, CommitLock
  <2>8. CASE TxFails(n)
    BY <2>8, EndLock DEF TxFails
  <2>9. CASE Release(n)
    BY <2>9 DEF Release, Goto, LockProtects, Entitled
  <2> QED BY <1>3, <2>1, <2>2, <2>3, <2>4, <2>5, <2>6, <2>7, <2>8, <2>9
          DEF NodeStep
<1>4. ASSUME NEW n \in Nodes, Terminate(n) \/ Crash(n) \/ Restart(n)
      PROVE  LockProtects'
  <2>1. CASE Terminate(n)
    BY <2>1 DEF Terminate, LockProtects, Entitled
  <2>2. CASE Crash(n)
    BY <2>2, EndLock DEF Crash
  <2>3. CASE Restart(n)
    BY <2>3 DEF Restart, Alive, Goto, LockProtects, Entitled
  <2> QED BY <1>4, <2>1, <2>2, <2>3
<1> QED BY <1>1, <1>2, <1>3, <1>4 DEF Next

\* The lease changes hands only after it has expired, by the database's clock
\* or by the new holder's own.
THEOREM LeaseNotTakenEarly == Spec => NoEarlyTakeover
<1> DEFINE InTime == lease'.holder # lease.holder /\ lease.holder # NoNode
                       => lease.left < 0 \/ lease.left < Skew[lease'.holder]
<1>1. LockProtects /\ [Next]_vars => InTime
  <2> SUFFICES ASSUME LockProtects, [Next]_vars, lease'.holder # lease.holder
               PROVE  InTime
    OBVIOUS
  <2>1. PICK n \in Nodes : Commit(n) /\ writes[n]
    <3>1. CASE Tick
      BY <3>1 DEF Tick, LockProtects, Row
    <3> QED BY <3>1 DEF Next, NodeStep, vars, Begin, BeginFails, SelectRow,
                        SelectNothing, Insert, Decide, Commit, TxFails, Release,
                        Terminate, Crash, Restart
  <2>2. lease'.holder = n /\ Entitled(n)
    BY <2>1 DEF Commit, LockProtects
  <2> QED BY <2>2 DEF Entitled
<1>2. Spec => [][InTime]_vars
  BY <1>1, InitLock, LockInductive, PTL DEF Spec
<1> QED BY <1>2 DEF NoEarlyTakeover

-----------------------------------------------------------------------------
(* Types.                                                                  *)

\* What LockProtects does not say of the types.
OtherTypes ==
  /\ locker \in Nodes \cup {NoNode}
  /\ isLeader \in [Nodes -> BOOLEAN]
  /\ ctxDone \in [Nodes -> BOOLEAN]
  /\ due \in [Nodes -> 0..Poll]
  /\ gone \in [Nodes -> 0..Past]

LEMMA TypesInductive ==
  LockProtects /\ OtherTypes /\ [Next]_vars => OtherTypes'
<1> SUFFICES ASSUME LockProtects, OtherTypes, [Next]_vars PROVE OtherTypes'
  OBVIOUS
<1> USE LeaderAssumption DEF LeaderAssumption
<1>1. CASE UNCHANGED vars
  BY <1>1 DEF vars, OtherTypes
<1>2. CASE Tick
  <2>1. due' \in [Nodes -> 0..Poll] /\ gone' \in [Nodes -> 0..Past]
    BY <1>2 DEF Tick, OtherTypes
  <2> QED BY <1>2, <2>1 DEF Tick, OtherTypes
<1>3. ASSUME NEW n \in Nodes, NodeStep(n) PROVE OtherTypes'
  <2>1. CASE Begin(n) \/ BeginFails(n)
    BY <2>1 DEF Begin, BeginFails, OtherTypes
  <2>2. CASE SelectRow(n) \/ SelectNothing(n)
    BY <2>2 DEF SelectRow, SelectNothing, OtherTypes
  <2>3. CASE Insert(n)
    BY <2>3 DEF Insert, OtherTypes
  <2>4. CASE Decide(n)
    <3>1. MayTake(n) \in BOOLEAN
      BY DEF MayTake
    <3> QED BY <2>4, <3>1 DEF Decide, OtherTypes
  <2>5. CASE Commit(n) \/ TxFails(n)
    BY <2>5 DEF Commit, TxFails, End, OtherTypes
  <2>6. CASE Release(n)
    BY <2>6 DEF Release, OtherTypes
  <2> QED BY <1>3, <2>1, <2>2, <2>3, <2>4, <2>5, <2>6 DEF NodeStep
<1>4. ASSUME NEW n \in Nodes, Terminate(n) \/ Crash(n) \/ Restart(n)
      PROVE  OtherTypes'
  <2>1. CASE Terminate(n)
    BY <2>1 DEF Terminate, OtherTypes
  <2>2. CASE Crash(n)
    BY <2>2 DEF Crash, End, OtherTypes
  <2>3. CASE Restart(n)
    BY <2>3 DEF Restart, OtherTypes
  <2> QED BY <1>4, <2>1, <2>2, <2>3
<1> QED BY <1>1, <1>2, <1>3, <1>4 DEF Next

\* Every variable keeps its type: in particular a lease never has more than
\* Lease ahead of it, and no transaction outlives its bound.
THEOREM LeaseTypeCorrect == Spec => []TypeOK
<1>1. Init => OtherTypes
  BY LeaderAssumption DEF Init, OtherTypes, LeaderAssumption
<1>2. LockProtects /\ OtherTypes => TypeOK
  BY DEF LockProtects, OtherTypes, TypeOK
<1> QED BY <1>1, <1>2, InitLock, LockInductive, TypesInductive, PTL DEF Spec

-----------------------------------------------------------------------------
(* The lease is kept.                                                      *)

\* The holder's row was written by a poll that began before the one under way,
\* so it ends no later than what this one would write.
LastWrite ==
  \A n \in Nodes : /\ ~InTx(n) => age[n] = 0
                   /\ lease.holder = n => lease.left <= Lease - age[n]

LEMMA LastWriteInductive ==
  LockProtects /\ LastWrite /\ [Next]_vars => LastWrite'
<1> SUFFICES ASSUME LockProtects, LastWrite, [Next]_vars PROVE LastWrite'
  OBVIOUS
<1> USE LeaderAssumption DEF LeaderAssumption
<1>1. CASE UNCHANGED vars
  BY <1>1 DEF vars, LastWrite, InTx
<1>2. CASE Tick
  <2>1. lease'.holder = lease.holder /\ lease'.left = Earlier(lease.left)
    BY <1>2 DEF Tick, LockProtects, Row
  <2>2. ASSUME NEW n \in Nodes
        PROVE  /\ ~InTx(n)' => age'[n] = 0
               /\ lease'.holder = n => lease'.left <= Lease - age'[n]
    <3>1. /\ age[n] \in 0..TxTicks /\ lease.left \in (-Past)..Lease
          /\ age' = [m \in Nodes |-> IF InTx(m) THEN age[m] + 1 ELSE age[m]]
          /\ InTx(n) => age[n] < TxTicks
      BY <1>2 DEF Tick, LockProtects, Row
    <3>2. ~InTx(n)' => age'[n] = 0
      BY <1>2, <3>1 DEF Tick, LastWrite, InTx
    <3>3. ASSUME lease.holder = n PROVE lease'.left <= Lease - age'[n]
      <4>1. lease.left <= Lease - age[n]
        BY <3>3 DEF LastWrite
      <4>2. age'[n] \in {age[n], age[n] + 1} /\ age'[n] <= TxTicks
        BY <3>1
      <4> QED BY <2>1, <3>1, <4>1, <4>2 DEF Earlier
    <3> QED BY <2>1, <3>2, <3>3
  <2> QED BY <2>2 DEF LastWrite
<1>3. ASSUME NEW n \in Nodes, NEW l \in {"idle", "down"}, End(n, l)
      PROVE  \A m \in Nodes : /\ ~InTx(m)' => age'[m] = 0
                              /\ age'[m] = IF m = n THEN 0 ELSE age[m]
  BY <1>3 DEF End, Goto, LastWrite, InTx, LockProtects
<1>4. ASSUME NEW n \in Nodes, Commit(n) PROVE LastWrite'
  <2>1. lease' \in Row
    BY <1>4, CommitLock DEF LockProtects
  <2>2. lease' = lease \/ lease'.holder = n
    BY <1>4 DEF Commit
  <2>3. End(n, "idle")
    BY <1>4 DEF Commit
  <2> QED BY <1>3, <2>1, <2>2, <2>3 DEF LastWrite, Row
<1>5. ASSUME NEW n \in Nodes, TxFails(n) \/ Crash(n) PROVE LastWrite'
  <2>1. lease' = lease /\ lease \in Row /\ (End(n, "idle") \/ End(n, "down"))
    BY <1>5 DEF TxFails, Crash, LockProtects
  <2> QED BY <1>3, <2>1 DEF LastWrite, Row
<1>6. ASSUME UNCHANGED <<lease, age>>, \A n \in Nodes : InTx(n) => InTx(n)'
      PROVE  LastWrite'
  BY <1>6 DEF LastWrite
<1>7. ASSUME NEW n \in Nodes, Begin(n) \/ BeginFails(n) PROVE LastWrite'
  BY <1>6, <1>7 DEF Begin, BeginFails, Goto, InTx, LockProtects
<1>8. ASSUME NEW n \in Nodes,
             SelectRow(n) \/ SelectNothing(n) \/ Insert(n) \/ Decide(n)
      PROVE  LastWrite'
  BY <1>6, <1>8 DEF SelectRow, SelectNothing, Insert, Decide, Goto, InTx, LockProtects
<1>9. ASSUME NEW n \in Nodes, Release(n) \/ Terminate(n) \/ Restart(n)
      PROVE  LastWrite'
  BY <1>6, <1>9 DEF Release, Terminate, Restart, Alive, Goto, InTx, LockProtects
<1> QED BY <1>1, <1>2, <1>4, <1>5, <1>7, <1>8, <1>9 DEF Next, NodeStep

\* Every step is one of Tenure or a stutter: the lease is given for its time,
\* renewed only to last longer, and taken only when it has run out.
THEOREM LeaseIsTenure == Spec => LeaseIsKept
<1> USE LeaderAssumption DEF LeaderAssumption
<1>1. Init => Promise!Init /\ LastWrite
  BY DEF Init, NoRow, Promise!Init, LastWrite
<1>2. LockProtects /\ LastWrite /\ [Next]_vars => [Promise!Next]_(Promise!tenureVars)
  <2> SUFFICES ASSUME LockProtects, LastWrite, [Next]_vars
               PROVE  Promise!Next \/ UNCHANGED Promise!tenureVars
    OBVIOUS
  <2> USE DEF Promise!tenureVars
  <2>1. CASE Tick
    <3>1. lease'.holder = lease.holder /\ lease'.left = Earlier(lease.left)
      BY <2>1 DEF Tick, LockProtects, Row
    <3> QED BY <3>1 DEF Earlier, Promise!Next, Promise!Pass
  <2>2. ASSUME NEW n \in Nodes, Commit(n), writes[n]
        PROVE  Promise!Take(n) \/ Promise!Renew(n)
    <3>1. lease'.holder = n /\ lease'.left = Lease - age[n]
      BY <2>2 DEF Commit
    <3>2. age[n] \in 0..TxTicks /\ lease.left \in (-Past)..Lease /\ Entitled(n)
      BY <2>2 DEF LockProtects, Row
    <3>3. Promise!Give(n)
      BY <3>1, <3>2 DEF Promise!Give
    <3>4. CASE lease.holder = n
      BY <3>1, <3>2, <3>3, <3>4 DEF LastWrite, Promise!Renew
    <3>5. CASE lease.holder # n
      BY <3>2, <3>3, <3>5 DEF Entitled, Promise!Take
    <3> QED BY <3>4, <3>5
  <2>3. CASE UNCHANGED vars
    BY <2>3 DEF vars
  <2>4. ASSUME NEW n \in Nodes, NodeStep(n), ~(Commit(n) /\ writes[n])
        PROVE  lease' = lease
    BY <2>4 DEF NodeStep, Begin, BeginFails, SelectRow, SelectNothing, Insert,
                Decide, Commit, TxFails, Release
  <2>5. ASSUME NEW n \in Nodes, Terminate(n) \/ Crash(n) \/ Restart(n)
        PROVE  lease' = lease
    BY <2>5 DEF Terminate, Crash, Restart
  <2> QED BY <2>1, <2>2, <2>3, <2>4, <2>5 DEF Next, Promise!Next
<1> QED BY <1>1, <1>2, InitLock, LockInductive, LastWriteInductive, PTL
        DEF Spec, LeaseIsKept, Promise!Spec

-----------------------------------------------------------------------------
(* One leader, and a bounded takeover.                                     *)

\* The row exists, calls succeed, a poll is over before the next is due, and no
\* clock is so fast that it sees a lease expire which its holder still renews.
Punctual ==
  /\ Seeded /\ ~Errors
  /\ TxTicks <= Poll
  /\ \A n \in Nodes : Skew[n] + Poll + TxTicks <= Lease

\* A belief that counts: its node is not shutting down.
Leads(n) == isLeader[n] /\ ~ctxDone[n]

\* A node that is dead believes nothing; one about to commit believes what it
\* is about to write; a poll's age and the wait for the next make up one period.
PollHeld(n) ==
  /\ pc[n] # "insert"
  /\ ~Alive(n) => ~isLeader[n]
  /\ pc[n] = "commit" => (isLeader[n] <=> writes[n])
  /\ IF InTx(n) THEN age[n] + due[n] = Poll ELSE age[n] = 0

\* Who leads holds the lease or is about to write it, and then nobody else
\* leads; what is left of a leader's lease is known from the age of its poll.
Led(n) ==
  /\ Leads(n) => lease.holder = n \/ writes[n]
  /\ writes[n] => \A m \in Nodes \ {n} : ~Leads(m)
  /\ Leads(n) /\ lease.holder = n /\ ~writes[n] =>
       IF InTx(n) THEN lease.left >= Lease - Poll - age[n]
       ELSE lease.left >= Lease - Poll + due[n]

\* A node that found the lease another's found it not expired, so it had not
\* expired when that poll began; the lease of a dead node runs out.
Waited(n) ==
  /\ pc[n] = "commit" /\ ~writes[n] => lease.left >= Skew[n] - age[n]
  /\ Standby(n) => \/ lease.holder = n
                   \/ lease.left >= Skew[n] - Poll + due[n]
  /\ pc[n] = "down" /\ lease.holder = n =>
       lease.left = -Past \/ lease.left <= Lease - gone[n]

TimelyInv ==
  /\ lease.holder # NoNode
  /\ \A n \in Nodes : PollHeld(n) /\ Led(n) /\ Waited(n)

\* A step of n alone, which leaves the row as it is.
OnlyHere(n) ==
  /\ lease' = lease
  /\ \A m \in Nodes \ {n} :
       /\ pc'[m] = pc[m] /\ isLeader'[m] = isLeader[m] /\ writes'[m] = writes[m]
       /\ ctxDone'[m] = ctxDone[m] /\ age'[m] = age[m] /\ due'[m] = due[m]
       /\ gone'[m] = gone[m]

LEMMA OthersStand ==
  ASSUME TimelyInv, NEW n \in Nodes, OnlyHere(n),
         PollHeld(n)', Led(n)', Waited(n)',
         Leads(n)' => Leads(n) \/ \A m \in Nodes \ {n} : ~writes[m]
  PROVE  TimelyInv'
<1>1. ASSUME NEW m \in Nodes \ {n} PROVE PollHeld(m)'
  BY DEF OnlyHere, TimelyInv, PollHeld, Alive, InTx
<1>2. ASSUME NEW m \in Nodes \ {n} PROVE Led(m)'
  <2>1. \A k \in Nodes \ {n} : Leads(k)' <=> Leads(k)
    BY DEF OnlyHere, Leads
  <2>2. writes'[m] => \A k \in Nodes \ {m} : ~Leads(k)'
    BY <2>1 DEF OnlyHere, TimelyInv, Led
  <2> QED BY <2>1, <2>2 DEF OnlyHere, TimelyInv, Led, InTx
<1>3. ASSUME NEW m \in Nodes \ {n} PROVE Waited(m)'
  BY DEF OnlyHere, TimelyInv, Waited, Standby
<1> QED BY <1>1, <1>2, <1>3 DEF TimelyInv, OnlyHere

TimelyTypes == LockProtects /\ OtherTypes

\* The numbers of a node, for the arithmetic of the leaves below.
LEMMA Numbers ==
  ASSUME TimelyTypes, NEW n \in Nodes
  PROVE  /\ lease.left \in (-Past)..Lease /\ lease.holder \in Nodes \cup {NoNode}
         /\ age[n] \in 0..TxTicks /\ due[n] \in 0..Poll /\ gone[n] \in 0..Past
         /\ Skew[n] \in Int /\ Lease \in Nat /\ Poll \in Nat /\ TxTicks \in Nat
         /\ Past \in Nat
  BY LeaderAssumption DEF TimelyTypes, LockProtects, OtherTypes, Row, LeaderAssumption

LEMMA BeginTimely ==
  ASSUME Punctual, TimelyTypes, TimelyInv, NEW n \in Nodes, Begin(n)
  PROVE  TimelyInv'
<1>1. OnlyHere(n)
  BY DEF Begin, Goto, OnlyHere, TimelyTypes, LockProtects, OtherTypes
<1>2. /\ pc'[n] = "select" /\ due'[n] = Poll
      /\ UNCHANGED <<lease, writes, isLeader, ctxDone, age, gone>>
  BY DEF Begin, Goto, TimelyTypes, LockProtects, OtherTypes
<1>3. pc[n] = "idle" /\ due[n] = 0 /\ ~writes[n] /\ ~InTx(n)
  BY DEF Begin, InTx, TimelyTypes, LockProtects
<1>4. PollHeld(n) /\ Led(n) /\ age[n] = 0
  BY <1>3 DEF TimelyInv, PollHeld
<1>5. PollHeld(n)'
  BY <1>2, <1>4, Numbers DEF PollHeld, InTx, Alive
<1>6. Led(n)'
  BY <1>2, <1>3, <1>4, Numbers DEF Led, Leads, InTx
<1>7. Waited(n)'
  BY <1>2 DEF Waited, Standby
<1> QED BY <1>1, <1>2, <1>5, <1>6, <1>7, OthersStand DEF Leads

\* The SELECT, and the decision taken on what it returned.
LEMMA SelectTimely ==
  ASSUME Punctual, TimelyTypes, TimelyInv, NEW n \in Nodes, SelectRow(n)
  PROVE  TimelyInv'
<1>1. OnlyHere(n)
  BY DEF SelectRow, Goto, OnlyHere, TimelyTypes, LockProtects
<1>2. /\ pc[n] = "select" /\ pc'[n] = "decide" /\ InTx(n)
      /\ UNCHANGED <<lease, writes, isLeader, ctxDone, age, due, gone>>
  BY DEF SelectRow, Goto, InTx, TimelyTypes, LockProtects
<1>3. PollHeld(n) /\ Led(n)
  BY DEF TimelyInv
<1>4. PollHeld(n)'
  BY <1>2, <1>3 DEF PollHeld, InTx, Alive
<1>5. Led(n)'
  BY <1>2, <1>3 DEF Led, Leads, InTx
<1>6. Waited(n)'
  BY <1>2 DEF Waited, Standby
<1> QED BY <1>1, <1>2, <1>4, <1>5, <1>6, OthersStand DEF Leads

\* Whoever leads still holds a lease that no clock sees expire.
LEMMA LeaderIsSafe ==
  ASSUME Punctual, TimelyTypes, TimelyInv, NEW n \in Nodes, Leads(n), ~writes[n]
  PROVE  lease.holder = n /\ \A m \in Nodes : lease.left >= Skew[m]
<1>1. lease.holder = n
  BY DEF TimelyInv, Led
<1>2. lease.left >= Lease - Poll - TxTicks
  <2>1. CASE InTx(n)
    BY <1>1, <2>1, Numbers DEF TimelyInv, Led
  <2>2. CASE ~InTx(n)
    BY <1>1, <2>2, Numbers DEF TimelyInv, Led
  <2> QED BY <2>1, <2>2
<1>3. ASSUME NEW m \in Nodes PROVE lease.left >= Skew[m]
  <2>1. Skew[m] + Poll + TxTicks <= Lease
    BY DEF Punctual
  <2> QED BY <1>2, <2>1, Numbers
<1> QED BY <1>1, <1>3

LEMMA DecideTimely ==
  ASSUME Punctual, TimelyTypes, TimelyInv, NEW n \in Nodes, Decide(n)
  PROVE  TimelyInv'
<1>1. OnlyHere(n)
  BY DEF Decide, Goto, OnlyHere, TimelyTypes, LockProtects, OtherTypes
<1>2. MayTake(n) \in BOOLEAN
  BY DEF MayTake
<1>3. /\ pc[n] = "decide" /\ pc'[n] = "commit" /\ InTx(n) /\ ~ctxDone[n]
      /\ UNCHANGED <<lease, ctxDone, age, due, gone>>
  BY DEF Decide, Goto, InTx, TimelyTypes, LockProtects
<1>4. writes'[n] = MayTake(n) /\ isLeader'[n] = MayTake(n)
  BY DEF Decide, TimelyTypes, LockProtects, OtherTypes
<1>5. locker = n /\ seen[n] = lease
  BY <1>3 DEF TimelyTypes, LockProtects
<1>6. \A m \in Nodes \ {n} : ~writes[m]
  BY <1>5 DEF TimelyTypes, LockProtects
<1>7. PollHeld(n)'
  BY <1>2, <1>3, <1>4 DEF PollHeld, TimelyInv, InTx, Alive
<1>8. MayTake(n) => \A m \in Nodes \ {n} : ~Leads(m)
  <2> SUFFICES ASSUME MayTake(n), NEW m \in Nodes \ {n}, Leads(m) PROVE FALSE
    OBVIOUS
  <2>1. lease.holder = m /\ lease.left >= Skew[n]
    BY <1>6, LeaderIsSafe
  <2>2. lease.holder = n \/ lease.left < Skew[n]
    BY <1>5 DEF MayTake
  <2> QED BY <2>1, <2>2, Numbers
<1>9. Led(n)'
  <2>1. \A m \in Nodes \ {n} : Leads(m)' <=> Leads(m)
    BY <1>1 DEF OnlyHere, Leads
  <2>2. writes'[n] => \A m \in Nodes \ {n} : ~Leads(m)'
    BY <1>4, <1>8, <2>1
  <2>3. Leads(n)' => writes'[n]
    BY <1>4 DEF Leads
  <2> QED BY <2>2, <2>3 DEF Led
<1>10. Waited(n)'
  <2>1. ~MayTake(n) => lease.left >= Skew[n]
    BY <1>5, Numbers DEF MayTake
  <2>2. ~writes'[n] => lease'.left >= Skew[n] - age'[n]
    BY <1>3, <1>4, <2>1, Numbers
  <2> QED BY <1>3, <2>2 DEF Waited, Standby
<1> QED BY <1>1, <1>6, <1>7, <1>9, <1>10, OthersStand

\* The COMMIT of one who decided: what it writes is one period and more ahead.
LEMMA CommitTimely ==
  ASSUME Punctual, TimelyTypes, TimelyInv, NEW n \in Nodes, Commit(n)
  PROVE  TimelyInv'
<1>1. \A m \in Nodes \ {n} :
        /\ pc'[m] = pc[m] /\ isLeader'[m] = isLeader[m] /\ writes'[m] = writes[m]
        /\ ctxDone'[m] = ctxDone[m] /\ age'[m] = age[m] /\ due'[m] = due[m]
        /\ gone'[m] = gone[m]
  BY DEF Commit, End, Goto, TimelyTypes, LockProtects, OtherTypes
<1>2. /\ pc[n] = "commit" /\ pc'[n] = "idle" /\ ~writes'[n] /\ age'[n] = 0
      /\ ~ctxDone[n]
      /\ UNCHANGED <<isLeader, ctxDone, due, gone>>
  BY DEF Commit, End, Goto, TimelyTypes, LockProtects, OtherTypes
<1>3. locker = n /\ \A m \in Nodes \ {n} : pc[m] # "commit" /\ ~writes[m]
  BY <1>2 DEF TimelyTypes, LockProtects
<1>4. age[n] + due[n] = Poll
  BY <1>2 DEF TimelyInv, PollHeld, InTx
<1>5. isLeader[n] <=> writes[n]
  BY <1>2 DEF TimelyInv, PollHeld
<1>6. PollHeld(n)'
  BY <1>2 DEF PollHeld, InTx, Alive
<1>7. \A m \in Nodes \ {n} : PollHeld(m)'
  BY <1>1 DEF TimelyInv, PollHeld, InTx, Alive
<1>8. CASE ~writes[n]
  <2>1. lease' = lease
    BY <1>8 DEF Commit
  <2>2. OnlyHere(n)
    BY <1>1, <2>1 DEF OnlyHere
  <2>3. ~Leads(n)' /\ ~Leads(n)
    BY <1>2, <1>5, <1>8 DEF Leads
  <2>4. Led(n)'
    BY <1>2, <2>3 DEF Led
  <2>5. lease.left >= Skew[n] - age[n]
    BY <1>2, <1>8 DEF TimelyInv, Waited
  <2>6. lease'.left >= Skew[n] - Poll + due'[n]
    BY <1>2, <1>4, <2>1, <2>5, Numbers
  <2>7. Waited(n)'
    BY <1>2, <2>6 DEF Waited
  <2> QED BY <1>6, <2>2, <2>3, <2>4, <2>7, OthersStand
<1>9. CASE writes[n]
  <2>1. lease'.holder = n /\ lease'.left = Lease - age[n]
    BY <1>9 DEF Commit
  <2>2. \A m \in Nodes \ {n} : ~Leads(m)'
    BY <1>1, <1>9 DEF TimelyInv, Led, Leads
  <2>3. Led(n)'
    <3>1. lease'.left >= Lease - Poll + due'[n]
      BY <1>2, <1>4, <2>1, Numbers
    <3>2. ~InTx(n)'
      BY <1>2 DEF InTx
    <3> QED BY <1>2, <2>1, <3>1, <3>2 DEF Led
  <2>4. Waited(n)'
    BY <1>2, <2>1 DEF Waited
  <2>5. ASSUME NEW m \in Nodes \ {n} PROVE Led(m)'
    BY <1>1, <1>3, <2>2 DEF Led
  <2>6. ASSUME NEW m \in Nodes \ {n} PROVE Waited(m)'
    <3>1. Skew[m] + Poll + TxTicks <= Lease
      BY DEF Punctual
    <3>2. lease'.left >= Skew[m] - Poll + due[m]
      BY <2>1, <3>1, Numbers
    <3> QED BY <1>1, <1>3, <2>1, <3>2 DEF Waited
  <2>7. lease'.holder # NoNode
    BY <2>1, LeaderAssumption DEF LeaderAssumption
  <2> QED BY <1>6, <1>7, <2>3, <2>4, <2>5, <2>6, <2>7 DEF TimelyInv
<1> QED BY <1>8, <1>9 DEF TimelyTypes, LockProtects

\* Without errors only a cancelled node's transaction fails, and its belief does
\* not count any more.
LEMMA FailTimely ==
  ASSUME Punctual, TimelyTypes, TimelyInv, NEW n \in Nodes, TxFails(n)
  PROVE  TimelyInv'
<1>1. OnlyHere(n)
  BY DEF TxFails, End, Goto, OnlyHere, TimelyTypes, LockProtects
<1>2. /\ ctxDone[n] /\ pc'[n] = "idle" /\ ~writes'[n] /\ age'[n] = 0
      /\ UNCHANGED <<lease, isLeader, ctxDone, due, gone>>
  BY DEF TxFails, End, Goto, Punctual, TimelyTypes, LockProtects
<1>3. PollHeld(n)' /\ Led(n)' /\ Waited(n)'
  BY <1>2 DEF PollHeld, Led, Leads, Waited, Standby, InTx, Alive
<1> QED BY <1>1, <1>2, <1>3, OthersStand DEF Leads

\* What happens to the process around the loop takes beliefs away and gives none.
LEMMA ProcessTimely ==
  ASSUME Punctual, TimelyTypes, TimelyInv, NEW n \in Nodes,
         Release(n) \/ Terminate(n) \/ Crash(n) \/ Restart(n)
  PROVE  TimelyInv'
<1>1. CASE Release(n)
  <2>1. OnlyHere(n)
    BY <1>1 DEF Release, Goto, OnlyHere, TimelyTypes, LockProtects, OtherTypes
  <2>2. /\ pc[n] = "idle" /\ pc'[n] = "stopped" /\ ~isLeader'[n]
        /\ UNCHANGED <<lease, writes, ctxDone, age, due, gone>>
    BY <1>1 DEF Release, Goto, TimelyTypes, LockProtects, OtherTypes
  <2>3. ~writes[n] /\ age[n] = 0
    BY <2>2 DEF TimelyTypes, LockProtects, TimelyInv, PollHeld, InTx
  <2>4. PollHeld(n)' /\ Led(n)' /\ Waited(n)'
    BY <2>2, <2>3 DEF PollHeld, Led, Leads, Waited, Standby, InTx, Alive
  <2> QED BY <2>1, <2>2, <2>4, OthersStand DEF Leads
<1>2. CASE Terminate(n)
  <2>1. OnlyHere(n)
    BY <1>2 DEF Terminate, OnlyHere, TimelyTypes, OtherTypes
  <2>2. /\ ctxDone'[n] /\ Alive(n)
        /\ UNCHANGED <<lease, writes, pc, isLeader, age, due, gone>>
    BY <1>2 DEF Terminate, TimelyTypes, OtherTypes
  <2>3. PollHeld(n)'
    BY <2>2 DEF TimelyInv, PollHeld, InTx, Alive
  <2>4. ~Leads(n)'
    BY <2>2 DEF Leads
  <2>5. writes'[n] => \A m \in Nodes \ {n} : ~Leads(m)'
    BY <2>1, <2>2 DEF TimelyInv, Led, OnlyHere, Leads
  <2>6. Led(n)'
    BY <2>4, <2>5 DEF Led
  <2>7. Waited(n)'
    BY <2>2 DEF TimelyInv, Waited, Standby
  <2> QED BY <2>1, <2>3, <2>4, <2>6, <2>7, OthersStand
<1>3. CASE Crash(n)
  <2>1. OnlyHere(n)
    BY <1>3 DEF Crash, End, Goto, OnlyHere, TimelyTypes, LockProtects, OtherTypes
  <2>2. /\ pc'[n] = "down" /\ ~isLeader'[n] /\ ~writes'[n] /\ age'[n] = 0
        /\ gone'[n] = 0 /\ UNCHANGED <<lease, due>>
    BY <1>3 DEF Crash, End, Goto, TimelyTypes, LockProtects, OtherTypes
  <2>3. PollHeld(n)' /\ Led(n)'
    BY <2>2 DEF PollHeld, Led, Leads, InTx, Alive
  <2>4. Waited(n)'
    BY <2>2, Numbers DEF Waited, Standby
  <2>5. ~Leads(n)'
    BY <2>2 DEF Leads
  <2> QED BY <2>1, <2>3, <2>4, <2>5, OthersStand
<1>4. CASE Restart(n)
  <2>1. OnlyHere(n)
    BY <1>4 DEF Restart, Goto, OnlyHere, TimelyTypes, LockProtects, OtherTypes
  <2>2. /\ ~Alive(n) /\ pc'[n] = "idle" /\ due'[n] = 0
        /\ UNCHANGED <<lease, writes, isLeader, age>>
    BY <1>4 DEF Restart, Goto, TimelyTypes, LockProtects, OtherTypes
  <2>3. ~isLeader[n] /\ ~writes[n] /\ age[n] = 0
    BY <2>2 DEF TimelyInv, PollHeld, Alive, InTx, TimelyTypes, LockProtects
  <2>4. PollHeld(n)' /\ Led(n)' /\ Waited(n)'
    BY <2>2, <2>3 DEF PollHeld, Led, Leads, Waited, Standby, InTx, Alive
  <2>5. ~Leads(n)'
    BY <2>2, <2>3 DEF Leads
  <2> QED BY <2>1, <2>4, <2>5, OthersStand
<1> QED BY <1>1, <1>2, <1>3, <1>4

\* A tick takes one from what is left of the lease and from every wait.
LEMMA TickTimely ==
  ASSUME Punctual, TimelyTypes, TimelyInv, Tick PROVE TimelyInv'
<1>1. lease'.holder = lease.holder /\ lease'.left = Earlier(lease.left)
  BY DEF Tick, TimelyTypes, LockProtects, Row
<1>2. UNCHANGED <<writes, pc, isLeader, ctxDone>>
  BY DEF Tick
<1>3. lease'.left >= lease.left - 1 /\ lease'.left \in Int
  <2>1. lease.left \in (-Past)..Lease /\ Past \in Nat /\ Lease \in Nat
    BY LeaderAssumption DEF TimelyTypes, LockProtects, Row, LeaderAssumption
  <2> QED BY <1>1, <2>1 DEF Earlier
<1>4. ASSUME NEW n \in Nodes PROVE PollHeld(n)' /\ Led(n)' /\ Waited(n)'
  <2>1. PollHeld(n) /\ Led(n) /\ Waited(n)
    BY DEF TimelyInv
  <2>2. CASE InTx(n)
    <3>1. age'[n] = age[n] + 1 /\ age[n] < TxTicks
      BY <2>2 DEF Tick
    <3>2. due'[n] = due[n] - 1
      <4>1. due[n] > 0
        BY <2>1, <2>2, <3>1, Numbers DEF PollHeld, Punctual
      <4>2. Alive(n)
        BY <2>2 DEF InTx, Alive
      <4> QED BY <4>1, <4>2 DEF Tick
    <3>3. PollHeld(n)'
      BY <1>2, <2>1, <2>2, <3>1, <3>2, Numbers DEF PollHeld, InTx, Alive
    <3>4. Led(n)'
      <4>1. Leads(n)' /\ lease'.holder = n /\ ~writes'[n] =>
              lease'.left >= Lease - Poll - age'[n]
        BY <1>1, <1>2, <1>3, <2>1, <2>2, <3>1, Numbers DEF Led, Leads
      <4>2. InTx(n)'
        BY <1>2, <2>2 DEF InTx
      <4>3. \A m \in Nodes : Leads(m)' <=> Leads(m)
        BY <1>2 DEF Leads
      <4> QED BY <1>1, <1>2, <2>1, <4>1, <4>2, <4>3 DEF Led
    <3>5. pc[n] \notin {"idle", "down"}
      BY <2>2 DEF InTx
    <3>6. Waited(n)'
      BY <1>2, <1>3, <2>1, <3>1, <3>5, Numbers DEF Waited, Standby
    <3> QED BY <3>3, <3>4, <3>6
  <2>3. CASE ~InTx(n)
    <3>1. age'[n] = age[n]
      BY <2>3 DEF Tick, TimelyTypes, LockProtects
    <3>2. PollHeld(n)'
      BY <1>2, <2>1, <2>3, <3>1 DEF PollHeld, InTx, Alive
    <3>3. pc[n] = "idle" => due'[n] = due[n] - 1
      BY DEF Tick, Alive
    <3>4. Led(n)'
      <4>1. Leads(n) => pc[n] = "idle"
        BY <2>1, <2>3 DEF PollHeld, Leads, Alive, InTx, TimelyTypes, LockProtects
      <4> QED BY <1>1, <1>2, <1>3, <2>1, <2>3, <3>3, <4>1, Numbers
              DEF Led, Leads, InTx
    <3>5. Standby(n)' => lease'.holder = n \/ lease'.left >= Skew[n] - Poll + due'[n]
      <4> SUFFICES ASSUME Standby(n)' PROVE
            lease'.holder = n \/ lease'.left >= Skew[n] - Poll + due'[n]
        OBVIOUS
      <4>1. pc[n] = "idle" /\ ~ctxDone[n] /\ due[n] > 0
        BY <1>2 DEF Standby, Tick
      <4> QED BY <1>1, <1>3, <2>1, <3>3, <4>1, Numbers DEF Waited, Standby
    <3>6. pc[n] = "down" /\ lease.holder = n =>
            lease'.left = -Past \/ lease'.left <= Lease - gone'[n]
      <4> SUFFICES ASSUME pc[n] = "down", lease.holder = n
                   PROVE  lease'.left = -Past \/ lease'.left <= Lease - gone'[n]
        OBVIOUS
      <4>1. gone'[n] = IF gone[n] < Past THEN gone[n] + 1 ELSE gone[n]
        BY DEF Tick
      <4>2. CASE lease.left = -Past
        BY <1>1, <4>2, Numbers DEF Earlier
      <4>3. CASE lease.left # -Past
        <5>1. lease.left <= Lease - gone[n]
          BY <2>1, <4>3 DEF Waited
        <5>2. lease'.left = lease.left - 1
          BY <1>1, <4>3, Numbers DEF Earlier
        <5> QED BY <4>1, <5>1, <5>2, Numbers
      <4> QED BY <4>2, <4>3
    <3>7. pc[n] # "commit"
      BY <2>3 DEF InTx
    <3>8. Waited(n)'
      BY <1>1, <1>2, <3>5, <3>6, <3>7 DEF Waited
    <3> QED BY <3>2, <3>4, <3>8
  <2> QED BY <2>2, <2>3
<1> QED BY <1>1, <1>4 DEF TimelyInv

LEMMA TimelyInductive ==
  ASSUME Punctual PROVE TimelyTypes /\ TimelyInv /\ [Next]_vars => TimelyInv'
<1> SUFFICES ASSUME TimelyTypes, TimelyInv, [Next]_vars PROVE TimelyInv'
  OBVIOUS
<1>1. CASE UNCHANGED vars
  BY <1>1 DEF vars, TimelyInv, PollHeld, Led, Leads, Waited, Standby, InTx, Alive
<1>2. CASE Tick
  BY <1>2, TickTimely
<1>3. ASSUME NEW n \in Nodes, NodeStep(n) PROVE TimelyInv'
  <2>1. ~BeginFails(n)
    BY DEF BeginFails, Punctual
  <2>2. ~SelectNothing(n)
    BY DEF SelectNothing, TimelyInv
  <2>3. ~Insert(n)
    BY DEF Insert, TimelyInv, PollHeld
  <2>4. CASE Begin(n) \/ SelectRow(n) \/ Decide(n)
    BY <2>4, BeginTimely, SelectTimely, DecideTimely
  <2>5. CASE Commit(n) \/ TxFails(n) \/ Release(n)
    BY <2>5, CommitTimely, FailTimely, ProcessTimely
  <2> QED BY <1>3, <2>1, <2>2, <2>3, <2>4, <2>5 DEF NodeStep
<1>4. ASSUME NEW n \in Nodes, Terminate(n) \/ Crash(n) \/ Restart(n)
      PROVE  TimelyInv'
  BY <1>4, ProcessTimely
<1> QED BY <1>1, <1>2, <1>3, <1>4 DEF Next

LEMMA InitTimely == ASSUME Punctual, Init PROVE TimelyTypes /\ TimelyInv
<1>1. LockProtects
  BY InitLock
<1>2. OtherTypes
  BY LeaderAssumption DEF Init, OtherTypes, LeaderAssumption
<1>3. lease.holder # NoNode
  BY LeaderAssumption DEF Init, Punctual, LeaderAssumption
<1>4. ASSUME NEW n \in Nodes PROVE PollHeld(n) /\ Led(n) /\ Waited(n)
  BY DEF Init, PollHeld, Led, Leads, Waited, Standby, InTx, Alive
<1> QED BY <1>1, <1>2, <1>3, <1>4 DEF TimelyTypes, TimelyInv

LEMMA TimelyHolds ==
  ASSUME Punctual PROVE Spec => [](TimelyTypes /\ TimelyInv)
<1>1. TimelyTypes /\ [Next]_vars => TimelyTypes'
  BY LockInductive, TypesInductive DEF TimelyTypes
<1>2. Init => TimelyTypes /\ TimelyInv
  BY InitTimely
<1> QED BY <1>1, <1>2, TimelyInductive, PTL DEF Spec

\* However many primaries poll the lease, and whichever of them are stopped,
\* killed or started again, two that are not shutting down never both lead:
\* as long as polls are punctual, calls succeed and Skew + Poll + TxTicks fits
\* into Lease.
THEOREM OneLeader == ASSUME Punctual PROVE Spec => []SoleLeader
<1>1. TimelyTypes /\ TimelyInv => SoleLeader
  <2> SUFFICES ASSUME TimelyInv, NEW m \in Nodes, NEW n \in Nodes,
                      Leads(m), Leads(n)
               PROVE  m = n
    BY DEF SoleLeader, Leads
  <2>1. CASE writes[m] \/ writes[n]
    BY <2>1 DEF TimelyInv, Led
  <2>2. CASE ~writes[m] /\ ~writes[n]
    BY <2>2 DEF TimelyInv, Led
  <2> QED BY <2>1, <2>2
<1> QED BY <1>1, TimelyHolds, PTL

\* A dead holder's lease is not left to it for longer than a lease, a poll and
\* a transaction while another primary stands by, unless that primary's clock
\* is slower than a transaction is long.
THEOREM TakeoverInTime ==
  ASSUME Punctual, \A n \in Nodes : Skew[n] >= -TxTicks
  PROVE  Spec => []TakeoverBounded
<1>1. TimelyTypes /\ TimelyInv => TakeoverBounded
  <2> SUFFICES ASSUME TimelyTypes, TimelyInv, NEW n \in Nodes, NEW m \in Nodes,
                      pc[n] = "down", lease.holder = n, Standby(m)
               PROVE  gone[n] <= Lease + Poll + TxTicks
    BY DEF TakeoverBounded
  <2>1. m # n
    BY DEF Standby
  <2>2. lease.left >= Skew[m] - Poll + due[m] /\ due[m] > 0
    BY <2>1 DEF TimelyInv, Waited, Standby
  <2>3. Skew[m] >= -TxTicks /\ Skew[m] + Poll + TxTicks <= Lease /\ TxTicks <= Poll
    BY DEF Punctual
  <2>4. lease.left # -Past
    <3>1. Past > Lease + Poll
      BY LeaderAssumption DEF LeaderAssumption
    <3> QED BY <2>2, <2>3, <3>1, Numbers
  <2>5. lease.left <= Lease - gone[n]
    BY <2>4 DEF TimelyInv, Waited
  <2> QED BY <2>2, <2>3, <2>5, Numbers
<1> QED BY <1>1, TimelyHolds, PTL
=============================================================================
