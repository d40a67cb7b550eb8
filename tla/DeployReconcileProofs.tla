------------------------ MODULE DeployReconcileProofs ------------------------
(***************************************************************************)
(* Theorems about DeployReconcile, for every set of projects, deploys and  *)
(* workers, every number of attempts and faults, and with or without a     *)
(* reconciler that leads.                                                  *)
(*                                                                         *)
(* Shape types the state and says that a job is executed by the worker that*)
(* holds its lock and by no other, unless that lock was once lost, and the *)
(* rest stands on it. LocksHeld                                            *)
(* follows the row locks of a pass; CompletedInv what a deploy has done    *)
(* before each of its calls; RunningInv says why the row of a project that *)
(* runs agrees with the cluster: a sound deploy is alone, and while a      *)
(* deploy is between its two writes its project does not run soundly.      *)
(***************************************************************************)
EXTENDS DeployReconcile, TLAPS

Busy(w) == worker[w].pc # "idle"

\* A worker that is busy executes a deploy whose job it has locked, or whose
\* job has been lost.
WorkersOK ==
  /\ \A w \in Workers : IF Busy(w) THEN worker[w].deploy \in Deploys ELSE worker[w] = Idle
  /\ \A w \in Workers : Busy(w) =>
       job[worker[w].deploy].lost \/ job[worker[w].deploy].owner = w
  /\ \A d \in Deploys : job[d].owner # NoWorker => job[d].state = "active"

\* A job that has not ended has an attempt left.
AttemptsLeft ==
  \A d \in Deploys : job[d].state \notin {"completed", "failed"} => job[d].made < Attempts

Passes == [pc : {"idle", "observe", "correct", "update"}, todo : SUBSET Projects,
           at : Projects \cup {NoProject}, open : BOOLEAN, seen : Phases \cup {"none"},
           write : UNION {[S -> Observed] : S \in SUBSET Projects}]

PassOK ==
  /\ pass \in Passes
  /\ pass.pc \in {"correct", "update"} => pass.at \in Projects

RowState == [status : Statuses, tag : Tags, observed : Observed]
JobState == [state : {"none", "building", "built", "waiting", "active", "completed", "failed"},
             made : 0..Attempts, stalled : 0..MaxStalled,
             owner : Workers \cup {NoWorker}, lost : BOOLEAN]
WorkerState == [pc : Calls, deploy : Deploys \cup {NoDeploy},
                object : Objects, sound : BOOLEAN]

\* The part that the execution of a job disturbs, and the part it writes to.
JobsShape ==
  /\ worker \in [Workers -> WorkerState] /\ job \in [Deploys -> JobState]
  /\ WorkersOK /\ AttemptsLeft

DataShape ==
  /\ row \in [Projects -> RowState]
  /\ entry \in [Deploys -> {"pending", "running", "completed", "failed"}]
  /\ kube \in [Projects -> Tags]
  /\ locked \subseteq Projects
  /\ faults \in 0..MaxFaults /\ sound \in [Projects -> BOOLEAN]

Shape == JobsShape /\ DataShape /\ PassOK

-----------------------------------------------------------------------------
LEMMA ShapeTypes == Shape => TypeOK
<1> SUFFICES ASSUME Shape PROVE DeployTypeOK /\ ReconcileTypeOK
  BY DEF TypeOK
<1>1. DeployTypeOK
  BY DEF Shape, DeployTypeOK, JobsShape, DataShape, RowState, JobState, WorkerState
<1>2. ReconcileTypeOK
  BY DEF Shape, PassOK, Passes, ReconcileTypeOK
<1> QED BY <1>1, <1>2

LEMMA InitShape == Init => Shape
<1> SUFFICES ASSUME Init PROVE Shape
  OBVIOUS
<1> USE DeployAssumption, ReconcilerAssumption DEF Init, DeployInit, ReconcileInit
<1>1. JobsShape
  BY DEF JobsShape, WorkersOK, AttemptsLeft, Busy, Idle, WorkerState, JobState, Calls, Objects
<1>2. DataShape
  BY DEF DataShape, RowState, Statuses, Tags, Observed
<1>3. PassOK
  <2>1. <<>> \in [{} -> Observed]
    OBVIOUS
  <2> QED BY <2>1 DEF PassOK, Passes, NoPass
<1> QED BY <1>1, <1>2, <1>3 DEF Shape

\* A busy worker goes from one call to the next.
LEMMA MoveOK ==
  ASSUME JobsShape, NEW w \in Workers, Busy(w), UNCHANGED job,
         NEW x \in WorkerState, x.pc # "idle", x.deploy = worker[w].deploy,
         worker' = [worker EXCEPT ![w] = x]
  PROVE  JobsShape'
  BY DEF JobsShape, WorkersOK, AttemptsLeft, Busy

LEMMA GotoOK ==
  ASSUME JobsShape, NEW w \in Workers, Busy(w), UNCHANGED job,
         NEW l \in Calls \ {"idle"}, Goto(w, l)
  PROVE  JobsShape'
  BY DEF JobsShape, WorkersOK, AttemptsLeft, Busy, Goto, WorkerState

\* The record of one job changes, the others stay.
LEMMA JobWritten ==
  ASSUME job \in [Deploys -> JobState], NEW d \in Deploys, NEW x \in JobState,
         job' = [job EXCEPT ![d] = x]
  PROVE  /\ job' \in [Deploys -> JobState] /\ job'[d] = x
         /\ \A e \in Deploys \ {d} : job'[e] = job[e]
  OBVIOUS

LEMMA IdleWorker == Idle \in WorkerState /\ Idle.pc = "idle"
  BY DEF Idle, WorkerState, Calls, Objects

\* What Settle writes into a job: a record that keeps what it does not name.
LEMMA SettledJob ==
  ASSUME JobsShape, NEW w \in Workers, Busy(w), NEW s, NEW n, Settle(w, s, n),
         job[worker[w].deploy].owner = w =>
           s \in {"waiting", "completed", "failed"} /\ n \in 0..Attempts
  PROVE  LET d == worker[w].deploy IN
           /\ job' \in [Deploys -> JobState]
           /\ \A e \in Deploys \ {d} : job'[e] = job[e]
           /\ job'[d].lost = job[d].lost
           /\ job[d].owner # w => job'[d] = job[d]
           /\ job[d].owner = w => /\ job'[d].state = s /\ job'[d].made = n
                                  /\ job'[d].owner = NoWorker
<1> DEFINE d == worker[w].deploy
           x == [job[d] EXCEPT !.state = s, !.made = n, !.owner = NoWorker]
<1>1. d \in Deploys /\ job \in [Deploys -> JobState] /\ job[d] \in JobState
  BY DEF JobsShape, WorkersOK
<1>2. CASE job[d].owner # w
  BY <1>1, <1>2 DEF Settle
<1>3. CASE job[d].owner = w
  <2>1. job' = [job EXCEPT ![d] = x]
    BY <1>1, <1>3 DEF Settle, JobState
  <2>2. /\ x \in JobState /\ x.state = s /\ x.made = n /\ x.owner = NoWorker
        /\ x.lost = job[d].lost
    BY <1>1, <1>3 DEF JobState
  <2> HIDE DEF x
  <2> QED BY <1>1, <1>3, <2>1, <2>2, JobWritten
<1> QED BY <1>2, <1>3

\* An execution that ends gives up the worker, and either an attempt is left
\* or the job has ended.
LEMMA SettleOK ==
  ASSUME JobsShape, NEW w \in Workers, Busy(w), NEW s, NEW n, Settle(w, s, n),
         job[worker[w].deploy].owner = w =>
           /\ s \in {"waiting", "completed", "failed"} /\ n \in 0..Attempts
           /\ s = "waiting" => n < Attempts
  PROVE  JobsShape'
<1> DEFINE d == worker[w].deploy
<1>1. /\ job' \in [Deploys -> JobState]
      /\ \A e \in Deploys \ {d} : job'[e] = job[e]
      /\ job'[d].lost = job[d].lost
      /\ job[d].owner # w => job'[d] = job[d]
      /\ job[d].owner = w => /\ job'[d].state = s /\ job'[d].made = n
                             /\ job'[d].owner = NoWorker
  BY SettledJob
<1>2. /\ worker' \in [Workers -> WorkerState]
      /\ worker'[w] = Idle /\ \A v \in Workers \ {w} : worker'[v] = worker[v]
  BY IdleWorker DEF JobsShape, Settle
<1>3. WorkersOK /\ AttemptsLeft
  BY DEF JobsShape
<1>4. AttemptsLeft'
  BY <1>1, <1>3 DEF AttemptsLeft
<1>5. \A v \in Workers : Busy(v)' <=> Busy(v) /\ v # w
  BY <1>2, IdleWorker DEF Busy
<1>6. ASSUME NEW v \in Workers, Busy(v)'
      PROVE  job'[worker'[v].deploy].lost \/ job'[worker'[v].deploy].owner = v
  <2>1. v # w /\ worker'[v] = worker[v] /\ worker[v].deploy \in Deploys
        /\ (job[worker[v].deploy].lost \/ job[worker[v].deploy].owner = v)
    BY <1>2, <1>3, <1>5, <1>6 DEF WorkersOK
  <2> QED BY <1>1, <2>1
<1>7. \A v \in Workers : IF Busy(v)' THEN worker'[v].deploy \in Deploys ELSE worker'[v] = Idle
  BY <1>2, <1>3, <1>5 DEF WorkersOK
<1>8. \A e \in Deploys : job'[e].owner # NoWorker => job'[e].state = "active"
  BY <1>1, <1>3 DEF WorkersOK
<1>9. WorkersOK'
  BY <1>6, <1>7, <1>8 DEF WorkersOK
<1> QED BY <1>1, <1>2, <1>4, <1>9 DEF JobsShape

LEMMA ThrowOK ==
  ASSUME JobsShape, NEW w \in Workers, Busy(w), Throw(w)
  PROVE  JobsShape'
<1> DEFINE d == worker[w].deploy
           made == job[d].made + 1
           s == IF made < Attempts THEN "waiting" ELSE "failed"
<1> USE DeployAssumption
<1>1. d \in Deploys /\ job[d] \in JobState
  BY DEF JobsShape, WorkersOK
<1>2. job[d].owner = w => job[d].state = "active"
  BY <1>1 DEF JobsShape, WorkersOK
<1>3. job[d].owner = w => job[d].made < Attempts
  BY <1>1, <1>2 DEF JobsShape, AttemptsLeft
<1>4. Settle(w, s, made)
  BY DEF Throw
<1>5. /\ job[d].owner = w => made \in 0..Attempts
      /\ s \in {"waiting", "failed"} /\ (s = "waiting" => made < Attempts)
  BY <1>1, <1>3 DEF JobState
<1> HIDE DEF made, s
<1> QED BY <1>4, <1>5, SettleOK

LEMMA RaiseOK ==
  ASSUME JobsShape, NEW w \in Workers, Busy(w), Raise(w)
  PROVE  JobsShape'
  BY GotoOK, ThrowOK DEF Raise, Calls

\* What the deploy jobs do keeps the shape of a row that exists.
LEMMA WriteRowOK ==
  ASSUME row \in [Projects -> RowState], NEW p \in Projects, NEW r \in RowState, WriteRow(p, r)
  PROVE  row' \in [Projects -> RowState]
  BY DEF WriteRow

LEMMA FaultOK ==
  ASSUME faults \in 0..MaxFaults, Fault PROVE faults' \in 0..MaxFaults
  BY DeployAssumption DEF Fault

\* A job that only changes its state and owner keeps its counters, and the others stay.
LEMMA JobMoves ==
  ASSUME job \in [Deploys -> JobState], NEW d \in Deploys,
         NEW s \in {"none", "building", "built", "waiting", "active", "completed", "failed"},
         NEW o \in Workers \cup {NoWorker},
         job' = [job EXCEPT ![d] = [job[d] EXCEPT !.state = s, !.owner = o]]
  PROVE  /\ job' \in [Deploys -> JobState]
         /\ job'[d].state = s /\ job'[d].made = job[d].made
         /\ job'[d].owner = o /\ job'[d].lost = job[d].lost
         /\ \A e \in Deploys \ {d} : job'[e] = job[e]
<1> DEFINE j == [job[d] EXCEPT !.state = s, !.owner = o]
<1>1. job[d] \in JobState
  OBVIOUS
<1>2. /\ j \in JobState /\ j.state = s /\ j.made = job[d].made
      /\ j.owner = o /\ j.lost = job[d].lost
  BY <1>1 DEF JobState
<1>3. job' = [job EXCEPT ![d] = j]
  OBVIOUS
<1> HIDE DEF j
<1> QED BY <1>2, <1>3, JobWritten

\* The writes of a deploy keep the types of what they write to.
LEMMA RowTypes ==
  ASSUME DataShape, NEW w \in Workers, worker[w] \in WorkerState, worker[w].deploy \in Deploys
  PROVE  /\ ProjectAt(w) \in Projects
         /\ RowDeploying(w) => row' \in [Projects -> RowState]
         /\ RowFailed(w) => row' \in [Projects -> RowState]
         /\ RowRunning(w) => /\ row' \in [Projects -> RowState]
                             /\ sound' \in [Projects -> BOOLEAN]
<1> DEFINE p == ProjectAt(w)
           r1 == [row[p] EXCEPT !.status = "deploying"]
           r2 == [row[p] EXCEPT !.status = "failed", !.observed = "failed"]
           r3 == [row[p] EXCEPT !.status = "running", !.observed = "running",
                                !.tag = worker[w].deploy]
<1>1. p \in Projects
  BY DeployAssumption DEF ProjectAt
<1>2. row \in [Projects -> RowState] /\ row[p] \in RowState /\ worker[w].deploy \in Tags
  BY <1>1 DEF DataShape, Tags
<1>3. r1 \in RowState
  BY <1>2 DEF RowState, Statuses
<1>4. r2 \in RowState
  BY <1>2 DEF RowState, Statuses, Observed
<1>5. r3 \in RowState
  BY <1>2 DEF RowState, Statuses, Observed
<1>6. /\ RowDeploying(w) => WriteRow(p, r1)
      /\ RowFailed(w) => WriteRow(p, r2)
      /\ RowRunning(w) => WriteRow(p, r3) /\ sound' = [sound EXCEPT ![p] = worker[w].sound]
  BY DEF RowDeploying, RowFailed, RowRunning
<1>7. worker[w].sound \in BOOLEAN /\ sound \in [Projects -> BOOLEAN]
  BY DEF WorkerState, DataShape
<1> HIDE DEF r1, r2, r3, p
<1>8. RowRunning(w) => sound' \in [Projects -> BOOLEAN]
  BY <1>6, <1>7
<1>9. ProjectAt(w) \in Projects
  BY <1>1 DEF p
<1> QED BY <1>1, <1>2, <1>3, <1>4, <1>5, <1>6, <1>8, <1>9, WriteRowOK

LEMMA ApplyTypes ==
  ASSUME DataShape, NEW w \in Workers, worker[w].deploy \in Deploys, Apply(w)
  PROVE  kube' \in [Projects -> Tags]
  BY DEF Apply, DataShape, Tags

LEMMA WorkerShape ==
  ASSUME Shape, NEW w \in Workers, WorkerStep(w) \/ CrashWorker(w), UNCHANGED pass
  PROVE  Shape'
<1> USE DeployAssumption DEF DataShape
<1>1. JobsShape /\ DataShape /\ PassOK
  BY DEF Shape
<1>2. PassOK'
  BY <1>1 DEF PassOK
<1>3. Busy(w) => /\ worker[w] \in WorkerState /\ worker[w].deploy \in Deploys
                 /\ ProjectAt(w) \in Projects
  BY <1>1 DEF JobsShape, WorkersOK, ProjectAt
<1>4. ASSUME NEW d \in Deploys, FetchJob(w, d) PROVE JobsShape'
  <2> DEFINE others == Executing(ProjectOf[d])
  <2>1. /\ worker[w].pc = "idle" /\ job[d].state = "waiting"
        /\ job' = [job EXCEPT ![d] = [job[d] EXCEPT !.state = "active", !.owner = w]]
        /\ worker' = [v \in Workers |->
             IF v = w THEN [Idle EXCEPT !.pc = "select", !.deploy = d, !.sound = others = {}]
             ELSE IF v \in others THEN [worker[v] EXCEPT !.sound = FALSE]
             ELSE worker[v]]
    BY <1>4 DEF FetchJob, At
  <2>8. worker'[w] = [pc |-> "select", deploy |-> d, object |-> "deployment",
                      sound |-> others = {}]
    BY <2>1 DEF Idle
  <2>9. \A v \in Workers \ {w} : worker'[v] \in {worker[v], [worker[v] EXCEPT !.sound = FALSE]}
    BY <2>1
  <2>2. worker' \in [Workers -> WorkerState]
    <3>1. worker'[w] \in WorkerState
      BY <2>8 DEF WorkerState, Calls, Objects
    <3>2. ASSUME NEW v \in Workers \ {w} PROVE worker'[v] \in WorkerState
      <4>1. worker[v] \in WorkerState
        BY <1>1 DEF JobsShape
      <4>2. [worker[v] EXCEPT !.sound = FALSE] \in WorkerState
        BY <4>1 DEF WorkerState
      <4> QED BY <2>9, <4>1, <4>2
    <3> QED BY <2>1, <3>1, <3>2
  <2>3. /\ job' \in [Deploys -> JobState]
        /\ job'[d].state = "active" /\ job'[d].made = job[d].made
        /\ job'[d].owner = w /\ job'[d].lost = job[d].lost
        /\ \A e \in Deploys \ {d} : job'[e] = job[e]
    BY <1>1, <2>1, JobMoves DEF JobsShape
  <2>4. AttemptsLeft'
    BY <1>1, <2>1, <2>3 DEF JobsShape, AttemptsLeft
  <2>5. /\ worker'[w].pc = "select" /\ worker'[w].deploy = d
        /\ \A v \in Workers \ {w} :
             /\ worker'[v].pc = worker[v].pc /\ worker'[v].deploy = worker[v].deploy
             /\ worker[v].pc = "idle" => worker'[v] = worker[v]
    <3>1. ASSUME NEW v \in Workers \ {w}
          PROVE  worker'[v].pc = worker[v].pc /\ worker'[v].deploy = worker[v].deploy
      <4>1. worker[v] \in WorkerState
        BY <1>1 DEF JobsShape
      <4> QED BY <2>9, <4>1 DEF WorkerState
    <3>2. \A v \in Workers \ {w} : worker[v].pc = "idle" => worker'[v] = worker[v]
      BY <2>1 DEF Executing
    <3> QED BY <2>8, <3>1, <3>2
  <2>6. \A v \in Workers : Busy(v) /\ worker[v].deploy = d => job[d].lost
    <3>1. \A v \in Workers : v # NoWorker
      OBVIOUS
    <3> QED BY <1>1, <2>1, <3>1 DEF JobsShape, WorkersOK
  <2>7. WorkersOK'
    <3>1. \A v \in Workers : Busy(v)' <=> Busy(v) \/ v = w
      BY <2>5 DEF Busy
    <3>2. \A e \in Deploys : job'[e].owner # NoWorker => job'[e].state = "active"
      BY <1>1, <2>3 DEF JobsShape, WorkersOK
    <3>3. \A v \in Workers : IF Busy(v) THEN worker[v].deploy \in Deploys
                                        ELSE worker[v] = Idle
      BY <1>1 DEF JobsShape, WorkersOK
    <3>4. ASSUME NEW v \in Workers
          PROVE  IF Busy(v)' THEN worker'[v].deploy \in Deploys ELSE worker'[v] = Idle
      <4>1. CASE v = w
        BY <2>5, <3>1, <4>1
      <4>2. CASE v # w /\ Busy(v)
        BY <2>5, <3>1, <3>3, <4>2
      <4>3. CASE v # w /\ ~Busy(v)
        <5>1. worker[v].pc = "idle" /\ worker[v] = Idle
          BY <3>3, <4>3 DEF Busy
        <5> QED BY <2>5, <3>1, <4>3, <5>1
      <4> QED BY <4>1, <4>2, <4>3
    <3>5. ASSUME NEW v \in Workers, Busy(v)'
          PROVE  job'[worker'[v].deploy].lost \/ job'[worker'[v].deploy].owner = v
      <4>1. CASE v = w
        BY <2>3, <2>5, <4>1
      <4>2. CASE v # w
        <5>1. /\ Busy(v) /\ worker'[v].deploy = worker[v].deploy
              /\ worker[v].deploy \in Deploys
              /\ job[worker[v].deploy].lost \/ job[worker[v].deploy].owner = v
          BY <1>1, <2>5, <3>1, <3>3, <3>5, <4>2 DEF JobsShape, WorkersOK
        <5> QED BY <2>3, <2>6, <5>1
      <4> QED BY <4>1, <4>2
    <3> QED BY <3>2, <3>4, <3>5 DEF WorkersOK
  <2> QED BY <2>2, <2>3, <2>4, <2>7 DEF JobsShape
<1>5. CASE \E d \in Deploys : FetchJob(w, d)
  BY <1>1, <1>2, <1>4, <1>5 DEF Shape, FetchJob
<1>6. CASE SelectProject(w)
  <2>1. JobsShape'
    BY <1>1, <1>6, GotoOK, ThrowOK DEF SelectProject, At, Busy, Calls
  <2> QED BY <1>1, <1>2, <1>6, <2>1 DEF Shape, SelectProject
<1>7. CASE SetEntry(w)
  <2>1. JobsShape'
    BY <1>1, <1>7, GotoOK, ThrowOK DEF SetEntry, At, Busy, Calls
  <2>2. entry' \in [Deploys -> {"pending", "running", "completed", "failed"}]
    BY <1>1, <1>3, <1>7 DEF SetEntry, WriteEntry, At, Busy
  <2> QED BY <1>1, <1>2, <1>7, <2>1, <2>2 DEF Shape, SetEntry
<1>8. CASE SetDeploying(w)
  <2>1. Busy(w)
    BY <1>8 DEF SetDeploying, At, Busy
  <2>3. row' \in [Projects -> RowState]
    BY <1>1, <1>3, <1>8, <2>1, RowTypes DEF SetDeploying
  <2> DEFINE x == [worker[w] EXCEPT !.pc = "create", !.object = "deployment"]
  <2>4. x \in WorkerState /\ x.pc # "idle" /\ x.deploy = worker[w].deploy
    BY <1>3, <2>1 DEF WorkerState, Calls, Objects
  <2>5. worker' = [worker EXCEPT ![w] = x] /\ UNCHANGED job
    BY <1>8 DEF SetDeploying
  <2>6. JobsShape'
    BY <1>1, <2>1, <2>4, <2>5, MoveOK
  <2> QED BY <1>1, <1>2, <1>8, <2>3, <2>6 DEF Shape, SetDeploying
<1>9. ASSUME Busy(w), NEW ok \in BOOLEAN, Proceed(w, ok), UNCHANGED job PROVE JobsShape'
  <2> DEFINE x == [worker[w] EXCEPT !.pc = AfterObject(w)[1], !.object = AfterObject(w)[2],
                         !.sound = @ /\ (ok \/ worker[w].object # "deployment")]
  <2>1. AfterObject(w)[1] \in Calls \ {"idle"} /\ AfterObject(w)[2] \in Objects
    BY <1>3, <1>9 DEF AfterObject, WorkerState, Calls, Objects
  <2>2. x \in WorkerState /\ x.pc # "idle" /\ x.deploy = worker[w].deploy
    BY <1>3, <1>9, <2>1 DEF WorkerState
  <2>3. worker' = [worker EXCEPT ![w] = x]
    BY <1>9 DEF Proceed
  <2> QED BY <1>1, <1>9, <2>2, <2>3, MoveOK
<1>10. ASSUME Busy(w), Accepted(w), UNCHANGED job
       PROVE  JobsShape' /\ kube' \in [Projects -> Tags]
  BY <1>1, <1>3, <1>9, <1>10, ApplyTypes DEF Accepted
<1>11. CASE CreateObject(w)
  <2>1. Busy(w) /\ UNCHANGED <<row, entry, locked, sound>>
    BY <1>11 DEF CreateObject, At, Busy
  <2>2. kube' \in [Projects -> Tags]
    BY <1>1, <1>3, <1>11, <2>1, ApplyTypes DEF CreateObject, Accepted
  <2>3. JobsShape'
    BY <1>1, <1>9, <1>11, <2>1, GotoOK, RaiseOK DEF CreateObject, Accepted, Calls
  <2>4. faults' \in 0..MaxFaults
    BY <1>1, <1>11, FaultOK DEF CreateObject
  <2> QED BY <1>1, <1>2, <2>1, <2>2, <2>3, <2>4 DEF Shape
<1>12. CASE ReplaceObject(w)
  <2>1. Busy(w) /\ UNCHANGED <<row, entry, job, locked, sound>>
    BY <1>12 DEF ReplaceObject, At, Busy
  <2>2. kube' \in [Projects -> Tags]
    BY <1>1, <1>3, <1>12, <2>1, ApplyTypes DEF ReplaceObject, Accepted
  <2>3. JobsShape'
    BY <1>9, <1>12, <2>1 DEF ReplaceObject, Accepted
  <2>4. faults' \in 0..MaxFaults
    BY <1>1, <1>12, FaultOK DEF ReplaceObject
  <2> QED BY <1>1, <1>2, <2>1, <2>2, <2>3, <2>4 DEF Shape
<1>13. CASE SetRunning(w)
  <2>1. Busy(w)
    BY <1>13 DEF SetRunning, At, Busy
  <2>2. row' \in [Projects -> RowState] /\ sound' \in [Projects -> BOOLEAN]
    BY <1>1, <1>3, <1>13, <2>1, RowTypes DEF SetRunning
  <2>3. JobsShape'
    BY <1>1, <1>13, <2>1, GotoOK DEF SetRunning, Calls
  <2> QED BY <1>1, <1>2, <1>13, <2>2, <2>3 DEF Shape, SetRunning
<1>14. CASE SetFailed(w)
  <2>1. Busy(w)
    BY <1>14 DEF SetFailed, At, Busy
  <2>2. row' \in [Projects -> RowState]
    BY <1>1, <1>3, <1>14, <2>1, RowTypes DEF SetFailed
  <2>3. JobsShape'
    BY <1>1, <1>14, <2>1, GotoOK DEF SetFailed, Calls
  <2> QED BY <1>1, <1>2, <1>14, <2>2, <2>3 DEF Shape, SetFailed
<1>15. CASE MarkDone(w)
  <2>1. Busy(w) /\ Settle(w, "completed", job[worker[w].deploy].made)
    BY <1>15 DEF MarkDone, At, Busy
  <2>2. job[worker[w].deploy].made \in 0..Attempts
    BY <1>1, <1>3, <2>1 DEF JobsShape, JobState
  <2>3. JobsShape'
    BY <1>1, <2>1, <2>2, SettleOK
  <2> QED BY <1>1, <1>2, <1>15, <2>3 DEF Shape, MarkDone
<1>16. CASE QueryFails(w)
  <2>1. JobsShape' /\ faults' \in 0..MaxFaults
    BY <1>1, <1>16, RaiseOK, FaultOK DEF QueryFails, Busy
  <2> QED BY <1>1, <1>2, <1>16, <2>1 DEF Shape, QueryFails
<1>17. CASE CrashWorker(w)
  <2>1. JobsShape'
    <3>1. /\ worker' = [worker EXCEPT ![w] = Idle] /\ UNCHANGED job
          /\ worker \in [Workers -> WorkerState]
      BY <1>1, <1>17 DEF CrashWorker, JobsShape
    <3>2. /\ worker' \in [Workers -> WorkerState]
          /\ worker'[w] = Idle /\ \A v \in Workers \ {w} : worker'[v] = worker[v]
      BY <3>1, IdleWorker
    <3>3. \A v \in Workers : Busy(v)' <=> Busy(v) /\ v # w
      BY <3>2, IdleWorker DEF Busy
    <3>4. WorkersOK'
      BY <1>1, <3>1, <3>2, <3>3 DEF JobsShape, WorkersOK
    <3> QED BY <1>1, <3>1, <3>2, <3>4 DEF JobsShape, AttemptsLeft
  <2> QED BY <1>1, <1>2, <1>17, <2>1, FaultOK DEF Shape, CrashWorker
<1>18. CASE LostAnswer(w)
  <2>1. Busy(w) /\ Raise(w) /\ Fault /\ UNCHANGED <<kube, locked>>
    BY <1>18 DEF LostAnswer, At, Busy
  <2>2. JobsShape' /\ faults' \in 0..MaxFaults
    BY <1>1, <2>1, RaiseOK, FaultOK
  <2>3. row' \in [Projects -> RowState] /\ sound' \in [Projects -> BOOLEAN]
    BY <1>1, <1>3, <1>18, <2>1, RowTypes DEF LostAnswer
  <2>4. entry' \in [Deploys -> {"pending", "running", "completed", "failed"}]
    BY <1>1, <1>3, <1>18, <2>1 DEF LostAnswer, WriteEntry
  <2> QED BY <1>1, <1>2, <2>1, <2>2, <2>3, <2>4 DEF Shape
<1> QED BY <1>5, <1>6, <1>7, <1>8, <1>11, <1>12, <1>13, <1>14, <1>15, <1>16, <1>17, <1>18
        DEF WorkerStep

\* What the API and BullMQ do keeps the shape.
LEMMA QueueShape ==
  ASSUME Shape, NEW d \in Deploys, UNCHANGED pass,
         Enqueue(d) \/ StallJob(d) \/ LoseLock(d) \/ BuildImage(d)
  PROVE  Shape'
<1> USE DeployAssumption DEF DataShape
<1>1. JobsShape /\ DataShape /\ PassOK
  BY DEF Shape
<1>2. PassOK'
  BY <1>1 DEF PassOK
<1>3. ASSUME NEW s \in {"building", "built", "none", "waiting"},
             job[d].state \in {"none", "building", "built"}, UNCHANGED worker,
             job' = [job EXCEPT ![d].state = s]
      PROVE  JobsShape'
  <2>1. job' \in [Deploys -> JobState]
    BY <1>1, <1>3 DEF JobsShape, JobState
  <2>2. AttemptsLeft'
    BY <1>1, <1>3 DEF JobsShape, AttemptsLeft, JobState
  <2>3. WorkersOK'
    BY <1>1, <1>3 DEF JobsShape, WorkersOK, Busy, JobState
  <2> QED BY <1>1, <1>3, <2>1, <2>2, <2>3 DEF JobsShape
<1>4. CASE Enqueue(d)
  BY <1>1, <1>2, <1>3, <1>4 DEF Shape, Enqueue
<1>5. ASSUME job[d].state = "active", NEW lost \in BOOLEAN, Redeliver(d, lost), UNCHANGED worker,
             job[d].lost => lost,
             \A v \in Workers : Busy(v) /\ worker[v].deploy = d => lost
      PROVE  JobsShape'
  <2> DEFINE s == IF job[d].stalled < MaxStalled THEN "waiting" ELSE "failed"
             n == IF job[d].stalled < MaxStalled THEN job[d].stalled + 1 ELSE job[d].stalled
             x == [state |-> s, made |-> job[d].made, stalled |-> n, owner |-> NoWorker,
                   lost |-> lost]
  <2>1. job[d] \in JobState /\ job \in [Deploys -> JobState]
    BY <1>1 DEF JobsShape
  <2>2. x \in JobState
    <3>1. n \in 0..MaxStalled /\ s \in {"waiting", "failed"}
      BY <2>1 DEF JobState
    <3> HIDE DEF n, s
    <3> QED BY <2>1, <3>1, <1>5 DEF JobState
  <2>3. job' = [job EXCEPT ![d] = x]
    BY <1>5 DEF Redeliver
  <2>4. x.state # "active" /\ x.made = job[d].made /\ x.owner = NoWorker /\ x.lost = lost
    OBVIOUS
  <2> HIDE DEF x
  <2>5. /\ job' \in [Deploys -> JobState] /\ job'[d] = x
        /\ \A e \in Deploys \ {d} : job'[e] = job[e]
    BY <2>1, <2>2, <2>3, JobWritten
  <2>6. AttemptsLeft'
    BY <1>1, <1>5, <2>4, <2>5 DEF JobsShape, AttemptsLeft
  <2>7. WorkersOK'
    BY <1>1, <1>5, <2>4, <2>5 DEF JobsShape, WorkersOK, Busy
  <2> QED BY <1>1, <1>5, <2>5, <2>6, <2>7 DEF JobsShape
<1>7. job[d].lost \in BOOLEAN /\ \A v \in Workers : v # NoWorker
  BY <1>1 DEF JobsShape, JobState
<1>8. CASE StallJob(d)
  <2>1. /\ job[d].state = "active" /\ Redeliver(d, job[d].lost) /\ ~ Executed(d)
        /\ UNCHANGED <<row, entry, kube, worker, locked, sound, faults>>
    BY <1>8 DEF StallJob
  <2>2. \A v \in Workers : Busy(v) /\ worker[v].deploy = d => job[d].lost
    BY <1>1, <2>1 DEF JobsShape, WorkersOK, Executed
  <2>3. JobsShape'
    BY <1>5, <1>7, <2>1, <2>2
  <2> QED BY <1>1, <1>2, <2>1, <2>3 DEF Shape
<1>9. CASE LoseLock(d)
  <2>1. /\ job[d].state = "active" /\ Redeliver(d, TRUE) /\ Fault
        /\ UNCHANGED <<row, entry, kube, worker, locked, sound>>
    BY <1>9 DEF LoseLock
  <2>2. JobsShape' /\ faults' \in 0..MaxFaults
    BY <1>1, <1>5, <2>1, FaultOK
  <2> QED BY <1>1, <1>2, <2>1, <2>2 DEF Shape
<1>6. CASE BuildImage(d)
  <2> DEFINE p == ProjectOf[d]
  <2>1. p \in Projects /\ row[p] \in RowState /\ d \in Tags
    BY <1>1 DEF Tags
  <2>2. /\ [row[p] EXCEPT !.status = "building"] \in RowState
        /\ [row[p] EXCEPT !.status = "deploying", !.tag = d] \in RowState
        /\ [row[p] EXCEPT !.status = "failed"] \in RowState
    BY <2>1 DEF RowState, Statuses
  <2>3. row' \in [Projects -> RowState]
    BY <1>1, <1>6, <2>1, <2>2, WriteRowOK DEF BuildImage
  <2>4. JobsShape'
    BY <1>1, <1>3, <1>6 DEF BuildImage
  <2> QED BY <1>1, <1>2, <1>6, <2>3, <2>4 DEF Shape, BuildImage
<1> QED BY <1>4, <1>6, <1>8, <1>9

LEMMA DeleteShape ==
  ASSUME Shape, NEW p \in Projects, DeleteProject(p), UNCHANGED pass
  PROVE  Shape'
<1> USE DEF DataShape
<1>1. row[p] \in RowState
  BY DEF Shape
<1>2. [row[p] EXCEPT !.status = "deleted"] \in RowState
  BY <1>1 DEF RowState, Statuses
<1>3. row' \in [Projects -> RowState]
  BY <1>2, WriteRowOK DEF Shape, DeleteProject
<1>4. JobsShape'
  BY DEF Shape, DeleteProject, JobsShape, WorkersOK, AttemptsLeft, Busy
<1>5. PassOK'
  BY DEF Shape, PassOK
<1> QED BY <1>3, <1>4, <1>5 DEF Shape, DeleteProject

LEMMA UpdateShape ==
  ASSUME Shape, NEW p \in Projects, UpdateProject(p), UNCHANGED pass
  PROVE  Shape'
<1> USE DEF DataShape
<1>1. row[p] \in RowState
  BY DEF Shape
<1>2. PICK s \in PatchedStatuses \cup {row[p].status}, t \in PatchedTags \cup {row[p].tag} :
        /\ WriteRow(p, [row[p] EXCEPT !.status = s, !.tag = t])
        /\ sound' = [sound EXCEPT ![p] = @ /\ s # "running"]
  BY DEF UpdateProject
<1>3. s \in Statuses /\ t \in Tags
  BY <1>1, DeployAssumption DEF RowState
<1>4. [row[p] EXCEPT !.status = s, !.tag = t] \in RowState
  BY <1>1, <1>3 DEF RowState
<1>5. row' \in [Projects -> RowState] /\ sound' \in [Projects -> BOOLEAN]
  BY <1>2, <1>4, WriteRowOK DEF Shape
<1>6. JobsShape' /\ faults' \in 0..MaxFaults
  BY FaultOK DEF Shape, UpdateProject, JobsShape, WorkersOK, AttemptsLeft, Busy
<1>7. PassOK'
  BY DEF Shape, PassOK
<1> QED BY <1>5, <1>6, <1>7 DEF Shape, UpdateProject

-----------------------------------------------------------------------------
(* The reconciler touches no job.                                          *)

LEMMA ScanOK ==
  ASSUME NEW S \in SUBSET Projects, NEW T \in Scan(S) PROVE T \subseteq S
  BY DEF Scan

LEMMA WriteOK ==
  ASSUME NEW f \in UNION {[S -> Observed] : S \in SUBSET Projects},
         NEW q \in Projects, NEW o \in Observed
  PROVE  [p \in DOMAIN f \cup {q} |-> IF p = q THEN o ELSE f[p]]
           \in UNION {[S -> Observed] : S \in SUBSET Projects}
<1> DEFINE T == DOMAIN f \cup {q}
<1>1. T \in SUBSET Projects /\ f \in [DOMAIN f -> Observed]
  OBVIOUS
<1>2. [p \in T |-> IF p = q THEN o ELSE f[p]] \in [T -> Observed]
  BY <1>1
<1> QED BY <1>1, <1>2

LEMMA PassShape ==
  ASSUME Shape, PassStep \/ LoseConnection \/ CrashDaemon
  PROVE  PassOK' /\ row' \in [Projects -> RowState] /\ locked' \subseteq Projects
<1>1. row \in [Projects -> RowState] /\ locked \subseteq Projects /\ PassOK
  BY DEF Shape, DataShape
<1>2. pass \in Passes
  BY <1>1 DEF PassOK
<1>3. NoPass \in Passes
  <2>1. <<>> \in [{} -> Observed]
    OBVIOUS
  <2> QED BY <2>1 DEF Passes, NoPass
<1>4. CASE FetchProjects
  <2>5. PICK S \in SUBSET Eligible : \E seen \in Scan(S) :
          /\ pass' = [NoPass EXCEPT !.pc = "observe", !.todo = seen, !.open = TRUE]
          /\ locked' = S
    BY <1>4 DEF FetchProjects
  <2>1. PICK seen \in Scan(S) :
          /\ pass' = [NoPass EXCEPT !.pc = "observe", !.todo = seen, !.open = TRUE]
          /\ locked' = S
    BY <2>5
  <2>2. S \subseteq Projects /\ seen \in SUBSET Projects
    BY ScanOK DEF Eligible
  <2>3. pass' \in Passes /\ pass'.pc = "observe"
    BY <1>3, <2>1, <2>2 DEF Passes
  <2> QED BY <1>1, <1>4, <2>1, <2>2, <2>3 DEF PassOK, FetchProjects
<1>5. ASSUME NEW p \in Projects, ObservePod(p) \/ DeletePod(p) PROVE PassOK'
  BY <1>1, <1>2, <1>5 DEF ObservePod, DeletePod, PassOK, Passes
<1>6. CASE CorrectNothing
  BY <1>1, <1>2, <1>6 DEF CorrectNothing, PassOK, Passes
<1>7. CASE UpdateObserved
  <2> DEFINE f == [p \in DOMAIN pass.write \cup {pass.at} |->
                    IF p = pass.at THEN Observation ELSE pass.write[p]]
  <2>1. pass.at \in Projects /\ Observation \in Observed
    BY <1>1, <1>7 DEF PassOK, UpdateObserved, Observation, Observed
  <2>2. f \in UNION {[T -> Observed] : T \in SUBSET Projects}
    BY <1>2, <2>1, WriteOK DEF Passes
  <2>3. pass' = [pass EXCEPT !.pc = "observe", !.todo = @ \ {pass.at}, !.seen = "none",
                             !.write = f]
    BY <1>7 DEF UpdateObserved
  <2> HIDE DEF f
  <2>4. pass' \in Passes /\ pass'.pc = "observe"
    BY <1>2, <2>2, <2>3 DEF Passes
  <2> QED BY <1>1, <1>7, <2>4 DEF PassOK, UpdateObserved
<1>8. CASE Commit
  <2>1. ASSUME NEW p \in Projects PROVE row'[p] \in RowState
    <3>1. row[p] \in RowState
      BY <1>1
    <3>2. p \in DOMAIN pass.write => pass.write[p] \in Observed
      BY <1>2 DEF Passes
    <3>3. row'[p] = IF pass.open /\ p \in DOMAIN pass.write
                    THEN [row[p] EXCEPT !.observed = pass.write[p]] ELSE row[p]
      BY <1>8 DEF Commit
    <3> QED BY <3>1, <3>2, <3>3 DEF RowState
  <2>2. row' \in [Projects -> RowState]
    BY <1>8, <2>1 DEF Commit
  <2> QED BY <1>3, <1>8, <2>2 DEF Commit, PassOK, NoPass
<1>9. CASE LoseConnection
  BY <1>1, <1>2, <1>9 DEF LoseConnection, PassOK, Passes
<1>10. CASE CrashDaemon
  BY <1>1, <1>3, <1>10 DEF CrashDaemon, PassOK, NoPass
<1> QED BY <1>1, <1>4, <1>5, <1>6, <1>7, <1>8, <1>9, <1>10
        DEF PassStep, ObservePod, DeletePod, CorrectNothing, UpdateObserved, LoseConnection

LEMMA ReconcileShape ==
  ASSUME Shape, ReconcileStep PROVE Shape'
<1>1. PassOK' /\ row' \in [Projects -> RowState] /\ locked' \subseteq Projects
  BY PassShape DEF ReconcileStep
<1>2. faults' \in 0..MaxFaults
  BY FaultOK DEF ReconcileStep, Shape, DataShape
<1>3. UNCHANGED <<entry, kube, job, worker, sound>>
  BY DEF ReconcileStep
<1>4. JobsShape'
  BY <1>3 DEF Shape, JobsShape, WorkersOK, AttemptsLeft, Busy
<1> QED BY <1>1, <1>2, <1>3, <1>4 DEF Shape, DataShape

LEMMA NextShape == Shape /\ [Next]_vars => Shape'
<1> SUFFICES ASSUME Shape, [Next]_vars PROVE Shape'
  OBVIOUS
<1>1. CASE DeployStep
  BY <1>1, WorkerShape, QueueShape, DeleteShape, UpdateShape DEF DeployStep, DeployNext
<1>2. CASE ReconcileStep
  BY <1>2, ReconcileShape
<1>3. CASE UNCHANGED vars
  BY <1>3 DEF vars, Shape, JobsShape, DataShape, PassOK, WorkersOK, AttemptsLeft, Busy
<1> QED BY <1>1, <1>2, <1>3 DEF Next

\* Every row, job, worker and pass stays well-typed: an attempt too many, two
\* workers on a job or an observation of no project would break it.
THEOREM DeployTypeCorrect == Spec => []TypeOK
<1> QED BY InitShape, NextShape, ShapeTypes, PTL DEF Spec

-----------------------------------------------------------------------------
(* The locks of the reconciler.                                            *)

\* The rows a pass still has to look at are locked while its transaction is
\* open, and nobody builds or deploys a locked row.
LocksHeld ==
  /\ pass.pc # "idle" /\ pass.open => pass.todo \subseteq locked
  /\ pass.pc \in {"correct", "update"} /\ pass.open => pass.at \in locked
  /\ \A p \in locked : row[p].status \notin {"building", "deploying"}

\* An UPDATE waits for the lock, so a locked row keeps its status.
LEMMA LockedRowsStay ==
  ASSUME Shape, DeployStep
  PROVE  UNCHANGED <<pass, locked>> /\ \A p \in locked : row'[p] = row[p]
<1>1. row \in [Projects -> RowState] /\ locked \subseteq Projects
  BY DEF Shape, DataShape
<1>2. ASSUME NEW p, NEW r, WriteRow(p, r) PROVE \A q \in locked : row'[q] = row[q]
  BY <1>1, <1>2 DEF WriteRow, Free
<1>3. ASSUME NEW w \in Workers, WorkerStep(w) \/ CrashWorker(w)
      PROVE  UNCHANGED locked /\ \A q \in locked : row'[q] = row[q]
  <2>1. ASSUME RowDeploying(w) \/ RowRunning(w) \/ RowFailed(w)
        PROVE  \A q \in locked : row'[q] = row[q]
    BY <1>2, <2>1 DEF RowDeploying, RowRunning, RowFailed
  <2>2. CASE SetDeploying(w) \/ SetRunning(w) \/ SetFailed(w)
    BY <2>1, <2>2 DEF SetDeploying, SetRunning, SetFailed
  <2>3. CASE LostAnswer(w)
    BY <2>1, <2>3 DEF LostAnswer
  <2> QED BY <1>3, <2>2, <2>3
          DEF WorkerStep, CrashWorker, FetchJob, SelectProject, SetEntry, CreateObject,
              ReplaceObject, MarkDone, QueryFails
<1>4. ASSUME NEW d \in Deploys, Enqueue(d) \/ StallJob(d) \/ LoseLock(d) \/ BuildImage(d)
      PROVE  UNCHANGED locked /\ \A q \in locked : row'[q] = row[q]
  BY <1>2, <1>4 DEF Enqueue, StallJob, LoseLock, BuildImage
<1>5. ASSUME NEW p \in Projects, UpdateProject(p) \/ DeleteProject(p)
      PROVE  UNCHANGED locked /\ \A q \in locked : row'[q] = row[q]
  BY <1>2, <1>5 DEF UpdateProject, DeleteProject
<1> QED BY <1>3, <1>4, <1>5 DEF DeployStep, DeployNext

LEMMA NextLocks == Shape /\ LocksHeld /\ [Next]_vars => LocksHeld'
<1> SUFFICES ASSUME Shape, LocksHeld, [Next]_vars PROVE LocksHeld'
  OBVIOUS
<1>1. /\ row \in [Projects -> RowState] /\ locked \subseteq Projects
      /\ PassOK /\ pass \in Passes
  BY DEF Shape, DataShape, PassOK
<1>2. CASE DeployStep
  BY <1>2, LockedRowsStay DEF LocksHeld
<1>3. CASE FetchProjects
  <2>1. PICK S \in SUBSET Eligible : \E seen \in Scan(S) :
          /\ pass' = [NoPass EXCEPT !.pc = "observe", !.todo = seen, !.open = TRUE]
          /\ locked' = S
    BY <1>3 DEF FetchProjects
  <2>2. PICK seen \in Scan(S) :
          /\ pass' = [NoPass EXCEPT !.pc = "observe", !.todo = seen, !.open = TRUE]
          /\ locked' = S
    BY <2>1
  <2>3. seen \subseteq S /\ S \subseteq Projects
    BY ScanOK DEF Eligible
  <2>4. pass'.pc = "observe" /\ pass'.todo = seen
    BY <2>2 DEF NoPass
  <2> QED BY <1>3, <2>2, <2>3, <2>4 DEF LocksHeld, FetchProjects, Eligible
<1>4. ASSUME NEW p \in Projects, ObservePod(p) \/ DeletePod(p) PROVE LocksHeld'
  BY <1>1, <1>4 DEF LocksHeld, ObservePod, DeletePod, Passes
<1>5. CASE CorrectNothing
  BY <1>1, <1>5 DEF LocksHeld, CorrectNothing, Passes
<1>6. CASE UpdateObserved
  <2>1. /\ pass'.pc = "observe" /\ pass'.todo \subseteq pass.todo /\ pass'.open = pass.open
        /\ UNCHANGED <<row, locked>> /\ pass.pc # "idle"
    BY <1>1, <1>6 DEF UpdateObserved, Passes
  <2> QED BY <2>1 DEF LocksHeld
<1>7. CASE Commit \/ CrashDaemon
  BY <1>7 DEF LocksHeld, Commit, CrashDaemon, NoPass
<1>8. CASE LoseConnection
  BY <1>1, <1>8 DEF LocksHeld, LoseConnection, Passes
<1>9. CASE UNCHANGED vars
  BY <1>9 DEF vars, LocksHeld
<1> QED BY <1>2, <1>3, <1>4, <1>5, <1>6, <1>7, <1>8, <1>9 DEF Next, ReconcileStep, PassStep

LEMMA InitLocks == Init => LocksHeld
  BY DEF Init, ReconcileInit, NoPass, LocksHeld

\* The reconciler deletes a pod only while its project is neither built nor
\* deployed, whatever Kubernetes answered it and however long that took, as
\* long as its connection to the database holds.
THEOREM PodsSurviveDeploys == Spec => NoRestartWhileDeploying
<1>1. Shape /\ LocksHeld /\ [Next]_vars =>
        [\A p \in Projects :
           DeletePod(p) /\ pass.open => row[p].status \notin {"building", "deploying"}]_vars
  BY DEF LocksHeld, DeletePod
<1> QED BY <1>1, InitShape, NextShape, InitLocks, NextLocks, PTL
        DEF Spec, NoRestartWhileDeploying

-----------------------------------------------------------------------------
(* What a deploy has done at each of its calls.                            *)

\* Its Deployment is in the cluster, applied by this execution or an earlier one.
Applied(w) ==
  \/ worker[w].pc \in {"replace", "running", "entryCompleted", "markDone"}
  \/ worker[w].pc = "create" /\ worker[w].object # "deployment"

InCluster == \A w \in Workers : Applied(w) => kube[ProjectAt(w)] # NoTag
EntryDone ==
  \A w \in Workers : At(w, "markDone") /\ Exists(ProjectAt(w)) =>
    entry[worker[w].deploy] = "completed" \/ job[worker[w].deploy].lost
CompletedInv == Shape /\ InCluster /\ EntryDone /\ CompletedEverywhere

LEMMA InitCompleted == Init => InCluster /\ EntryDone /\ CompletedEverywhere
  BY DEF Init, DeployInit, InCluster, EntryDone, CompletedEverywhere, Applied, At, Idle

\* What no step takes back: a deleted project, a Deployment in the cluster, and
\* that a job was lost.
Lasting ==
  /\ \A p \in Projects : /\ Exists(p)' => Exists(p)
                         /\ kube[p] # NoTag => kube'[p] # NoTag
  /\ \A d \in Deploys : job[d].lost => job'[d].lost

LEMMA WriteRowLasts ==
  ASSUME row \in [Projects -> RowState], NEW p \in Projects, NEW r, WriteRow(p, r)
  PROVE  \A q \in Projects : Exists(q)' => Exists(q)
  BY DEF WriteRow, Exists

\* The steps of a worker leave the other executions where they are.
OthersStay(w) ==
  \A v \in Workers \ {w} :
    /\ worker'[v].pc = worker[v].pc /\ worker'[v].deploy = worker[v].deploy
    /\ worker'[v].object = worker[v].object
    /\ worker'[v].sound => worker[v].sound

\* Only the holder of a job's lock ends it.
LEMMA SettleEffect ==
  ASSUME job \in [Deploys -> JobState], NEW w \in Workers, worker[w].deploy \in Deploys,
         NEW s, NEW n, Settle(w, s, n)
  PROVE  \A d \in Deploys :
           /\ job'[d].lost = job[d].lost
           /\ job'[d].state # job[d].state => d = worker[w].deploy /\ job'[d].state = s
<1> DEFINE d == worker[w].deploy
           x == [job[d] EXCEPT !.state = s, !.made = n, !.owner = NoWorker]
<1>1. job[d] \in JobState
  OBVIOUS
<1>2. x.lost = job[d].lost /\ x.state = s
  BY <1>1 DEF JobState
<1>3. job' = job \/ job' = [job EXCEPT ![d] = x]
  BY DEF Settle
<1> HIDE DEF x
<1> QED BY <1>2, <1>3

LEMMA FetchEffect ==
  ASSUME Shape, NEW w \in Workers, NEW d \in Deploys, FetchJob(w, d)
  PROVE  /\ OthersStay(w)
         /\ worker'[w].pc = "select" /\ worker'[w].deploy = d
         /\ worker'[w].sound => Executing(ProjectOf[d]) = {}
         /\ \A v \in Executing(ProjectOf[d]) \ {w} : ~ worker'[v].sound
<1> DEFINE others == Executing(ProjectOf[d])
<1>1. worker \in [Workers -> WorkerState]
  BY DEF Shape, JobsShape
<1>2. worker' = [v \in Workers |->
         IF v = w THEN [Idle EXCEPT !.pc = "select", !.deploy = d, !.sound = others = {}]
         ELSE IF v \in others THEN [worker[v] EXCEPT !.sound = FALSE]
         ELSE worker[v]]
  BY DEF FetchJob
<1>3. worker'[w] = [pc |-> "select", deploy |-> d, object |-> "deployment",
                    sound |-> others = {}]
  BY <1>2 DEF Idle
<1>4. \A v \in Workers \ {w} :
        worker'[v] = IF v \in others THEN [worker[v] EXCEPT !.sound = FALSE] ELSE worker[v]
  BY <1>2
<1>5. ASSUME NEW v \in Workers \ {w}
      PROVE  /\ worker'[v].pc = worker[v].pc /\ worker'[v].deploy = worker[v].deploy
             /\ worker'[v].object = worker[v].object
             /\ worker'[v].sound => worker[v].sound
             /\ v \in others => ~ worker'[v].sound
  <2>1. worker[v] \in WorkerState
    BY <1>1
  <2> HIDE DEF others
  <2> QED BY <1>4, <2>1 DEF WorkerState
<1>6. others \subseteq Workers
  BY DEF Executing
<1>7. worker'[w].sound => others = {}
  <2>1. worker'[w].sound = (others = {})
    BY <1>3
  <2> QED BY <2>1
<1> QED BY <1>3, <1>5, <1>6, <1>7 DEF OthersStay

LEMMA WorkerEffect ==
  ASSUME Shape, NEW w \in Workers, WorkerStep(w) \/ CrashWorker(w)
  PROVE  /\ Lasting /\ OthersStay(w)
         /\ \A d \in Deploys : entry'[d] # entry[d] => Busy(w) /\ d = worker[w].deploy
         /\ \A d \in Deploys : job'[d].state = "completed" =>
              job[d].state = "completed" \/ (At(w, "markDone") /\ d = worker[w].deploy)
<1> USE DeployAssumption
<1>1. /\ row \in [Projects -> RowState] /\ kube \in [Projects -> Tags]
      /\ worker \in [Workers -> WorkerState] /\ job \in [Deploys -> JobState]
      /\ entry \in [Deploys -> {"pending", "running", "completed", "failed"}]
  BY DEF Shape, JobsShape, DataShape
<1>2. Busy(w) => worker[w].deploy \in Deploys /\ ProjectAt(w) \in Projects
  BY DEF Shape, JobsShape, WorkersOK, ProjectAt
<1>6. \A d \in Deploys :
        /\ job'[d].lost = job[d].lost
        /\ job'[d].state = "completed" =>
             job[d].state = "completed" \/ (At(w, "markDone") /\ d = worker[w].deploy)
  <2>1. ASSUME Busy(w), Throw(w)
        PROVE  \A d \in Deploys : /\ job'[d].lost = job[d].lost
                                  /\ job'[d].state = "completed" => job[d].state = "completed"
    <3> DEFINE made == job[worker[w].deploy].made + 1
               s == IF made < Attempts THEN "waiting" ELSE "failed"
    <3>1. Settle(w, s, made) /\ s # "completed"
      BY <2>1 DEF Throw
    <3> HIDE DEF made, s
    <3> QED BY <1>1, <1>2, <2>1, <3>1, SettleEffect
  <2>2. CASE MarkDone(w)
    <3>1. Busy(w) /\ At(w, "markDone") /\ Settle(w, "completed", job[worker[w].deploy].made)
      BY <2>2 DEF MarkDone, At, Busy
    <3> QED BY <1>1, <1>2, <3>1, SettleEffect
  <2>3. CASE \E d \in Deploys : FetchJob(w, d)
    <3>1. PICK d \in Deploys :
            job' = [job EXCEPT ![d] = [job[d] EXCEPT !.state = "active", !.owner = w]]
      BY <2>3 DEF FetchJob
    <3>2. /\ job'[d].state = "active" /\ job'[d].lost = job[d].lost
          /\ \A e \in Deploys \ {d} : job'[e] = job[e]
      BY <1>1, <3>1, JobMoves
    <3> QED BY <3>2
  <2>4. ASSUME Busy(w), Raise(w)
        PROVE  \A d \in Deploys : /\ job'[d].lost = job[d].lost
                                  /\ job'[d].state = "completed" => job[d].state = "completed"
    BY <2>1, <2>4 DEF Raise
  <2>5. CASE SelectProject(w) \/ SetEntry(w)
    BY <2>1, <2>5 DEF SelectProject, SetEntry, At, Busy
  <2>6. CASE CreateObject(w)
    BY <2>4, <2>6 DEF CreateObject, At, Busy
  <2>7. CASE QueryFails(w) \/ LostAnswer(w)
    BY <2>4, <2>7 DEF QueryFails, LostAnswer, At, Busy
  <2> QED BY <2>2, <2>3, <2>5, <2>6, <2>7
          DEF WorkerStep, CrashWorker, SetDeploying, SetRunning, SetFailed, ReplaceObject
<1>3. Lasting
  <2>1. ASSUME Busy(w), Apply(w) PROVE \A p \in Projects : kube[p] # NoTag => kube'[p] # NoTag
    BY <1>1, <1>2, <2>1 DEF Apply
  <2>2. \A p \in Projects : kube[p] # NoTag => kube'[p] # NoTag
    <3>1. CASE CreateObject(w) \/ ReplaceObject(w)
      BY <2>1, <3>1 DEF CreateObject, ReplaceObject, Accepted, At, Busy
    <3> QED BY <3>1 DEF WorkerStep, CrashWorker, FetchJob, SelectProject, SetEntry,
          SetDeploying, SetRunning, SetFailed, MarkDone, QueryFails, LostAnswer
  <2>3. \A p \in Projects : Exists(p)' => Exists(p)
    <3>1. ASSUME Busy(w), RowDeploying(w) \/ RowRunning(w) \/ RowFailed(w)
          PROVE  \A p \in Projects : Exists(p)' => Exists(p)
      BY <1>1, <1>2, <3>1, WriteRowLasts DEF RowDeploying, RowRunning, RowFailed
    <3>2. CASE SetDeploying(w) \/ SetRunning(w) \/ SetFailed(w)
      BY <3>1, <3>2 DEF SetDeploying, SetRunning, SetFailed, At, Busy
    <3>3. CASE LostAnswer(w)
      BY <3>1, <3>3 DEF LostAnswer, At, Busy, Exists
    <3> QED BY <3>2, <3>3
            DEF WorkerStep, CrashWorker, FetchJob, SelectProject, SetEntry, CreateObject,
                ReplaceObject, MarkDone, QueryFails, Exists
  <2>4. \A d \in Deploys : job'[d].lost = job[d].lost
    BY <1>6
  <2> QED BY <2>2, <2>3, <2>4 DEF Lasting
<1>4. OthersStay(w)
  <2>1. CASE \E d \in Deploys : FetchJob(w, d)
    BY <2>1, FetchEffect
  <2>2. ASSUME \E x : worker' = [worker EXCEPT ![w] = x] PROVE OthersStay(w)
    BY <1>1, <2>2 DEF OthersStay
  <2>3. ASSUME NEW l, Goto(w, l) PROVE OthersStay(w)
    BY <2>2, <2>3 DEF Goto
  <2>4. ASSUME NEW ok, Proceed(w, ok) PROVE OthersStay(w)
    BY <2>2, <2>4 DEF Proceed
  <2>5. ASSUME Raise(w) PROVE OthersStay(w)
    BY <2>2, <2>3, <2>5 DEF Raise, Throw, Settle
  <2>6. CASE SelectProject(w)
    BY <2>2, <2>3, <2>6 DEF SelectProject, Throw, Settle
  <2>7. CASE SetEntry(w)
    BY <2>2, <2>3, <2>7 DEF SetEntry, Throw, Settle
  <2>8. CASE SetDeploying(w)
    BY <2>2, <2>8 DEF SetDeploying
  <2>9. CASE CreateObject(w)
    BY <2>3, <2>4, <2>5, <2>9 DEF CreateObject, Accepted
  <2>10. CASE ReplaceObject(w)
    BY <2>4, <2>10 DEF ReplaceObject, Accepted
  <2>11. CASE SetRunning(w) \/ SetFailed(w)
    BY <2>3, <2>11 DEF SetRunning, SetFailed
  <2>12. CASE MarkDone(w) \/ CrashWorker(w)
    BY <2>2, <2>12 DEF MarkDone, CrashWorker, Settle
  <2>13. CASE QueryFails(w) \/ LostAnswer(w)
    BY <2>5, <2>13 DEF QueryFails, LostAnswer
  <2> QED BY <2>1, <2>6, <2>7, <2>8, <2>9, <2>10, <2>11, <2>12, <2>13 DEF WorkerStep
<1>5. \A d \in Deploys : entry'[d] # entry[d] => Busy(w) /\ d = worker[w].deploy
  <2>1. CASE SetEntry(w)
    BY <1>1, <2>1 DEF SetEntry, WriteEntry, At, Busy
  <2>2. CASE LostAnswer(w)
    BY <1>1, <2>2 DEF LostAnswer, WriteEntry, At, Busy
  <2> QED BY <2>1, <2>2 DEF WorkerStep, CrashWorker, FetchJob, SelectProject, SetDeploying,
          SetRunning, SetFailed, MarkDone, QueryFails, CreateObject, ReplaceObject
<1> QED BY <1>3, <1>4, <1>5, <1>6

\* Who is at a call after the create of the Deployment has passed it.
LEMMA OwnProgress ==
  ASSUME CompletedInv, NEW w \in Workers, WorkerStep(w) \/ CrashWorker(w)
  PROVE  /\ Applied(w)' => kube'[ProjectAt(w)'] # NoTag
         /\ At(w, "markDone")' /\ Exists(ProjectAt(w))' => entry'[worker'[w].deploy] = "completed"
<1> USE DeployAssumption
<1>1. /\ kube \in [Projects -> Tags] /\ worker \in [Workers -> WorkerState]
      /\ entry \in [Deploys -> {"pending", "running", "completed", "failed"}]
  BY DEF CompletedInv, Shape, JobsShape, DataShape
<1>2. Busy(w) => worker[w].deploy \in Deploys /\ ProjectAt(w) \in Projects
  BY DEF CompletedInv, Shape, JobsShape, WorkersOK, ProjectAt
<1>3. Applied(w) => kube[ProjectAt(w)] # NoTag
  BY DEF CompletedInv, InCluster
<1>4. ASSUME worker'[w].pc \notin {"replace", "running", "entryCompleted", "markDone", "create"}
      PROVE  ~ Applied(w)' /\ ~ At(w, "markDone")'
  BY <1>4 DEF Applied, At
<1>5. ASSUME NEW l, Goto(w, l)
      PROVE  /\ worker'[w].pc = l /\ worker'[w].deploy = worker[w].deploy
             /\ worker'[w].object = worker[w].object /\ ProjectAt(w)' = ProjectAt(w)
  BY <1>1, <1>5 DEF Goto, WorkerState, ProjectAt
<1>6. ASSUME worker' = [worker EXCEPT ![w] = Idle]
      PROVE  ~ Applied(w)' /\ ~ At(w, "markDone")'
  BY <1>1, <1>4, <1>6 DEF Idle
<1>7. ASSUME Raise(w) PROVE ~ Applied(w)' /\ ~ At(w, "markDone")'
  BY <1>4, <1>5, <1>6, <1>7 DEF Raise, Throw, Settle
<1>8. CASE \E d \in Deploys : FetchJob(w, d)
  BY <1>4, <1>8, FetchEffect DEF CompletedInv
<1>9. CASE SelectProject(w)
  BY <1>4, <1>5, <1>6, <1>9 DEF SelectProject, Throw, Settle
<1>10. CASE SetEntry(w)
  <2>1. CASE At(w, "entryRunning")
    BY <1>4, <1>5, <1>10, <2>1 DEF SetEntry, At
  <2>2. CASE At(w, "entryFailed")
    BY <1>6, <1>10, <2>2 DEF SetEntry, At, Throw, Settle
  <2>3. CASE At(w, "entryCompleted")
    <3>1. /\ WriteEntry(w, "completed") /\ Goto(w, "markDone")
          /\ UNCHANGED <<row, kube>>
      BY <1>10, <2>3 DEF SetEntry, At
    <3>2. Applied(w) /\ Busy(w)
      BY <2>3 DEF Applied, At, Busy
    <3>3. Exists(ProjectAt(w)) => entry'[worker[w].deploy] = "completed"
      BY <1>1, <1>2, <3>1, <3>2 DEF WriteEntry
    <3> QED BY <1>3, <1>5, <3>1, <3>2, <3>3 DEF Exists
  <2> QED BY <1>10, <2>1, <2>2, <2>3 DEF SetEntry
<1>11. CASE SetDeploying(w)
  BY <1>1, <1>11 DEF SetDeploying, Applied, At, WorkerState
<1>12. ASSUME Busy(w), NEW ok, Proceed(w, ok)
       PROVE  /\ worker'[w].deploy = worker[w].deploy /\ ProjectAt(w)' = ProjectAt(w)
              /\ ~ At(w, "markDone")'
  BY <1>1, <1>2, <1>12 DEF Proceed, WorkerState, AfterObject, ProjectAt, At
<1>13. ASSUME Busy(w), Apply(w), NEW ok, Proceed(w, ok),
              worker[w].object # "deployment" => Applied(w)
       PROVE  kube'[ProjectAt(w)'] # NoTag /\ ~ At(w, "markDone")'
  BY <1>1, <1>2, <1>3, <1>12, <1>13 DEF Apply
<1>14. CASE CreateObject(w)
  <2>1. Busy(w) /\ At(w, "create") /\ (worker[w].object # "deployment" => Applied(w))
    BY <1>14 DEF CreateObject, At, Busy, Applied
  <2>2. CASE Accepted(w)
    BY <1>13, <2>1, <2>2 DEF Accepted
  <2>3. CASE Goto(w, "replace") /\ UNCHANGED kube
             /\ (worker[w].object = "deployment" => kube[ProjectAt(w)] # NoTag)
    BY <1>3, <1>5, <2>1, <2>3 DEF At
  <2>4. CASE worker[w].object = "ingress" /\ Proceed(w, TRUE) /\ (UNCHANGED kube \/ Apply(w))
    BY <1>3, <1>12, <1>13, <2>1, <2>4
  <2>5. CASE Raise(w)
    BY <1>7, <2>5
  <2> QED BY <1>14, <2>2, <2>3, <2>4, <2>5 DEF CreateObject
<1>15. CASE ReplaceObject(w)
  <2>1. Busy(w) /\ Applied(w)
    BY <1>15 DEF ReplaceObject, At, Busy, Applied
  <2> QED BY <1>3, <1>12, <1>13, <1>15, <2>1 DEF ReplaceObject, Accepted
<1>16. CASE SetRunning(w)
  <2>1. Applied(w)
    BY <1>16 DEF SetRunning, At, Applied
  <2> QED BY <1>3, <1>5, <1>16, <2>1 DEF SetRunning, At
<1>17. CASE SetFailed(w)
  BY <1>4, <1>5, <1>17 DEF SetFailed
<1>18. CASE MarkDone(w) \/ CrashWorker(w)
  BY <1>6, <1>18 DEF MarkDone, CrashWorker, Settle
<1>19. CASE QueryFails(w) \/ LostAnswer(w)
  BY <1>7, <1>19 DEF QueryFails, LostAnswer
<1> QED BY <1>8, <1>9, <1>10, <1>11, <1>14, <1>15, <1>16, <1>17, <1>18, <1>19 DEF WorkerStep

LEMMA WorkerCompleted ==
  ASSUME CompletedInv, Shape', NEW w \in Workers, WorkerStep(w) \/ CrashWorker(w)
  PROVE  InCluster' /\ EntryDone' /\ CompletedEverywhere'
<1> USE DeployAssumption
<1>1. /\ Shape /\ Lasting /\ OthersStay(w)
      /\ \A d \in Deploys : entry'[d] # entry[d] => Busy(w) /\ d = worker[w].deploy
      /\ \A d \in Deploys : job'[d].state = "completed" =>
           job[d].state = "completed" \/ (At(w, "markDone") /\ d = worker[w].deploy)
  BY WorkerEffect DEF CompletedInv
<1>2. \A v \in Workers : Busy(v) => worker[v].deploy \in Deploys /\ ProjectAt(v) \in Projects
  BY <1>1 DEF Shape, JobsShape, WorkersOK, ProjectAt
<1>3. \A v \in Workers : Applied(v) \/ At(v, "markDone") => Busy(v)
  BY DEF Applied, At, Busy
<1>4. ASSUME NEW v \in Workers, v # w, Applied(v)' PROVE kube'[ProjectAt(v)'] # NoTag
  <2>1. Applied(v) /\ ProjectAt(v)' = ProjectAt(v)
    BY <1>1, <1>4 DEF OthersStay, Applied, ProjectAt
  <2> QED BY <1>1, <1>2, <1>3, <2>1 DEF CompletedInv, InCluster, Lasting
<1>5. InCluster'
  BY <1>4, OwnProgress DEF InCluster
<1>6. ASSUME NEW v \in Workers, v # w, At(v, "markDone")', Exists(ProjectAt(v))'
      PROVE  entry'[worker'[v].deploy] = "completed" \/ job'[worker'[v].deploy].lost
  <2>1. /\ At(v, "markDone") /\ worker'[v].deploy = worker[v].deploy
        /\ ProjectAt(v)' = ProjectAt(v)
    BY <1>1, <1>6 DEF OthersStay, At, ProjectAt
  <2>2. Busy(v) /\ Exists(ProjectAt(v)) /\ worker[v].deploy \in Deploys
    BY <1>1, <1>2, <1>3, <1>6, <2>1 DEF Lasting, Exists
  <2>3. CASE job[worker[v].deploy].lost
    BY <1>1, <2>1, <2>2, <2>3 DEF Lasting
  <2>4. CASE ~ job[worker[v].deploy].lost
    <3>1. entry[worker[v].deploy] = "completed"
      BY <2>1, <2>2, <2>4 DEF CompletedInv, EntryDone
    <3>2. Busy(w) => worker[v].deploy # worker[w].deploy
      BY <1>1, <1>6, <2>2, <2>4 DEF Shape, JobsShape, WorkersOK
    <3> QED BY <1>1, <2>1, <2>2, <3>1, <3>2
  <2> QED BY <2>3, <2>4
<1>7. EntryDone'
  BY <1>6, OwnProgress DEF EntryDone
<1>8. ASSUME NEW d \in Deploys, job'[d].state = "completed", Exists(ProjectOf[d])'
      PROVE  /\ kube'[ProjectOf[d]] # NoTag
             /\ entry'[d] = "completed" \/ job'[d].lost
  <2>1. ProjectOf[d] \in Projects /\ Exists(ProjectOf[d])
    BY <1>1, <1>8 DEF Lasting
  <2>2. kube[ProjectOf[d]] # NoTag /\ (entry[d] = "completed" \/ job[d].lost)
    <3>1. CASE job[d].state = "completed"
      BY <2>1, <3>1 DEF CompletedInv, CompletedEverywhere
    <3>2. CASE At(w, "markDone") /\ d = worker[w].deploy
      BY <2>1, <3>2 DEF CompletedInv, EntryDone, InCluster, Applied, At, ProjectAt
    <3> QED BY <1>1, <1>8, <3>1, <3>2
  <2>3. job[d].lost \/ entry'[d] = entry[d]
    <3>1. CASE job[d].state = "completed"
      <4>1. \A v \in Workers : v # NoWorker
        BY DeployAssumption
      <4> QED BY <1>1, <3>1, <4>1 DEF Shape, JobsShape, WorkersOK
    <3>2. CASE At(w, "markDone")
      BY <3>2 DEF WorkerStep, CrashWorker, FetchJob, SelectProject, SetEntry, SetDeploying,
           CreateObject, ReplaceObject, SetRunning, SetFailed, MarkDone, QueryFails, LostAnswer, At
    <3> QED BY <1>1, <1>8, <3>1, <3>2
  <2> QED BY <1>1, <2>1, <2>2, <2>3 DEF Lasting
<1> QED BY <1>5, <1>7, <1>8 DEF CompletedEverywhere

\* All other steps leave the executions, the entries and the cluster alone.
OtherStep ==
  \/ \E d \in Deploys : Enqueue(d) \/ StallJob(d) \/ LoseLock(d) \/ BuildImage(d)
  \/ \E p \in Projects : UpdateProject(p) \/ DeleteProject(p)
  \/ ReconcileStep
  \/ UNCHANGED vars

LEMMA SplitNext ==
  ASSUME [Next]_vars
  PROVE  OtherStep \/ \E w \in Workers : WorkerStep(w) \/ CrashWorker(w)
  BY DEF Next, DeployStep, DeployNext, OtherStep

\* The rows of a pass: its COMMIT writes nothing but the observed status.
LEMMA CommitKeeps ==
  ASSUME Shape, ReconcileStep
  PROVE  \A p \in Projects : row'[p].status = row[p].status /\ row'[p].tag = row[p].tag
<1>1. row \in [Projects -> RowState]
  BY DEF Shape, DataShape
<1>2. CASE Commit
  <2> SUFFICES ASSUME NEW p \in Projects
               PROVE  row'[p].status = row[p].status /\ row'[p].tag = row[p].tag
    OBVIOUS
  <2>1. row[p] \in RowState
    BY <1>1
  <2>2. row'[p] = IF pass.open /\ p \in DOMAIN pass.write
                  THEN [row[p] EXCEPT !.observed = pass.write[p]] ELSE row[p]
    BY <1>2 DEF Commit
  <2> QED BY <2>1, <2>2 DEF RowState
<1> QED BY <1>2 DEF ReconcileStep, PassStep, FetchProjects, ObservePod, DeletePod,
        CorrectNothing, UpdateObserved, LoseConnection, CrashDaemon

LEMMA OtherEffect ==
  ASSUME Shape, OtherStep
  PROVE  /\ UNCHANGED <<worker, entry, kube>> /\ Lasting
         /\ \A d \in Deploys : job'[d].state = "completed" => job[d].state = "completed"
<1> USE DeployAssumption
<1>1. row \in [Projects -> RowState] /\ job \in [Deploys -> JobState]
  BY DEF Shape, JobsShape, DataShape
<1>2. ASSUME NEW d \in Deploys, NEW s, s # "completed", job' = [job EXCEPT ![d].state = s]
      PROVE  \A e \in Deploys : /\ job'[e].lost = job[e].lost
                                /\ job'[e].state = "completed" => job[e].state = "completed"
  BY <1>1, <1>2 DEF JobState
<1>3. ASSUME NEW d \in Deploys, BuildImage(d) \/ Enqueue(d)
      PROVE  /\ UNCHANGED <<worker, entry, kube>> /\ Lasting
             /\ \A e \in Deploys : job'[e].state = "completed" => job[e].state = "completed"
  <2>1. \A q \in Projects : Exists(q)' => Exists(q)
    BY <1>1, <1>3, WriteRowLasts DEF BuildImage, Enqueue, Exists
  <2>2. \A e \in Deploys : /\ job'[e].lost = job[e].lost
                           /\ job'[e].state = "completed" => job[e].state = "completed"
    BY <1>2, <1>3 DEF BuildImage, Enqueue
  <2> QED BY <1>3, <2>1, <2>2 DEF Lasting, BuildImage, Enqueue
<1>7. ASSUME NEW d \in Deploys, StallJob(d) \/ LoseLock(d)
      PROVE  /\ UNCHANGED <<worker, entry, kube>> /\ Lasting
             /\ \A e \in Deploys : job'[e].state = "completed" => job[e].state = "completed"
  <2>1. PICK lost : Redeliver(d, lost) /\ (job[d].lost => lost)
    BY <1>7 DEF StallJob, LoseLock
  <2>2. \A e \in Deploys : /\ job[e].lost => job'[e].lost
                           /\ job'[e].state = "completed" => job[e].state = "completed"
    <3>1. job'[d].lost = lost /\ job'[d].state \in {"waiting", "failed"}
      BY <1>1, <2>1 DEF Redeliver
    <3>2. \A e \in Deploys \ {d} : job'[e] = job[e]
      BY <1>1, <2>1 DEF Redeliver
    <3> QED BY <2>1, <3>1, <3>2
  <2> QED BY <1>7, <2>2 DEF Lasting, StallJob, LoseLock, Exists
<1>4. ASSUME NEW p \in Projects, UpdateProject(p) \/ DeleteProject(p)
      PROVE  UNCHANGED <<worker, entry, kube, job>> /\ Lasting
  <2>1. \A q \in Projects : Exists(q)' => Exists(q)
    BY <1>1, <1>4, WriteRowLasts DEF UpdateProject, DeleteProject
  <2> QED BY <1>4, <2>1 DEF Lasting, UpdateProject, DeleteProject
<1>5. CASE ReconcileStep
  BY <1>5, CommitKeeps DEF ReconcileStep, Lasting, Exists
<1>6. CASE UNCHANGED vars
  BY <1>6 DEF vars, Lasting, Exists
<1> QED BY <1>3, <1>4, <1>5, <1>6, <1>7 DEF OtherStep

LEMMA OtherCompleted ==
  ASSUME CompletedInv, OtherStep
  PROVE  InCluster' /\ EntryDone' /\ CompletedEverywhere'
<1> USE DeployAssumption
<1>1. /\ UNCHANGED <<worker, entry, kube>> /\ Lasting /\ Shape
      /\ \A d \in Deploys : job'[d].state = "completed" => job[d].state = "completed"
  BY OtherEffect DEF CompletedInv
<1>2. InCluster'
  BY <1>1 DEF CompletedInv, InCluster, Applied, ProjectAt
<1>3. \A w \in Workers : At(w, "markDone") => ProjectAt(w) \in Projects
  BY <1>1 DEF Shape, JobsShape, WorkersOK, ProjectAt, At, Busy
<1>4. EntryDone'
  BY <1>1, <1>3 DEF CompletedInv, EntryDone, At, Busy, ProjectAt, Lasting, Exists,
                    Shape, JobsShape, WorkersOK
<1>5. CompletedEverywhere'
  BY <1>1 DEF CompletedInv, CompletedEverywhere, Lasting, Exists
<1> QED BY <1>2, <1>4, <1>5

LEMMA NextCompleted == CompletedInv /\ [Next]_vars => CompletedInv'
<1> SUFFICES ASSUME CompletedInv, [Next]_vars PROVE CompletedInv'
  OBVIOUS
<1>1. Shape'
  BY NextShape DEF CompletedInv
<1> QED BY <1>1, SplitNext, WorkerCompleted, OtherCompleted DEF CompletedInv

\* A deploy job that is reported completed has its Deployment in the cluster,
\* through every retry, redelivery, crash and deletion, and its row completed
\* unless an execution went on without the lock of the job: the calls come in
\* an order that cannot skip either, and only the holder of the lock ends a job.
THEOREM CompletedIsDone == Spec => []CompletedEverywhere
<1>1. Init => CompletedInv
  BY InitShape, InitCompleted DEF CompletedInv
<1>2. CompletedInv => CompletedEverywhere
  BY DEF CompletedInv
<1> QED BY <1>1, <1>2, NextCompleted, PTL DEF Spec

-----------------------------------------------------------------------------
(* The row of a project that runs, and the cluster.                        *)

\* Between its two writes to the row.
Applying(w) == worker[w].pc \in {"create", "replace", "running"}
Applier(w) ==
  \/ worker[w].pc = "running"
  \/ worker[w].pc \in {"create", "replace"} /\ worker[w].object # "deployment"

SoundAlone ==
  \A v, w \in Workers :
    Busy(v) /\ Busy(w) /\ worker[w].sound /\ ProjectAt(v) = ProjectAt(w) => v = w
SoundApplied ==
  \A w \in Workers : Applier(w) /\ worker[w].sound => kube[ProjectAt(w)] = worker[w].deploy

\* Until a deploy has said so itself, its project does not run soundly.
Unsettled ==
  \A w \in Workers : Applying(w) =>
    ~ (row[ProjectAt(w)].status = "running" /\ sound[ProjectAt(w)])
RunningInv == Shape /\ SoundAlone /\ SoundApplied /\ Unsettled /\ RunningIsApplied


LEMMA InitRunning == Init => SoundAlone /\ SoundApplied /\ Unsettled /\ RunningIsApplied
  BY DEF Init, DeployInit, SoundAlone, SoundApplied, Unsettled, RunningIsApplied, Applying,
         Applier, Busy, Idle

\* Only one write says running, and only the two applies change the cluster.
LEMMA RowEffect ==
  ASSUME Shape, NEW w \in Workers, WorkerStep(w) \/ CrashWorker(w)
  PROVE  /\ \A q \in Projects : row'[q].status = "running" =>
              \/ /\ row[q].status = "running" /\ row'[q].tag = row[q].tag
                 /\ sound'[q] = sound[q]
              \/ /\ At(w, "running") /\ RowRunning(w) /\ q = ProjectAt(w)
                 /\ row'[q].tag = worker[w].deploy /\ sound'[q] = worker[w].sound
         /\ \A q \in Projects : kube'[q] # kube[q] =>
              /\ worker[w].pc \in {"create", "replace"} /\ q = ProjectAt(w)
              /\ UNCHANGED <<row, sound>>
<1>1. /\ row \in [Projects -> RowState] /\ kube \in [Projects -> Tags]
      /\ sound \in [Projects -> BOOLEAN]
  BY DEF Shape, DataShape
<1>2. Busy(w) => worker[w].deploy \in Deploys /\ ProjectAt(w) \in Projects
  BY DeployAssumption DEF Shape, JobsShape, WorkersOK, ProjectAt
<1>3. ASSUME NEW p \in Projects, NEW r, r.status # "running", WriteRow(p, r), NEW q \in Projects,
             row'[q].status = "running"
      PROVE  row'[q] = row[q]
  BY <1>1, <1>3 DEF WriteRow
<1>4. ASSUME RowRunning(w), Busy(w), UNCHANGED kube, At(w, "running")
      PROVE  \A q \in Projects : row'[q].status = "running" =>
               \/ row'[q] = row[q] /\ sound'[q] = sound[q]
               \/ /\ q = ProjectAt(w)
                  /\ row'[q].tag = worker[w].deploy /\ sound'[q] = worker[w].sound
  <2> DEFINE p == ProjectAt(w)
             r == [row[p] EXCEPT !.status = "running", !.observed = "running",
                                 !.tag = worker[w].deploy]
  <2>1. /\ p \in Projects /\ WriteRow(p, r) /\ sound' = [sound EXCEPT ![p] = worker[w].sound]
        /\ UNCHANGED kube
    BY <1>2, <1>4 DEF RowRunning
  <2>2. row[p] \in RowState /\ r.tag = worker[w].deploy
    BY <1>1, <2>1 DEF RowState
  <2>3. \A q \in Projects : q # p => row'[q] = row[q] /\ sound'[q] = sound[q]
    BY <1>1, <2>1 DEF WriteRow
  <2>4. sound'[p] = worker[w].sound
    BY <1>1, <2>1
  <2>5. row'[p].status = "running" => row'[p].tag = worker[w].deploy
    <3> HIDE DEF r
    <3>1. Exists(p) => row'[p] = r
      BY <1>1, <2>1 DEF WriteRow
    <3>2. ~ Exists(p) => row'[p].status = "deleted"
      BY <2>1 DEF WriteRow, Exists
    <3> QED BY <2>2, <3>1, <3>2
  <2> QED BY <2>1, <2>3, <2>4, <2>5
<1>5. ASSUME RowDeploying(w) \/ RowFailed(w), Busy(w)
      PROVE  \A q \in Projects : row'[q].status = "running" => row'[q] = row[q]
  <2> DEFINE p == ProjectAt(w)
  <2>1. p \in Projects /\ row[p] \in RowState
    BY <1>1, <1>2, <1>5
  <2>2. PICK r : WriteRow(p, r) /\ r.status # "running"
    <3>1. [row[p] EXCEPT !.status = "deploying"].status = "deploying"
      BY <2>1 DEF RowState
    <3>2. [row[p] EXCEPT !.status = "failed", !.observed = "failed"].status = "failed"
      BY <2>1 DEF RowState
    <3> QED BY <1>5, <3>1, <3>2 DEF RowDeploying, RowFailed
  <2> QED BY <1>3, <2>1, <2>2
<1>8. CASE SetRunning(w)
  BY <1>4, <1>8 DEF SetRunning, At, Busy
<1>9. CASE SetDeploying(w) \/ SetFailed(w)
  BY <1>5, <1>9 DEF SetDeploying, SetFailed, At, Busy
<1>10. CASE LostAnswer(w)
  <2>1. Busy(w) /\ UNCHANGED kube
    BY <1>10 DEF LostAnswer, At, Busy
  <2>2. CASE UNCHANGED <<row, sound>>
    BY <2>1, <2>2
  <2>3. CASE (RowDeploying(w) \/ RowFailed(w)) /\ UNCHANGED sound
    BY <1>5, <2>1, <2>3
  <2>4. CASE At(w, "running") /\ RowRunning(w)
    BY <1>4, <2>1, <2>4
  <2> QED BY <1>10, <2>2, <2>3, <2>4 DEF LostAnswer
<1>6. CASE CreateObject(w) \/ ReplaceObject(w)
  <2>1. UNCHANGED <<row, sound>> /\ Busy(w) /\ worker[w].pc \in {"create", "replace"}
    BY <1>6 DEF CreateObject, ReplaceObject, At, Busy
  <2>2. \A q \in Projects : kube'[q] # kube[q] => q = ProjectAt(w)
    <3>1. Apply(w) => \A q \in Projects : kube'[q] # kube[q] => q = ProjectAt(w)
      BY <1>1, <1>2, <2>1 DEF Apply
    <3> QED BY <1>6, <3>1 DEF CreateObject, ReplaceObject, Accepted
  <2> QED BY <2>1, <2>2
<1>7. CASE UNCHANGED <<row, kube, sound>>
  BY <1>7
<1> QED BY <1>6, <1>7, <1>8, <1>9, <1>10 DEF WorkerStep, CrashWorker, FetchJob, SelectProject,
        SetEntry, MarkDone, QueryFails

\* A step of an execution keeps its deploy, and never makes it sound again.
LEMMA OwnSound ==
  ASSUME RunningInv, NEW w \in Workers, WorkerStep(w) \/ CrashWorker(w),
         ~ \E d \in Deploys : FetchJob(w, d)
  PROVE  /\ Busy(w)' => /\ Busy(w) /\ worker'[w].deploy = worker[w].deploy
                        /\ worker'[w].sound => worker[w].sound
         /\ Applying(w)' => Applying(w) \/ SetDeploying(w)
         /\ Applier(w)' /\ worker'[w].sound => kube'[ProjectAt(w)] = worker[w].deploy
<1>1. kube \in [Projects -> Tags] /\ worker \in [Workers -> WorkerState]
  BY DEF RunningInv, Shape, JobsShape, DataShape
<1>2. Busy(w) => worker[w].deploy \in Deploys /\ ProjectAt(w) \in Projects
  BY DeployAssumption DEF RunningInv, Shape, JobsShape, WorkersOK, ProjectAt
<1>3. Applier(w) /\ worker[w].sound => kube[ProjectAt(w)] = worker[w].deploy
  BY DEF RunningInv, SoundApplied
<1> DEFINE Same == /\ worker'[w].deploy = worker[w].deploy
                   /\ worker'[w].sound => worker[w].sound
<1>4. ASSUME NEW l, Goto(w, l)
      PROVE  Same /\ worker'[w].pc = l /\ worker'[w].object = worker[w].object
  BY <1>1, <1>4 DEF Goto, WorkerState
<1>5. ASSUME worker' = [worker EXCEPT ![w] = Idle]
      PROVE  ~ Busy(w)' /\ ~ Applying(w)' /\ ~ Applier(w)'
  BY <1>1, <1>5 DEF Idle, Busy, Applying, Applier
<1>6. ASSUME NEW l, Goto(w, l), l \notin {"create", "replace", "running"}
      PROVE  Same /\ ~ Applying(w)' /\ ~ Applier(w)'
  BY <1>4, <1>6 DEF Applying, Applier
<1>7. ASSUME Raise(w), Busy(w)
      PROVE  /\ ~ Applying(w)' /\ ~ Applier(w)'
             /\ Busy(w)' => Same
  BY <1>5, <1>6, <1>7 DEF Raise, Throw, Settle
<1>8. CASE SelectProject(w) \/ SetEntry(w)
  <2>1. Busy(w)
    BY <1>8 DEF SelectProject, SetEntry, At, Busy
  <2> QED BY <1>5, <1>6, <1>8, <2>1 DEF SelectProject, SetEntry, Throw, Settle
<1>9. CASE SetDeploying(w)
  <2>1. Busy(w) /\ worker' = [worker EXCEPT ![w].pc = "create", ![w].object = "deployment"]
    BY <1>9 DEF SetDeploying, At, Busy
  <2>2. Same /\ worker'[w].pc = "create" /\ worker'[w].object = "deployment"
    BY <1>1, <2>1 DEF WorkerState
  <2> QED BY <1>9, <2>1, <2>2 DEF Applier
<1>10. ASSUME NEW ok \in BOOLEAN, Proceed(w, ok)
       PROVE  /\ Same
              /\ worker'[w].sound => ok \/ worker[w].object # "deployment"
  BY <1>1, <1>10 DEF Proceed, WorkerState
<1>11. CASE CreateObject(w) \/ ReplaceObject(w)
  <2>1. Busy(w) /\ Applying(w) /\ (worker[w].object # "deployment" => Applier(w))
    BY <1>11 DEF CreateObject, ReplaceObject, At, Busy, Applying, Applier
  <2>2. CASE Accepted(w)
    <3>1. Proceed(w, TRUE) /\ Same
      BY <1>10, <2>2 DEF Accepted
    <3>2. worker[w].object = "deployment" => kube'[ProjectAt(w)] = worker[w].deploy
      BY <1>1, <1>2, <2>1, <2>2 DEF Accepted, Apply
    <3>3. worker[w].object # "deployment" => UNCHANGED kube
      BY <2>2 DEF Accepted, Apply
    <3> QED BY <1>3, <2>1, <3>1, <3>2, <3>3
  <2>3. CASE Goto(w, "replace") /\ UNCHANGED kube
    <3>1. Same /\ worker'[w].object = worker[w].object /\ worker'[w].pc = "replace"
      BY <1>4, <2>3
    <3> QED BY <1>3, <2>1, <2>3, <3>1 DEF Applier
  <2>7. worker[w].object # "deployment" /\ Apply(w) => UNCHANGED kube
    BY DEF Apply
  <2>4. CASE worker[w].object = "ingress" /\ Proceed(w, TRUE) /\ (UNCHANGED kube \/ Apply(w))
    BY <1>3, <1>10, <2>1, <2>4, <2>7
  <2>5. CASE Raise(w)
    BY <1>7, <2>1, <2>5
  <2>6. CASE Proceed(w, FALSE) /\ (UNCHANGED kube \/ Apply(w))
    BY <1>3, <1>10, <2>1, <2>6, <2>7
  <2> QED BY <1>11, <2>2, <2>3, <2>4, <2>5, <2>6 DEF CreateObject, ReplaceObject
<1>12. CASE SetRunning(w) \/ SetFailed(w)
  <2>1. Busy(w)
    BY <1>12 DEF SetRunning, SetFailed, At, Busy
  <2> QED BY <1>6, <1>12, <2>1 DEF SetRunning, SetFailed
<1>13. CASE MarkDone(w) \/ CrashWorker(w)
  BY <1>5, <1>13 DEF MarkDone, CrashWorker, Settle
<1>14. CASE QueryFails(w) \/ LostAnswer(w)
  <2>1. Busy(w)
    BY <1>14 DEF QueryFails, LostAnswer, At, Busy
  <2> QED BY <1>7, <1>14, <2>1 DEF QueryFails, LostAnswer
<1> QED BY <1>8, <1>9, <1>11, <1>12, <1>13, <1>14 DEF WorkerStep

LEMMA WorkerRunning ==
  ASSUME RunningInv, NEW w \in Workers, WorkerStep(w) \/ CrashWorker(w)
  PROVE  SoundAlone' /\ SoundApplied' /\ Unsettled' /\ RunningIsApplied'
<1> DEFINE Settles == At(w, "running") /\ RowRunning(w)
<1>1. /\ Shape /\ SoundAlone /\ SoundApplied /\ Unsettled /\ RunningIsApplied
      /\ OthersStay(w)
  BY WorkerEffect DEF RunningInv
<1>2. \A v \in Workers : Busy(v) => worker[v].deploy \in Deploys /\ ProjectAt(v) \in Projects
  BY <1>1, DeployAssumption DEF Shape, JobsShape, WorkersOK, ProjectAt
<1>3. \A v \in Workers \ {w} : /\ Busy(v)' <=> Busy(v)
                               /\ Applying(v)' <=> Applying(v)
                               /\ Applier(v)' <=> Applier(v)
                               /\ ProjectAt(v)' = ProjectAt(v)
                               /\ worker'[v].deploy = worker[v].deploy
                               /\ worker'[v].sound => worker[v].sound
  BY <1>1 DEF OthersStay, Busy, Applying, Applier, ProjectAt
<1>4. /\ \A q \in Projects : row'[q].status = "running" =>
           \/ /\ row[q].status = "running" /\ row'[q].tag = row[q].tag
              /\ sound'[q] = sound[q]
           \/ /\ Settles /\ q = ProjectAt(w)
              /\ row'[q].tag = worker[w].deploy /\ sound'[q] = worker[w].sound
      /\ \A q \in Projects : kube'[q] # kube[q] =>
           /\ worker[w].pc \in {"create", "replace"} /\ q = ProjectAt(w)
           /\ UNCHANGED <<row, sound>>
  BY <1>1, RowEffect
<1>5. \A v \in Workers : Applying(v) \/ Applier(v) => Busy(v)
  BY DEF Applying, Applier, Busy
<1>6. Settles => /\ Busy(w) /\ Applier(w) /\ UNCHANGED kube
                 /\ ~ Applying(w)' /\ ~ Applier(w)'
  <2> SUFFICES ASSUME At(w, "running"), RowRunning(w)
               PROVE  /\ Busy(w) /\ Applier(w) /\ UNCHANGED kube
                      /\ ~ Applying(w)' /\ ~ Applier(w)'
    OBVIOUS
  <2>1. Busy(w) /\ Applier(w) /\ Caught(w)
    BY DEF At, Busy, Applier, Caught
  <2>2. ~ \E d \in Deploys : FetchJob(w, d)
    BY DEF FetchJob, At
  <2>3. /\ UNCHANGED kube
        /\ \/ worker' = [worker EXCEPT ![w] = Idle]
           \/ \E l \in {"entryCompleted", "failed"} : Goto(w, l)
    BY <2>1, <2>2 DEF WorkerStep, CrashWorker, SelectProject, SetEntry, SetDeploying, CreateObject,
       ReplaceObject, SetRunning, SetFailed, MarkDone, QueryFails, LostAnswer, At, Raise
  <2>4. worker'[w].pc \in {"idle", "entryCompleted", "failed"}
    BY <1>1, <2>3, IdleWorker DEF Goto, Shape, JobsShape, WorkerState
  <2> QED BY <2>1, <2>3, <2>4 DEF Applying, Applier
<1>7. RunningIsApplied'
  <2> SUFFICES ASSUME NEW q \in Projects, row'[q].status = "running", sound'[q]
               PROVE  kube'[q] = row'[q].tag
    BY DEF RunningIsApplied
  <2>1. CASE /\ row[q].status = "running" /\ row'[q].tag = row[q].tag
             /\ sound'[q] = sound[q]
    BY <1>1, <1>4, <2>1 DEF RunningIsApplied, Unsettled, Applying
  <2>2. CASE /\ Settles /\ q = ProjectAt(w)
             /\ row'[q].tag = worker[w].deploy /\ sound'[q] = worker[w].sound
    BY <1>1, <1>6, <2>2 DEF SoundApplied
  <2> QED BY <1>4, <2>1, <2>2
<1>8. ASSUME NEW v \in Workers \ {w}, Applier(v)', worker'[v].sound
      PROVE  kube'[ProjectAt(v)'] = worker'[v].deploy
  <2>1. Applier(v) /\ worker[v].sound /\ Busy(v) /\ ProjectAt(v) \in Projects
    BY <1>2, <1>3, <1>5, <1>8
  <2>2. kube[ProjectAt(v)] = worker[v].deploy
    BY <1>1, <2>1 DEF SoundApplied
  <2>3. worker[w].pc \in {"create", "replace"} => ProjectAt(w) # ProjectAt(v)
    BY <1>1, <1>8, <2>1 DEF SoundAlone, Busy
  <2> QED BY <1>3, <1>4, <1>8, <2>1, <2>2, <2>3
<1>9. ASSUME NEW v \in Workers \ {w}, Applying(v)'
      PROVE  ~ (row'[ProjectAt(v)'].status = "running" /\ sound'[ProjectAt(v)'])
  <2>1. Applying(v) /\ Busy(v) /\ ProjectAt(v) \in Projects
    BY <1>2, <1>3, <1>5, <1>9
  <2>2. ~ (row[ProjectAt(v)].status = "running" /\ sound[ProjectAt(v)])
    BY <1>1, <2>1 DEF Unsettled
  <2>3. Settles /\ ProjectAt(w) = ProjectAt(v) => ~ worker[w].sound
    BY <1>1, <1>6, <1>9, <2>1 DEF SoundAlone
  <2> QED BY <1>3, <1>4, <1>9, <2>1, <2>2, <2>3
<1>10. CASE \E d \in Deploys : FetchJob(w, d)
  <2>1. PICK d \in Deploys : FetchJob(w, d)
    BY <1>10
  <2>2. /\ worker'[w].pc = "select" /\ worker'[w].deploy = d
        /\ worker'[w].sound => Executing(ProjectOf[d]) = {}
        /\ \A v \in Executing(ProjectOf[d]) \ {w} : ~ worker'[v].sound
        /\ worker[w].pc = "idle"
    BY <1>1, <2>1, FetchEffect DEF FetchJob, At
  <2>3. ~ Applying(w)' /\ ~ Applier(w)' /\ ProjectAt(w)' = ProjectOf[d]
    BY <2>2 DEF Applying, Applier, ProjectAt
  <2>4. ASSUME NEW u \in Workers, NEW v \in Workers, Busy(u)', Busy(v)', worker'[v].sound,
               ProjectAt(u)' = ProjectAt(v)'
        PROVE  u = v
    <3>1. CASE u # w /\ v # w
      BY <1>1, <1>3, <2>4, <3>1 DEF SoundAlone
    <3>2. CASE u # w /\ v = w
      BY <1>3, <2>2, <2>3, <2>4, <3>2 DEF Executing, Busy, ProjectAt
    <3>3. CASE u = w /\ v # w
      BY <1>3, <2>2, <2>3, <2>4, <3>3 DEF Executing, Busy, ProjectAt
    <3> QED BY <3>1, <3>2, <3>3
  <2> QED BY <1>7, <1>8, <1>9, <2>3, <2>4 DEF SoundAlone, SoundApplied, Unsettled
<1>11. CASE ~ \E d \in Deploys : FetchJob(w, d)
  <2>1. /\ Busy(w)' => /\ Busy(w) /\ worker'[w].deploy = worker[w].deploy
                       /\ worker'[w].sound => worker[w].sound
        /\ Applying(w)' => Applying(w) \/ SetDeploying(w)
        /\ Applier(w)' /\ worker'[w].sound => kube'[ProjectAt(w)] = worker[w].deploy
    BY <1>11, OwnSound
  <2>2. Busy(w)' => ProjectAt(w)' = ProjectAt(w)
    BY <2>1 DEF ProjectAt
  <2>3. (Applying(w)' => Busy(w)') /\ (Applier(w)' => Busy(w)')
    BY DEF Applying, Applier, Busy
  <2>4. SoundAlone'
    BY <1>1, <1>3, <2>1, <2>2 DEF SoundAlone
  <2>5. SoundApplied'
    BY <1>8, <2>1, <2>2, <2>3 DEF SoundApplied
  <2>6. ASSUME Applying(w)'
        PROVE  ~ (row'[ProjectAt(w)'].status = "running" /\ sound'[ProjectAt(w)'])
    <3>1. Busy(w) /\ ProjectAt(w)' = ProjectAt(w) /\ ProjectAt(w) \in Projects
      BY <1>2, <2>1, <2>2, <2>3, <2>6
    <3>2. CASE Applying(w)
      BY <1>1, <1>4, <1>6, <2>6, <3>1, <3>2 DEF Unsettled
    <3>3. CASE SetDeploying(w)
      <4> DEFINE p == ProjectAt(w)
      <4>1. row[p] \in RowState /\ row \in [Projects -> RowState]
        BY <1>1, <3>1 DEF Shape, DataShape
      <4>2. row'[p].status \in {"deploying", "deleted"}
        BY <3>1, <3>3, <4>1 DEF SetDeploying, RowDeploying, WriteRow, Exists, RowState
      <4> QED BY <3>1, <4>2
    <3> QED BY <2>1, <2>6, <3>2, <3>3
  <2>7. Unsettled'
    BY <1>9, <2>6 DEF Unsettled
  <2> QED BY <1>7, <2>4, <2>5, <2>7
<1> QED BY <1>10, <1>11

\* What the rest of the system writes into a row is not a sound 'running'.
LEMMA OtherRow ==
  ASSUME Shape, OtherStep
  PROVE  \A q \in Projects : row'[q].status = "running" /\ sound'[q] =>
           row[q].status = "running" /\ sound[q] /\ row'[q].tag = row[q].tag
<1>1. row \in [Projects -> RowState] /\ sound \in [Projects -> BOOLEAN]
  BY DEF Shape, DataShape
<1>2. ASSUME NEW p \in Projects, NEW r, WriteRow(p, r), r.status # "running",
             NEW q \in Projects, row'[q].status = "running"
      PROVE  row'[q] = row[q]
  BY <1>1, <1>2 DEF WriteRow
<1>3. CASE \E d \in Deploys : Enqueue(d) \/ StallJob(d) \/ LoseLock(d)
  BY <1>3 DEF Enqueue, StallJob, LoseLock
<1>4. ASSUME NEW d \in Deploys, BuildImage(d), NEW q \in Projects, row'[q].status = "running"
      PROVE  row'[q] = row[q] /\ UNCHANGED sound
  <2> DEFINE p == ProjectOf[d]
  <2>1. p \in Projects /\ row[p] \in RowState
    BY <1>1, DeployAssumption
  <2>2. /\ [row[p] EXCEPT !.status = "building"].status = "building"
        /\ [row[p] EXCEPT !.status = "deploying", !.tag = d].status = "deploying"
        /\ [row[p] EXCEPT !.status = "failed"].status = "failed"
    BY <2>1 DEF RowState
  <2> QED BY <1>2, <1>4, <2>1, <2>2 DEF BuildImage
<1>5. ASSUME NEW p \in Projects, DeleteProject(p), NEW q \in Projects,
             row'[q].status = "running"
      PROVE  row'[q] = row[q] /\ UNCHANGED sound
  <2>1. [row[p] EXCEPT !.status = "deleted"].status = "deleted"
    BY <1>1 DEF RowState
  <2> QED BY <1>2, <1>5, <2>1 DEF DeleteProject
<1>6. ASSUME NEW p \in Projects, UpdateProject(p), NEW q \in Projects,
             row'[q].status = "running", sound'[q]
      PROVE  row'[q] = row[q] /\ sound[q]
  <2>1. PICK s \in PatchedStatuses \cup {row[p].status}, t \in PatchedTags \cup {row[p].tag} :
          /\ WriteRow(p, [row[p] EXCEPT !.status = s, !.tag = t])
          /\ sound' = [sound EXCEPT ![p] = @ /\ s # "running"]
    BY <1>6 DEF UpdateProject
  <2>2. [row[p] EXCEPT !.status = s, !.tag = t].status = s
    BY <1>1 DEF RowState
  <2>3. CASE q # p
    BY <1>1, <1>6, <2>1, <2>3 DEF WriteRow
  <2>4. CASE q = p
    <3>1. s # "running" /\ sound[q]
      BY <1>1, <1>6, <2>1, <2>4
    <3> QED BY <1>2, <1>6, <2>1, <2>2, <3>1
  <2> QED BY <2>3, <2>4
<1>7. CASE ReconcileStep
  BY <1>1, <1>7, CommitKeeps DEF ReconcileStep
<1>8. CASE UNCHANGED vars
  BY <1>8 DEF vars
<1> QED BY <1>3, <1>4, <1>5, <1>6, <1>7, <1>8 DEF OtherStep

LEMMA OtherRunning ==
  ASSUME RunningInv, OtherStep
  PROVE  SoundAlone' /\ SoundApplied' /\ Unsettled' /\ RunningIsApplied'
<1>1. /\ Shape /\ SoundAlone /\ SoundApplied /\ Unsettled /\ RunningIsApplied
      /\ UNCHANGED <<worker, entry, kube>>
  BY OtherEffect DEF RunningInv
<1>2. \A v \in Workers : Applying(v) => ProjectAt(v) \in Projects
  BY <1>1, DeployAssumption DEF Shape, JobsShape, WorkersOK, Applying, Busy, ProjectAt
<1>3. SoundAlone' /\ SoundApplied'
  BY <1>1 DEF SoundAlone, SoundApplied, Busy, Applier, ProjectAt
<1>4. Unsettled' /\ RunningIsApplied'
  BY <1>1, <1>2, OtherRow DEF Unsettled, RunningIsApplied, Applying, ProjectAt
<1> QED BY <1>3, <1>4

LEMMA NextRunning == RunningInv /\ [Next]_vars => RunningInv'
<1> SUFFICES ASSUME RunningInv, [Next]_vars PROVE RunningInv'
  OBVIOUS
<1>1. Shape'
  BY NextShape DEF RunningInv
<1> QED BY <1>1, SplitNext, WorkerRunning, OtherRunning DEF RunningInv

\* A project that says it runs an image has it in its Deployment, unless its last
\* deploy overlapped with another one of it or had its replace refused, or an
\* operator wrote the status or the image since.
THEOREM RunningImageIsApplied == Spec => []RunningIsApplied
<1>1. Init => RunningInv
  BY InitShape, InitRunning DEF RunningInv
<1>2. RunningInv => RunningIsApplied
  BY DEF RunningInv
<1> QED BY <1>1, <1>2, NextRunning, PTL DEF Spec
=============================================================================
