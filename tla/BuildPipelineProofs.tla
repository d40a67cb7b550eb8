------------------------- MODULE BuildPipelineProofs -------------------------
(***************************************************************************)
(* Theorems about BuildPipeline, for every set of projects, builds,        *)
(* requests and workers and every choice of faults.                        *)
(*                                                                         *)
(* The inductive invariant has layers. Shape says that every step of the   *)
(* pipeline holds on to a build that was inserted for a project; it is     *)
(* what TypeOK needs to be inductive. Ownership says which execution holds *)
(* which job; with SoleExecutor it carries ImagePushed. FirstVerdict,      *)
(* DoneIsSuccess and WedgeHeld follow one execution from its first write   *)
(* to markDone; they carry what the rows and the queue say of each other.  *)
(***************************************************************************)
EXTENDS BuildPipeline, SequenceTheorems, TLAPS

\* A build some row was inserted for; the row may be gone since.
Known(b) == b \in Builds /\ build[b].project \in Projects

RowsOK == \A b \in Builds : (build[b].status = "none") <=> ~Known(b)

RequestsOK == \A r \in Requests :
  /\ request[r].pc = "insert" => request[r].project \in Projects
  /\ request[r].pc = "enqueue" => Known(request[r].build)

QueueOK ==
  /\ \A i \in 1..Len(waiting) : Known(waiting[i])
  /\ \A b \in Builds : job[b].state # "none" => Known(b)

Tagged == {"create", "recreate", "poll", "setDeploying", "setSuccess"}

WorkersOK == \A w \in Workers :
  /\ worker[w].pc \in {"idle", "down"} => worker[w].build = NoBuild
  /\ worker[w].pc \notin {"idle", "down"} => Known(worker[w].build)
  /\ worker[w].pc \in Tagged => worker[w].tag # 0

Shape == TypeOK /\ RowsOK /\ RequestsOK /\ QueueOK /\ WorkersOK

-----------------------------------------------------------------------------
LEMMA InitShape == Init => Shape
  BY ConstantsAssumption
  DEF ConstantsAssumption, Init, Shape, TypeOK, RowsOK, RequestsOK, QueueOK,
      WorkersOK, Known, Tagged, ProjectRow, BuildRow, Handler, QueueJob,
      Execution, KubeJob, ProjectStatus, NoJob, JobFor, Image

\* Steps of triggerBuild.
LEMMA RequestShape ==
  ASSUME Shape, NEW r \in Requests,
         \/ \E p \in Projects : CheckProject(r, p)
         \/ \E b \in Builds : InsertBuild(r, b)
         \/ EnqueueBuild(r)
         \/ AbandonRequest(r)
  PROVE  Shape'
<1> USE DEF Shape, TypeOK, dbVars, queueVars, kubeVars, RequestDone
<1>1. ASSUME NEW p \in Projects, CheckProject(r, p) PROVE Shape'
  <2>1. request' \in [Requests -> Handler] /\ RequestsOK'
    BY <1>1 DEF CheckProject, Handler, RequestsOK, Known
  <2> QED BY <1>1, <2>1 DEF CheckProject, RowsOK, QueueOK, WorkersOK, Known
<1>2. ASSUME NEW b \in Builds, InsertBuild(r, b) PROVE Shape'
  <2>1. request[r].project \in Projects
    BY <1>2 DEF InsertBuild, RequestsOK
  <2>2. build' \in [Builds -> BuildRow] /\ RowsOK'
    BY <1>2, <2>1 DEF InsertBuild, BuildRow, RowsOK, Known
  <2>3. \A c \in Builds : Known(c) => Known(c)'
    BY <1>2, <2>1 DEF InsertBuild, Known
  <2>4. Known(b)'
    BY <1>2, <2>1 DEF InsertBuild, Known
  <2>5. request' \in [Requests -> Handler] /\ RequestsOK'
    BY <1>2, <2>1, <2>3, <2>4 DEF InsertBuild, Handler, RequestsOK, Known
  <2> QED BY <1>2, <2>2, <2>3, <2>5 DEF InsertBuild, QueueOK, WorkersOK, Known
<1>3. ASSUME EnqueueBuild(r) PROVE Shape'
  <2> DEFINE b == request[r].build
  <2>1. Known(b)
    BY <1>3 DEF EnqueueBuild, RequestsOK
  <2>2. /\ waiting' = Append(waiting, b)
        /\ job' = [job EXCEPT ![b].state = "waiting"]
        /\ UNCHANGED <<project, build, worker, kube, pods, pushed, clock, unheard>>
    BY <1>3 DEF EnqueueBuild
  <2>3. request' \in [Requests -> Handler] /\ RequestsOK'
    BY <1>3, <2>2 DEF EnqueueBuild, Handler, RequestsOK, Known
  <2>4. /\ waiting' \in Seq(Builds)
        /\ \A i \in 1..Len(waiting') :
             waiting'[i] = b \/ \E j \in 1..Len(waiting) : waiting'[i] = waiting[j]
    BY <2>1, <2>2 DEF Known
  <2>5. job' \in [Builds -> QueueJob]
    <3>1. b \in Builds /\ job[b] \in QueueJob
      BY <2>1 DEF Known
    <3>2. [job[b] EXCEPT !.state = "waiting"] \in QueueJob
      BY <3>1 DEF QueueJob
    <3> QED BY <2>2, <3>1, <3>2
  <2>6. \A c \in Builds : c # b => job'[c].state = job[c].state
    BY <2>2
  <2> HIDE DEF b
  <2>7. QueueOK'
    <3>1. \A i \in 1..Len(waiting') :
            waiting'[i] \in Builds /\ build[waiting'[i]].project \in Projects
      BY <2>1, <2>4 DEF QueueOK, Known
    <3>2. \A c \in Builds : job'[c].state # "none" => build[c].project \in Projects
      BY <2>1, <2>6 DEF QueueOK, Known
    <3> QED BY <2>2, <3>1, <3>2 DEF QueueOK, Known
  <2> QED BY <2>2, <2>3, <2>4, <2>5, <2>7 DEF RowsOK, WorkersOK, Known
<1>4. ASSUME AbandonRequest(r) PROVE Shape'
  <2>1. request' \in [Requests -> Handler] /\ RequestsOK'
    BY <1>4 DEF AbandonRequest, Handler, RequestsOK, Known
  <2> QED BY <1>4, <2>1 DEF AbandonRequest, RowsOK, QueueOK, WorkersOK, Known
<1> QED BY <1>1, <1>2, <1>3, <1>4

\* Steps of the project endpoints.
LEMMA ProjectShape ==
  ASSUME Shape, NEW p \in Projects,
         (\E s \in PatchedStatuses : UpdateProject(p, s)) \/ DeleteProject(p)
  PROVE  Shape'
<1> USE DEF Shape, TypeOK, queueVars, kubeVars
<1>1. ASSUME NEW s \in PatchedStatuses, UpdateProject(p, s) PROVE Shape'
  <2>1. project' \in [Projects -> ProjectRow]
    BY <1>1, ConstantsAssumption
    DEF UpdateProject, ProjectRow, ConstantsAssumption
  <2> QED BY <1>1, <2>1
          DEF UpdateProject, RowsOK, RequestsOK, QueueOK, WorkersOK, Known
<1>2. ASSUME DeleteProject(p) PROVE Shape'
  <2>1. project' \in [Projects -> ProjectRow]
    BY <1>2 DEF DeleteProject, ProjectRow
  <2>2. /\ build' \in [Builds -> BuildRow]
        /\ \A b \in Builds : build'[b].project = build[b].project
        /\ RowsOK'
    BY <1>2 DEF DeleteProject, BuildRow, RowsOK, Known
  <2> QED BY <1>2, <2>1, <2>2 DEF DeleteProject, RequestsOK, QueueOK, WorkersOK, Known
<1> QED BY <1>1, <1>2

-----------------------------------------------------------------------------
(* Steps of a worker: what each helper of BuildPipeline preserves.         *)

KeepsPayloads == \A b \in Builds : build'[b].project = build[b].project
Busy == {"markRunning", "setBuilding", "setRunning", "create", "recreate",
         "poll", "setDeploying", "setSuccess", "setFailed", "setBuildFailed",
         "markDone", "markFailed", "stub"}

LEMMA SetProjectOK ==
  ASSUME project \in [Projects -> ProjectRow],
         NEW p \in Projects, NEW s \in ProjectStatus, NEW t \in Nat,
         SetProject(p, s, t)
  PROVE  project' \in [Projects -> ProjectRow]
  BY DEF SetProject, ProjectRow

LEMMA SetBuildOK ==
  ASSUME build \in [Builds -> BuildRow], RowsOK, NEW b, Known(b),
         NEW s \in {"running", "success", "failed"}, NEW t \in Nat,
         SetBuild(b, s, t)
  PROVE  build' \in [Builds -> BuildRow] /\ RowsOK' /\ KeepsPayloads
  BY DEF SetBuild, BuildRow, RowsOK, Known, KeepsPayloads

LEMMA GotoOK ==
  ASSUME worker \in [Workers -> Execution], WorkersOK, KeepsPayloads,
         NEW w \in Workers, worker[w].pc \in Busy, NEW pc \in Busy,
         pc \in Tagged => worker[w].pc \in Tagged, Goto(w, pc)
  PROVE  worker' \in [Workers -> Execution] /\ WorkersOK'
  BY DEF Goto, Execution, WorkersOK, KeepsPayloads, Known, Busy, Tagged

LEMMA SettleOK ==
  ASSUME Shape, KeepsPayloads, NEW w \in Workers, worker[w].pc \in Busy,
         NEW s \in {"completed", "failed"}, Settle(w, s)
  PROVE  /\ worker' \in [Workers -> Execution] /\ WorkersOK'
         /\ job' \in [Builds -> QueueJob]
         /\ QueueOK'
<1>1. Known(worker[w].build)
  BY DEF Shape, WorkersOK, Busy
<1>2. worker' \in [Workers -> Execution] /\ WorkersOK'
  BY DEF Settle, Shape, TypeOK, Execution, WorkersOK, KeepsPayloads, Known,
         Busy, Tagged
<1> DEFINE b0 == worker[w].build
<1>6. \/ job' = job
      \/ job' = [job EXCEPT
           ![b0] = [state |-> s, owner |-> NoWorker, stalls |-> job[b0].stalls]]
         /\ job[b0].state = "active"
  BY DEF Settle, SetJob
<1>3. job' \in [Builds -> QueueJob]
  <2>1. job \in [Builds -> QueueJob] /\ b0 \in Builds
    BY <1>1 DEF Shape, TypeOK, Known
  <2>2. [state |-> s, owner |-> NoWorker, stalls |-> job[b0].stalls] \in QueueJob
    BY <2>1 DEF QueueJob
  <2> QED BY <1>6, <2>1, <2>2
<1>4. \A b \in Builds : job[b].state = "none" => job'[b].state = "none"
  BY <1>1, <1>6 DEF Shape, TypeOK, Known
<1>5. QueueOK'
  BY <1>3, <1>4 DEF Settle, Shape, TypeOK, QueueOK, KeepsPayloads, Known
<1> QED BY <1>2, <1>3, <1>5

\* The rest of Shape once the worker has moved and payloads are kept.
LEMMA FrameOK ==
  ASSUME Shape, KeepsPayloads, UNCHANGED <<request, waiting, job>>
  PROVE  /\ RequestsOK' /\ QueueOK'
         /\ request' \in [Requests -> Handler]
         /\ waiting' \in Seq(Builds) /\ job' \in [Builds -> QueueJob]
<1>1. RequestsOK'
  BY DEF Shape, RequestsOK, KeepsPayloads, Known
<1>2. QueueOK'
  BY DEF Shape, TypeOK, QueueOK, KeepsPayloads, Known
<1> QED BY <1>1, <1>2 DEF Shape, TypeOK

LEMMA BusyFacts ==
  ASSUME Shape, NEW w \in Workers, worker[w].pc \in Busy
  PROVE  /\ Known(worker[w].build)
         /\ ProjectOf(w) \in Projects
         /\ NameOf(w) \in Names
         /\ worker[w].tag \in Nat
         /\ worker[w].pc \in Tagged => ImageOf(w) \in Image
         /\ project[ProjectOf(w)].tag \in Nat
         /\ build[worker[w].build].tag \in Nat
<1>1. Known(worker[w].build)
  BY DEF Shape, WorkersOK, Busy
<1> QED BY <1>1, ConstantsAssumption
        DEF ConstantsAssumption, Shape, TypeOK, WorkersOK, Known, ProjectOf,
            NameOf, ImageOf, Image, Execution, ProjectRow, BuildRow, Tagged

-----------------------------------------------------------------------------
LEMMA FetchShape ==
  ASSUME Shape, NEW w \in Workers, FetchJob(w)
  PROVE  Shape'
<1> DEFINE h == Head(waiting)
<1> USE DEF Shape, TypeOK
<1>1. /\ h \in Builds
      /\ Tail(waiting) \in Seq(Builds)
      /\ \A i \in 1..Len(Tail(waiting)) :
           \E j \in 1..Len(waiting) : Tail(waiting)[i] = waiting[j]
      /\ h = waiting[1] /\ 1 \in 1..Len(waiting)
  BY DEF FetchJob
<1>2. Known(h)
  BY <1>1 DEF QueueOK
<1>3. /\ waiting' = Tail(waiting)
      /\ job' = [job EXCEPT ![h] =
           [state |-> "active", owner |-> w, stalls |-> job[h].stalls]]
      /\ worker' = [worker EXCEPT
           ![w] = [pc |-> FirstStep(w), build |-> h, tag |-> 0]]
      /\ UNCHANGED <<project, build, request, kube, pods, pushed, clock, unheard>>
  BY DEF FetchJob, SetJob, dbVars, kubeVars
<1>4. job' \in [Builds -> QueueJob]
  BY <1>1, <1>3 DEF QueueJob
<1>5. \A b \in Builds : b # h => job'[b] = job[b]
  BY <1>1, <1>3
<1>6. QueueOK'
  <2> HIDE DEF h
  <2>1. \A i \in 1..Len(waiting) : Known(waiting[i])
    BY DEF QueueOK
  <2>2. \A i \in 1..Len(waiting') :
          waiting'[i] \in Builds /\ build[waiting'[i]].project \in Projects
    BY <1>1, <1>3, <2>1 DEF Known
  <2>3. \A b \in Builds : job'[b].state # "none" => build[b].project \in Projects
    BY <1>2, <1>5 DEF QueueOK, Known
  <2> QED BY <1>3, <2>2, <2>3 DEF QueueOK, Known
<1>7. worker' \in [Workers -> Execution] /\ WorkersOK'
  BY <1>1, <1>2, <1>3 DEF FirstStep, Execution, WorkersOK, Known, Tagged
<1> QED BY <1>1, <1>3, <1>4, <1>6, <1>7 DEF RowsOK, RequestsOK, Known

\* Queries: one row written, the worker moves on.
LEMMA QueryShape ==
  ASSUME Shape, NEW w \in Workers,
         \/ MarkRunning(w)  \/ SetBuilding(w) \/ SetRunning(w)
         \/ SetDeploying(w) \/ SetSuccess(w)
         \/ SetFailed(w)    \/ SetBuildFailed(w)
  PROVE  Shape'
<1> USE DEF dbVars, queueVars, kubeVars
<1> DEFINE Frame == /\ UNCHANGED <<request, waiting, job, kube, pods, pushed>>
                    /\ KeepsPayloads
<1>1. worker[w].pc \in Busy
  BY DEF MarkRunning, SetBuilding, SetRunning, SetDeploying, SetSuccess,
         SetFailed, SetBuildFailed, Busy
<1> SUFFICES /\ Frame /\ RowsOK' /\ WorkersOK'
             /\ project' \in [Projects -> ProjectRow]
             /\ build' \in [Builds -> BuildRow]
             /\ worker' \in [Workers -> Execution]
             /\ clock' \in Nat \ {0} /\ UNCHANGED unheard
  BY FrameOK DEF Shape, TypeOK
<1>2. CASE MarkRunning(w) \/ SetBuilding(w) \/ SetDeploying(w) \/ SetFailed(w)
  <2>1. /\ Frame /\ RowsOK' /\ UNCHANGED <<build, clock, unheard>>
    BY <1>2 DEF MarkRunning, SetBuilding, SetDeploying, SetFailed, Shape,
                RowsOK, Known, KeepsPayloads
  <2>2. project' \in [Projects -> ProjectRow]
    <3>1. \/ UNCHANGED project
          \/ \E s \in ProjectStatus, t \in Nat : SetProject(ProjectOf(w), s, t)
      BY <1>1, <1>2, BusyFacts
      DEF MarkRunning, SetBuilding, SetDeploying, SetFailed, ProjectStatus
    <3> QED BY <1>1, <3>1, BusyFacts, SetProjectOK DEF Shape, TypeOK
  <2>3. \E pc \in Busy : Goto(w, pc) /\ (pc \in Tagged => worker[w].pc \in Tagged)
    BY <1>2 DEF MarkRunning, SetBuilding, SetDeploying, SetFailed, Busy, Tagged
  <2> QED BY <1>1, <2>1, <2>2, <2>3, GotoOK DEF Shape, TypeOK
<1>3. CASE SetSuccess(w) \/ SetBuildFailed(w)
  <2>1. /\ build' \in [Builds -> BuildRow] /\ RowsOK' /\ KeepsPayloads
    BY <1>1, <1>3, BusyFacts, SetBuildOK
    DEF SetSuccess, SetBuildFailed, Shape, TypeOK
  <2>2. Frame /\ UNCHANGED <<project, clock, unheard>>
    BY <1>3, <2>1 DEF SetSuccess, SetBuildFailed
  <2>3. \E pc \in Busy : Goto(w, pc) /\ (pc \in Tagged => worker[w].pc \in Tagged)
    BY <1>3 DEF SetSuccess, SetBuildFailed, Busy, Tagged
  <2> QED BY <1>1, <2>1, <2>2, <2>3, GotoOK DEF Shape, TypeOK
<1>4. CASE SetRunning(w)
  <2>1. /\ build' \in [Builds -> BuildRow] /\ RowsOK' /\ KeepsPayloads
    BY <1>1, <1>4, BusyFacts, SetBuildOK DEF SetRunning, Shape, TypeOK
  <2>2. Frame /\ UNCHANGED <<project, unheard>> /\ clock' \in Nat \ {0}
    BY <1>4, <2>1 DEF SetRunning, Shape, TypeOK
  <2>3. worker' \in [Workers -> Execution] /\ WorkersOK'
    <3>1. Known(worker[w].build) /\ clock \in Nat \ {0} /\ clock # 0
      BY <1>1, BusyFacts DEF Shape, TypeOK
    <3>2. worker' = [worker EXCEPT
            ![w] = [pc |-> "create", build |-> worker[w].build, tag |-> clock]]
      BY <1>4 DEF SetRunning
    <3> QED BY <2>1, <3>1, <3>2
            DEF Shape, TypeOK, Execution, WorkersOK, KeepsPayloads, Known, Tagged
  <2> QED BY <2>1, <2>2, <2>3 DEF Shape, TypeOK
<1> QED BY <1>2, <1>3, <1>4

\* A committed UPDATE whose answer is lost: where the worker goes and which of
\* the two tables was written.
LEMMA LostAnswerFacts ==
  ASSUME Shape, NEW w \in Workers, LostAnswer(w)
  PROVE  /\ worker[w].pc \in {"setBuilding", "setRunning", "setDeploying",
                              "setSuccess", "setFailed", "setBuildFailed"}
         /\ worker[w].pc \in Busy
         /\ ThrowsTo(worker[w].pc) = IF worker[w].pc \in {"setDeploying", "setSuccess"}
                                     THEN "setFailed" ELSE "markFailed"
         /\ Goto(w, ThrowsTo(worker[w].pc))
         /\ UNCHANGED <<request, waiting, job, kube, pods, pushed, clock>>
         /\ \/ /\ worker[w].pc = "setBuilding" /\ UNCHANGED build
               /\ SetProject(ProjectOf(w), "building", project[ProjectOf(w)].tag)
            \/ /\ worker[w].pc = "setDeploying" /\ UNCHANGED build
               /\ SetProject(ProjectOf(w), "deploying", worker[w].tag)
            \/ /\ worker[w].pc = "setFailed" /\ UNCHANGED build
               /\ SetProject(ProjectOf(w), "failed", project[ProjectOf(w)].tag)
            \/ /\ worker[w].pc = "setRunning" /\ UNCHANGED project
               /\ SetBuild(worker[w].build, "running", build[worker[w].build].tag)
            \/ /\ worker[w].pc = "setSuccess" /\ UNCHANGED project
               /\ SetBuild(worker[w].build, "success", worker[w].tag)
            \/ /\ worker[w].pc = "setBuildFailed" /\ UNCHANGED project
               /\ SetBuild(worker[w].build, "failed", build[worker[w].build].tag)
         /\ unheard' = IF worker[w].pc = "setSuccess"
                       THEN unheard \cup {worker[w].build} ELSE unheard
<1>1. worker[w].pc \in {"setBuilding", "setRunning", "setDeploying",
                        "setSuccess", "setFailed", "setBuildFailed"}
  BY DEF LostAnswer, UpdateOf
<1>2. ThrowsTo(worker[w].pc) = IF worker[w].pc \in {"setDeploying", "setSuccess"}
                               THEN "setFailed" ELSE "markFailed"
  BY <1>1 DEF ThrowsTo
<1> QED BY <1>1, <1>2 DEF LostAnswer, UpdateOf, Busy, queueVars, kubeVars

LEMMA LostAnswerShape ==
  ASSUME Shape, NEW w \in Workers, LostAnswer(w)
  PROVE  Shape'
<1>1. /\ worker[w].pc \in Busy
      /\ UNCHANGED <<request, waiting, job, kube, pods, pushed, clock>>
  BY LostAnswerFacts
<1>2. /\ worker[w].build \in Builds /\ Known(worker[w].build)
      /\ ProjectOf(w) \in Projects /\ worker[w].tag \in Nat
      /\ project[ProjectOf(w)].tag \in Nat /\ build[worker[w].build].tag \in Nat
  BY <1>1, BusyFacts DEF Known
<1>3. /\ project' \in [Projects -> ProjectRow]
      /\ build' \in [Builds -> BuildRow] /\ RowsOK' /\ KeepsPayloads
  <2>1. CASE worker[w].pc \in {"setBuilding", "setDeploying", "setFailed"}
    <3>1. UNCHANGED build
      BY <2>1, LostAnswerFacts
    <3>2. \E s \in ProjectStatus, t \in Nat : SetProject(ProjectOf(w), s, t)
      BY <1>2, <2>1, LostAnswerFacts DEF ProjectStatus
    <3>3. project' \in [Projects -> ProjectRow]
      BY <1>2, <3>2, SetProjectOK DEF Shape, TypeOK
    <3> QED BY <3>1, <3>3 DEF Shape, TypeOK, RowsOK, Known, KeepsPayloads
  <2>2. CASE worker[w].pc \in {"setRunning", "setSuccess", "setBuildFailed"}
    <3>1. UNCHANGED project
      BY <2>2, LostAnswerFacts
    <3>2. \E s \in {"running", "success", "failed"}, t \in Nat : SetBuild(worker[w].build, s, t)
      BY <1>2, <2>2, LostAnswerFacts
    <3> QED BY <1>2, <3>1, <3>2, SetBuildOK DEF Shape, TypeOK
  <2> QED BY <2>1, <2>2, LostAnswerFacts
<1>4. worker' \in [Workers -> Execution] /\ WorkersOK'
  <2>1. \E pc \in Busy \ Tagged : Goto(w, pc)
    BY LostAnswerFacts DEF Busy, Tagged
  <2> QED BY <1>1, <1>3, <2>1, GotoOK DEF Shape, TypeOK
<1>5. unheard' \subseteq Builds
  BY <1>2, LostAnswerFacts DEF Shape, TypeOK
<1> QED BY <1>1, <1>3, <1>4, <1>5, FrameOK DEF Shape, TypeOK

\* Calls to the Kubernetes API.
LEMMA KubeCallShape ==
  ASSUME Shape, NEW w \in Workers,
         CreateKubeJob(w) \/ RecreateKubeJob(w) \/ PollJob(w) \/ CreateFails(w)
  PROVE  Shape'
<1> USE DEF dbVars, queueVars, kubeVars
<1>1. /\ worker[w].pc \in Busy /\ worker[w].pc \in Tagged
      /\ UNCHANGED <<project, build, request, waiting, job, pushed, clock, unheard>>
      /\ KeepsPayloads
  BY DEF CreateKubeJob, RecreateKubeJob, PollJob, CreateFails, Busy, Tagged,
         KeepsPayloads
<1>2. /\ worker' \in [Workers -> Execution] /\ WorkersOK'
  <2>1. \E pc \in Busy : Goto(w, pc)
    BY DEF CreateKubeJob, RecreateKubeJob, PollJob, CreateFails, Busy
  <2> QED BY <1>1, <2>1, GotoOK DEF Shape, TypeOK
<1>3. kube' \in [Names -> KubeJob] /\ pods' \subseteq Image
  <2>1. \/ UNCHANGED <<kube, pods>>
        \/ StartKubeJob(w)
        \/ /\ kube' = [kube EXCEPT ![NameOf(w)] = NoJob]
           /\ UNCHANGED pods
    BY DEF CreateKubeJob, RecreateKubeJob, PollJob, CreateFails
  <2>2. /\ NameOf(w) \in Names /\ ImageOf(w) \in Image
        /\ kube \in [Names -> KubeJob] /\ pods \subseteq Image
    BY <1>1, BusyFacts DEF Shape, TypeOK
  <2>3. JobFor(ImageOf(w)) \in KubeJob /\ NoJob \in KubeJob
    BY <2>2, ConstantsAssumption DEF ConstantsAssumption, JobFor, NoJob, KubeJob
  <2> QED BY <2>1, <2>2, <2>3 DEF StartKubeJob
<1> QED BY <1>1, <1>2, <1>3, FrameOK DEF Shape, TypeOK, RowsOK, Known

\* The end of an execution, and every way to it.
LEMMA SettleShape ==
  ASSUME Shape, NEW w \in Workers, MarkDone(w) \/ MarkFailed(w) \/ StubProcess(w) \/ QueryFails(w)
  PROVE  Shape'
<1> USE DEF dbVars, queueVars, kubeVars
<1>1. /\ UNCHANGED <<project, build, request, kube, pods, pushed, clock, unheard>>
      /\ KeepsPayloads
  BY DEF MarkDone, MarkFailed, StubProcess, QueryFails, KeepsPayloads
<1>2. worker[w].pc \in Busy
  BY DEF MarkDone, MarkFailed, StubProcess, QueryFails, ThrowsTo, Busy
<1>3. \/ \E s \in {"completed", "failed"} : Settle(w, s)
      \/ /\ \E pc \in Busy \ Tagged : Goto(w, pc)
         /\ UNCHANGED <<waiting, job>>
  <2>1. CASE MarkDone(w) \/ MarkFailed(w) \/ StubProcess(w)
    BY <2>1 DEF MarkDone, MarkFailed, StubProcess
  <2>2. CASE QueryFails(w)
    <3>1. ThrowsTo(worker[w].pc) \in {"report", "markFailed", "setFailed"}
      BY <2>2 DEF QueryFails, ThrowsTo
    <3> QED BY <2>2, <3>1 DEF QueryFails, Busy, Tagged
  <2> QED BY <2>1, <2>2
<1>4. RowsOK' /\ RequestsOK'
  BY <1>1 DEF Shape, RowsOK, RequestsOK, Known
<1>5. ASSUME NEW s \in {"completed", "failed"}, Settle(w, s) PROVE Shape'
  BY <1>1, <1>2, <1>4, <1>5, SettleOK DEF Shape, TypeOK, Settle
<1>6. ASSUME NEW pc \in Busy \ Tagged, Goto(w, pc), UNCHANGED <<waiting, job>>
      PROVE Shape'
  <2>1. worker' \in [Workers -> Execution] /\ WorkersOK'
    BY <1>1, <1>2, <1>6, GotoOK DEF Shape, TypeOK
  <2> QED BY <1>1, <1>4, <1>6, <2>1, FrameOK DEF Shape, TypeOK
<1> QED BY <1>3, <1>5, <1>6

\* Processes, the stalled check and the Kaniko pods.
LEMMA EnvironmentShape ==
  ASSUME Shape,
         \/ \E w \in Workers : CrashWorker(w) \/ RestartWorker(w)
         \/ \E b \in Builds : StallJob(b)
         \/ \E i \in pods : PodPushes(i)
         \/ \E n \in Names : KubeJobSucceeds(n) \/ KubePodFails(n)
  PROVE  Shape'
<1> USE DEF Shape, TypeOK, dbVars, queueVars, kubeVars
<1>1. ASSUME NEW w \in Workers, CrashWorker(w) \/ RestartWorker(w) PROVE Shape'
  <2>1. worker' \in [Workers -> Execution] /\ WorkersOK'
    <3>1. \/ worker' = [worker EXCEPT
               ![w] = [pc |-> "down", build |-> NoBuild, tag |-> 0]]
          \/ /\ worker[w].pc = "down"
             /\ worker' = [worker EXCEPT ![w].pc = "idle"]
      BY <1>1 DEF CrashWorker, RestartWorker, Goto
    <3>2. UNCHANGED build
      BY <1>1 DEF CrashWorker, RestartWorker
    <3>3. worker' \in [Workers -> Execution]
      <4>1. CASE worker' = [worker EXCEPT
                   ![w] = [pc |-> "down", build |-> NoBuild, tag |-> 0]]
        BY <4>1 DEF Execution
      <4>2. CASE worker' = [worker EXCEPT ![w].pc = "idle"]
        BY <4>2 DEF Execution
      <4> QED BY <3>1, <4>1, <4>2
    <3>4. \A v \in Workers : v # w => worker'[v] = worker[v]
      BY <3>1
    <3>5. worker'[w].pc \in {"idle", "down"} /\ worker'[w].build = NoBuild
      BY <3>1 DEF Execution, WorkersOK
    <3>6. WorkersOK'
      BY <3>2, <3>4, <3>5 DEF WorkersOK, Known, Tagged
    <3> QED BY <3>3, <3>6
  <2> QED BY <1>1, <2>1 DEF CrashWorker, RestartWorker, RowsOK, RequestsOK,
                            QueueOK, Known
<1>2. ASSUME NEW b \in Builds, StallJob(b) PROVE Shape'
  <2>1. /\ UNCHANGED <<project, build, request, worker, kube, pods, pushed, clock, unheard>>
        /\ Known(b)
    BY <1>2 DEF StallJob, QueueOK
  <2>2. CASE job[b].stalls < MaxStalled
    <3>1. /\ waiting' = <<b>> \o waiting
          /\ job' = [job EXCEPT ![b] = [state |-> "waiting", owner |-> NoWorker,
                                        stalls |-> job[b].stalls + 1]]
      BY <1>2, <2>2 DEF StallJob
    <3>2. job' \in [Builds -> QueueJob]
      BY <2>2, <3>1, ConstantsAssumption DEF ConstantsAssumption, QueueJob
    <3>3. /\ waiting' \in Seq(Builds)
          /\ \A i \in 1..Len(waiting') :
               waiting'[i] = b \/ \E j \in 1..Len(waiting) : waiting'[i] = waiting[j]
      <4>1. /\ Len(waiting') = Len(waiting) + 1 /\ waiting' \in Seq(Builds)
            /\ \A i \in 1..Len(waiting') :
                 waiting'[i] = IF i = 1 THEN b ELSE waiting[i - 1]
        BY <3>1
      <4>2. ASSUME NEW i \in 1..Len(waiting'), i # 1
            PROVE  i - 1 \in 1..Len(waiting) /\ waiting'[i] = waiting[i - 1]
        BY <4>1, <4>2
      <4> QED BY <4>1, <4>2
    <3>4. QueueOK'
      BY <2>1, <3>1, <3>3 DEF QueueOK, Known
    <3> QED BY <2>1, <3>2, <3>3, <3>4 DEF RowsOK, RequestsOK, WorkersOK, Known
  <2>3. CASE ~(job[b].stalls < MaxStalled)
    <3>1. /\ UNCHANGED waiting
          /\ job' = [job EXCEPT ![b] = [state |-> "failed", owner |-> NoWorker,
                                        stalls |-> job[b].stalls]]
      BY <1>2, <2>3 DEF StallJob, SetJob
    <3>2. job' \in [Builds -> QueueJob]
      BY <3>1 DEF QueueJob
    <3>3. QueueOK'
      BY <2>1, <3>1 DEF QueueOK, Known
    <3> QED BY <2>1, <3>1, <3>2, <3>3 DEF RowsOK, RequestsOK, WorkersOK, Known
  <2> QED BY <2>2, <2>3
<1>3. ASSUME NEW i \in pods, PodPushes(i) PROVE Shape'
  BY <1>3 DEF PodPushes, RowsOK, RequestsOK, QueueOK, WorkersOK, Known
<1>4. ASSUME NEW n \in Names, KubeJobSucceeds(n) \/ KubePodFails(n) PROVE Shape'
  <2>1. kube' \in [Names -> KubeJob]
    <3>1. \/ kube' = [kube EXCEPT ![n].succeeded = TRUE]
          \/ /\ kube[n].failed <= BackoffLimit
             /\ kube' = [kube EXCEPT ![n].failed = kube[n].failed + 1]
      BY <1>4 DEF KubeJobSucceeds, KubePodFails
    <3>2. kube[n].failed \in 0..(BackoffLimit + 1) /\ BackoffLimit \in Nat
      BY ConstantsAssumption DEF KubeJob, ConstantsAssumption
    <3>3. CASE kube' = [kube EXCEPT ![n].succeeded = TRUE]
      BY <3>3 DEF KubeJob
    <3>4. CASE /\ kube[n].failed <= BackoffLimit
               /\ kube' = [kube EXCEPT ![n].failed = kube[n].failed + 1]
      <4>1. kube[n].failed + 1 \in 0..(BackoffLimit + 1)
        BY <3>2, <3>4
      <4> DEFINE f == kube[n].failed + 1
      <4>2. f \in 0..(BackoffLimit + 1) /\ kube' = [kube EXCEPT ![n].failed = f]
        BY <3>4, <4>1
      <4> HIDE DEF f
      <4> QED BY <4>2 DEF KubeJob
    <3> QED BY <3>1, <3>3, <3>4
  <2>2. pods' \subseteq Image
    <3>1. CASE KubePodFails(n)
      <4>1. kube[n].image \in Image
        BY <3>1 DEF KubePodFails, Exists, KubeJob
      <4> QED BY <3>1, <4>1 DEF KubePodFails
    <3> QED BY <1>4, <3>1 DEF KubeJobSucceeds
  <2> QED BY <1>4, <2>1, <2>2
          DEF KubeJobSucceeds, KubePodFails, RowsOK, RequestsOK, QueueOK,
              WorkersOK, Known
<1> QED BY <1>1, <1>2, <1>3, <1>4

-----------------------------------------------------------------------------
LEMMA ShapeInductive == Shape /\ [Next]_vars => Shape'
<1> SUFFICES ASSUME Shape, [Next]_vars PROVE Shape'
  OBVIOUS
<1>1. CASE UNCHANGED vars
  BY <1>1 DEF vars, Shape, TypeOK, RowsOK, RequestsOK, QueueOK, WorkersOK, Known
<1>2. ASSUME NEW w \in Workers, WorkerStep(w) PROVE Shape'
  BY <1>2, FetchShape, QueryShape, LostAnswerShape, KubeCallShape, SettleShape DEF WorkerStep
<1>3. CASE Next
  BY <1>2, <1>3, RequestShape, ProjectShape, EnvironmentShape DEF Next
<1> QED BY <1>1, <1>3

LEMMA ShapeAlways == Spec => []Shape
  BY InitShape, ShapeInductive, PTL DEF Spec

\* Every row, queue entry and program counter keeps its type: in particular no
\* execution ever holds a job whose payload names no project.
THEOREM TypeCorrect == Spec => []TypeOK
<1>1. Shape => TypeOK
  BY DEF Shape
<1> QED BY <1>1, ShapeAlways, PTL

-----------------------------------------------------------------------------
(* A worker of harbr-worker never comes to the steps that build.           *)

StubsIdle == \A w \in Stubs : worker[w].pc \in {"idle", "stub", "down"}

LEMMA StubsIdleInductive == Shape /\ StubsIdle /\ [Next]_vars => StubsIdle'
<1> SUFFICES ASSUME Shape, StubsIdle, [Next]_vars, NEW v \in Stubs
             PROVE  worker'[v].pc \in {"idle", "stub", "down"}
  BY DEF StubsIdle
<1>1. /\ worker \in [Workers -> Execution] /\ v \in Workers
      /\ worker[v].pc \in {"idle", "stub", "down"}
  BY ConstantsAssumption DEF ConstantsAssumption, Shape, TypeOK, StubsIdle
<1> USE DEF dbVars, queueVars, kubeVars
<1>2. CASE worker'[v] = worker[v]
  BY <1>1, <1>2
<1>3. ASSUME NEW w \in Workers, WorkerStep(w) \/ CrashWorker(w) \/ RestartWorker(w)
      PROVE  worker'[v].pc \in {"idle", "stub", "down"}
  <2>1. CASE w # v
    BY <1>1, <1>2, <1>3, <2>1
    DEF WorkerStep, CreateKubeJob, RecreateKubeJob, PollJob, CreateFails,
        MarkRunning, SetBuilding, SetDeploying, SetRunning, SetSuccess, SetFailed,
        SetBuildFailed, MarkDone, MarkFailed, StubProcess, QueryFails, LostAnswer,
        FetchJob, CrashWorker, RestartWorker, Settle, Goto
  <2>2. CASE w = v
    <3>1. CASE FetchJob(v)
      BY <1>1, <3>1 DEF FetchJob, FirstStep
    <3>2. CASE StubProcess(v) \/ QueryFails(v)
      BY <1>1, <3>2 DEF StubProcess, QueryFails, ThrowsTo, Settle
    <3>3. CASE CrashWorker(v) \/ RestartWorker(v)
      BY <1>1, <3>3 DEF CrashWorker, RestartWorker, Goto, Execution
    <3> QED BY <1>1, <1>3, <2>2, <3>1, <3>2, <3>3
            DEF WorkerStep, CreateKubeJob, RecreateKubeJob, PollJob, CreateFails,
                MarkRunning, SetBuilding, SetDeploying, SetRunning, SetSuccess,
                SetFailed, SetBuildFailed, MarkDone, MarkFailed, LostAnswer, UpdateOf
  <2> QED BY <2>1, <2>2
<1>4. CASE UNCHANGED worker
  BY <1>2, <1>4
<1>5. CASE Next /\ ~\E w \in Workers : WorkerStep(w) \/ CrashWorker(w) \/ RestartWorker(w)
  <2>1. UNCHANGED worker
    BY <1>5 DEF Next, CheckProject, InsertBuild, EnqueueBuild, AbandonRequest,
                UpdateProject, DeleteProject, StallJob, PodPushes,
                KubeJobSucceeds, KubePodFails
  <2> QED BY <1>4, <2>1
<1>6. CASE UNCHANGED vars
  BY <1>4, <1>6 DEF vars
<1> QED BY <1>3, <1>5, <1>6

LEMMA StubsIdleAlways == Spec => []StubsIdle
<1>1. Init => StubsIdle
  BY ConstantsAssumption DEF ConstantsAssumption, Init, StubsIdle
<1> QED BY <1>1, StubsIdleInductive, ShapeAlways, PTL DEF Spec

-----------------------------------------------------------------------------
(* Ownership: a job is queued once, and while locks outlive their holders  *)
(* the worker that executes it is the one BullMQ gave it to.               *)

QueuedOnce ==
  /\ \A i \in 1..Len(waiting) : job[waiting[i]].state = "waiting"
  /\ \A i, j \in 1..Len(waiting) : waiting[i] = waiting[j] => i = j
  /\ \A r \in Requests : request[r].pc = "enqueue" =>
       job[request[r].build].state = "none"
  /\ \A r1, r2 \in Requests :
       /\ request[r1].pc = "enqueue" /\ request[r2].pc = "enqueue"
       /\ request[r1].build = request[r2].build
       => r1 = r2

HeldLock == ~LockLoss =>
  \A w \in Workers : worker[w].pc \in Busy =>
    /\ job[worker[w].build].state = "active"
    /\ job[worker[w].build].owner = w

Ownership == QueuedOnce /\ HeldLock

LEMMA InitOwnership == Init => Ownership
  BY DEF Init, Ownership, QueuedOnce, HeldLock, Busy

LEMMA RequestOwnership ==
  ASSUME Shape, Ownership, NEW r \in Requests,
         \/ \E p \in Projects : CheckProject(r, p)
         \/ \E b \in Builds : InsertBuild(r, b)
         \/ EnqueueBuild(r)
         \/ AbandonRequest(r)
  PROVE  Ownership'
<1> USE DEF Ownership, queueVars
<1>1. ASSUME NEW p \in Projects, CheckProject(r, p) PROVE Ownership'
  BY <1>1 DEF CheckProject, QueuedOnce, HeldLock, Shape, TypeOK
<1>2. ASSUME NEW b \in Builds, InsertBuild(r, b) PROVE Ownership'
  <2>1. /\ UNCHANGED <<waiting, job, worker>>
        /\ request' = [request EXCEPT
             ![r] = [pc |-> "enqueue", project |-> request[r].project, build |-> b]]
        /\ request \in [Requests -> Handler]
        /\ ~Known(b)
    BY <1>2 DEF InsertBuild, Shape, TypeOK, RowsOK
  <2>2. job[b].state = "none"
    BY <2>1 DEF Shape, QueueOK
  <2>3. \A q \in Requests : request[q].pc = "enqueue" => request[q].build # b
    BY <2>1 DEF Shape, RequestsOK
  <2>4. QueuedOnce'
    BY <2>1, <2>2, <2>3 DEF QueuedOnce
  <2> QED BY <2>1, <2>4 DEF HeldLock
<1>3. ASSUME EnqueueBuild(r) PROVE Ownership'
  <2> DEFINE b == request[r].build
  <2>1. /\ waiting' = Append(waiting, b)
        /\ job' = [job EXCEPT ![b].state = "waiting"]
        /\ request' = [request EXCEPT ![r] =
             [pc |-> "idle", project |-> NoProject, build |-> NoBuild]]
        /\ UNCHANGED worker /\ request[r].pc = "enqueue"
    BY <1>3 DEF EnqueueBuild, RequestDone
  <2>2. /\ b \in Builds /\ job \in [Builds -> QueueJob]
        /\ waiting \in Seq(Builds) /\ request \in [Requests -> Handler]
        /\ job[b].state = "none"
    BY <2>1 DEF Shape, TypeOK, RequestsOK, Known, QueuedOnce
  <2>3. \A i \in 1..Len(waiting) : waiting[i] # b /\ waiting[i] \in Builds
    BY <2>2 DEF QueuedOnce
  <2>4. /\ job'[b].state = "waiting"
        /\ \A c \in Builds : c # b => job'[c] = job[c]
    BY <2>1, <2>2 DEF QueueJob
  <2>5. /\ Len(waiting') = Len(waiting) + 1
        /\ \A i \in 1..Len(waiting') :
             waiting'[i] = IF i = Len(waiting) + 1 THEN b ELSE waiting[i]
    BY <2>1, <2>2
  <2> HIDE DEF b
  <2>10. Len(waiting) \in Nat
    BY <2>2
  <2>11. ASSUME NEW i \in 1..Len(waiting') PROVE job'[waiting'[i]].state = "waiting"
    <3>1. CASE i = Len(waiting) + 1
      BY <2>4, <2>5, <3>1
    <3>2. CASE i \in 1..Len(waiting)
      <4>1. waiting'[i] = waiting[i] /\ waiting[i] \in Builds \ {b}
        BY <2>3, <2>5, <2>10, <3>2
      <4> QED BY <2>4, <3>2, <4>1 DEF QueuedOnce
    <3> QED BY <2>5, <2>10, <3>1, <3>2
  <2>12. ASSUME NEW i \in 1..Len(waiting'), NEW j \in 1..Len(waiting'),
                waiting'[i] = waiting'[j]
         PROVE  i = j
    <3>1. waiting'[Len(waiting) + 1] = b
      BY <2>5, <2>10
    <3>2. \A k \in 1..Len(waiting) : waiting'[k] = waiting[k]
      BY <2>5, <2>10
    <3>3. CASE i \in 1..Len(waiting) /\ j \in 1..Len(waiting)
      BY <2>12, <3>2, <3>3 DEF QueuedOnce
    <3>4. CASE i = Len(waiting) + 1 \/ j = Len(waiting) + 1
      BY <2>3, <2>5, <2>10, <2>12, <3>1, <3>2, <3>4
    <3> QED BY <2>5, <2>10, <3>3, <3>4
  <2>6. /\ \A i \in 1..Len(waiting') : job'[waiting'[i]].state = "waiting"
        /\ \A i, j \in 1..Len(waiting') : waiting'[i] = waiting'[j] => i = j
    BY <2>11, <2>12
  <2>7. \A q \in Requests : request'[q].pc = "enqueue" =>
          /\ request'[q] = request[q] /\ request[q].build \in Builds
          /\ request[q].build # b
    BY <2>1, <2>2 DEF QueuedOnce, Shape, RequestsOK, Known, b
  <2>8. QueuedOnce'
    BY <2>4, <2>6, <2>7 DEF QueuedOnce
  <2>9. HeldLock'
    BY <2>1, <2>2, <2>4 DEF HeldLock, Shape, WorkersOK, Known, Busy
  <2> QED BY <2>8, <2>9
<1>4. ASSUME AbandonRequest(r) PROVE Ownership'
  <2>1. /\ UNCHANGED <<waiting, job, worker>>
        /\ request' = [request EXCEPT ![r] =
             [pc |-> "idle", project |-> NoProject, build |-> NoBuild]]
        /\ request \in [Requests -> Handler]
    BY <1>4 DEF AbandonRequest, RequestDone, Shape, TypeOK
  <2>2. \A q \in Requests : request'[q].pc = "enqueue" => request'[q] = request[q]
    BY <2>1
  <2>3. QueuedOnce'
    BY <2>1, <2>2 DEF QueuedOnce
  <2>4. HeldLock'
    BY <2>1 DEF HeldLock
  <2> QED BY <2>3, <2>4
<1> QED BY <1>1, <1>2, <1>3, <1>4

LEMMA FetchOwnership ==
  ASSUME Shape, Ownership, NEW w \in Workers, FetchJob(w)
  PROVE  Ownership'
<1> DEFINE h == Head(waiting)
<1> USE DEF Ownership
<1>1. /\ waiting \in Seq(Builds) /\ job \in [Builds -> QueueJob]
      /\ worker \in [Workers -> Execution]
      /\ h \in Builds /\ Len(waiting) >= 1 /\ h = waiting[1]
      /\ Len(Tail(waiting)) = Len(waiting) - 1
      /\ \A i \in 1..Len(Tail(waiting)) : Tail(waiting)[i] = waiting[i + 1]
  BY DEF FetchJob, Shape, TypeOK
<1>2. /\ waiting' = Tail(waiting)
      /\ job' = [job EXCEPT ![h] =
           [state |-> "active", owner |-> w, stalls |-> job[h].stalls]]
      /\ worker' = [worker EXCEPT
           ![w] = [pc |-> FirstStep(w), build |-> h, tag |-> 0]]
      /\ UNCHANGED request
  BY DEF FetchJob, SetJob
<1>3. job[h].state = "waiting"
  BY <1>1 DEF QueuedOnce
<1>4. /\ job'[h].state = "active" /\ job'[h].owner = w
      /\ \A c \in Builds : c # h => job'[c] = job[c]
  BY <1>1, <1>2
<1>5. \A i \in 1..Len(Tail(waiting)) :
        i + 1 \in 1..Len(waiting) /\ waiting[i + 1] \in Builds
  BY <1>1
<1>6. /\ \A i, j \in 1..Len(waiting') : waiting'[i] = waiting'[j] => i = j
      /\ \A i \in 1..Len(waiting') : waiting'[i] \in Builds /\ waiting'[i] # h
  BY <1>1, <1>2, <1>5 DEF QueuedOnce
<1>7. \A i \in 1..Len(waiting') : job'[waiting'[i]].state = "waiting"
  BY <1>1, <1>2, <1>4, <1>5, <1>6 DEF QueuedOnce
<1>8. \A r \in Requests : request[r].pc = "enqueue" =>
        request[r].build \in Builds /\ request[r].build # h
  BY <1>3 DEF Shape, RequestsOK, Known, QueuedOnce
<1>9. QueuedOnce'
  BY <1>2, <1>4, <1>6, <1>7, <1>8 DEF QueuedOnce
<1>10. HeldLock'
  BY <1>1, <1>2, <1>3, <1>4 DEF FirstStep, HeldLock, Shape, WorkersOK, Known, Busy
<1> QED BY <1>9, <1>10

\* A worker that ends its execution gives up only the lock it holds itself.
LEMMA SettleOwnership ==
  ASSUME Shape, Ownership, NEW w \in Workers, worker[w].pc \in Busy,
         NEW s \in {"completed", "failed"}, Settle(w, s), UNCHANGED request
  PROVE  Ownership'
<1> DEFINE b == worker[w].build
<1> USE DEF Ownership
<1>1. /\ b \in Builds /\ job \in [Builds -> QueueJob]
      /\ waiting \in Seq(Builds) /\ worker \in [Workers -> Execution]
  BY DEF Shape, TypeOK, WorkersOK, Known, Busy
<1>2. /\ UNCHANGED waiting
      /\ worker' = [worker EXCEPT
           ![w] = [pc |-> "idle", build |-> NoBuild, tag |-> 0]]
      /\ \/ UNCHANGED job
         \/ /\ job[b].state = "active" /\ job[b].owner = w
            /\ job' = [job EXCEPT ![b] =
                 [state |-> s, owner |-> NoWorker, stalls |-> job[b].stalls]]
  BY DEF Settle, SetJob
<1>3. \A c \in Builds : job[c].state # "active" \/ job[c].owner # w => job'[c] = job[c]
  BY <1>1, <1>2
<1>4. QueuedOnce'
  <2>1. \A i \in 1..Len(waiting) : waiting[i] \in Builds
    BY <1>1
  <2>2. \A r \in Requests : request[r].pc = "enqueue" => request[r].build \in Builds
    BY DEF Shape, RequestsOK, Known
  <2> QED BY <1>2, <1>3, <2>1, <2>2 DEF QueuedOnce
<1>5. HeldLock'
  <2>1. \A v \in Workers : worker'[v].pc \in Busy =>
          v # w /\ worker'[v] = worker[v] /\ worker[v].build \in Builds
    BY <1>1, <1>2 DEF Shape, WorkersOK, Known, Busy
  <2> QED BY <1>3, <2>1 DEF HeldLock
<1> QED BY <1>4, <1>5

\* Steps that leave the queue alone and keep every busy worker on its build.
LEMMA FrameOwnership ==
  ASSUME Ownership, UNCHANGED <<waiting, job, request>>,
         \A w \in Workers : worker'[w].pc \in Busy =>
           worker[w].pc \in Busy /\ worker'[w].build = worker[w].build
  PROVE  Ownership'
  BY DEF Ownership, QueuedOnce, HeldLock

LEMMA StallOwnership ==
  ASSUME Shape, Ownership, NEW b \in Builds, StallJob(b)
  PROVE  Ownership'
<1> USE DEF Ownership
<1>1. /\ job \in [Builds -> QueueJob] /\ waiting \in Seq(Builds)
      /\ job[b].state = "active" /\ UNCHANGED <<worker, request>>
  BY DEF StallJob, Shape, TypeOK
<1>2. /\ \A c \in Builds : c # b => job'[c] = job[c]
      /\ \/ /\ waiting' = <<b>> \o waiting
            /\ job'[b].state = "waiting"
         \/ UNCHANGED waiting
  BY <1>1 DEF StallJob, SetJob
<1>3. \A i \in 1..Len(waiting) : waiting[i] \in Builds /\ waiting[i] # b
  BY <1>1 DEF QueuedOnce
<1>4. \A r \in Requests : request[r].pc = "enqueue" =>
        request[r].build \in Builds /\ request[r].build # b
  BY <1>1 DEF QueuedOnce, Shape, RequestsOK, Known
<1>5. QueuedOnce'
  <2>1. CASE waiting' = <<b>> \o waiting /\ job'[b].state = "waiting"
    <3>1. /\ Len(waiting') = Len(waiting) + 1
          /\ \A i \in 1..Len(waiting') :
               waiting'[i] = IF i = 1 THEN b ELSE waiting[i - 1]
      BY <1>1, <2>1
    <3>2. \A i \in 1..Len(waiting') : i = 1 \/ i - 1 \in 1..Len(waiting)
      BY <1>1, <3>1
    <3>3. \A i \in 1..Len(waiting') : job'[waiting'[i]].state = "waiting"
      BY <1>2, <1>3, <2>1, <3>1, <3>2 DEF QueuedOnce
    <3>4. ASSUME NEW i \in 1..Len(waiting'), NEW j \in 1..Len(waiting'),
                 waiting'[i] = waiting'[j]
          PROVE  i = j
      <4>1. CASE i = 1 \/ j = 1
        BY <1>3, <3>1, <3>2, <3>4, <4>1
      <4>2. CASE i # 1 /\ j # 1
        <5>1. /\ i - 1 \in 1..Len(waiting) /\ j - 1 \in 1..Len(waiting)
              /\ waiting[i - 1] = waiting[j - 1]
          BY <3>1, <3>2, <3>4, <4>2
        <5>2. i - 1 = j - 1
          BY <5>1 DEF QueuedOnce
        <5> QED BY <5>2
      <4> QED BY <4>1, <4>2
    <3> QED BY <1>1, <1>2, <1>4, <3>3, <3>4 DEF QueuedOnce
  <2>2. CASE UNCHANGED waiting
    BY <1>1, <1>2, <1>3, <1>4, <2>2 DEF QueuedOnce
  <2> QED BY <1>2, <2>1, <2>2
<1>6. HeldLock'
  <2> SUFFICES ASSUME ~LockLoss, NEW w \in Workers, worker[w].pc \in Busy
               PROVE  worker[w].build # b /\ worker[w].build \in Builds
    BY <1>1, <1>2 DEF HeldLock
  <2>1. ~Executing(job[b].owner, b)
    BY DEF StallJob
  <2> QED BY <2>1 DEF HeldLock, Executing, Shape, WorkersOK, Known, Busy
<1> QED BY <1>5, <1>6

LEMMA OwnershipInductive == Shape /\ Ownership /\ [Next]_vars => Ownership'
<1> SUFFICES ASSUME Shape, Ownership, [Next]_vars PROVE Ownership'
  OBVIOUS
<1> USE DEF dbVars, queueVars, kubeVars
<1>1. CASE UNCHANGED vars
  BY <1>1, FrameOwnership DEF vars
<1>2. ASSUME NEW p \in Projects,
             (\E s \in PatchedStatuses : UpdateProject(p, s)) \/ DeleteProject(p)
      PROVE  Ownership'
  BY <1>2, FrameOwnership DEF UpdateProject, DeleteProject
<1>3. ASSUME NEW w \in Workers, WorkerStep(w) PROVE Ownership'
  <2>1. CASE FetchJob(w)
    BY <2>1, FetchOwnership
  <2>2. CASE MarkDone(w) \/ MarkFailed(w) \/ StubProcess(w)
    BY <2>2, SettleOwnership DEF MarkDone, MarkFailed, StubProcess, Busy
  <2>3. CASE QueryFails(w) /\ ThrowsTo(worker[w].pc) = "report"
    BY <2>3, SettleOwnership DEF QueryFails, ThrowsTo, Busy
  <2>4. CASE \E pc \in Busy : Goto(w, pc) /\ worker[w].pc \in Busy
                             /\ UNCHANGED <<waiting, job, request>>
    BY <2>4, FrameOwnership DEF Goto, Shape, TypeOK, Execution
  <2>5. CASE SetRunning(w)
    BY <2>5, FrameOwnership DEF SetRunning, Busy, Shape, TypeOK, Execution
  <2>6. CASE MarkRunning(w) \/ SetBuilding(w) \/ SetDeploying(w) \/ SetSuccess(w)
             \/ SetFailed(w) \/ SetBuildFailed(w)
    BY <2>4, <2>6 DEF MarkRunning, SetBuilding, SetDeploying, SetSuccess,
                      SetFailed, SetBuildFailed, Busy
  <2>7. CASE CreateKubeJob(w) \/ RecreateKubeJob(w) \/ PollJob(w) \/ CreateFails(w)
    BY <2>4, <2>7 DEF CreateKubeJob, RecreateKubeJob, PollJob, CreateFails, Busy
  <2>8. CASE QueryFails(w) /\ ThrowsTo(worker[w].pc) # "report"
    <3>1. worker[w].pc \in Busy /\ ThrowsTo(worker[w].pc) \in Busy
      BY <2>8 DEF QueryFails, ThrowsTo, Busy
    <3> QED BY <2>4, <2>8, <3>1 DEF QueryFails
  <2>9. CASE LostAnswer(w)
    <3>1. worker[w].pc \in Busy /\ ThrowsTo(worker[w].pc) \in Busy
      BY <2>9, LostAnswerFacts DEF Busy
    <3> QED BY <2>4, <2>9, <3>1, LostAnswerFacts
  <2> QED BY <1>3, <2>1, <2>2, <2>3, <2>5, <2>6, <2>7, <2>8, <2>9 DEF WorkerStep
<1>4. ASSUME NEW w \in Workers, CrashWorker(w) \/ RestartWorker(w)
      PROVE  Ownership'
  <2>1. \A v \in Workers : v # w => worker'[v] = worker[v]
    BY <1>4 DEF CrashWorker, RestartWorker, Goto, Shape, TypeOK
  <2>2. worker'[w].pc \notin Busy
    BY <1>4 DEF CrashWorker, RestartWorker, Goto, Shape, TypeOK, Busy, Execution
  <2> QED BY <1>4, <2>1, <2>2, FrameOwnership DEF CrashWorker, RestartWorker
<1>5. ASSUME \/ \E i \in pods : PodPushes(i)
             \/ \E n \in Names : KubeJobSucceeds(n) \/ KubePodFails(n)
      PROVE  Ownership'
  BY <1>5, FrameOwnership DEF PodPushes, KubeJobSucceeds, KubePodFails
<1>6. CASE Next
  BY <1>2, <1>3, <1>4, <1>5, <1>6, RequestOwnership, StallOwnership DEF Next
<1> QED BY <1>1, <1>6

-----------------------------------------------------------------------------
(* Delivery: what an execution may conclude from the Job it polls.         *)

KubeTruth == \A n \in Names : kube[n].succeeded => kube[n].image \in pushed
PollsOwn == \A w \in Workers :
  worker[w].pc = "poll" => kube[NameOf(w)].image = ImageOf(w)
VerdictTrue == \A w \in Workers :
  worker[w].pc \in {"setDeploying", "setSuccess"} => ImageOf(w) \in pushed

Delivery == KubeTruth /\ PollsOwn /\ VerdictTrue /\ ImagePushed

LEMMA InitDelivery == Init => Delivery
  BY DEF Init, Delivery, KubeTruth, PollsOwn, VerdictTrue, ImagePushed, NoJob,
         JobFor

\* Two executions under way use Kubernetes Jobs of different names.
LEMMA SeparateJobs ==
  ASSUME SoleExecutor, Shape, StubsIdle, HeldLock,
         NEW v \in Workers, NEW w \in Workers, v # w,
         worker[v].pc \in Busy \ {"stub"}, worker[w].pc \in Busy \ {"stub"}
  PROVE  NameOf(v) # NameOf(w)
  BY DEF SoleExecutor, StubsIdle, Shape, WorkersOK, Known, HeldLock, NameOf, Busy

\* Steps that write no row and no Job, and bring no execution nearer to a
\* verdict.
LEMMA FrameDelivery ==
  ASSUME Delivery, UNCHANGED <<project, build, kube>>, pushed \subseteq pushed',
         \A w \in Workers :
           \/ worker'[w] = worker[w]
           \/ worker'[w].pc \notin {"poll", "setDeploying", "setSuccess"}
  PROVE  Delivery'
<1>1. KubeTruth' /\ PollsOwn' /\ VerdictTrue'
  BY DEF Delivery, KubeTruth, PollsOwn, VerdictTrue, NameOf, ImageOf
<1>2. ImagePushed'
  BY DEF Delivery, ImagePushed
<1> QED BY <1>1, <1>2 DEF Delivery

LEMMA RowsDelivery ==
  ASSUME Shape, Delivery,
         \/ \E r \in Requests, b \in Builds : InsertBuild(r, b)
         \/ \E p \in Projects, s \in PatchedStatuses : UpdateProject(p, s)
         \/ \E p \in Projects : DeleteProject(p)
  PROVE  Delivery'
<1> USE DEF Shape, TypeOK, queueVars, kubeVars
<1>1. UNCHANGED <<worker, kube, pushed>>
  BY DEF InsertBuild, UpdateProject, DeleteProject
<1>2. KubeTruth' /\ PollsOwn' /\ VerdictTrue'
  BY <1>1 DEF Delivery, KubeTruth, PollsOwn, VerdictTrue, NameOf, ImageOf
<1>3. ASSUME NEW r \in Requests, NEW b \in Builds, InsertBuild(r, b)
      PROVE  ImagePushed'
  <2>1. /\ build[b].project \notin Projects
        /\ \A c \in Builds : c # b => build'[c] = build[c]
        /\ build'[b].status = "queued" /\ UNCHANGED project
    BY <1>3 DEF InsertBuild, RowsOK, Known
  <2>2. ASSUME NEW q \in Projects, project'[q].tag # 0
        PROVE  \E c \in Builds : /\ build'[c].project = q
                                 /\ <<c, project'[q].tag>> \in pushed'
    <3>1. PICK c \in Builds : /\ build[c].project = q
                             /\ <<c, project[q].tag>> \in pushed
      BY <2>1, <2>2 DEF Delivery, ImagePushed
    <3>2. build'[c] = build[c]
      BY <2>1, <3>1
    <3> QED BY <1>1, <2>1, <3>1, <3>2
  <2>3. ASSUME NEW c \in Builds, build'[c].status = "success"
        PROVE  <<c, build'[c].tag>> \in pushed'
    BY <1>1, <2>1, <2>3 DEF Delivery, ImagePushed
  <2> QED BY <2>2, <2>3 DEF ImagePushed
<1>4. ASSUME NEW p \in Projects, NEW s \in PatchedStatuses, UpdateProject(p, s)
      PROVE  ImagePushed'
  <2>1. /\ UNCHANGED build
        /\ \A q \in Projects : project'[q].tag = project[q].tag
    BY <1>4 DEF UpdateProject, ProjectRow
  <2> QED BY <1>1, <2>1 DEF Delivery, ImagePushed
<1>5. ASSUME NEW p \in Projects, DeleteProject(p) PROVE ImagePushed'
  <2>1. /\ \A q \in Projects : project'[q].tag \in {0, project[q].tag}
        /\ \A b \in Builds : build'[b].project = build[b].project
        /\ \A b \in Builds : build'[b].status = "deleted" \/ build'[b] = build[b]
    BY <1>5 DEF DeleteProject, ProjectRow, BuildRow
  <2> QED BY <1>1, <2>1 DEF Delivery, ImagePushed
<1>6. ImagePushed'
  BY <1>3, <1>4, <1>5
<1> QED BY <1>2, <1>6 DEF Delivery

\* The two UPDATEs after a successful poll record an image that was pushed.
LEMMA VerdictDelivery ==
  ASSUME Shape, Delivery, NEW w \in Workers,
         \/ SetBuilding(w) \/ SetRunning(w) \/ SetDeploying(w) \/ SetSuccess(w)
         \/ SetFailed(w)   \/ SetBuildFailed(w) \/ LostAnswer(w)
  PROVE  Delivery'
<1> USE DEF queueVars, kubeVars
<1> DEFINE b == worker[w].build
           p == ProjectOf(w)
<1>1. /\ UNCHANGED <<kube, pushed>>
      /\ worker \in [Workers -> Execution]
      /\ project \in [Projects -> ProjectRow] /\ build \in [Builds -> BuildRow]
      /\ b \in Builds /\ p \in Projects /\ build[b].project = p
      /\ build[b].status # "none"
  <2>1. worker[w].pc \in Busy
    BY LostAnswerFacts
    DEF SetBuilding, SetRunning, SetDeploying, SetSuccess, SetFailed,
        SetBuildFailed, Busy
  <2> QED BY <2>1, BusyFacts, LostAnswerFacts
          DEF SetBuilding, SetRunning, SetDeploying, SetSuccess, SetFailed,
              SetBuildFailed, Shape, TypeOK, RowsOK, Known, ProjectOf
<1>2. /\ \A v \in Workers : v # w => worker'[v] = worker[v]
      /\ worker'[w].pc # "poll"
      /\ worker'[w].pc \in {"setDeploying", "setSuccess"} =>
           /\ worker[w].pc = "setDeploying"
           /\ worker'[w].build = b /\ worker'[w].tag = worker[w].tag
  BY <1>1, LostAnswerFacts
  DEF SetBuilding, SetRunning, SetDeploying, SetSuccess, SetFailed,
              SetBuildFailed, Goto, Execution
<1>3. KubeTruth' /\ PollsOwn' /\ VerdictTrue'
  BY <1>1, <1>2 DEF Delivery, KubeTruth, PollsOwn, VerdictTrue, NameOf, ImageOf
<1>4. /\ \A q \in Projects :
           \/ project'[q].tag = project[q].tag
           \/ /\ worker[w].pc = "setDeploying"
              /\ q = p /\ project'[q].tag = worker[w].tag
      /\ \A c \in Builds :
           /\ build'[c].project = build[c].project
           /\ \/ build'[c] = build[c]
              \/ build'[c].status # "success"
              \/ /\ worker[w].pc = "setSuccess"
                 /\ c = b /\ build'[c].tag = worker[w].tag
  <2>1. CASE LostAnswer(w)
    <3>1. \/ UNCHANGED project
          \/ \E r, t : /\ SetProject(p, r, t)
                       /\ \/ t = project[p].tag
                          \/ worker[w].pc = "setDeploying" /\ t = worker[w].tag
      BY <2>1, LostAnswerFacts
    <3>2. \/ UNCHANGED build
          \/ \E r, t : /\ SetBuild(b, r, t)
                       /\ r = "success" => worker[w].pc = "setSuccess" /\ t = worker[w].tag
      BY <2>1, LostAnswerFacts
    <3>3. \A q \in Projects :
            \/ project'[q].tag = project[q].tag
            \/ /\ worker[w].pc = "setDeploying"
               /\ q = p /\ project'[q].tag = worker[w].tag
      BY <1>1, <3>1 DEF SetProject, ProjectRow
    <3>4. \A c \in Builds :
            /\ build'[c].project = build[c].project
            /\ \/ build'[c] = build[c]
               \/ build'[c].status # "success"
               \/ /\ worker[w].pc = "setSuccess"
                  /\ c = b /\ build'[c].tag = worker[w].tag
      <4>1. CASE UNCHANGED build
        BY <4>1
      <4>2. ASSUME NEW r, NEW t, SetBuild(b, r, t),
                   r = "success" => worker[w].pc = "setSuccess" /\ t = worker[w].tag,
                   NEW c \in Builds
            PROVE  /\ build'[c].project = build[c].project
                   /\ \/ build'[c] = build[c]
                      \/ build'[c].status # "success"
                      \/ /\ worker[w].pc = "setSuccess"
                         /\ c = b /\ build'[c].tag = worker[w].tag
        <5>1. CASE c = b
          BY <1>1, <4>2, <5>1 DEF SetBuild
        <5>2. CASE c # b
          BY <1>1, <4>2, <5>2 DEF SetBuild
        <5> QED BY <5>1, <5>2
      <4> QED BY <3>2, <4>1, <4>2
    <3> QED BY <3>3, <3>4
  <2>2. CASE SetBuilding(w) \/ SetDeploying(w) \/ SetFailed(w)
    BY <1>1, <2>2 DEF SetBuilding, SetDeploying, SetFailed, SetProject, ProjectRow
  <2>3. CASE SetRunning(w) \/ SetSuccess(w) \/ SetBuildFailed(w)
    BY <1>1, <2>3 DEF SetRunning, SetSuccess, SetBuildFailed, SetBuild, BuildRow
  <2> QED BY <2>1, <2>2, <2>3
<1>5. worker[w].pc \in {"setDeploying", "setSuccess"} =>
        <<b, worker[w].tag>> \in pushed
  BY DEF Delivery, VerdictTrue, ImageOf
<1>6. ASSUME NEW q \in Projects, project'[q].tag # 0
      PROVE  \E c \in Builds : /\ build'[c].project = q
                               /\ <<c, project'[q].tag>> \in pushed'
  <2>1. CASE project'[q].tag = project[q].tag
    <3>1. PICK c \in Builds : /\ build[c].project = q
                             /\ <<c, project[q].tag>> \in pushed
      BY <1>6, <2>1 DEF Delivery, ImagePushed
    <3> QED BY <1>1, <1>4, <2>1, <3>1
  <2>2. CASE project'[q].tag # project[q].tag
    BY <1>1, <1>4, <1>5, <2>2
  <2> QED BY <2>1, <2>2
<1>7. ASSUME NEW c \in Builds, build'[c].status = "success"
      PROVE  <<c, build'[c].tag>> \in pushed'
  BY <1>1, <1>4, <1>5, <1>7 DEF Delivery, ImagePushed
<1>8. ImagePushed'
  BY <1>6, <1>7 DEF ImagePushed
<1> QED BY <1>3, <1>8 DEF Delivery

\* An execution polls the Job it created, and believes it only about its own
\* image.
LEMMA KubeDelivery ==
  ASSUME SoleExecutor, Shape, StubsIdle, Ownership, Delivery, NEW w \in Workers,
         CreateKubeJob(w) \/ RecreateKubeJob(w) \/ PollJob(w)
  PROVE  Delivery'
<1> USE DEF dbVars, queueVars, kubeVars
<1>1. /\ UNCHANGED <<project, build, pushed>>
      /\ worker \in [Workers -> Execution] /\ kube \in [Names -> KubeJob]
      /\ worker[w].pc \in Busy \ {"stub"} /\ NameOf(w) \in Names
  BY BusyFacts DEF CreateKubeJob, RecreateKubeJob, PollJob, Shape, TypeOK, Busy
<1>2. ImagePushed'
  BY <1>1 DEF Delivery, ImagePushed
<1>3. CASE PollJob(w)
  <2>1. /\ UNCHANGED kube
        /\ \E pc \in {"setDeploying", "setFailed"} : Goto(w, pc)
        /\ worker'[w].pc = "setDeploying" => kube[NameOf(w)].succeeded
        /\ worker[w].pc = "poll"
    BY <1>1, <1>3 DEF PollJob, Goto, Execution
  <2>2. /\ \A v \in Workers : v # w => worker'[v] = worker[v]
        /\ worker'[w].pc \in {"setDeploying", "setFailed"}
        /\ worker'[w].build = worker[w].build /\ worker'[w].tag = worker[w].tag
    BY <1>1, <2>1 DEF Goto, Execution
  <2>3. kube[NameOf(w)].succeeded => ImageOf(w) \in pushed
    BY <1>1, <2>1 DEF Delivery, KubeTruth, PollsOwn
  <2>4. KubeTruth' /\ PollsOwn'
    BY <1>1, <2>1, <2>2 DEF Delivery, KubeTruth, PollsOwn, NameOf, ImageOf
  <2>5. VerdictTrue'
    BY <1>1, <2>1, <2>2, <2>3 DEF Delivery, VerdictTrue, ImageOf
  <2> QED BY <1>2, <2>4, <2>5 DEF Delivery
<1>4. CASE CreateKubeJob(w) \/ RecreateKubeJob(w)
  <2>1. /\ \E pc \in {"poll", "recreate", "markFailed"} : Goto(w, pc)
        /\ \/ UNCHANGED kube /\ worker'[w].pc # "poll"
           \/ \E k \in {JobFor(ImageOf(w)), NoJob} :
                /\ kube' = [kube EXCEPT ![NameOf(w)] = k]
                /\ worker'[w].pc = "poll" => k = JobFor(ImageOf(w))
    BY <1>1, <1>4 DEF CreateKubeJob, RecreateKubeJob, StartKubeJob, Goto, Execution
  <2>2. /\ \A v \in Workers : v # w => worker'[v] = worker[v]
        /\ worker'[w].pc \in {"poll", "recreate", "markFailed"}
        /\ worker'[w].build = worker[w].build /\ worker'[w].tag = worker[w].tag
    BY <1>1, <2>1 DEF Goto, Execution
  <2>3. /\ \A n \in Names : n # NameOf(w) => kube'[n] = kube[n]
        /\ kube'[NameOf(w)] = kube[NameOf(w)] \/ ~kube'[NameOf(w)].succeeded
        /\ worker'[w].pc = "poll" => kube'[NameOf(w)].image = ImageOf(w)
    BY <1>1, <2>1 DEF JobFor, NoJob
  <2>4. KubeTruth'
    BY <1>1, <2>3 DEF Delivery, KubeTruth
  <2>5. ASSUME NEW v \in Workers, worker'[v].pc = "poll"
        PROVE  kube'[NameOf(v)'].image = ImageOf(v)'
    <3>1. CASE v = w
      BY <2>2, <2>3, <2>5, <3>1 DEF NameOf, ImageOf
    <3>2. CASE v # w
      <4>1. NameOf(v) # NameOf(w) /\ NameOf(v) \in Names
        BY <1>1, <2>2, <2>5, <3>2, SeparateJobs, BusyFacts DEF Ownership, Busy
      <4> QED BY <2>2, <2>3, <2>5, <3>2, <4>1 DEF Delivery, PollsOwn, NameOf, ImageOf
    <3> QED BY <3>1, <3>2
  <2>6. VerdictTrue'
    BY <1>1, <2>2 DEF Delivery, VerdictTrue, ImageOf
  <2> QED BY <1>2, <2>4, <2>5, <2>6 DEF Delivery, PollsOwn
<1> QED BY <1>3, <1>4

\* A Job is marked succeeded only once its image is in the registry.
LEMMA PodDelivery ==
  ASSUME Shape, Delivery,
         \/ \E i \in pods : PodPushes(i)
         \/ \E n \in Names : KubeJobSucceeds(n) \/ KubePodFails(n)
  PROVE  Delivery'
<1> USE DEF dbVars, queueVars
<1>1. ASSUME NEW i \in pods, PodPushes(i) PROVE Delivery'
  BY <1>1, FrameDelivery DEF PodPushes
<1>2. ASSUME NEW n \in Names, KubeJobSucceeds(n) \/ KubePodFails(n) PROVE Delivery'
  <2>1. /\ UNCHANGED <<project, build, worker, pushed>>
        /\ \A m \in Names : kube'[m].image = kube[m].image
        /\ \A m \in Names : kube'[m].succeeded =>
             kube[m].succeeded \/ kube[m].image \in pushed
    <3>1. CASE KubeJobSucceeds(n)
      BY <3>1 DEF KubeJobSucceeds, Shape, TypeOK, KubeJob
    <3>2. CASE KubePodFails(n)
      BY <3>2 DEF KubePodFails, Shape, TypeOK, KubeJob
    <3> QED BY <1>2, <3>1, <3>2
  <2>2. ASSUME NEW w \in Workers, worker[w].pc = "poll" PROVE NameOf(w) \in Names
    BY <2>2, BusyFacts DEF Busy
  <2>3. KubeTruth'
    BY <2>1 DEF Delivery, KubeTruth
  <2>4. PollsOwn'
    BY <2>1, <2>2 DEF Delivery, PollsOwn, NameOf, ImageOf
  <2>5. VerdictTrue' /\ ImagePushed'
    BY <2>1 DEF Delivery, VerdictTrue, ImagePushed, ImageOf
  <2> QED BY <2>3, <2>4, <2>5 DEF Delivery
<1> QED BY <1>1, <1>2

LEMMA DeliveryInductive ==
  ASSUME SoleExecutor
  PROVE  Shape /\ StubsIdle /\ Ownership /\ Delivery /\ [Next]_vars => Delivery'
<1> SUFFICES ASSUME Shape, StubsIdle, Ownership, Delivery, [Next]_vars PROVE Delivery'
  OBVIOUS
<1> USE DEF dbVars, queueVars, kubeVars
<1>1. CASE UNCHANGED vars
  BY <1>1, FrameDelivery DEF vars
<1>2. ASSUME NEW r \in Requests,
             \/ \E p \in Projects : CheckProject(r, p)
             \/ EnqueueBuild(r)
             \/ AbandonRequest(r)
      PROVE  Delivery'
  BY <1>2, FrameDelivery DEF CheckProject, EnqueueBuild, AbandonRequest
<1>3. ASSUME NEW w \in Workers,
             FetchJob(w) \/ MarkRunning(w) \/ MarkDone(w) \/ MarkFailed(w) \/ StubProcess(w)
               \/ QueryFails(w) \/ CreateFails(w) \/ CrashWorker(w)
               \/ RestartWorker(w)
      PROVE  Delivery'
  <2>1. UNCHANGED <<project, build, kube, pushed>>
    BY <1>3 DEF FetchJob, MarkRunning, MarkDone, MarkFailed, StubProcess, QueryFails,
                CreateFails, CrashWorker, RestartWorker
  <2>2. /\ worker \in [Workers -> Execution]
        /\ \/ \E pc \in {"setBuilding", "setFailed", "markFailed", "idle"} : Goto(w, pc)
           \/ \E b \in Builds : worker' = [worker EXCEPT
                ![w] = [pc |-> FirstStep(w), build |-> b, tag |-> 0]]
           \/ \E pc \in {"idle", "down"} : worker' = [worker EXCEPT
                ![w] = [pc |-> pc, build |-> NoBuild, tag |-> 0]]
    <3>1. ASSUME FetchJob(w) PROVE Head(waiting) \in Builds
      BY <3>1 DEF FetchJob, Shape, TypeOK
    <3>2. QueryFails(w) => ThrowsTo(worker[w].pc) \in {"setFailed", "markFailed", "report"}
      BY DEF QueryFails, ThrowsTo
    <3> QED BY <1>3, <3>1, <3>2
            DEF FetchJob, MarkRunning, MarkDone, MarkFailed, StubProcess, QueryFails,
                CreateFails, CrashWorker, RestartWorker, Settle, Shape, TypeOK
  <2>3. \A v \in Workers : \/ worker'[v] = worker[v]
                           \/ worker'[v].pc \notin {"poll", "setDeploying", "setSuccess"}
    BY <2>2 DEF FirstStep, Goto, Execution
  <2> QED BY <2>1, <2>3, FrameDelivery
<1>4. ASSUME NEW b \in Builds, StallJob(b) PROVE Delivery'
  BY <1>4, FrameDelivery DEF StallJob
<1>5. ASSUME NEW w \in Workers, WorkerStep(w) PROVE Delivery'
  BY <1>3, <1>5, VerdictDelivery, KubeDelivery DEF WorkerStep
<1>6. CASE Next
  BY <1>2, <1>3, <1>4, <1>5, <1>6, RowsDelivery, PodDelivery DEF Next
<1> QED BY <1>1, <1>6

\* While no two executions can share a Kubernetes Job, the image a project is
\* to run and the image a successful build reports were pushed by a Kaniko pod
\* of that project's own build, whatever crashes, redelivers or is deleted.
THEOREM ImagesArePushed == ASSUME SoleExecutor PROVE Spec => []ImagePushed
<1>1. Delivery => ImagePushed
  BY DEF Delivery
<1>2. Shape /\ StubsIdle /\ Ownership /\ Delivery /\ [Next]_vars => Delivery'
  BY DeliveryInductive
<1> QED BY <1>1, <1>2, ShapeAlways, StubsIdleAlways, InitOwnership, OwnershipInductive,
           InitDelivery, PTL DEF Spec

-----------------------------------------------------------------------------
(* With a single worker process that builds, executions follow one another *)
(* and so do their tags.                                                   *)

OneWorker == \A v, w \in Workers \ Stubs : v = w

TagOrder ==
  /\ \A p \in Projects : project[p].tag < clock
  /\ \A w \in Workers : worker[w].pc \in Tagged =>
       /\ worker[w].tag < clock
       /\ \A p \in Projects : project[p].tag <= worker[w].tag

\* What a step does to the tags: nothing, forget one, hand out the next one, or
\* give a project the tag of an execution.
LEMMA TagSteps ==
  ASSUME OneWorker, Shape, StubsIdle, [Next]_vars
  PROVE  /\ \/ /\ UNCHANGED clock
               /\ \A w \in Workers : worker'[w].pc \in Tagged =>
                    worker[w].pc \in Tagged /\ worker'[w].tag = worker[w].tag
            \/ /\ clock' = clock + 1 /\ UNCHANGED project
               /\ \A w \in Workers : worker'[w].pc \in Tagged => worker'[w].tag = clock
         /\ \A p \in Projects :
              \/ project'[p].tag = project[p].tag
              \/ project'[p].tag = 0 /\ project'[p].status = "deleted"
              \/ \E w \in Workers : /\ worker[w].pc \in Tagged
                                    /\ project'[p].tag = worker[w].tag
<1> USE DEF dbVars, queueVars, kubeVars
<1>1. /\ project \in [Projects -> ProjectRow] /\ worker \in [Workers -> Execution]
  BY DEF Shape, TypeOK
<1> DEFINE Keep == \A w \in Workers : worker'[w].pc \in Tagged =>
                     worker[w].pc \in Tagged /\ worker'[w].tag = worker[w].tag
           Same == \A p \in Projects : project'[p].tag = project[p].tag
<1>2. CASE UNCHANGED vars
  BY <1>2 DEF vars
<1>3. CASE \E r \in Requests : \/ \E p \in Projects : CheckProject(r, p)
                               \/ \E b \in Builds : InsertBuild(r, b)
                               \/ EnqueueBuild(r)
                               \/ AbandonRequest(r)
  BY <1>3 DEF CheckProject, InsertBuild, EnqueueBuild, AbandonRequest
<1>4. CASE \E p \in Projects : (\E s \in PatchedStatuses : UpdateProject(p, s))
                               \/ DeleteProject(p)
  <2>1. UNCHANGED <<worker, clock>>
    BY <1>4 DEF UpdateProject, DeleteProject
  <2>2. \A p \in Projects : \/ project'[p].tag = project[p].tag
                            \/ project'[p].tag = 0 /\ project'[p].status = "deleted"
    BY <1>1, <1>4 DEF UpdateProject, DeleteProject, ProjectRow
  <2> QED BY <2>1, <2>2
<1>5. CASE \/ \E b \in Builds : StallJob(b)
           \/ \E i \in pods : PodPushes(i)
           \/ \E n \in Names : KubeJobSucceeds(n) \/ KubePodFails(n)
  BY <1>5 DEF StallJob, PodPushes, KubeJobSucceeds, KubePodFails
<1>6. ASSUME NEW w \in Workers, SetRunning(w)
      PROVE  /\ clock' = clock + 1 /\ UNCHANGED project
             /\ \A v \in Workers : worker'[v].pc \in Tagged => worker'[v].tag = clock
  <2>1. w \notin Stubs
    BY <1>6 DEF SetRunning, StubsIdle
  <2> SUFFICES ASSUME NEW v \in Workers, worker'[v].pc \in Tagged
               PROVE  worker'[v].tag = clock
    BY <1>6 DEF SetRunning
  <2>2. CASE v = w
    BY <1>1, <1>6, <2>2 DEF SetRunning
  <2>3. CASE v # w
    <3>1. worker'[v] = worker[v]
      BY <1>1, <1>6, <2>3 DEF SetRunning
    <3>2. v \notin Stubs
      BY <3>1 DEF StubsIdle, Tagged
    <3> QED BY <2>1, <2>3, <3>2 DEF OneWorker
  <2> QED BY <2>2, <2>3
<1>7. ASSUME NEW w \in Workers,
             \/ CreateKubeJob(w) \/ RecreateKubeJob(w) \/ PollJob(w)
             \/ CreateFails(w) \/ MarkRunning(w) \/ SetBuilding(w)
             \/ SetDeploying(w) \/ SetSuccess(w) \/ SetFailed(w)
             \/ SetBuildFailed(w) \/ MarkDone(w) \/ MarkFailed(w) \/ StubProcess(w)
             \/ QueryFails(w) \/ LostAnswer(w) \/ FetchJob(w) \/ CrashWorker(w)
             \/ RestartWorker(w)
      PROVE  UNCHANGED clock /\ Keep
  <2>1. UNCHANGED clock
    BY <1>7 DEF CreateKubeJob, RecreateKubeJob, PollJob, CreateFails, MarkRunning,
                SetBuilding, SetDeploying, SetSuccess, SetFailed, SetBuildFailed,
                MarkDone, MarkFailed, StubProcess, QueryFails, LostAnswer, FetchJob,
                CrashWorker, RestartWorker
  <2> SUFFICES Keep
    BY <2>1
  <2>2. ASSUME NEW pc, Goto(w, pc), pc \in Tagged => worker[w].pc \in Tagged
        PROVE  Keep
    <3> TAKE v \in Workers
    <3>1. worker'[v] = IF v = w THEN [worker[v] EXCEPT !.pc = pc] ELSE worker[v]
      BY <1>1, <2>2 DEF Goto
    <3>2. worker[v] \in Execution
      BY <1>1
    <3> QED BY <2>2, <3>1, <3>2 DEF Execution
  <2>4. CASE CreateKubeJob(w) \/ RecreateKubeJob(w) \/ PollJob(w) \/ CreateFails(w)
    BY <2>2, <2>4 DEF CreateKubeJob, RecreateKubeJob, PollJob, CreateFails, Tagged
  <2>5. CASE MarkRunning(w) \/ SetBuilding(w) \/ SetDeploying(w) \/ SetSuccess(w)
             \/ SetFailed(w) \/ SetBuildFailed(w)
    BY <2>2, <2>5 DEF MarkRunning, SetBuilding, SetDeploying, SetSuccess,
                      SetFailed, SetBuildFailed, Tagged
  <2>6. ASSUME NEW outcome, Settle(w, outcome) PROVE Keep
    <3> TAKE v \in Workers
    <3>1. worker'[v] = IF v = w THEN [pc |-> "idle", build |-> NoBuild, tag |-> 0]
                       ELSE worker[v]
      BY <1>1, <2>6 DEF Settle
    <3> QED BY <3>1 DEF Tagged
  <2>7. CASE MarkDone(w) \/ MarkFailed(w) \/ StubProcess(w)
    BY <2>6, <2>7 DEF MarkDone, MarkFailed, StubProcess
  <2>8. CASE QueryFails(w)
    <3>1. ThrowsTo(worker[w].pc) \notin Tagged \/ worker[w].pc \in Tagged
      BY DEF ThrowsTo, Tagged
    <3> QED BY <2>2, <2>6, <2>8, <3>1 DEF QueryFails
  <2>9. CASE FetchJob(w)
    <3> TAKE v \in Workers
    <3>1. worker'[v] = IF v = w
            THEN [pc |-> FirstStep(w), build |-> Head(waiting), tag |-> 0]
            ELSE worker[v]
      BY <1>1, <2>9 DEF FetchJob
    <3> QED BY <3>1 DEF FirstStep, Tagged
  <2>10. CASE CrashWorker(w)
    <3> TAKE v \in Workers
    <3>1. worker'[v] = IF v = w THEN [pc |-> "down", build |-> NoBuild, tag |-> 0]
                       ELSE worker[v]
      BY <1>1, <2>10 DEF CrashWorker
    <3> QED BY <3>1 DEF Tagged
  <2>11. CASE RestartWorker(w)
    BY <2>2, <2>11 DEF RestartWorker, Tagged
  <2>12. CASE LostAnswer(w)
    BY <2>2, <2>12, LostAnswerFacts DEF Tagged
  <2> QED BY <1>7, <2>1, <2>4, <2>5, <2>7, <2>8, <2>9, <2>10, <2>11, <2>12
<1>12. ASSUME NEW w \in Workers, LostAnswer(w)
       PROVE  \A p \in Projects :
                \/ project'[p].tag = project[p].tag
                \/ worker[w].pc \in Tagged /\ project'[p].tag = worker[w].tag
  BY <1>1, <1>12, LostAnswerFacts DEF SetProject, ProjectRow, Tagged
<1>8. ASSUME NEW w \in Workers, WorkerStep(w), ~SetDeploying(w), ~LostAnswer(w) PROVE Same
  BY <1>1, <1>8
  DEF WorkerStep, CreateKubeJob, RecreateKubeJob, PollJob, CreateFails, MarkRunning,
      SetBuilding, SetRunning, SetSuccess, SetFailed, SetBuildFailed, MarkDone,
      MarkFailed, StubProcess, QueryFails, FetchJob, SetProject, ProjectRow
<1>9. ASSUME NEW w \in Workers, SetDeploying(w)
      PROVE  \A p \in Projects :
               \/ project'[p].tag = project[p].tag
               \/ worker[w].pc \in Tagged /\ project'[p].tag = worker[w].tag
  BY <1>1, <1>9 DEF SetDeploying, SetProject, ProjectRow, Tagged
<1>10. CASE \E w \in Workers : WorkerStep(w)
  <2> PICK w \in Workers : WorkerStep(w)
    BY <1>10
  <2>1. CASE SetRunning(w)
    BY <1>6, <2>1
  <2>2. CASE ~SetRunning(w)
    BY <1>7, <1>8, <1>9, <1>12, <2>2 DEF WorkerStep
  <2> QED BY <2>1, <2>2
<1>11. CASE \E w \in Workers : CrashWorker(w) \/ RestartWorker(w)
  BY <1>7, <1>11 DEF CrashWorker, RestartWorker
<1> QED BY <1>2, <1>3, <1>4, <1>5, <1>10, <1>11 DEF Next

\* With one worker process that builds no step replaces the image of a project by one that
\* was built earlier.
THEOREM TagsOnlyGrow == ASSUME OneWorker PROVE Spec => TagNeverGoesBack
<1> DEFINE Grows == \A p \in Projects : project'[p].status # "deleted" =>
                      project'[p].tag >= project[p].tag
<1>1. Init => TagOrder
  BY DEF Init, TagOrder, Tagged
<1>2. Shape /\ StubsIdle /\ TagOrder /\ [Next]_vars => TagOrder' /\ [Grows]_vars
  <2> SUFFICES ASSUME Shape, StubsIdle, TagOrder, [Next]_vars PROVE TagOrder' /\ Grows
    OBVIOUS
  <2>1. /\ clock \in Nat \ {0}
        /\ \A p \in Projects : project[p].tag \in Nat
        /\ \A w \in Workers : worker[w].tag \in Nat
    BY DEF Shape, TypeOK, ProjectRow, Execution
  <2>2. \A p \in Projects : project'[p].tag < clock
    BY <2>1, TagSteps DEF TagOrder
  <2>3. Grows
    BY <2>1, TagSteps DEF TagOrder
  <2>4. \A w \in Workers : worker'[w].pc \in Tagged =>
          /\ worker'[w].tag < clock'
          /\ \A p \in Projects : project'[p].tag <= worker'[w].tag
    <3>1. \A v, w \in Workers : worker[v].pc \in Tagged /\ worker[w].pc \in Tagged
            => v = w
      BY DEF OneWorker, StubsIdle, Tagged
    <3> QED BY <2>1, <3>1, TagSteps DEF TagOrder
  <2>5. clock' >= clock /\ clock' \in Nat
    BY <2>1, TagSteps
  <2>6. \A p \in Projects : project'[p].tag \in Nat
    BY <2>1, TagSteps
  <2> QED BY <2>1, <2>2, <2>3, <2>4, <2>5, <2>6 DEF TagOrder
<1>3. Spec => [][Grows]_vars
  BY <1>1, <1>2, ShapeAlways, StubsIdleAlways, PTL DEF Spec
<1> QED BY <1>3 DEF TagNeverGoesBack


-----------------------------------------------------------------------------
(* Verdicts, while a lock outlives its holder: each job has one execution, *)
(* which alone changes the status of its build.                            *)

\* What the steps between FetchJob and the last one do to the rows of their
\* build and its project.
Advance(w) ==
  LET b == worker[w].build
      from == worker[w].pc
      to == worker'[w].pc IN
  /\ UNCHANGED job /\ unheard \subseteq unheard'
  /\ from \in Busy /\ to \in Busy \ {"stub"} /\ worker'[w].build = b
  /\ \A v \in Workers \ {w} : worker'[v] = worker[v]
  /\ \A c \in Builds : build'[c].project = build[c].project
  /\ \A c \in Builds : build'[c].status # build[c].status =>
       /\ c = b /\ build[c].status # "deleted"
       /\ \/ /\ from = "setRunning" /\ to \in {"create", "markFailed"}
             /\ build'[c].status = "running"
          \/ /\ from = "setSuccess" /\ build'[c].status = "success"
             /\ to = "markDone" \/ (to = "setFailed" /\ c \in unheard')
          \/ from = "setBuildFailed" /\ to = "markFailed" /\ build'[c].status = "failed"
  /\ to = "markDone" => from = "setSuccess" /\ build'[b].status \in {"success", "deleted"}
  /\ from \in {"markDone", "markFailed", "setBuildFailed"} => to = "markFailed"
  /\ from = "setFailed" => to \in {"setBuildFailed", "markFailed"}
  /\ \A p \in Projects : project'[p].status = "building" =>
       \/ project[p].status = "building"
       \/ /\ p = ProjectOf(w) /\ from = "setBuilding"
          /\ to \in {"setRunning", "markFailed"}
  /\ to = "setSuccess" => from = "setDeploying" /\ project'[ProjectOf(w)].status # "building"

\* The last step: the job is settled, as completed only by markDone and the stub.
Settled(w) ==
  /\ worker[w].pc \in Busy /\ UNCHANGED <<project, build, unheard>>
  /\ \/ Settle(w, "failed")
     \/ Settle(w, "completed") /\ worker[w].pc \in {"markDone", "stub"}

LEMMA SetProjectStatus ==
  ASSUME project \in [Projects -> ProjectRow], NEW p \in Projects,
         NEW s \in ProjectStatus, NEW t \in Nat, SetProject(p, s, t), NEW q \in Projects
  PROVE  project'[q].status = IF q = p /\ project[q].status # "deleted" THEN s
                              ELSE project[q].status
  BY DEF SetProject, ProjectRow

LEMMA SetBuildStatus ==
  ASSUME build \in [Builds -> BuildRow], NEW b \in Builds,
         NEW s \in {"running", "success", "failed"}, NEW t \in Nat, SetBuild(b, s, t),
         NEW c \in Builds
  PROVE  /\ build'[c].status = IF c = b /\ build[c].status # "deleted" THEN s
                               ELSE build[c].status
         /\ build'[c].project = build[c].project
  BY DEF SetBuild, BuildRow

LEMMA WorkerSteps ==
  ASSUME Shape, NEW w \in Workers, WorkerStep(w)
  PROVE  FetchJob(w) \/ Settled(w) \/ Advance(w)
<1> DEFINE b == worker[w].build
<1>1. /\ worker \in [Workers -> Execution] /\ build \in [Builds -> BuildRow]
      /\ project \in [Projects -> ProjectRow]
  BY DEF Shape, TypeOK
<1>2. worker[w].pc \in Busy =>
        /\ b \in Builds /\ ProjectOf(w) \in Projects /\ worker[w].tag \in Nat
        /\ project[ProjectOf(w)].tag \in Nat /\ build[b].tag \in Nat
  BY BusyFacts DEF Known
<1> USE DEF dbVars, queueVars
<1>3. ASSUME NEW pc \in Busy, Goto(w, pc)
      PROVE  /\ worker'[w].pc = pc /\ worker'[w].build = b
             /\ \A v \in Workers \ {w} : worker'[v] = worker[v]
  BY <1>1, <1>3 DEF Goto, Execution
<1>4. ASSUME worker[w].pc \in Busy, NEW pc \in Busy, Goto(w, pc),
             UNCHANGED <<job, project, build, unheard>>,
             pc \notin {"markDone", "setSuccess", "stub"},
             worker[w].pc \in {"markDone", "markFailed", "setFailed", "setBuildFailed"}
               => pc = "markFailed"
      PROVE  Advance(w)
  BY <1>3, <1>4 DEF Advance
<1>5. CASE SetBuilding(w)
  <2>1. \A q \in Projects : project'[q].status = "building" =>
          project[q].status = "building" \/ q = ProjectOf(w)
    BY <1>1, <1>2, <1>5, SetProjectStatus DEF SetBuilding, Busy, ProjectStatus
  <2> QED BY <1>3, <1>5, <2>1 DEF SetBuilding, Advance, Busy
<1>6. CASE SetDeploying(w)
  <2>1. \A q \in Projects : project'[q].status = "building" =>
          project[q].status = "building" /\ q # ProjectOf(w)
    BY <1>1, <1>2, <1>6, SetProjectStatus DEF SetDeploying, Busy, ProjectStatus
  <2> QED BY <1>2, <1>3, <1>6, <2>1 DEF SetDeploying, Advance, Busy
<1>7. CASE SetFailed(w)
  <2>1. \A q \in Projects : project'[q].status = "building" => project[q].status = "building"
    BY <1>1, <1>2, <1>7, SetProjectStatus DEF SetFailed, Busy, ProjectStatus
  <2> QED BY <1>3, <1>7, <2>1 DEF SetFailed, Advance, Busy
<1>8. CASE SetRunning(w)
  <2>1. \A c \in Builds : /\ build'[c].status = IF c = b /\ build[c].status # "deleted"
                                                THEN "running" ELSE build[c].status
                          /\ build'[c].project = build[c].project
    BY <1>1, <1>2, <1>8, SetBuildStatus DEF SetRunning, Busy
  <2>2. /\ worker'[w].pc = "create" /\ worker'[w].build = b
        /\ \A v \in Workers \ {w} : worker'[v] = worker[v]
    BY <1>1, <1>8 DEF SetRunning
  <2> QED BY <1>8, <2>1, <2>2 DEF SetRunning, Advance, Busy
<1>9. CASE SetSuccess(w)
  <2>1. \A c \in Builds : /\ build'[c].status = IF c = b /\ build[c].status # "deleted"
                                                THEN "success" ELSE build[c].status
                          /\ build'[c].project = build[c].project
    BY <1>1, <1>2, <1>9, SetBuildStatus DEF SetSuccess, Busy
  <2> QED BY <1>2, <1>3, <1>9, <2>1 DEF SetSuccess, Advance, Busy
<1>10. CASE SetBuildFailed(w)
  <2>1. \A c \in Builds : /\ build'[c].status = IF c = b /\ build[c].status # "deleted"
                                                THEN "failed" ELSE build[c].status
                          /\ build'[c].project = build[c].project
    BY <1>1, <1>2, <1>10, SetBuildStatus DEF SetBuildFailed, Busy
  <2> QED BY <1>3, <1>10, <2>1 DEF SetBuildFailed, Advance, Busy
<1>11. CASE MarkRunning(w) \/ CreateFails(w)
  BY <1>4, <1>11 DEF MarkRunning, CreateFails, Busy
<1>12. CASE CreateKubeJob(w) \/ RecreateKubeJob(w)
  BY <1>4, <1>12 DEF CreateKubeJob, RecreateKubeJob, Busy
<1>13. CASE PollJob(w)
  BY <1>4, <1>13 DEF PollJob, Busy
<1>14. CASE MarkDone(w) \/ MarkFailed(w) \/ StubProcess(w)
  BY <1>14 DEF MarkDone, MarkFailed, StubProcess, Settled, Busy
<1>15. CASE QueryFails(w)
  <2>1. CASE ThrowsTo(worker[w].pc) = "report"
    BY <1>15, <2>1 DEF QueryFails, Settled, ThrowsTo, Busy
  <2>2. CASE ThrowsTo(worker[w].pc) # "report"
    BY <1>4, <1>15, <2>2 DEF QueryFails, ThrowsTo, Busy
  <2> QED BY <2>1, <2>2
<1>16. CASE LostAnswer(w)
  <2>1. worker[w].pc \in Busy /\ UNCHANGED job /\ unheard \subseteq unheard'
    BY <1>16, LostAnswerFacts
  <2>2. /\ worker'[w].pc = ThrowsTo(worker[w].pc) /\ worker'[w].build = b
        /\ \A v \in Workers \ {w} : worker'[v] = worker[v]
    BY <1>3, <1>16, LostAnswerFacts DEF Busy
  <2>3. CASE worker[w].pc \in {"setBuilding", "setDeploying", "setFailed"}
    <3>1. \A q \in Projects : project'[q].status = "building" =>
            \/ project[q].status = "building"
            \/ q = ProjectOf(w) /\ worker[w].pc = "setBuilding"
      BY <1>1, <1>2, <2>1, <2>3, <1>16, LostAnswerFacts, SetProjectStatus DEF ProjectStatus
    <3>2. UNCHANGED build
      BY <1>16, <2>3, LostAnswerFacts
    <3> QED BY <1>16, <2>1, <2>2, <2>3, <3>1, <3>2, LostAnswerFacts DEF Advance, Busy
  <2>4. CASE worker[w].pc \in {"setRunning", "setSuccess", "setBuildFailed"}
    <3>1. UNCHANGED project
      BY <1>16, <2>4, LostAnswerFacts
    <3>2. \A c \in Builds :
            /\ build'[c].project = build[c].project
            /\ build'[c].status # build[c].status =>
                 /\ c = b /\ build[c].status # "deleted"
                 /\ build'[c].status =
                      CASE worker[w].pc = "setRunning" -> "running"
                        [] worker[w].pc = "setSuccess" -> "success"
                        [] OTHER -> "failed"
      BY <1>1, <1>2, <2>1, <2>4, <1>16, LostAnswerFacts, SetBuildStatus
    <3> QED BY <1>16, <2>1, <2>2, <2>4, <3>1, <3>2, LostAnswerFacts DEF Advance, Busy
  <2> QED BY <1>16, <2>3, <2>4, LostAnswerFacts
<1> QED BY <1>5, <1>6, <1>7, <1>8, <1>9, <1>10, <1>11, <1>12, <1>13, <1>14, <1>15, <1>16
        DEF WorkerStep

\* The steps that no worker takes on a build: a job enters the queue or is
\* given back to it, and rows are inserted, edited and deleted.
Outside ==
  \/ \E r \in Requests, b \in Builds : InsertBuild(r, b)
  \/ \E r \in Requests : EnqueueBuild(r)
  \/ \E p \in Projects, s \in PatchedStatuses : UpdateProject(p, s)
  \/ \E p \in Projects : DeleteProject(p)
  \/ \E b \in Builds : StallJob(b)
  \/ UNCHANGED <<project, build, job, unheard>> /\ \A w \in Workers :
       worker'[w] = worker[w] \/ worker'[w].pc \notin Busy

LEMMA OutsideOrWorker ==
  ASSUME Shape, [Next]_vars PROVE Outside \/ \E w \in Workers : WorkerStep(w)
<1> USE DEF dbVars, queueVars, kubeVars, Outside
<1>1. CASE UNCHANGED vars
  BY <1>1 DEF vars
<1>2. ASSUME NEW w \in Workers, CrashWorker(w) \/ RestartWorker(w) PROVE Outside
  <2>1. \A v \in Workers : v # w => worker'[v] = worker[v]
    BY <1>2 DEF CrashWorker, RestartWorker, Goto, Shape, TypeOK
  <2>2. worker'[w].pc \notin Busy
    BY <1>2 DEF CrashWorker, RestartWorker, Goto, Shape, TypeOK, Busy, Execution
  <2> QED BY <1>2, <2>1, <2>2 DEF CrashWorker, RestartWorker
<1>3. ASSUME NEW r \in Requests, (\E p \in Projects : CheckProject(r, p)) \/ AbandonRequest(r)
      PROVE  Outside
  BY <1>3 DEF CheckProject, AbandonRequest
<1>4. ASSUME \/ \E i \in pods : PodPushes(i)
             \/ \E n \in Names : KubeJobSucceeds(n) \/ KubePodFails(n)
      PROVE  Outside
  BY <1>4 DEF PodPushes, KubeJobSucceeds, KubePodFails
<1> QED BY <1>1, <1>2, <1>3, <1>4 DEF Next

\* What these steps leave to say of a build: its status changes only by its
\* insertion and its deletion, and its job only gets nearer to a delivery.
LEMMA OutsideEffect ==
  ASSUME Shape, Ownership, ~LockLoss, Outside
  PROVE  /\ \A w \in Workers : worker'[w] = worker[w] \/ worker'[w].pc \notin Busy
         /\ UNCHANGED unheard
         /\ \A b \in Builds : build'[b].status # build[b].status =>
              \/ build'[b].status = "deleted"
              \/ build'[b].status = "queued" /\ build[b].status = "none"
         /\ \A b \in Builds : Known(b) => build'[b].project = build[b].project
         /\ \A b \in Builds : job'[b] # job[b] =>
              \/ /\ job[b].state = "none" /\ job'[b].state = "waiting"
                 /\ job'[b].stalls = job[b].stalls
              \/ /\ job[b].state = "active" /\ job'[b].state = "waiting"
                 /\ job'[b].stalls > 0
              \/ /\ job[b].state = "active" /\ job'[b].state = "failed"
                 /\ job'[b].stalls = job[b].stalls
         /\ \A p \in Projects : project'[p].status # project[p].status =>
              project'[p].status \in PatchedStatuses \cup {"deleted"}
<1>1. /\ worker \in [Workers -> Execution] /\ build \in [Builds -> BuildRow]
      /\ project \in [Projects -> ProjectRow] /\ job \in [Builds -> QueueJob]
  BY DEF Shape, TypeOK
<1> USE DEF dbVars, queueVars
<1>2. ASSUME NEW r \in Requests, NEW b \in Builds, InsertBuild(r, b)
      PROVE  /\ UNCHANGED <<worker, job, project, unheard>>
             /\ \A c \in Builds : c # b => build'[c] = build[c]
             /\ build[b].status = "none" /\ build'[b].status = "queued" /\ ~ Known(b)
  BY <1>1, <1>2 DEF InsertBuild, Shape, RowsOK
<1>3. ASSUME NEW r \in Requests, EnqueueBuild(r)
      PROVE  /\ UNCHANGED <<worker, build, project, unheard>>
             /\ \A c \in Builds : job'[c] # job[c] =>
                  /\ job[c].state = "none" /\ job'[c].state = "waiting"
                  /\ job'[c].stalls = job[c].stalls
  <2>1. request[r].build \in Builds /\ job[request[r].build].state = "none"
    BY <1>3 DEF EnqueueBuild, Ownership, QueuedOnce, Shape, RequestsOK, Known
  <2> QED BY <1>1, <1>3, <2>1 DEF EnqueueBuild, QueueJob
<1>4. ASSUME NEW p \in Projects, NEW s \in PatchedStatuses, UpdateProject(p, s)
      PROVE  /\ UNCHANGED <<worker, build, job, unheard>>
             /\ \A q \in Projects : project'[q].status # project[q].status =>
                  project'[q].status \in PatchedStatuses
  BY <1>1, <1>4 DEF UpdateProject, ProjectRow
<1>5. ASSUME NEW p \in Projects, DeleteProject(p)
      PROVE  /\ UNCHANGED <<worker, job, unheard>>
             /\ \A c \in Builds : /\ build'[c].project = build[c].project
                                  /\ build'[c].status \in {build[c].status, "deleted"}
             /\ \A q \in Projects : project'[q].status \in {project[q].status, "deleted"}
  BY <1>1, <1>5 DEF DeleteProject
<1>6. ASSUME NEW b \in Builds, StallJob(b)
      PROVE  /\ UNCHANGED <<worker, build, project, unheard>>
             /\ \A c \in Builds : job'[c] # job[c] =>
                  /\ job[c].state = "active"
                  /\ \/ job'[c].state = "failed" /\ job'[c].stalls = job[c].stalls
                     \/ job'[c].state = "waiting" /\ job'[c].stalls > 0
  <2>1. /\ job[b].state = "active" /\ job[b].stalls \in Nat
        /\ UNCHANGED <<worker, build, project, unheard>>
    BY <1>1, <1>6 DEF StallJob, QueueJob
  <2>2. \/ job' = [job EXCEPT ![b] = [state |-> "waiting", owner |-> NoWorker,
                                      stalls |-> job[b].stalls + 1]]
        \/ job' = [job EXCEPT ![b] = [state |-> "failed", owner |-> NoWorker,
                                      stalls |-> job[b].stalls]]
    BY <1>6 DEF StallJob, SetJob
  <2> QED BY <1>1, <2>1, <2>2
<1> QED BY <1>2, <1>3, <1>4, <1>5, <1>6 DEF Outside

\* A settled job has been executed, and only its own execution settles it.
LEMMA SettledEffect ==
  ASSUME Shape, Ownership, ~LockLoss, NEW w \in Workers, Settled(w)
  PROVE  LET b == worker[w].build IN
         /\ UNCHANGED <<project, build, unheard>> /\ b \in Builds
         /\ worker'[w].pc \notin Busy
         /\ \A v \in Workers \ {w} : worker'[v] = worker[v]
         /\ \A c \in Builds : c # b => job'[c] = job[c]
         /\ job'[b].stalls = job[b].stalls
         /\ \/ job'[b].state = "failed"
            \/ job'[b].state = "completed" /\ worker[w].pc \in {"markDone", "stub"}
<1>1. /\ worker \in [Workers -> Execution] /\ job \in [Builds -> QueueJob]
      /\ worker[w].build \in Builds
  BY DEF Shape, TypeOK, Settled, WorkersOK, Busy, Known
<1>2. job[worker[w].build].state = "active" /\ job[worker[w].build].owner = w
  BY DEF Ownership, HeldLock, Settled
<1> QED BY <1>1, <1>2 DEF Settled, Settle, SetJob, Busy

LEMMA FetchEffect ==
  ASSUME Shape, Ownership, NEW w \in Workers, FetchJob(w)
  PROVE  LET b == Head(waiting) IN
         /\ UNCHANGED <<project, build, unheard>> /\ b \in Builds
         /\ worker[w].pc = "idle" /\ worker'[w].build = b /\ worker'[w].pc = FirstStep(w)
         /\ \A v \in Workers \ {w} : worker'[v] = worker[v]
         /\ \A c \in Builds : c # b => job'[c] = job[c]
         /\ job[b].state = "waiting" /\ job'[b].state = "active"
         /\ job'[b].stalls = job[b].stalls
<1>1. /\ worker \in [Workers -> Execution] /\ job \in [Builds -> QueueJob]
      /\ waiting \in Seq(Builds) /\ waiting # <<>>
  BY DEF Shape, TypeOK, FetchJob
<1>2. Head(waiting) \in Builds /\ Head(waiting) = waiting[1] /\ 1 \in 1..Len(waiting)
  BY <1>1
<1>3. job[Head(waiting)].state = "waiting"
  BY <1>2 DEF Ownership, QueuedOnce
<1> QED BY <1>1, <1>2, <1>3 DEF FetchJob, SetJob, dbVars

LEMMA AloneOnBuild ==
  ASSUME Shape, Ownership, ~LockLoss, NEW w \in Workers, worker[w].pc \in Busy
  PROVE  /\ worker[w].build \in Builds
         /\ job[worker[w].build].state = "active" /\ job[worker[w].build].owner = w
         /\ \A v \in Workers : worker[v].pc \in Busy /\ worker[v].build = worker[w].build => v = w
  BY DEF Shape, WorkersOK, Known, Ownership, HeldLock, Busy

-----------------------------------------------------------------------------
\* An execution that reports success has left its build a success, or deleted.
DoneIsSuccess == \A w \in Workers : worker[w].pc = "markDone" =>
  build[worker[w].build].status \in {"success", "deleted"}

\* A build that was delivered once has no verdict before its execution is over,
\* or in the catch block with a success it never heard of.
FirstVerdict == \A b \in Builds :
  job[b].stalls = 0 /\ build[b].status \in {"success", "failed"} =>
    /\ job[b].state \notin {"none", "waiting"}
    /\ \A w \in Workers : worker[w].pc \in Busy /\ worker[w].build = b =>
         \/ worker[w].pc \in {"markDone", "markFailed"}
         \/ /\ worker[w].pc \in {"setFailed", "setBuildFailed"}
            /\ build[b].status = "success" /\ b \in unheard

LEMMA FirstVerdictStep ==
  ASSUME ~LockLoss, Shape, Ownership, FirstVerdict, [Next]_vars
  PROVE  FirstVerdict'
<1> DEFINE Over(b) ==
      /\ job'[b].state \notin {"none", "waiting"}
      /\ \A v \in Workers : worker'[v].pc \in Busy /\ worker'[v].build = b =>
           \/ worker'[v].pc \in {"markDone", "markFailed"}
           \/ /\ worker'[v].pc \in {"setFailed", "setBuildFailed"}
              /\ build'[b].status = "success" /\ b \in unheard'
<1> SUFFICES ASSUME NEW b \in Builds, job'[b].stalls = 0,
                    build'[b].status \in {"success", "failed"}
             PROVE  Over(b)
  BY DEF FirstVerdict
<1>1. job[b].stalls \in Nat
  BY DEF Shape, TypeOK, QueueJob
<1>2. CASE Outside
  <2>1. job[b].stalls = 0 /\ build[b].status \in {"success", "failed"}
    BY <1>1, <1>2, OutsideEffect DEF FirstVerdict
  <2> QED BY <1>2, <2>1, OutsideEffect DEF FirstVerdict
<1>3. ASSUME NEW w \in Workers, FetchJob(w)
      PROVE  Over(b)
  BY <1>3, FetchEffect DEF FirstVerdict
<1>4. ASSUME NEW w \in Workers, Settled(w)
      PROVE  Over(b)
  BY <1>4, SettledEffect DEF FirstVerdict
<1>5. ASSUME NEW w \in Workers, Advance(w)
      PROVE  Over(b)
  <2>1. worker[w].pc \in Busy
    BY <1>5 DEF Advance
  <2>2. CASE b = worker[w].build
    BY <1>5, <2>1, <2>2, AloneOnBuild DEF Advance, FirstVerdict
  <2>3. CASE b # worker[w].build
    BY <1>5, <2>3 DEF Advance, FirstVerdict
  <2> QED BY <2>2, <2>3
<1> QED BY <1>2, <1>3, <1>4, <1>5, OutsideOrWorker, WorkerSteps

LEMMA VerdictStep ==
  ASSUME ~LockLoss, Shape, Ownership, FirstVerdict, [Next]_vars, NEW b \in Builds,
         build[b].status \in {"success", "failed"}, build'[b].status # build[b].status
  PROVE  \/ build'[b].status = "deleted"
         \/ \E w \in Workers :
              /\ Executing(w, b) /\ job[b].owner = w
              /\ \/ job[b].stalls > 0
                 \/ build[b].status = "success" /\ b \in unheard
<1>1. job[b].stalls \in Nat
  BY DEF Shape, TypeOK, QueueJob
<1>2. CASE Outside
  BY <1>2, OutsideEffect
<1>3. ASSUME NEW w \in Workers, FetchJob(w) \/ Settled(w) PROVE FALSE
  BY <1>3, FetchEffect, SettledEffect
<1>4. ASSUME NEW w \in Workers, Advance(w)
      PROVE  /\ Executing(w, b) /\ job[b].owner = w
             /\ \/ job[b].stalls > 0
                \/ build[b].status = "success" /\ b \in unheard
  <2>1. worker[w].pc \in Busy \ {"markDone", "markFailed"} /\ worker[w].build = b
    BY <1>4 DEF Advance
  <2> QED BY <1>1, <2>1, AloneOnBuild DEF FirstVerdict, Executing
<1> QED BY <1>2, <1>3, <1>4, OutsideOrWorker, WorkerSteps

LEMMA InitVerdicts == Init => FirstVerdict /\ DoneIsSuccess /\ CompletedMeansSuccess
  BY DEF Init, FirstVerdict, DoneIsSuccess, CompletedMeansSuccess

\* While no live worker loses its lock, the verdict of a build is overwritten only
\* by an execution that holds its lock and that the queue delivered again, or
\* that never heard that its own UPDATE to success was committed.
THEOREM VerdictsStand == ASSUME ~LockLoss PROVE Spec => VerdictStands
<1> DEFINE Stands ==
      \A b \in Builds :
        (build[b].status \in {"success", "failed"} /\ build'[b].status # build[b].status)
        => \/ build'[b].status = "deleted"
           \/ \E w \in Workers : /\ Executing(w, b) /\ job[b].owner = w
                                 /\ \/ job[b].stalls > 0
                                    \/ build[b].status = "success" /\ b \in unheard
<1>1. Shape /\ Ownership /\ FirstVerdict /\ [Next]_vars => FirstVerdict' /\ [Stands]_vars
  BY FirstVerdictStep, VerdictStep
<1>2. Init => FirstVerdict
  BY InitVerdicts
<1>3. Spec => [][Stands]_vars
  BY <1>1, <1>2, ShapeAlways, InitOwnership, OwnershipInductive, PTL DEF Spec
<1>4. [Stands]_vars =>
        [\A b \in Builds :
           (build[b].status \in {"success", "failed"}
              /\ build'[b].status # build[b].status)
           => build'[b].status = "deleted"
              \/ \E w \in Workers : /\ Executing(w, b)
                                  /\ job[b].owner = w
                                  /\ \/ job[b].stalls > 0
                                     \/ /\ build[b].status = "success"
                                        /\ b \in unheard]_vars
  OBVIOUS
<1> QED BY <1>3, <1>4, PTL DEF VerdictStands

-----------------------------------------------------------------------------
(* What a completed job says, with no worker that completes builds unbuilt. *)

OnlyStubsStub == \A w \in Workers : worker[w].pc = "stub" => w \in Stubs

LEMMA OnlyStubsStep ==
  ASSUME ~LockLoss, Shape, Ownership, OnlyStubsStub, [Next]_vars PROVE OnlyStubsStub'
<1>1. CASE Outside
  BY <1>1, OutsideEffect DEF OnlyStubsStub, Busy
<1>2. ASSUME NEW w \in Workers, FetchJob(w) PROVE OnlyStubsStub'
  BY <1>2, FetchEffect DEF OnlyStubsStub, FirstStep
<1>3. ASSUME NEW w \in Workers, Settled(w) PROVE OnlyStubsStub'
  BY <1>3, SettledEffect DEF OnlyStubsStub, Busy
<1>4. ASSUME NEW w \in Workers, Advance(w) PROVE OnlyStubsStub'
  BY <1>4 DEF Advance, OnlyStubsStub
<1> QED BY <1>1, <1>2, <1>3, <1>4, OutsideOrWorker, WorkerSteps

LEMMA DoneStep ==
  ASSUME ~LockLoss, Stubs = {}, Shape, OnlyStubsStub, Ownership, DoneIsSuccess,
         CompletedMeansSuccess, [Next]_vars
  PROVE  DoneIsSuccess' /\ CompletedMeansSuccess'
<1>1. \A w \in Workers : worker[w].pc = "markDone" => worker[w].pc \in Busy /\ Known(worker[w].build)
  BY DEF Shape, WorkersOK, Busy
<1>2. CASE Outside
  <2>1. \A b \in Builds : build[b].status \in {"success", "deleted"} =>
          build'[b].status \in {"success", "deleted"}
    BY <1>2, OutsideEffect
  <2>2. \A w \in Workers : worker'[w].pc = "markDone" => worker'[w] = worker[w]
    BY <1>2, OutsideEffect DEF Busy
  <2>3. \A b \in Builds : job'[b].state = "completed" => job[b].state = "completed"
    BY <1>2, OutsideEffect
  <2> QED BY <1>1, <2>1, <2>2, <2>3 DEF DoneIsSuccess, CompletedMeansSuccess, Known
<1>3. ASSUME NEW w \in Workers, FetchJob(w) PROVE DoneIsSuccess' /\ CompletedMeansSuccess'
  BY <1>3, FetchEffect DEF DoneIsSuccess, CompletedMeansSuccess, FirstStep
<1>4. ASSUME NEW w \in Workers, Settled(w) PROVE DoneIsSuccess' /\ CompletedMeansSuccess'
  <2> DEFINE b == worker[w].build
  <2>1. worker[w].pc # "stub"
    BY DEF OnlyStubsStub
  <2> QED BY <1>4, <2>1, SettledEffect DEF DoneIsSuccess, CompletedMeansSuccess, Busy
<1>5. ASSUME NEW w \in Workers, Advance(w) PROVE DoneIsSuccess' /\ CompletedMeansSuccess'
  <2> DEFINE b == worker[w].build
  <2>1. /\ worker[w].pc \in Busy /\ b \in Builds /\ job[b].state = "active"
        /\ \A v \in Workers : worker[v].pc \in Busy /\ worker[v].build = b => v = w
    BY <1>5, AloneOnBuild DEF Advance
  <2>2. CompletedMeansSuccess'
    BY <1>5, <2>1 DEF Advance, CompletedMeansSuccess
  <2>3. ASSUME NEW v \in Workers, worker'[v].pc = "markDone"
        PROVE  build'[worker'[v].build].status \in {"success", "deleted"}
    <3>1. CASE v = w
      BY <1>5, <2>3, <3>1 DEF Advance
    <3>2. CASE v # w
      <4>1. worker'[v] = worker[v] /\ Known(worker[v].build) /\ worker[v].build # b
        BY <1>1, <1>5, <2>1, <2>3, <3>2 DEF Advance
      <4> QED BY <1>5, <2>3, <4>1 DEF Advance, DoneIsSuccess, Known
    <3> QED BY <3>1, <3>2
  <2> QED BY <2>2, <2>3 DEF DoneIsSuccess
<1> QED BY <1>2, <1>3, <1>4, <1>5, OutsideOrWorker, WorkerSteps

\* While no live worker loses its lock and every worker builds, a job the queue
\* shows as completed has left its build a success, or deleted.
THEOREM CompletedIsSuccess ==
  ASSUME ~LockLoss, Stubs = {} PROVE Spec => []CompletedMeansSuccess
<1>1. Shape /\ OnlyStubsStub /\ Ownership /\ DoneIsSuccess /\ CompletedMeansSuccess
        /\ [Next]_vars => OnlyStubsStub' /\ DoneIsSuccess' /\ CompletedMeansSuccess'
  BY DoneStep, OnlyStubsStep
<1>2. Init => OnlyStubsStub /\ DoneIsSuccess /\ CompletedMeansSuccess
  BY InitVerdicts DEF Init, OnlyStubsStub
<1> QED BY <1>1, <1>2, ShapeAlways, InitOwnership, OwnershipInductive, PTL
        DEF Spec

-----------------------------------------------------------------------------
(* A wedged project.                                                       *)

\* A job that still holds the project it set to building, or has failed.
Holds(b) ==
  \/ job[b].state \in {"waiting", "failed"}
  \/ /\ job[b].state = "active"
     /\ \A w \in Workers : worker[w].pc \in Busy /\ worker[w].build = b =>
          worker[w].pc \notin {"setSuccess", "markDone", "stub"}

WedgeHeld == \A p \in Projects : project[p].status = "building" =>
  \E b \in Builds : build[b].project = p /\ Holds(b)

LEMMA WedgeStep ==
  ASSUME ~LockLoss, Stubs = {}, "building" \notin PatchedStatuses,
         Shape, Ownership, WedgeHeld, [Next]_vars
  PROVE  WedgeHeld'
<1> SUFFICES ASSUME NEW p \in Projects, project'[p].status = "building"
             PROVE  \E b \in Builds : build'[b].project = p /\ Holds(b)'
  BY DEF WedgeHeld
<1>1. ASSUME project[p].status = "building"
      PROVE  \E b \in Builds : build[b].project = p /\ Holds(b) /\ Known(b)
  BY <1>1 DEF WedgeHeld, Known
<1>2. CASE Outside
  <2>1. project[p].status = "building"
    BY <1>2, OutsideEffect
  <2>2. PICK b \in Builds : build[b].project = p /\ Holds(b) /\ Known(b)
    BY <1>1, <2>1
  <2>3. build'[b].project = p
    BY <1>2, <2>2, OutsideEffect
  <2>4. Holds(b)'
    BY <1>2, <2>2, OutsideEffect DEF Holds
  <2> QED BY <2>3, <2>4
<1>3. ASSUME NEW w \in Workers, FetchJob(w)
      PROVE  \E b \in Builds : build'[b].project = p /\ Holds(b)'
  <2>1. PICK b \in Builds : build[b].project = p /\ Holds(b) /\ Known(b)
    BY <1>1, <1>3, FetchEffect
  <2>2. FirstStep(w) = "markRunning"
    BY DEF FirstStep
  <2>3. b = Head(waiting) => \A v \in Workers : worker[v].pc \in Busy => worker[v].build # b
    BY <1>3, FetchEffect DEF Ownership, HeldLock
  <2>4. Holds(b)'
    BY <1>3, <2>1, <2>2, <2>3, FetchEffect DEF Holds
  <2> QED BY <1>3, <2>1, <2>4, FetchEffect
<1>4. ASSUME NEW w \in Workers, Settled(w)
      PROVE  \E b \in Builds : build'[b].project = p /\ Holds(b)'
  <2>1. PICK b \in Builds : build[b].project = p /\ Holds(b) /\ Known(b)
    BY <1>1, <1>4, SettledEffect
  <2>2. CASE b # worker[w].build
    BY <1>4, <2>1, <2>2, SettledEffect DEF Holds
  <2>3. CASE b = worker[w].build
    <3>1. job[b].state = "active" /\ worker[w].pc \in Busy
      BY <1>4, <2>3, AloneOnBuild DEF Settled
    <3>2. job'[b].state = "failed"
      BY <1>4, <2>1, <2>3, <3>1, SettledEffect DEF Holds
    <3> QED BY <1>4, <2>1, <3>2, SettledEffect DEF Holds
  <2> QED BY <2>2, <2>3
<1>5. ASSUME NEW w \in Workers, Advance(w)
      PROVE  \E b \in Builds : build'[b].project = p /\ Holds(b)'
  <2> DEFINE own == worker[w].build
  <2>1. /\ worker[w].pc \in Busy /\ own \in Builds /\ job[own].state = "active"
        /\ \A v \in Workers : worker[v].pc \in Busy /\ worker[v].build = own => v = w
    BY <1>5, AloneOnBuild DEF Advance
  <2>2. CASE project[p].status = "building"
    <3>1. PICK b \in Builds : build[b].project = p /\ Holds(b) /\ Known(b)
      BY <1>1, <2>2
    <3>2. CASE b # own
      BY <1>5, <3>1, <3>2 DEF Advance, Holds
    <3>3. CASE b = own
      <4>1. worker[w].pc \notin {"setSuccess", "markDone", "stub"}
        BY <2>1, <3>1, <3>3 DEF Holds
      <4>2. worker'[w].pc \notin {"setSuccess", "markDone", "stub"}
        BY <1>5, <3>1, <3>3, <4>1 DEF Advance, ProjectOf
      <4>3. \A v \in Workers : worker'[v].pc \in Busy /\ worker'[v].build = own => v = w
        BY <1>5, <2>1 DEF Advance
      <4> QED BY <1>5, <2>1, <3>1, <3>3, <4>2, <4>3 DEF Advance, Holds
    <3> QED BY <3>2, <3>3
  <2>3. CASE project[p].status # "building"
    <3>1. p = ProjectOf(w) /\ worker'[w].pc \in {"setRunning", "markFailed"}
      BY <1>5, <2>3 DEF Advance
    <3>2. \A v \in Workers : worker'[v].pc \in Busy /\ worker'[v].build = own => v = w
      BY <1>5, <2>1 DEF Advance
    <3> QED BY <1>5, <2>1, <3>1, <3>2 DEF Advance, Holds, ProjectOf
  <2> QED BY <2>2, <2>3
<1> QED BY <1>2, <1>3, <1>4, <1>5, OutsideOrWorker, WorkerSteps

\* While no live worker loses its lock and every worker builds, and unless an
\* operator writes 'building' by hand, a project that is left building has a
\* job that waits, runs or failed.
THEOREM WedgesHaveCauses ==
  ASSUME ~LockLoss, Stubs = {}, "building" \notin PatchedStatuses
  PROVE  Spec => []WedgeHasCause
<1>1. Shape /\ Ownership /\ WedgeHeld /\ [Next]_vars => WedgeHeld'
  BY WedgeStep
<1>2. Init => WedgeHeld
  BY DEF Init, WedgeHeld
<1>3. WedgeHeld => WedgeHasCause
  BY DEF WedgeHeld, Holds, WedgeHasCause
<1> QED BY <1>1, <1>2, <1>3, ShapeAlways, InitOwnership, OwnershipInductive, PTL
        DEF Spec
=============================================================================
