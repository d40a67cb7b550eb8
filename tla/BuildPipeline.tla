--------------------------- MODULE BuildPipeline ---------------------------
(***************************************************************************)
(* From POST /builds/trigger to the verdict of a build: BuildsService      *)
(* .triggerBuild, the BullMQ queue 'harbr-jobs', JobsProcessor.process and *)
(* KanikoService.executeKanikoJob, with the projects and builds rows they  *)
(* write and the Kubernetes Job each execution creates and polls.          *)
(*                                                                         *)
(* Every awaited call is a step of its own, so requests, workers, Kaniko   *)
(* pods and deletions interleave at the awaits, and a process may die      *)
(* between any two of them.                                                *)
(***************************************************************************)
EXTENDS Naturals, Sequences

CONSTANTS
  Projects, Builds,  \* project ids and build ids (the uuids inserted rows get)
  Requests,          \* concurrent API handlers inside triggerBuild
  Workers,           \* BullMQ worker processes of the queue 'harbr-jobs'
  Stubs,             \* those of deployment harbr-worker: they build nothing
  Names, JobName,    \* Kubernetes Job names, and `build-${buildId.slice(0, 8)}`
  MaxStalled,        \* BullMQ maxStalledCount
  BackoffLimit,      \* backoffLimit of the Kaniko Job
  PatchedStatuses,   \* values an operator writes with PATCH /projects/:id
  Crashes,           \* may a worker process die
  LockLoss,          \* may a live worker lose its BullMQ lock
  DbErrors,          \* may a query of the worker be rejected
  K8sErrors,         \* may a call to the Kubernetes API be rejected
  NoProject, NoBuild, NoWorker, NoImage

\* project_status values the modelled code writes, and the absent row.
ProjectStatus == {"idle", "building", "deploying", "running", "failed"}

ASSUME ConstantsAssumption ==
  /\ JobName \in [Builds -> Names]
  /\ Stubs \subseteq Workers
  /\ MaxStalled \in Nat
  /\ BackoffLimit \in Nat
  /\ PatchedStatuses \subseteq ProjectStatus
  /\ Crashes \in BOOLEAN
  /\ LockLoss \in BOOLEAN
  /\ DbErrors \in BOOLEAN
  /\ K8sErrors \in BOOLEAN
  /\ NoProject \notin Projects
  /\ NoBuild \notin Builds
  /\ NoWorker \notin Workers
  /\ NoImage \notin Builds \X Nat

VARIABLES
  project,   \* rows of projects: status and current_image_tag (0 is NULL)
  build,     \* rows of builds; project is also the job payload's projectId
  request,   \* the API handlers between the awaits of triggerBuild
  waiting,   \* BullMQ's wait list
  job,       \* BullMQ's record of the job whose id is the build's id
  worker,    \* the program counter of the processor in each process
  kube,      \* Job objects in namespace harbr-builds, by name
  pods,      \* images that a Kaniko pod is still building
  pushed,    \* images in the registry, as <<build, tag>>
  clock,     \* Date.now(): each execution reads a later value than the last
  unheard    \* history: builds whose execution never heard of its own success

vars == <<project, build, request, waiting, job, worker, kube, pods, pushed,
          clock, unheard>>
dbVars == <<project, build>>
queueVars == <<waiting, job>>
kubeVars == <<kube, pods, pushed>>

Image == Builds \X (Nat \ {0})
JobFor(i) == [image |-> i, failed |-> 0, succeeded |-> FALSE]
NoJob == JobFor(NoImage)

ProjectRow == [status : ProjectStatus \cup {"deleted"}, tag : Nat]
BuildRow ==
  [status : {"none", "queued", "running", "success", "failed", "deleted"},
   project : Projects \cup {NoProject}, tag : Nat]
Handler ==
  [pc : {"idle", "insert", "enqueue"},
   project : Projects \cup {NoProject}, build : Builds \cup {NoBuild}]
QueueJob ==
  [state : {"none", "waiting", "active", "completed", "failed"},
   owner : Workers \cup {NoWorker}, stalls : 0..MaxStalled]
Execution ==
  [pc : {"idle", "markRunning", "setBuilding", "setRunning", "create",
         "recreate", "poll", "setDeploying", "setSuccess", "setFailed",
         "setBuildFailed", "markDone", "markFailed", "stub", "down"},
   build : Builds \cup {NoBuild}, tag : Nat]
KubeJob ==
  [image : Image \cup {NoImage}, failed : 0..(BackoffLimit + 1),
   succeeded : BOOLEAN]

TypeOK ==
  /\ project \in [Projects -> ProjectRow]
  /\ build \in [Builds -> BuildRow]
  /\ request \in [Requests -> Handler]
  /\ waiting \in Seq(Builds)
  /\ job \in [Builds -> QueueJob]
  /\ worker \in [Workers -> Execution]
  /\ kube \in [Names -> KubeJob]
  /\ pods \subseteq Image
  /\ pushed \subseteq Image
  /\ clock \in Nat \ {0}
  /\ unheard \subseteq Builds

Init ==
  /\ project = [p \in Projects |-> [status |-> "idle", tag |-> 0]]
  /\ build = [b \in Builds |->
       [status |-> "none", project |-> NoProject, tag |-> 0]]
  /\ request = [r \in Requests |->
       [pc |-> "idle", project |-> NoProject, build |-> NoBuild]]
  /\ waiting = <<>>
  /\ job = [b \in Builds |->
       [state |-> "none", owner |-> NoWorker, stalls |-> 0]]
  /\ worker = [w \in Workers |->
       [pc |-> "idle", build |-> NoBuild, tag |-> 0]]
  /\ kube = [n \in Names |-> NoJob]
  /\ pods = {}
  /\ pushed = {}
  /\ clock = 1
  /\ unheard = {}

-----------------------------------------------------------------------------
(* BuildsService.triggerBuild: three awaits, no transaction.               *)

\* The SELECT that lets a trigger through; any other status is a conflict.
CheckProject(r, p) ==
  /\ request[r].pc = "idle"
  /\ project[p].status \notin {"building", "deploying", "deleted"}
  /\ request' = [request EXCEPT
       ![r] = [pc |-> "insert", project |-> p, build |-> NoBuild]]
  /\ UNCHANGED <<dbVars, queueVars, worker, kubeVars, clock, unheard>>

\* The INSERT; the row's foreign key makes it fail once the project is gone.
InsertBuild(r, b) ==
  /\ request[r].pc = "insert"
  /\ build[b].status = "none"
  /\ project[request[r].project].status # "deleted"
  /\ build' = [build EXCEPT
       ![b] = [status |-> "queued", project |-> request[r].project, tag |-> 0]]
  /\ request' = [request EXCEPT
       ![r] = [pc |-> "enqueue", project |-> request[r].project, build |-> b]]
  /\ UNCHANGED <<project, queueVars, worker, kubeVars, clock, unheard>>

RequestDone(r) ==
  request' = [request EXCEPT
    ![r] = [pc |-> "idle", project |-> NoProject, build |-> NoBuild]]

\* queue.add('build', ..., { jobId: build.id }).
EnqueueBuild(r) ==
  /\ request[r].pc = "enqueue"
  /\ LET b == request[r].build IN
       /\ waiting' = Append(waiting, b)
       /\ job' = [job EXCEPT ![b].state = "waiting"]
  /\ RequestDone(r)
  /\ UNCHANGED <<dbVars, worker, kubeVars, clock, unheard>>

\* The handler ends between two awaits: the INSERT or queue.add is rejected,
\* or the API process dies. Nothing undoes what it already wrote.
AbandonRequest(r) ==
  /\ request[r].pc \in {"insert", "enqueue"}
  /\ RequestDone(r)
  /\ UNCHANGED <<dbVars, queueVars, worker, kubeVars, clock, unheard>>

(* ProjectsService.                                                         *)

\* PATCH /projects/:id writes whatever columns the body names.
UpdateProject(p, s) ==
  /\ project[p].status \notin {"deleted", s}
  /\ project' = [project EXCEPT ![p].status = s]
  /\ UNCHANGED <<build, request, queueVars, worker, kubeVars, clock, unheard>>

\* DELETE /projects/:id; builds go with the row (ON DELETE CASCADE), queued
\* jobs and running executions do not.
DeleteProject(p) ==
  /\ project[p].status # "deleted"
  /\ project' = [project EXCEPT ![p] = [status |-> "deleted", tag |-> 0]]
  /\ build' = [b \in Builds |->
       IF build[b].project = p
       THEN [status |-> "deleted", project |-> p, tag |-> 0] ELSE build[b]]
  /\ UNCHANGED <<request, queueVars, worker, kubeVars, clock, unheard>>

-----------------------------------------------------------------------------
(* JobsProcessor.process and KanikoService.executeKanikoJob, run by worker *)
(* w (BullMQ's concurrency is 1).                                          *)

Goto(w, pc) == worker' = [worker EXCEPT ![w].pc = pc]

\* UPDATE projects ... WHERE id: no row, no effect.
SetProject(p, s, t) ==
  project' = IF project[p].status = "deleted" THEN project
             ELSE [project EXCEPT ![p] = [status |-> s, tag |-> t]]

\* UPDATE builds ... WHERE id: no row, no effect.
SetBuild(b, s, t) ==
  build' = IF build[b].status = "deleted" THEN build
           ELSE [build EXCEPT
                  ![b] = [status |-> s, project |-> build[b].project, tag |-> t]]

ProjectOf(w) == build[worker[w].build].project

SetJob(b, s, o) ==
  job' = [job EXCEPT
    ![b] = [state |-> s, owner |-> o, stalls |-> job[b].stalls]]

FirstStep(w) == IF w \in Stubs THEN "stub" ELSE "markRunning"

\* The worker takes the head of the wait list under a lock of its own.
FetchJob(w) ==
  /\ worker[w].pc = "idle"
  /\ waiting # <<>>
  /\ waiting' = Tail(waiting)
  /\ SetJob(Head(waiting), "active", w)
  /\ worker' = [worker EXCEPT
       ![w] = [pc |-> FirstStep(w), build |-> Head(waiting), tag |-> 0]]
  /\ UNCHANGED <<dbVars, request, kubeVars, clock, unheard>>

\* jobsService.markRunning: builds have no row in jobs, so nothing changes.
MarkRunning(w) ==
  /\ worker[w].pc = "markRunning"
  /\ Goto(w, "setBuilding")
  /\ UNCHANGED <<dbVars, request, queueVars, kubeVars, clock, unheard>>

SetBuilding(w) ==
  /\ worker[w].pc = "setBuilding"
  /\ SetProject(ProjectOf(w), "building", project[ProjectOf(w)].tag)
  /\ Goto(w, "setRunning")
  /\ UNCHANGED <<build, request, queueVars, kubeVars, clock, unheard>>

\* Mutant: the image is tagged with the number of the delivery.
BugSetRunning(w) ==
  /\ worker[w].pc = "setRunning"
  /\ SetBuild(worker[w].build, "running", build[worker[w].build].tag)
  /\ worker' = [worker EXCEPT
       ![w] = [pc |-> "create", build |-> worker[w].build,
               tag |-> job[worker[w].build].stalls + 1]]
  /\ UNCHANGED <<project, request, queueVars, kubeVars, clock, unheard>>

\* The build is marked running and imageTag = Date.now() follows at once.
SetRunning(w) ==
  /\ worker[w].pc = "setRunning"
  /\ SetBuild(worker[w].build, "running", build[worker[w].build].tag)
  /\ worker' = [worker EXCEPT
       ![w] = [pc |-> "create", build |-> worker[w].build, tag |-> clock]]
  /\ clock' = clock + 1
  /\ UNCHANGED <<project, request, queueVars, kubeVars, unheard>>

Exists(n) == kube[n].image # NoImage
NameOf(w) == JobName[worker[w].build]
ImageOf(w) == <<worker[w].build, worker[w].tag>>

StartKubeJob(w) ==
  /\ kube' = [kube EXCEPT ![NameOf(w)] = JobFor(ImageOf(w))]
  /\ pods' = pods \cup {ImageOf(w)}

\* Mutant: a Job of that name is taken for this execution's own.
BugCreateKubeJob(w) ==
  /\ worker[w].pc = "create"
  /\ IF ~Exists(NameOf(w)) THEN StartKubeJob(w) ELSE UNCHANGED <<kube, pods>>
  /\ Goto(w, "poll")
  /\ UNCHANGED <<dbVars, request, queueVars, pushed, clock, unheard>>

\* k8sApi.create(job); an object of that name is a 409, answered by deleting
\* it. The pods of the deleted Job are orphaned, not stopped.
CreateKubeJob(w) ==
  /\ worker[w].pc = "create"
  /\ \/ /\ ~Exists(NameOf(w))
        /\ StartKubeJob(w)
        /\ Goto(w, "poll")
     \/ /\ Exists(NameOf(w))
        /\ kube' = [kube EXCEPT ![NameOf(w)] = NoJob]
        /\ Goto(w, "recreate")
        /\ UNCHANGED pods
  /\ UNCHANGED <<dbVars, request, queueVars, pushed, clock, unheard>>

\* The second create; if another execution took the name meanwhile it throws.
RecreateKubeJob(w) ==
  /\ worker[w].pc = "recreate"
  /\ \/ /\ ~Exists(NameOf(w))
        /\ StartKubeJob(w)
        /\ Goto(w, "poll")
     \/ /\ Exists(NameOf(w))
        /\ Goto(w, "markFailed")
        /\ UNCHANGED <<kube, pods>>
  /\ UNCHANGED <<dbVars, request, queueVars, pushed, clock, unheard>>

\* Mutant: after ten minutes pollJob returns as it does on success.
BugPollJob(w) ==
  /\ worker[w].pc = "poll"
  /\ \/ kube[NameOf(w)].failed = 0 /\ Goto(w, "setDeploying")
     \/ kube[NameOf(w)].failed > 0 /\ Goto(w, "setFailed")
  /\ UNCHANGED <<dbVars, request, queueVars, kubeVars, clock, unheard>>

\* Mutant: pollJob has no deadline.
BugPollForever(w) ==
  /\ worker[w].pc = "poll"
  /\ \/ kube[NameOf(w)].succeeded /\ Goto(w, "setDeploying")
     \/ kube[NameOf(w)].failed > 0 /\ Goto(w, "setFailed")
  /\ UNCHANGED <<dbVars, request, queueVars, kubeVars, clock, unheard>>

\* pollJob: success, a failed pod (even when backoffLimit still allows another
\* one), a read that throws, or ten minutes without either.
PollJob(w) ==
  /\ worker[w].pc = "poll"
  /\ LET k == kube[NameOf(w)] IN
       \/ k.succeeded /\ Goto(w, "setDeploying")
       \/ ~k.succeeded /\ k.failed > 0 /\ Goto(w, "setFailed")
       \/ ~k.succeeded /\ k.failed = 0 /\ Goto(w, "setFailed")
       \/ K8sErrors /\ Goto(w, "setFailed")
  /\ UNCHANGED <<dbVars, request, queueVars, kubeVars, clock, unheard>>

\* Mutant: only current_image_tag is updated.
BugSetDeploying(w) ==
  /\ worker[w].pc = "setDeploying"
  /\ SetProject(ProjectOf(w), project[ProjectOf(w)].status, worker[w].tag)
  /\ Goto(w, "setSuccess")
  /\ UNCHANGED <<build, request, queueVars, kubeVars, clock, unheard>>

SetDeploying(w) ==
  /\ worker[w].pc = "setDeploying"
  /\ SetProject(ProjectOf(w), "deploying", worker[w].tag)
  /\ Goto(w, "setSuccess")
  /\ UNCHANGED <<build, request, queueVars, kubeVars, clock, unheard>>

\* Mutant: the build's verdict is taken from the vocabulary of the jobs table.
BugSetSuccess(w) ==
  /\ worker[w].pc = "setSuccess"
  /\ SetBuild(worker[w].build, "completed", worker[w].tag)
  /\ Goto(w, "markDone")
  /\ UNCHANGED <<project, request, queueVars, kubeVars, clock, unheard>>

SetSuccess(w) ==
  /\ worker[w].pc = "setSuccess"
  /\ SetBuild(worker[w].build, "success", worker[w].tag)
  /\ Goto(w, "markDone")
  /\ UNCHANGED <<project, request, queueVars, kubeVars, clock, unheard>>

SetFailed(w) ==
  /\ worker[w].pc = "setFailed"
  /\ SetProject(ProjectOf(w), "failed", project[ProjectOf(w)].tag)
  /\ Goto(w, "setBuildFailed")
  /\ UNCHANGED <<build, request, queueVars, kubeVars, clock, unheard>>

\* Mutant: the catch block does not rethrow.
BugSetBuildFailed(w) ==
  /\ worker[w].pc = "setBuildFailed"
  /\ SetBuild(worker[w].build, "failed", build[worker[w].build].tag)
  /\ Goto(w, "markDone")
  /\ UNCHANGED <<project, request, queueVars, kubeVars, clock, unheard>>

\* The failed build keeps whatever image_tag it had; the error is rethrown.
SetBuildFailed(w) ==
  /\ worker[w].pc = "setBuildFailed"
  /\ SetBuild(worker[w].build, "failed", build[worker[w].build].tag)
  /\ Goto(w, "markFailed")
  /\ UNCHANGED <<project, request, queueVars, kubeVars, clock, unheard>>

\* Mutant: process's own catch marks the rows failed as executeKanikoJob's does.
BugThrowsTo(pc) ==
  CASE pc \in {"markRunning", "stub"}        -> "report"
    [] pc \in {"setDeploying", "setSuccess", "markDone"} -> "setFailed"
    [] pc \in {"setBuilding", "setRunning", "setFailed", "setBuildFailed"}
                                             -> "markFailed"
    [] OTHER                                 -> "none"

\* Where an awaited call of executeKanikoJob or process throws to. Before the
\* Kaniko Job exists there is no catch around it but process's own.
ThrowsTo(pc) ==
  CASE pc \in {"markRunning", "stub"}        -> "report"
    [] pc \in {"setBuilding", "setRunning"}  -> "markFailed"
    [] pc \in {"setDeploying", "setSuccess"} -> "setFailed"
    [] pc \in {"setFailed", "setBuildFailed"} -> "markFailed"
    [] pc = "markDone"                       -> "markFailed"
    [] OTHER                                 -> "none"

\* BullMQ's moveToCompleted or moveToFailed (one attempt): refused without
\* the lock. The worker is idle again either way.
Settle(w, outcome) ==
  LET b == worker[w].build IN
  /\ IF job[b].state = "active" /\ job[b].owner = w
     THEN SetJob(b, outcome, NoWorker)
     ELSE UNCHANGED job
  /\ worker' = [worker EXCEPT
       ![w] = [pc |-> "idle", build |-> NoBuild, tag |-> 0]]
  /\ UNCHANGED waiting

\* A query of the worker is rejected and had no effect.
QueryFails(w) ==
  /\ DbErrors
  /\ ThrowsTo(worker[w].pc) # "none"
  /\ IF ThrowsTo(worker[w].pc) = "report"
     THEN Settle(w, "failed")
     ELSE Goto(w, ThrowsTo(worker[w].pc)) /\ UNCHANGED queueVars
  /\ UNCHANGED <<dbVars, request, kubeVars, clock, unheard>>

\* What the UPDATE that an execution awaits does to the rows.
UpdateOf(w) ==
  LET b == worker[w].build
      p == ProjectOf(w)
      ProjectBecomes(s, t) == SetProject(p, s, t) /\ UNCHANGED build
      BuildBecomes(s, t) == SetBuild(b, s, t) /\ UNCHANGED project
  IN \/ worker[w].pc = "setBuilding"    /\ ProjectBecomes("building", project[p].tag)
     \/ worker[w].pc = "setRunning"     /\ BuildBecomes("running", build[b].tag)
     \/ worker[w].pc = "setDeploying"   /\ ProjectBecomes("deploying", worker[w].tag)
     \/ worker[w].pc = "setSuccess"     /\ BuildBecomes("success", worker[w].tag)
     \/ worker[w].pc = "setFailed"      /\ ProjectBecomes("failed", project[p].tag)
     \/ worker[w].pc = "setBuildFailed" /\ BuildBecomes("failed", build[b].tag)

\* The connection breaks after the UPDATE was committed: the await throws as
\* if it had failed, and after the UPDATE to success the catch writes failed.
LostAnswer(w) ==
  /\ DbErrors
  /\ UpdateOf(w)
  /\ Goto(w, ThrowsTo(worker[w].pc))
  /\ unheard' = IF worker[w].pc = "setSuccess"
                THEN unheard \cup {worker[w].build} ELSE unheard
  /\ UNCHANGED <<request, queueVars, kubeVars, clock>>

\* A create, or the delete between two creates, fails with anything but 409:
\* thrown past the try block that would have marked the rows failed.
CreateFails(w) ==
  /\ K8sErrors
  /\ worker[w].pc \in {"create", "recreate"}
  /\ Goto(w, "markFailed")
  /\ UNCHANGED <<dbVars, request, queueVars, kubeVars, clock, unheard>>

MarkDone(w) ==
  /\ worker[w].pc = "markDone"
  /\ Settle(w, "completed")
  /\ UNCHANGED <<dbVars, request, kubeVars, clock, unheard>>

MarkFailed(w) ==
  /\ worker[w].pc = "markFailed"
  /\ Settle(w, "failed")
  /\ UNCHANGED <<dbVars, request, kubeVars, clock, unheard>>

\* The processor of harbr-worker sleeps a second and returns; the rows it
\* updates in jobs do not exist for builds.
StubProcess(w) ==
  /\ worker[w].pc = "stub"
  /\ Settle(w, "completed")
  /\ UNCHANGED <<dbVars, request, kubeVars, clock, unheard>>

WorkerStep(w) ==
  \/ FetchJob(w)      \/ MarkRunning(w)   \/ SetBuilding(w) \/ SetRunning(w)
  \/ CreateKubeJob(w) \/ RecreateKubeJob(w) \/ PollJob(w)
  \/ SetDeploying(w)  \/ SetSuccess(w)    \/ SetFailed(w)
  \/ SetBuildFailed(w) \/ MarkDone(w)     \/ MarkFailed(w)
  \/ QueryFails(w)    \/ LostAnswer(w)    \/ CreateFails(w) \/ StubProcess(w)

-----------------------------------------------------------------------------
(* What surrounds the code: processes that die, BullMQ's stalled check and *)
(* the Kaniko pods.                                                        *)

CrashWorker(w) ==
  /\ Crashes
  /\ worker[w].pc \notin {"idle", "down"}
  /\ worker' = [worker EXCEPT
       ![w] = [pc |-> "down", build |-> NoBuild, tag |-> 0]]
  /\ UNCHANGED <<dbVars, request, queueVars, kubeVars, clock, unheard>>

RestartWorker(w) ==
  /\ worker[w].pc = "down"
  /\ Goto(w, "idle")
  /\ UNCHANGED <<dbVars, request, queueVars, kubeVars, clock, unheard>>

Executing(w, b) == worker[w].build = b

\* An active job whose lock expired goes back to the head of the wait list,
\* or fails once it has stalled too often; no row of the database is told.
StallJob(b) ==
  /\ job[b].state = "active"
  /\ LockLoss \/ ~Executing(job[b].owner, b)
  /\ IF job[b].stalls < MaxStalled
     THEN /\ job' = [job EXCEPT ![b] = [state |-> "waiting", owner |-> NoWorker,
                                        stalls |-> job[b].stalls + 1]]
          /\ waiting' = <<b>> \o waiting
     ELSE /\ SetJob(b, "failed", NoWorker)
          /\ UNCHANGED waiting
  /\ UNCHANGED <<dbVars, request, worker, kubeVars, clock, unheard>>

PodPushes(i) ==
  /\ i \in pods
  /\ pushed' = pushed \cup {i}
  /\ pods' = pods \ {i}
  /\ UNCHANGED <<dbVars, request, queueVars, worker, kube, clock, unheard>>

\* A pod that pushed its image exits 0 and the Job is marked succeeded.
KubeJobSucceeds(n) ==
  /\ kube[n].image \in pushed
  /\ ~kube[n].succeeded
  /\ kube[n].failed <= BackoffLimit
  /\ kube' = [kube EXCEPT ![n].succeeded = TRUE]
  /\ UNCHANGED <<dbVars, request, queueVars, worker, pods, pushed, clock,
                 unheard>>

\* A pod fails; the Job starts another one until backoffLimit is exceeded.
KubePodFails(n) ==
  /\ Exists(n)
  /\ ~kube[n].succeeded
  /\ kube[n].failed <= BackoffLimit
  /\ kube' = [kube EXCEPT ![n].failed = @ + 1]
  /\ pods' = IF kube[n].failed < BackoffLimit THEN pods \cup {kube[n].image}
             ELSE pods \ {kube[n].image}
  /\ UNCHANGED <<dbVars, request, queueVars, worker, pushed, clock, unheard>>

Next ==
  \/ \E r \in Requests : \/ \E p \in Projects : CheckProject(r, p)
                         \/ \E b \in Builds : InsertBuild(r, b)
                         \/ EnqueueBuild(r)
                         \/ AbandonRequest(r)
  \/ \E p \in Projects : \/ \E s \in PatchedStatuses : UpdateProject(p, s)
                         \/ DeleteProject(p)
  \/ \E w \in Workers : WorkerStep(w) \/ CrashWorker(w) \/ RestartWorker(w)
  \/ \E b \in Builds : StallJob(b)
  \/ \E i \in pods : PodPushes(i)
  \/ \E n \in Names : KubeJobSucceeds(n) \/ KubePodFails(n)

Spec == Init /\ [][Next]_vars

\* Live processes keep taking steps, a dead one is restarted by Kubernetes,
\* and some worker keeps running BullMQ's stalled check. Nothing is assumed
\* of the Kaniko pods, the clients or the operator.
Fairness ==
  /\ \A w \in Workers : WF_vars(WorkerStep(w)) /\ WF_vars(RestartWorker(w))
  /\ \A b \in Builds : WF_vars(StallJob(b))

FairSpec == Spec /\ Fairness

-----------------------------------------------------------------------------
(* Properties.                                                             *)

\* Two executions never share a Kubernetes Job: one worker process that builds,
\* or locks that outlive their holders and build ids with distinct prefixes.
SoleExecutor ==
  \/ \A w1, w2 \in Workers \ Stubs : w1 = w2
  \/ /\ ~LockLoss
     /\ \A b1, b2 \in Builds : JobName[b1] = JobName[b2] => b1 = b2

\* The image a project is to run, and the image a successful build reports,
\* is in the registry, pushed by a Kaniko pod of that project's own build.
\* pollJob reads a Job by name while redeliveries delete and recreate it, so
\* the verdict it returns could be that of another execution's image.
ImagePushed ==
  /\ \A p \in Projects : project[p].tag # 0 =>
       \E b \in Builds : /\ build[b].project = p
                         /\ <<b, project[p].tag>> \in pushed
  /\ \A b \in Builds :
       build[b].status = "success" => <<b, build[b].tag>> \in pushed

\* A job the queue shows as completed left its build row 'success' or deleted:
\* every error between the first UPDATE and markDone reaches BullMQ as a
\* failure, and no other execution of the build rewrites the row afterwards.
CompletedMeansSuccess ==
  \A b \in Builds : job[b].state = "completed" =>
    build[b].status \in {"success", "deleted"}

\* A project is left 'building' (and so refuses every later trigger) only by
\* a job the queue still holds or reports failed, never by completed ones:
\* whoever finds a wedged project finds the cause among the failed jobs.
WedgeHasCause ==
  \A p \in Projects : project[p].status = "building" =>
    \E b \in Builds : /\ build[b].project = p
                      /\ job[b].state \in {"waiting", "active", "failed"}

\* With one worker process that builds, the image of a project is only ever
\* replaced by one built later: redelivered and interrupted executions never
\* bring an older tag back. (Image tags are Date.now() of the execution.)
TagNeverGoesBack ==
  [][\A p \in Projects : project'[p].status # "deleted" =>
       project'[p].tag >= project[p].tag]_vars

\* A build that reached its verdict leaves it only because the queue delivered
\* its job again, with its project, or because its own execution never heard
\* that the UPDATE to success was committed and goes on to its catch block: a
\* verdict is never overwritten by the tail of an execution that was given up
\* or that knows of it.
VerdictStands ==
  [][\A b \in Builds :
       (build[b].status \in {"success", "failed"}
          /\ build'[b].status # build[b].status)
       => build'[b].status = "deleted"
          \/ \E w \in Workers : /\ Executing(w, b)
                              /\ job[b].owner = w
                              /\ \/ job[b].stalls > 0
                                 \/ /\ build[b].status = "success"
                                    /\ b \in unheard]_vars

\* Every job the queue accepts is eventually completed or failed, although a
\* Kaniko pod may hang for ever and workers may crash: pollJob gives up after
\* ten minutes and a redelivery happens at most maxStalledCount times.
JobSettles ==
  \A b \in Builds :
    job[b].state \in {"waiting", "active"} ~> job[b].state \in {"completed", "failed"}

\* The promise of deploy-flow.spec.ts: while one build of a project is queued
\* or running, a second trigger is rejected.
OneActiveBuild ==
  \A b1, b2 \in Builds :
    (/\ {build[b1].status, build[b2].status} \subseteq {"queued", "running"}
     /\ build[b1].project = build[b2].project)
    => b1 = b2

\* The promise of deploy-flow.spec.ts and of the README's push-to-deploy: a
\* successful build is deployed, idle -> building -> deploying -> running.
SuccessIsDeployed ==
  \A b \in Builds :
    build[b].status = "success" ~>
      \E p \in Projects : /\ build[b].project = p
                          /\ project[p].status \in {"running", "failed", "deleted"}

=============================================================================
