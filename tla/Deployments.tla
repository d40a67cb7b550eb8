---------------------------- MODULE Deployments ----------------------------
(***************************************************************************)
(* DeploymentsService.applyToK3s, executed by JobsProcessor for jobs named *)
(* 'deploy': the row of the project, the row of the deployment and the     *)
(* Kubernetes objects are written one after the other, by workers that may *)
(* fail at every await, lose an answer or the job's lock, be retried or    *)
(* die, while the project is edited, built or deleted. A deploy's image    *)
(* tag is named after the deploy.                                          *)
(***************************************************************************)
EXTENDS Naturals, FiniteSets

CONSTANTS
  Projects, Deploys, Workers,
  ProjectOf,     \* payload.projectId
  Attempts,      \* opts.attempts of the job
  MaxStalled,    \* BullMQ: deliveries after a worker died
  Routed,        \* the projects that have a domain
  PatchedStatuses, PatchedTags,  \* what PATCH /projects/:id writes
  MaxFaults,     \* bound: failing calls, lost answers, locks and connections, crashes, PATCHes
  NoTag, NoDeploy, NoWorker

Tags == Deploys \cup {NoTag}
Objects == {"deployment", "service", "ingress"}
\* 'stopped' and 'crashloop', which only a PATCH writes, are 'idle' here.
Statuses == {"idle", "building", "deploying", "running", "failed", "deleted"}

ASSUME DeployAssumption ==
  /\ ProjectOf \in [Deploys -> Projects]
  /\ Attempts \in Nat \ {0} /\ MaxStalled \in Nat
  /\ Routed \subseteq Projects
  /\ PatchedStatuses \subseteq Statuses \ {"deleted"} /\ PatchedTags \subseteq Tags
  /\ MaxFaults \in Nat
  /\ NoTag \notin Deploys /\ NoDeploy \notin Deploys /\ NoWorker \notin Workers

VARIABLES
  row,     \* projects: project_status, current_image_tag, observed_status
  entry,   \* deployments.status
  kube,    \* the image of each project's Deployment in the cluster
  job,     \* the build that makes the image, then the deploy job in BullMQ, with
           \* the worker that locks it; lost is history: locked no more, executed still
  worker,  \* the call each worker stands at
  locked,  \* rows of projects another transaction holds a lock on
  faults,  \* faults and PATCHes so far
  sound    \* history: was the row's 'running' written by a deploy, which was alone
           \* and free of swallowed errors, and not by an operator

Observed == {"unknown", "pending", "running", "failed", "stopped"}
Calls == {"idle", "select", "entryRunning", "deploying", "create", "replace",
          "running", "entryCompleted", "markDone", "failed", "entryFailed"}

Idle == [pc |-> "idle", deploy |-> NoDeploy, object |-> "deployment", sound |-> TRUE]

DeployTypeOK ==
  /\ row \in [Projects -> [status : Statuses, tag : Tags,
                observed : Observed]]
  /\ entry \in [Deploys -> {"pending", "running", "completed", "failed"}]
  /\ kube \in [Projects -> Tags]
  /\ job \in [Deploys -> [state : {"none", "building", "built", "waiting", "active",
                                    "completed", "failed"},
                made : 0..Attempts, stalled : 0..MaxStalled,
                owner : Workers \cup {NoWorker}, lost : BOOLEAN]]
  /\ worker \in [Workers -> [pc : Calls, deploy : Deploys \cup {NoDeploy},
                object : Objects, sound : BOOLEAN]]
  /\ locked \subseteq Projects
  /\ faults \in 0..MaxFaults /\ sound \in [Projects -> BOOLEAN]

DeployInit ==
  /\ row = [p \in Projects |-> [status |-> "idle", tag |-> NoTag,
                                observed |-> "unknown"]]
  /\ entry = [d \in Deploys |-> "pending"]
  /\ kube = [p \in Projects |-> NoTag]
  /\ job = [d \in Deploys |-> [state |-> "none", made |-> 0, stalled |-> 0,
                           owner |-> NoWorker, lost |-> FALSE]]
  /\ worker = [w \in Workers |-> Idle]
  /\ faults = 0 /\ sound = [p \in Projects |-> TRUE]

Exists(p) == row[p].status # "deleted"
Free(p) == p \notin locked
Executing(p) == {w \in Workers : /\ worker[w].pc # "idle"
                                 /\ ProjectOf[worker[w].deploy] = p}

Fault == faults < MaxFaults /\ faults' = faults + 1

Goto(w, l) == worker' = [worker EXCEPT ![w].pc = l]
At(w, l) == worker[w].pc = l
ProjectAt(w) == ProjectOf[worker[w].deploy]

\* An UPDATE waits for the row lock; without the row it changes nothing.
WriteRow(p, r) ==
  /\ Free(p)
  /\ row' = IF Exists(p) THEN [row EXCEPT ![p] = r] ELSE row

-----------------------------------------------------------------------------
(* JobsProcessor.process and BullMQ.                                       *)

\* Nothing in the repository does this yet.
Enqueue(d) ==
  /\ job[d].state = "built"
  /\ job' = [job EXCEPT ![d].state = "waiting"]
  /\ UNCHANGED <<row, entry, kube, worker, locked, sound, faults>>

\* markRunning, markDone and markFailed update no row: jobs with an id of the
\* caller's, as deploys would have one, are not mirrored in table jobs. They
\* matter only when they are rejected, and markFailed not even then.
\* Two executions of one project at a time spoil both.
FetchJob(w, d) ==
  /\ At(w, "idle")
  /\ job[d].state = "waiting"
  /\ job' = [job EXCEPT ![d] = [@ EXCEPT !.state = "active", !.owner = w]]
  /\ LET others == Executing(ProjectOf[d]) IN
       worker' = [v \in Workers |->
         IF v = w THEN [Idle EXCEPT !.pc = "select", !.deploy = d, !.sound = others = {}]
         ELSE IF v \in others THEN [worker[v] EXCEPT !.sound = FALSE]
         ELSE worker[v]]
  /\ UNCHANGED <<row, entry, kube, locked, sound, faults>>

\* BullMQ's moveToCompleted and moveToFailed, refused without the lock. The
\* worker is idle again either way.
Settle(w, state, made) ==
  LET d == worker[w].deploy IN
    /\ job' = IF job[d].owner # w THEN job
              ELSE [job EXCEPT ![d] =
                     [@ EXCEPT !.state = state, !.made = made, !.owner = NoWorker]]
    /\ worker' = [worker EXCEPT ![w] = Idle]

MarkDone(w) ==
  /\ At(w, "markDone")
  /\ Settle(w, "completed", job[worker[w].deploy].made)
  /\ UNCHANGED <<row, entry, kube, locked, sound, faults>>

\* Mutant: one attempt too many.
BugThrow(w) ==
  LET made == job[worker[w].deploy].made IN
    Settle(w, IF made < Attempts THEN "waiting" ELSE "failed", made + 1)

\* An attempt ends with an exception: BullMQ delivers the job again, or not.
Throw(w) ==
  LET made == job[worker[w].deploy].made + 1 IN
    Settle(w, IF made < Attempts THEN "waiting" ELSE "failed", made)

\* applyToK3s catches what is thrown in its try block.
Caught(w) == worker[w].pc \in {"create", "replace", "running", "entryCompleted"}
Raise(w) == IF Caught(w) THEN Goto(w, "failed") /\ UNCHANGED job ELSE Throw(w)

\* Mutant: the last UPDATE of the deployment's row is not awaited.
BugQueryFails(w) ==
  /\ Fault
  /\ worker[w].pc \notin {"idle", "create", "replace"}
  /\ IF At(w, "entryCompleted") THEN Goto(w, "markDone") /\ UNCHANGED job ELSE Raise(w)
  /\ UNCHANGED <<row, entry, kube, locked, sound>>

\* A query that is rejected and has no effect; markRunning too, which is no different from the SELECT.
QueryFails(w) ==
  /\ Fault
  /\ worker[w].pc \notin {"idle", "create", "replace"}
  /\ Raise(w)
  /\ UNCHANGED <<row, entry, kube, locked, sound>>

CrashWorker(w) ==
  /\ Fault
  /\ ~At(w, "idle")
  /\ worker' = [worker EXCEPT ![w] = Idle]
  /\ UNCHANGED <<row, entry, kube, job, locked, sound>>

Redeliver(d, lost) ==
  job' = [job EXCEPT ![d] =
    [state |-> IF job[d].stalled < MaxStalled THEN "waiting" ELSE "failed",
     made |-> job[d].made,
     stalled |-> IF job[d].stalled < MaxStalled THEN job[d].stalled + 1 ELSE job[d].stalled,
     owner |-> NoWorker, lost |-> lost]]

Executed(d) == job[d].owner \in Workers /\ worker[job[d].owner].deploy = d

\* BullMQ finds an active job whose worker is gone.
StallJob(d) ==
  /\ job[d].state = "active" /\ ~ Executed(d)
  /\ Redeliver(d, job[d].lost)
  /\ UNCHANGED <<row, entry, kube, worker, locked, sound, faults>>

\* A live worker does not renew its lock in time: it goes on all the same,
\* while the job is delivered to another one.
LoseLock(d) ==
  /\ Fault
  /\ job[d].state = "active" /\ Executed(d)
  /\ Redeliver(d, TRUE)
  /\ UNCHANGED <<row, entry, kube, worker, locked, sound>>

-----------------------------------------------------------------------------
(* applyToK3s, await by await.                                             *)

SelectProject(w) ==
  /\ At(w, "select")
  /\ IF Exists(ProjectAt(w)) THEN Goto(w, "entryRunning") /\ UNCHANGED job ELSE Throw(w)
  /\ UNCHANGED <<row, entry, kube, locked, sound, faults>>

\* The row of table deployments goes with its project.
WriteEntry(w, s) ==
  entry' = IF Exists(ProjectAt(w)) THEN [entry EXCEPT ![worker[w].deploy] = s]
           ELSE entry

SetEntry(w) ==
  /\ \/ /\ At(w, "entryRunning") /\ WriteEntry(w, "running")
        /\ Goto(w, "deploying") /\ UNCHANGED job
     \/ /\ At(w, "entryCompleted") /\ WriteEntry(w, "completed")
        /\ Goto(w, "markDone") /\ UNCHANGED job
     \/ At(w, "entryFailed") /\ WriteEntry(w, "failed") /\ Throw(w)
  /\ UNCHANGED <<row, kube, locked, sound, faults>>

RowDeploying(w) ==
  LET p == ProjectAt(w) IN WriteRow(p, [row[p] EXCEPT !.status = "deploying"])

SetDeploying(w) ==
  /\ At(w, "deploying")
  /\ RowDeploying(w)
  /\ worker' = [worker EXCEPT ![w].pc = "create", ![w].object = "deployment"]
  /\ UNCHANGED <<entry, kube, job, locked, sound, faults>>

\* What applyToK3s does after the object it just applied.
AfterObject(w) ==
  CASE worker[w].object = "deployment" -> <<"create", "service">>
    [] worker[w].object = "service" /\ ProjectAt(w) \in Routed -> <<"create", "ingress">>
    [] OTHER -> <<"running", worker[w].object>>
Proceed(w, ok) ==
  worker' = [worker EXCEPT ![w].pc = AfterObject(w)[1], ![w].object = AfterObject(w)[2],
                           ![w].sound = @ /\ (ok \/ worker[w].object # "deployment")]
Apply(w) ==
  kube' = IF worker[w].object = "deployment"
          THEN [kube EXCEPT ![ProjectAt(w)] = worker[w].deploy] ELSE kube
Accepted(w) == Apply(w) /\ Proceed(w, TRUE)

\* ensureNamespace swallows every error; without the namespace create fails.
\* create: accepted; refused with 409, as the object exists; or failed, perhaps
\* with the answer to an accepted one, which is fatal for all but the Ingress.
CreateObject(w) ==
  /\ At(w, "create")
  /\ LET new == worker[w].object = "deployment" => kube[ProjectAt(w)] = NoTag
         old == worker[w].object = "deployment" => kube[ProjectAt(w)] # NoTag IN
       \/ new /\ Accepted(w) /\ UNCHANGED <<job, faults>>
       \/ old /\ Goto(w, "replace") /\ UNCHANGED <<kube, job, faults>>
       \/ /\ Fault
          /\ IF worker[w].object = "ingress" THEN Proceed(w, TRUE) /\ UNCHANGED job
             ELSE Raise(w)
          /\ UNCHANGED kube \/ (new /\ Apply(w))
  /\ UNCHANGED <<row, entry, locked, sound>>

\* replace: every error is swallowed, that of an accepted one too.
ReplaceObject(w) ==
  /\ At(w, "replace")
  /\ \/ Accepted(w) /\ UNCHANGED faults
     \/ Fault /\ Proceed(w, FALSE) /\ (UNCHANGED kube \/ Apply(w))
  /\ UNCHANGED <<row, entry, job, locked, sound>>

RowRunning(w) ==
  LET p == ProjectAt(w) IN
    /\ WriteRow(p, [row[p] EXCEPT !.status = "running", !.observed = "running",
                                  !.tag = worker[w].deploy])
    /\ sound' = [sound EXCEPT ![p] = worker[w].sound]

SetRunning(w) ==
  /\ At(w, "running")
  /\ RowRunning(w)
  /\ Goto(w, "entryCompleted")
  /\ UNCHANGED <<entry, kube, job, locked, faults>>

\* Mutant: after a failure the status of the project is restored.
BugSetFailed(w) ==
  /\ At(w, "failed")
  /\ LET p == ProjectAt(w) IN
       WriteRow(p, [row[p] EXCEPT !.status = IF @ = "deploying" THEN "running" ELSE @])
  /\ Goto(w, "entryFailed")
  /\ UNCHANGED <<entry, kube, job, locked, sound, faults>>

RowFailed(w) ==
  LET p == ProjectAt(w) IN
    WriteRow(p, [row[p] EXCEPT !.status = "failed", !.observed = "failed"])

SetFailed(w) ==
  /\ At(w, "failed")
  /\ RowFailed(w)
  /\ Goto(w, "entryFailed")
  /\ UNCHANGED <<entry, kube, job, locked, sound, faults>>

\* The connection breaks after an UPDATE was committed: the await throws.
LostAnswer(w) ==
  /\ Fault
  /\ \/ /\ \/ At(w, "entryRunning") /\ WriteEntry(w, "running")
           \/ At(w, "entryCompleted") /\ WriteEntry(w, "completed")
           \/ At(w, "entryFailed") /\ WriteEntry(w, "failed")
        /\ UNCHANGED <<row, sound>>
     \/ /\ \/ At(w, "deploying") /\ RowDeploying(w)
           \/ At(w, "failed") /\ RowFailed(w)
        /\ UNCHANGED <<entry, sound>>
     \/ At(w, "running") /\ RowRunning(w) /\ UNCHANGED entry
  /\ Raise(w)
  /\ UNCHANGED <<kube, locked>>

-----------------------------------------------------------------------------
(* The rest of the API on the same rows.                                   *)

\* PATCH /projects/:id writes what its body names, over whatever is there. It
\* shares the bound of the faults.
UpdateProject(p) ==
  /\ Fault
  /\ Exists(p)
  /\ \E s \in PatchedStatuses \cup {row[p].status}, t \in PatchedTags \cup {row[p].tag} :
       /\ <<s, t>> # <<row[p].status, row[p].tag>>
       /\ WriteRow(p, [row[p] EXCEPT !.status = s, !.tag = t])
       /\ sound' = [sound EXCEPT ![p] = @ /\ s # "running"]
  /\ UNCHANGED <<entry, kube, job, worker, locked>>

\* DELETE /projects/:id leaves the objects in the cluster.
DeleteProject(p) ==
  /\ Exists(p)
  /\ WriteRow(p, [row[p] EXCEPT !.status = "deleted"])
  /\ UNCHANGED <<entry, kube, job, worker, locked, sound, faults>>

\* executeKanikoJob, which makes the image: it writes what it has to, whatever
\* the row says.
BuildImage(d) ==
  /\ LET p == ProjectOf[d]
         to(s) == job' = [job EXCEPT ![d].state = s] IN
       \/ /\ job[d].state = "none" /\ to("building")
          /\ WriteRow(p, [row[p] EXCEPT !.status = "building"])
       \/ /\ job[d].state = "building" /\ to("built")
          /\ WriteRow(p, [row[p] EXCEPT !.status = "deploying", !.tag = d])
       \/ /\ job[d].state = "building" /\ to("none")
          /\ WriteRow(p, [row[p] EXCEPT !.status = "failed"])
  /\ UNCHANGED <<entry, kube, worker, locked, sound, faults>>

WorkerStep(w) ==
  \/ \E d \in Deploys : FetchJob(w, d)
  \/ SelectProject(w) \/ SetEntry(w) \/ SetDeploying(w) \/ CreateObject(w) \/ ReplaceObject(w)
  \/ SetRunning(w) \/ SetFailed(w) \/ MarkDone(w) \/ QueryFails(w) \/ LostAnswer(w)

DeployNext ==
  \/ \E w \in Workers : WorkerStep(w) \/ CrashWorker(w)
  \/ \E d \in Deploys : Enqueue(d) \/ StallJob(d) \/ LoseLock(d) \/ BuildImage(d)
  \/ \E p \in Projects : UpdateProject(p) \/ DeleteProject(p)

=============================================================================
