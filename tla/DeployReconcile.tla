-------------------------- MODULE DeployReconcile --------------------------
(***************************************************************************)
(* Deploy jobs and the reconciler over the same rows of table projects.    *)
(***************************************************************************)
EXTENDS Deployments

CONSTANTS Phases, IsLeader, NoProject

ASSUME ReconcilerAssumption ==
  /\ IsLeader \in BOOLEAN
  /\ Phases \subseteq {"none", "Pending", "Running", "Looping", "Failed", "Succeeded"}
  /\ NoProject \notin Projects

VARIABLE pass

INSTANCE Reconciler

vars == <<row, entry, kube, job, worker, locked, faults, sound, pass>>

TypeOK == DeployTypeOK /\ ReconcileTypeOK

Init == DeployInit /\ ReconcileInit

ReconcileStep ==
  /\ \/ PassStep /\ UNCHANGED faults
     \/ (LoseConnection \/ CrashDaemon) /\ Fault
  /\ UNCHANGED <<entry, kube, job, worker, sound>>
DeployStep == DeployNext /\ UNCHANGED pass

Next == DeployStep \/ ReconcileStep

Spec == Init /\ [][Next]_vars

\* Workers run; BullMQ looks for stalled jobs; the daemon runs while it leads.
\* SF of a worker, since an UPDATE waits for a row lock that is taken again by
\* every pass, but queues for it.
Fairness ==
  /\ \A w \in Workers : SF_vars(WorkerStep(w) /\ UNCHANGED pass)
  /\ \A d \in Deploys : WF_vars(StallJob(d) /\ UNCHANGED pass)
  /\ WF_vars(PassStep /\ UNCHANGED <<entry, kube, job, worker, sound, faults>>)

FairSpec == Spec /\ Fairness

-----------------------------------------------------------------------------
(* Properties.                                                             *)

\* applyToK3s: `UPDATE projects SET project_status = 'running', current_image_tag`
\* after the manifests. A project that says running with an image has that
\* image in its Deployment, also while the next deploy is under way, unless its
\* last deploy overlapped with another or had its replace refused, which the
\* code only logs, or an operator wrote 'running' or the image by hand since.
RunningIsApplied ==
  \A p \in Projects :
    row[p].status = "running" /\ sound[p]
    => kube[p] = row[p].tag

\* A deploy job that BullMQ reports completed, after any retries and redeliveries,
\* has a Deployment in the cluster and its row of table deployments completed,
\* as long as its project exists; only an execution that goes on without the
\* lock of the job may leave another status in the row, as its catch does.
CompletedEverywhere ==
  \A d \in Deploys :
    job[d].state = "completed" /\ Exists(ProjectOf[d]) =>
      /\ kube[ProjectOf[d]] # NoTag
      /\ entry[d] = "completed" \/ job[d].lost

\* failure scenario 4, `Reconciler does not corrupt projects during build`, and
\* deploy-flow.spec.ts: `reconciler does NOT restart pod during build`. It deletes
\* a pod only while the project is neither built nor deployed, although it
\* decided so before it asked Kubernetes twice; unless its transaction, and
\* with it the row lock, was lost.
NoRestartWhileDeploying ==
  [][\A p \in Projects :
       DeletePod(p) /\ pass.open => row[p].status \notin {"building", "deploying"}]_vars

\* Every deploy job ends completed or failed, whatever fails or dies, and
\* although its updates wait for rows that the reconciler holds.
DeploySettles ==
  \A d \in Deploys :
    job[d].state = "waiting" ~> job[d].state \in {"completed", "failed"}

=============================================================================
