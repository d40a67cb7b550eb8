----------------------------- MODULE Reconciler -----------------------------
(***************************************************************************)
(* reconcileOnce of harbrd, statement by statement: one transaction that   *)
(* locks the rows it reads, observes the pods of each project through the  *)
(* Kubernetes API while it holds the locks, corrects what it may, and      *)
(* writes observed_status. Pods change all the time: any answer may come.   *)
(***************************************************************************)
EXTENDS Naturals, FiniteSets

CONSTANTS
  Projects, NoTag,
  Phases,      \* what may be observed of a pod
  IsLeader,    \* r.leader.IsLeader(), which nothing in the repository makes true
  NoProject

VARIABLES
  row,     \* projects: status, tag and observed_status matter here
  locked,  \* the rows this transaction has locked
  pass     \* the pass under way

NoPass == [pc |-> "idle", todo |-> {}, at |-> NoProject, open |-> FALSE,
           seen |-> "none", write |-> <<>>]

ReconcileTypeOK ==
  /\ pass.pc \in {"idle", "observe", "correct", "update"}
  /\ pass.todo \subseteq Projects /\ pass.at \in Projects \cup {NoProject}
  /\ pass.open \in BOOLEAN /\ pass.seen \in Phases \cup {"none"}
  /\ DOMAIN pass.write \subseteq Projects

ReconcileInit == pass = NoPass /\ locked = {}

\* WHERE desired_status = 'running' AND project_status NOT IN (...).
Eligible == {p \in Projects : row[p].status \notin {"building", "deploying", "deleted"}}

\* Mutant: the SELECT takes no row locks.
BugFetchProjects ==
  /\ pass.pc = "idle" /\ IsLeader
  /\ pass' = [NoPass EXCEPT !.pc = "observe", !.todo = Eligible, !.open = TRUE]
  /\ UNCHANGED <<row, locked>>

\* Scanning a NULL current_image_tag into a string fails and closes the rows:
\* what the server sent after it, in any order, is not seen.
Scan(S) ==
  LET null == {p \in S : row[p].tag = NoTag} IN
    IF null = {} THEN {S} ELSE SUBSET (S \ null)

\* FOR UPDATE SKIP LOCKED leaves out rows that an UPDATE holds just then.
FetchProjects ==
  /\ pass.pc = "idle" /\ IsLeader
  /\ \E S \in SUBSET Eligible : \E seen \in Scan(S) :
       /\ pass' = [NoPass EXCEPT !.pc = "observe", !.todo = seen, !.open = TRUE]
       /\ locked' = S
  /\ UNCHANGED row

\* observePodState: the phase of the pod listed first, "none" if there is none
\* or the list fails, "Looping" after more than five restarts.
ObservePod(p) ==
  /\ pass.pc = "observe" /\ p \in pass.todo
  /\ \E phase \in Phases :
       pass' = [pass EXCEPT !.pc = "correct", !.at = p, !.seen = phase]
  /\ UNCHANGED <<row, locked>>

\* detectDrift and enqueueCorrection: only a crash loop is acted upon, by
\* deleting the pod that is listed first by now, if the API lets it.
DeletePod(p) ==
  /\ pass.pc = "correct" /\ pass.at = p /\ pass.seen = "Looping"
  /\ pass' = [pass EXCEPT !.pc = "update"]
  /\ UNCHANGED <<row, locked>>

CorrectNothing ==
  /\ pass.pc = "correct" /\ pass.seen # "Looping"
  /\ pass' = [pass EXCEPT !.pc = "update"]
  /\ UNCHANGED <<row, locked>>

Observation == CASE pass.seen = "none" -> "unknown"
                 [] pass.seen = "Pending" -> "pending"
                 [] pass.seen = "Failed" -> "failed"
                 [] pass.seen = "Succeeded" -> "stopped"
                 [] OTHER -> "running"

\* updateObservedStatus: inside the transaction, so not visible yet.
UpdateObserved ==
  /\ pass.pc = "update"
  /\ pass' = [pass EXCEPT !.pc = "observe", !.todo = @ \ {pass.at}, !.seen = "none",
                          !.write = [p \in DOMAIN @ \cup {pass.at} |->
                                       IF p = pass.at THEN Observation ELSE @[p]]]
  /\ UNCHANGED <<row, locked>>

\* Mutant: the transaction is left open when the pass ends.
BugCommit ==
  /\ pass.pc = "observe" /\ pass.todo = {}
  /\ pass' = NoPass
  /\ UNCHANGED <<row, locked>>

\* COMMIT, whose error is ignored: without the connection nothing was written.
Commit ==
  /\ pass.pc = "observe" /\ pass.todo = {}
  /\ row' = [p \in Projects |->
       IF pass.open /\ p \in DOMAIN pass.write
       THEN [row[p] EXCEPT !.observed = pass.write[p]] ELSE row[p]]
  /\ pass' = NoPass
  /\ locked' = {}

\* The connection breaks: the server rolls back and unlocks, the loop goes on.
LoseConnection ==
  /\ pass.pc # "idle" /\ pass.open
  /\ pass' = [pass EXCEPT !.open = FALSE]
  /\ locked' = {}
  /\ UNCHANGED row

CrashDaemon ==
  /\ pass.pc # "idle"
  /\ pass' = NoPass
  /\ locked' = {}
  /\ UNCHANGED row

PassStep ==
  \/ FetchProjects \/ \E p \in Projects : ObservePod(p) \/ DeletePod(p)
  \/ CorrectNothing \/ UpdateObserved \/ Commit

=============================================================================
