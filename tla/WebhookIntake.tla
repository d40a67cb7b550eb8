--------------------------- MODULE WebhookIntake ---------------------------
(***************************************************************************)
(* POST /webhooks/receive/:endpointPath: WebhooksController.receiveWebhook *)
(* with the calls of WebhooksService and BuildsService.triggerBuild it     *)
(* awaits, the tables it reads and writes, and the cron jobs that empty    *)
(* them. Requests for the same delivery may overlap and may be repeated.   *)
(***************************************************************************)
EXTENDS Naturals, FiniteSets

CONSTANTS
  Projects, Webhooks, Handlers,
  ProjectOf,    \* webhooks.project_id
  Deliveries,   \* X-GitHub-Delivery ids, one per event whatever the webhook
  NoId,         \* the header is absent (GitLab sends none)
  Triggering,   \* <<webhook, delivery>> pairs that verify and match a rule
  MaxSends,     \* bound: requests for one pair
  MaxBuilds,    \* bound: rows ever inserted into builds
  KeepBuilds,   \* rows per project that cleanBuildCache keeps
  Expiry,       \* does maintainAuditLog find expired deliveries
  Errors,       \* may a query or the queue reject, and may the API die
  NoWebhook, NoProject

Ids == Deliveries \cup {NoId}
Builds == 1..MaxBuilds   \* in the order of created_at

ASSUME IntakeAssumption ==
  /\ ProjectOf \in [Webhooks -> Projects]
  /\ Triggering \subseteq Webhooks \X Ids
  /\ MaxSends \in Nat /\ MaxBuilds \in Nat /\ KeepBuilds \in Nat
  /\ Expiry \in BOOLEAN /\ Errors \in BOOLEAN
  /\ NoId \notin Deliveries /\ NoWebhook \notin Webhooks /\ NoProject \notin Projects

VARIABLES
  status,     \* projects: is a build or deploy in progress, or is the row gone
  record,     \* webhook_deliveries: the webhook_id of each delivery_id
  last,       \* webhooks.last_trigger_status
  build,      \* every row ever inserted into builds, and whether it is there
  queue,      \* what became of each build in BullMQ
  handler,    \* where each request stands
  sends,      \* requests received for each pair
  answers     \* the replies each pair has had

vars == <<status, record, last, build, queue, handler, sends, answers>>
tables == <<status, record, last, build>>

Idle == [pc |-> "idle", hook |-> NoWebhook, id |-> NoId, build |-> 0,
         result |-> "none"]

TypeOK ==
  /\ status \in [Projects -> {"free", "busy", "deleted"}]
  /\ record \in [Deliveries -> Webhooks \cup {NoWebhook}]
  /\ last \in [Webhooks -> {"none", "triggered", "failed"}]
  /\ build \in [Builds -> [row : {"none", "there", "deleted"},
                           project : Projects \cup {NoProject}, id : Ids]]
  /\ queue \in [Builds -> {"none", "waiting", "active", "ended"}]
  /\ handler \in [Handlers ->
       [pc : {"idle", "check", "record", "select", "insert", "enqueue", "mark"},
        hook : Webhooks \cup {NoWebhook}, id : Ids, build : {0} \cup Builds,
        result : {"none", "triggered", "conflict", "error"}]]
  /\ sends \in [Webhooks \X Ids -> 0..MaxSends]
  /\ answers \in [Webhooks \X Ids ->
       SUBSET {"duplicate", "ignored", "triggered", "conflict", "error"}]

Init ==
  /\ status = [p \in Projects |-> "free"]
  /\ record = [d \in Deliveries |-> NoWebhook]
  /\ last = [w \in Webhooks |-> "none"]
  /\ build = [b \in Builds |-> [row |-> "none", project |-> NoProject, id |-> NoId]]
  /\ queue = [b \in Builds |-> "none"]
  /\ handler = [h \in Handlers |-> Idle]
  /\ sends = [x \in Webhooks \X Ids |-> 0]
  /\ answers = [x \in Webhooks \X Ids |-> {}]

Pair(h) == <<handler[h].hook, handler[h].id>>
Exists(w) == status[ProjectOf[w]] # "deleted"   \* ON DELETE CASCADE

Goto(h, l) == handler' = [handler EXCEPT ![h].pc = l]
Answer(h, a) ==
  /\ answers' = [answers EXCEPT ![Pair(h)] = @ \cup {a}]
  /\ handler' = [handler EXCEPT ![h] = Idle]
\* triggerBuild has returned or thrown.
Mark(h, r) == handler' = [handler EXCEPT ![h].pc = "mark", ![h].result = r]

-----------------------------------------------------------------------------
(* receiveWebhook, await by await.                                         *)

\* findByPath finds the webhook; without an id nothing is deduplicated.
Receive(h, w, d) ==
  /\ handler[h].pc = "idle"
  /\ sends[<<w, d>>] < MaxSends
  /\ Exists(w)
  /\ sends' = [sends EXCEPT ![<<w, d>>] = @ + 1]
  /\ d = NoId => <<w, d>> \in Triggering
  /\ handler' = [handler EXCEPT ![h] =
       [Idle EXCEPT !.pc = IF d = NoId THEN "select" ELSE "check",
                    !.hook = w, !.id = d]]
  /\ UNCHANGED <<tables, queue, answers>>

\* isDeliveryProcessed: same delivery and same webhook.
CheckDelivery(h) ==
  /\ handler[h].pc = "check"
  /\ IF record[handler[h].id] = handler[h].hook
     THEN Answer(h, "duplicate")
     ELSE Goto(h, "record") /\ UNCHANGED answers
  /\ UNCHANGED <<tables, queue, sends>>

\* recordDelivery, ON CONFLICT (delivery_id) DO NOTHING; what the request holds
\* is looked at only afterwards.
RecordDelivery(h) ==
  /\ handler[h].pc = "record"
  /\ LET w == handler[h].hook
         d == handler[h].id IN
       \/ /\ record[d] # NoWebhook \/ Exists(w)
          /\ record' = IF record[d] = NoWebhook THEN [record EXCEPT ![d] = w]
                       ELSE record
          /\ IF <<w, d>> \in Triggering THEN Goto(h, "select") /\ UNCHANGED answers
             ELSE Answer(h, "ignored")
       \/ /\ record[d] = NoWebhook /\ ~Exists(w)
          /\ Answer(h, "error")
          /\ UNCHANGED record
  /\ UNCHANGED <<status, last, build, queue, sends>>

SelectProject(h) ==
  /\ handler[h].pc = "select"
  /\ IF status[ProjectOf[handler[h].hook]] = "free"
     THEN Goto(h, "insert") ELSE Mark(h, "conflict")
  /\ UNCHANGED <<tables, queue, sends, answers>>

Fresh == {b \in Builds : build[b].row = "none"}
Taken(d) == \E b \in Builds : build[b].row = "there" /\ build[b].id = d

Inserted(h) ==
  \E b \in Fresh :
    /\ \A c \in Fresh : b <= c
    /\ build' = [build EXCEPT ![b] =
         [row |-> "there", project |-> ProjectOf[handler[h].hook],
          id |-> handler[h].id]]
    /\ handler' = [handler EXCEPT ![h].pc = "enqueue", ![h].build = b]

\* Mutant: no unique index on builds.webhook_delivery_id.
BugInsertBuild(h) ==
  /\ handler[h].pc = "insert"
  /\ IF Exists(handler[h].hook) THEN Inserted(h)
     ELSE Mark(h, "error") /\ UNCHANGED build
  /\ UNCHANGED <<status, record, last, queue, sends, answers>>

\* The INSERT: idx_builds_webhook_delivery is unique over all projects.
InsertBuild(h) ==
  /\ handler[h].pc = "insert"
  /\ LET d == handler[h].id IN
       IF Exists(handler[h].hook) /\ (d = NoId \/ ~Taken(d)) THEN Inserted(h)
       ELSE Mark(h, "error") /\ UNCHANGED build
  /\ UNCHANGED <<status, record, last, queue, sends, answers>>

EnqueueBuild(h) ==
  /\ handler[h].pc = "enqueue"
  /\ queue' = [queue EXCEPT ![handler[h].build] = "waiting"]
  /\ Mark(h, "triggered")
  /\ UNCHANGED <<tables, sends, answers>>

\* Mutant: the reply's word is stored as it is.
BugUpdateLastTriggered(h) ==
  /\ handler[h].pc = "mark"
  /\ last' = [last EXCEPT ![handler[h].hook] = handler[h].result]
  /\ Answer(h, handler[h].result)
  /\ UNCHANGED <<status, record, build, queue, sends>>

\* updateLastTriggered and the reply.
UpdateLastTriggered(h) ==
  /\ handler[h].pc = "mark"
  /\ LET w == handler[h].hook IN
       last' = IF ~Exists(w) THEN last
               ELSE [last EXCEPT ![w] = IF handler[h].result = "triggered"
                                        THEN "triggered" ELSE "failed"]
  /\ Answer(h, handler[h].result)
  /\ UNCHANGED <<status, record, build, queue, sends>>

\* A rejected call inside the try block ends in its catch, which marks the
\* webhook failed: also when only marking it triggered was rejected.
CallFails(h) ==
  /\ Errors
  /\ \/ handler[h].pc \in {"select", "insert", "enqueue"} /\ Mark(h, "error")
        /\ UNCHANGED answers
     \/ handler[h].pc = "mark" /\ handler[h].result = "triggered"
        /\ Mark(h, "error") /\ UNCHANGED answers
     \/ handler[h].pc = "mark" /\ handler[h].result # "triggered"
        /\ Answer(h, "error")
     \/ handler[h].pc \in {"check", "record"} /\ Answer(h, "error")
  /\ UNCHANGED <<tables, queue, sends>>

\* The API process dies under the request: nobody is answered.
HandlerDies(h) ==
  /\ Errors
  /\ handler[h].pc # "idle"
  /\ handler' = [handler EXCEPT ![h] = Idle]
  /\ UNCHANGED <<tables, queue, sends, answers>>

-----------------------------------------------------------------------------
(* The rest of the system, as far as it moves the same tables.             *)

\* A worker executes the build: the project is busy from SetBuilding on.
StartBuild(b) ==
  /\ queue[b] = "waiting"
  /\ queue' = [queue EXCEPT ![b] = "active"]
  /\ LET p == build[b].project IN
       status' = [status EXCEPT ![p] = IF @ = "deleted" THEN @ ELSE "busy"]
  /\ UNCHANGED <<record, last, build, handler, sends, answers>>

\* ... until the build fails, or an operator frees the project.
EndBuild(b) ==
  /\ queue[b] = "active"
  /\ queue' = [queue EXCEPT ![b] = "ended"]
  /\ LET p == build[b].project IN
       status' = [status EXCEPT ![p] = IF @ = "deleted" THEN @ ELSE "free"]
  /\ UNCHANGED <<record, last, build, handler, sends, answers>>

\* maintainAuditLog, a day or more after the delivery was recorded.
ExpireDelivery(d) ==
  /\ Expiry
  /\ record[d] # NoWebhook
  /\ record' = [record EXCEPT ![d] = NoWebhook]
  /\ UNCHANGED <<status, last, build, queue, handler, sends, answers>>

\* cleanBuildCache keeps the newest rows of each project, whatever their status.
Newer(b) == {c \in Builds : /\ c > b /\ build[c].row = "there"
                            /\ build[c].project = build[b].project}
TrimBuilds ==
  /\ build' = [b \in Builds |->
       IF build[b].row = "there" /\ Cardinality(Newer(b)) >= KeepBuilds
       THEN [build[b] EXCEPT !.row = "deleted"] ELSE build[b]]
  /\ build' # build
  /\ UNCHANGED <<status, record, last, queue, handler, sends, answers>>

DeleteProject(p) ==
  /\ status[p] # "deleted"
  /\ status' = [status EXCEPT ![p] = "deleted"]
  /\ record' = [d \in Deliveries |->
       IF record[d] # NoWebhook /\ ProjectOf[record[d]] = p THEN NoWebhook
       ELSE record[d]]
  /\ build' = [b \in Builds |->
       IF build[b].row = "there" /\ build[b].project = p
       THEN [build[b] EXCEPT !.row = "deleted"] ELSE build[b]]
  /\ UNCHANGED <<last, queue, handler, sends, answers>>

Next ==
  \/ \E h \in Handlers :
       \/ \E w \in Webhooks, d \in Ids : Receive(h, w, d)
       \/ CheckDelivery(h) \/ RecordDelivery(h) \/ SelectProject(h)
       \/ InsertBuild(h) \/ EnqueueBuild(h) \/ UpdateLastTriggered(h)
       \/ CallFails(h) \/ HandlerDies(h)
  \/ \E b \in Builds : StartBuild(b) \/ EndBuild(b)
  \/ \E d \in Deliveries : ExpireDelivery(d)
  \/ \E p \in Projects : DeleteProject(p)
  \/ TrimBuilds

Spec == Init /\ [][Next]_vars

-----------------------------------------------------------------------------
(* Properties.                                                             *)

BuiltFor(b, w, d) == /\ queue[b] # "none"
                     /\ build[b].project = ProjectOf[w] /\ build[b].id = d

Enqueued(b) == queue[b] # "none"
SamePush(b, c) == /\ build[b].id = build[c].id /\ build[b].id # NoId
                  /\ build[b].project = build[c].project
Between(b, c) == {x \in Builds : /\ b < x /\ x <= c
                                 /\ build[x].project = build[b].project}

\* However often and however concurrently a delivery is sent, and although its
\* record may be missing when it is looked up, one build of the project is
\* enqueued for it: a second one only after KeepBuilds later builds of the
\* project have made cleanBuildCache forget the first.
ProcessedOnce ==
  \A b, c \in Builds :
    b < c /\ Enqueued(b) /\ Enqueued(c) /\ SamePush(b, c)
      => Cardinality(Between(b, c)) > KeepBuilds

\* deploy-flow.spec.ts: `duplicate webhook delivery processed only once`. A push
\* answered as a duplicate has been, or is being, turned into a build.
DuplicateWasProcessed ==
  \A w \in Webhooks, d \in Deliveries :
    "duplicate" \in answers[<<w, d>>] /\ <<w, d>> \in Triggering =>
      \/ \E b \in Builds : BuiltFor(b, w, d)
      \/ \E h \in Handlers : Pair(h) = <<w, d>>

=============================================================================
