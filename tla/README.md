# Harbr in TLA+

Harbr is a self-hosted platform: a NestJS API and BullMQ workers that build
projects with Kaniko Jobs on K3s, Go daemons (`harbrd`) on every node, Postgres
and Redis. This directory holds TLA+ modules of the parts where interleavings,
crashes and time decide whether the system is right, the TLC configurations
that check them on small instances, and proofs for all instances.

Contents: [the system](#the-system), [modules](#modules), [runs](#runs),
[findings](#findings), [proofs](#proofs), [bounds and abstractions](#bounds-and-abstractions),
[fairness](#fairness), [what could come next](#what-could-come-next), [not modelled](#what-is-not-modelled).

## The system

| component | code | state | operations | talks to |
|---|---|---|---|---|
| build pipeline | `api/src/builds`, `api/src/jobs/jobs.processor.ts`, `api/worker` | rows of `projects` and `builds`, the queue `harbr-jobs`, Kaniko Jobs, images | trigger, the steps of `executeKanikoJob`, `pollJob`, retries by redelivery | Postgres, Redis (BullMQ), Kubernetes, registry |
| webhook intake | `api/src/webhooks` | `webhooks`, `webhook_deliveries` | `receiveWebhook` | triggers builds |
| cleanup | `api/src/system/cleanup.service.ts` | deliveries, audit partitions, images, old builds | two cron jobs | Postgres, registry |
| deployments | `api/src/deployments` | `deployments`, project status, Kubernetes objects | `applyToK3s` | Kubernetes |
| leader election | `daemon/internal/leader` | row of `leader_leases`, `isLeader` | `Acquire`, `tryAcquire`, `release` | Postgres |
| reconciler | `daemon/internal/reconciler` | `observed_status`, pods | `reconcileOnce` every 30 s if leader | Postgres, Kubernetes |
| public DNS | `daemon/internal/ddns`, `daemon/internal/dns_failover` | Cloudflare A records, `lastIP`, `failCount` | update on change, fail over after three misses | Cloudflare, peers |
| self-update | `daemon/internal/updater` | the binary, its backup, the node's cordon | `Run` | GitHub, kubectl |
| hardware watcher | `daemon/internal/hardware` | snapshot, `hardware_events` | `poll` | Postgres |
| templates | `api/src/templates` | several `projects` rows | `deployFromTemplate` | Postgres |
| routes | `api/src/caddy` | Caddy's route list | add, remove by index | Caddy admin API |
| jobs mirror | `api/src/jobs/jobs.service.ts`, `api/worker` | rows of `jobs` | enqueue, mark, re-queue on start | Postgres, BullMQ |
| settings, logs | `api/src/system`, `api/src/logs` | `system_settings`; nothing | `updateSettings`, `streamLogs` | Postgres, Kubernetes |
| CRUD modules | users, domains, alerts, audit, nodes, db-connections, network, auth | one table each | single queries | Postgres |
| web console | `ui` | query cache, forms, an `EventSource` | reads, polls, mutation hooks | API |
| command line | `daemon/cmd/harbr`, `tui` | none shared | HTTP calls, a setup wizard | API |

How they interact. A push arrives at `receiveWebhook`, which deduplicates it and
calls `triggerBuild`. That checks the project, inserts a `builds` row and adds a
BullMQ job with the build's id. A worker executes it: it writes project and
build, creates a Kubernetes Job named after the build, polls it by that name for
ten minutes and writes the verdict. No step is in a transaction with another.
A worker that dies loses its BullMQ lock and the job is delivered again. Cron
jobs empty the tables underneath. On the nodes, primaries compete for a lease
in Postgres that says which of them may reconcile. The reconciler locks the project rows
that deploy jobs write, and deletes pods of the objects they apply. The console keeps
copies of the tables and reads them again by timer or when one of its own writes succeeded.

What is hard: every `await` is an interleaving point; handlers, workers, pods and
deletions run concurrently over the same rows; calls fail half way and nothing
rolls back; jobs and webhooks are delivered more than once; leases compare clocks.
`PROJECT.json` lists these hazards line by line and the properties that cover them.

What makes each part correct:

- build pipeline: a reported image exists and is the project's own; queue and rows
  agree on the verdict; a wedged project has a visible cause; every job settles;
- webhook intake: a push becomes one build, no matter how often it is sent, until its build is
  forgotten;
- leader election: an unexpired lease is never taken, at most one primary believes
  to be leader, a dead one is replaced in time;
- reconciler: a pass reaches every eligible project and never acts on one that is
  being built; deployments: status `running` means the new image is applied;
- public DNS: the address of a node that runs is among the records, and that of the only survivor for good;
- self-update: a whole program is always there, and only an update that was broken off leaves the node drained;
- cleanup: the newest images, and the one that is running, can be pulled; audit entries of the
  last 90 days too;
- templates: an app is there only with its sidecars; routes: a removal hits its own domain;
- web console: what a user was told to have done is on the screen, a form filled once makes one
  row, and settings nobody typed stay as they are.

## Modules

### `BuildPipeline`

Every awaited call of `triggerBuild`, `process` and `executeKanikoJob` is one
action. A worker's `pc` names the call it is about to make, so a crash between any two
calls is `CrashWorker`, a rejected one is `QueryFails` or `CreateFails`, and a statement that was
committed although its await throws is `LostAnswer`, with `ThrowsTo` saying which `catch`
receives it. `unheard` records the builds whose `success` was committed that way: the catch then
writes `failed` over it.

| variable | code |
|---|---|
| `project`, `build` | the rows: `project_status`, `current_image_tag`; `status`, `project_id`, `image_tag` |
| `request` | a handler between SELECT, INSERT and `queue.add` |
| `waiting`, `job` | BullMQ's wait list and job records: state, lock holder, times stalled |
| `worker` | each process: the call it stands at, its build, its image tag |
| `kube`, `pods`, `pushed` | Job objects by name, images still being built, images in the registry |
| `clock` | `Date.now()`, which the image tags are taken from |

`Stubs` are the processes of deployment `harbr-worker`: its image consumes the same
queue with `api/worker/processors/jobs.processor.ts`, which builds nothing.

### `LeaderElection`, `Tenure`

`tryAcquire` statement by statement: `Begin`, `SelectRow` (which takes the row lock)
or `SelectNothing`, `Insert` or `Decide`, `Commit`, with failure at each
(`BeginFails`, `TxFails`). Time is counted in ticks and kept relative: `lease.left` is
`expires_at` minus now, `age` is how long a transaction has been open (Postgres'
`NOW()` is its start), `due` is the ticker, `Skew` the node's clock. `Terminate`
cancels the context; `Release` is what then happens to `release(ctx)`: pgx refuses
the statement, the row keeps its expiry. `Tenure` is the abstract specification of the row: a lease
is given for its time, renewed only to last longer, and taken only when it has run out.

### `WebhookIntake`

`receiveWebhook` await by await up to the reply, the tables it relies on, and
everything that empties them: expiry of deliveries, trimming of builds, deletion of
projects. `Triggering` abstracts signature, branch rule and event type, which
are functions of the request alone. What a worker does is reduced to when the
project is busy (`StartBuild`, `EndBuild`); `BuildPipeline` has the detail.

### `Deployments`, `Reconciler`, `DeployReconcile`

`Deployments` is the deploy branch of `JobsProcessor.process` and all of `applyToK3s`: each
worker stands at one call (`worker[w].pc`), objects are created, replaced after a 409, or
refused; `Raise` says what the `catch` of `applyToK3s` does with an exception and what BullMQ
does with what it throws on. `LostAnswer` is a statement committed without its answer, and
a create or replace that fails may have been carried out. `job[d].owner` holds BullMQ's lock, and
`Settle` works for it alone: `LoseLock` takes the lock from a worker that lives and goes on, while the
job is delivered to another, `StallJob` finds one whose worker is gone. `ReplaceObject` swallows
errors, as the code does. `UpdateProject` is PATCH, and `BuildImage` what the build pipeline
writes to the same row. `Reconciler` is `reconcileOnce`: the
transaction takes its row locks (`locked`) in `FetchProjects`, each project is observed, corrected
and written (`write`, visible at `Commit`), and the connection may be lost without the loop
noticing (`open`). `DeployReconcile` instantiates `Reconciler` over the rows of
`Deployments`: an UPDATE of a worker waits for the locks of a pass.

`IsLeader` is a constant, because nothing in the repository calls `Acquire` on the reconciler's
own `Leader`: as deployed it is `FALSE` and there is no pass. The run takes it as `TRUE`, so
that the passes are checked for when the leader is wired in. In the same way `Enqueue` assumes the
deploy job that nothing adds yet.

### `PublicDns`

The records of one domain as a sequence of addresses by their ids, and per node the DDNS updater
(`TryUpdate`, `ListRecords`, `UpdateRecord`, `UpdateFails`) and the failover agent (`CheckPeer`,
`PeersUnknown`, `PostRecord`, `FailoverFails`), with nodes that go down, lose their memory and come back,
and addresses that change. `UpdateRecord` writes the id `ListRecords` found, whatever the record holds by
then, also when only its answer is lost; `UpdateFails` is a call without effect.

### `SelfUpdate`, `Install`

`SelfUpdate` is `Updater.Run` step by step over three files and the cordon; `Crash`, the process
being killed, may come anywhere. The code syncs nothing, so what is written is in `soft` until the
kernel has put it on the disk (`Flush`), and `PowerLoss` may take it. `Install` is the abstract
specification: one whole program is kept, a request replaces it in one step or not at all, and it is
lost only while it is `fresh`, not on the disk yet. The refinement maps the image to the file at the
executable's path, or to the backup while that is not whole.

### `RegistryCleanup`, `CaddyRoutes`, `TemplateDeploy`, `AuditPartitions`

`cleanBuildCache` against pushes, which end in any order, and adoptions, with tags, digests, the blobs
behind them and the places that `latest` takes, and with the garbage collection it starts and does
not wait for (`MarkManifests`, `SweepBlobs`): what is uploaded in between may lose its blobs; `removeRoute`, which deletes by an index of an earlier read; `deployFromTemplate` await
by await for requests that overlap and fail; the daily job over monthly partitions. They share
no state with each other or with `PublicDns` and `SelfUpdate`, so `MCPlatform` checks them in
one run, each behaviour being one of a single part.

### `Console`, `SettingsForm`, `LogStream`

`Console` is one browser tab: `Pages` says which lists a page reads and polls, `Hooks` what a
button's handler changes and which lists it invalidates; the actions are those of the query
cache (react-query, external): mounting, polling, ageing, two-step reads (`Serve` at the
table, `Deliver` in the tab), and mutations that are sent, committed and answered, or
refused, or lose their answer. `Guarded` are the lists behind `AuthGuard('jwt')`: no page stores the token
that `lib/api.ts` would send, so their reads and writes are answered 401 always (`Unauthorized`, `Refused`)
and the pages Users, Domains, Alerts and AuditLog never show a row. Lists are compared by the number of the last write they
hold. `SettingsForm` is the Settings page of several tabs and `updateSettings` field by field;
`LogStream` the Logs page, its `EventSource` and `streamLogs`. `MCConsole` checks them in one
run, each behaviour being one of a single part.

### `MC*` and `*Proofs`

The `MC` modules name constants and symmetry sets for TLC; `MCPlatform` and `MCConsole`
also choose the part a behaviour is about. Proofs live in `BuildPipelineProofs`,
`LeaderElectionProofs`, `WebhookIntakeProofs`, `DeployReconcileProofs`, `PublicDnsProofs`,
`SelfUpdateProofs`, `PlatformProofs` (the other parts of `MCPlatform`, and all of them together) and
`ConsoleProofs`. Operators named `Bug...` are mutants: plausible mistakes in the same code, each of which must
make a property fail. No specification uses them.

## Runs

| run | question | bounds |
|---|---|---|
| `pipeline_redelivery` | does one build survive crashes, redelivery, operator patches and rejected calls with a truthful verdict, and does its job settle? | 1 build, 2 workers, 1 redelivery, backoffLimit 1, rejected calls and lost answers: 49,058 states |
| `pipeline_two_builds` | and two builds of one or two projects? | 2 projects, 2 builds, 2 workers, no redelivery: 2,657,452 states |
| `pipeline_one_worker` | with colliding Job names and lost locks, is one building worker enough for tags to stay true and in order? | 2 builds, 1 worker and 1 stub, 1 redelivery: 2,112,532 states |
| `lease_faults` | can an unexpired lease be taken, and does a wrong belief last, is every step one of `Tenure`? | 2 nodes, no row at the start, lease 4, poll 2, failing statements, crashes, a fast clock |
| `lease_timely` | can two running primaries believe to be leader, and how long does a takeover last? | the same with a row left by an earlier run, no failing statements |
| `deploy_reconcile` | do rows tell what is applied when deploys overlap, fail, lose an answer or the lock or die, or an operator patches the row, does a pass keep its hands off a deploying project, and does every deploy job settle? | 1 project without a domain, 2 deploys, 2 workers, 1 fault of any kind or PATCH to `running`, 1 attempt, 1 redelivery: 424,013 states |
| `platform_services` | the six parts of `MCPlatform`: does a stack stay complete, the running image in the registry, a route removal on its own domain, a node in the DNS, a program on the disk, an audit entry in its table? | templates: 3 names, 2 requests; registry: 3 images, keep 2; routes: 2 callers, 4 routes; DNS: 2 nodes, 3 addresses, 1 fault, 1 move, 1 outage; update: 2 releases; audit: 6 months; 184,635 states |
| `console` | does the console show what it did and what is, make one row per form, keep settings nobody typed, and show the log of the selected project? | 11 tours of two pages and the lists that meet on them, 2 writes, 1 fault, 2 calls in flight; 1 settings tab, 2 requests; 2 projects, 3 log lines, tail 1, keep 2; 647,022 states |
| `webhook_concurrent` | is a push built once under overlap, repetition, expiry, failures and trimmed builds? | 1 webhook, 2 handlers, 2 sends with and 2 without a delivery id, 3 builds, keep 1 |

Each property's meaning is in the comment above it. `CHECK_DEADLOCK FALSE` is set
where the system may stop: pipeline and intake runs end when every build is
done and no request is left.

The runs with two builds and two workers have `LockLoss = FALSE`: with a live worker that
loses its lock, two executions share one Job, and `ImagePushed` is then no property
of the code (the second deletes the Job the first polls). `SoleExecutor` states the
two conditions under which it is one, and the theorem assumes exactly that.

Several properties name the causes that may break them, because the code does not prevent them, and
so say that there are no others:

- `VerdictStands`: a redelivery, and a `success` whose UPDATE was committed without an answer, which
  the catch of `executeKanikoJob` overwrites with `failed`;
- `RunningIsApplied`: deploys of one project that overlap, a replace that was refused, a PATCH of status or
  tag; `CompletedEverywhere`: an execution that went on without the job's lock, whose catch writes
  `failed` over a row that the next one has completed;
- `OwnAddressOrCause`: an update that failed without effect, which is not tried again, and a record another
  node has written by its id;
- `CurrentImageKept`: older tags of the same manifest, and a push between mark and sweep;
- `InstallIsAtomic`: a loss of power before the kernel has written the new program;
- `OwnWritesShown`: the four lists that hooks forget (a deleted project takes proxies and alerts with it, a
  deleted node hardware and alerts) and a first load that overlaps;
- `RemovesItsOwn`: another removal in between. Two removals that hit each other are the hazard at
  `caddy.service.ts:34`; the property says that additions and refusals do no such thing;
- `RecentActionsKept` requires that the daily job ran in the month before: a whole month without it
  leaves the next one without a partition;
- `UntypedIsKept`: a form opened without a copy, or a field written since it was read, by another tab say;
  `SettingsOfOneSave`: requests that overlap or break off. These do go wrong in the code, and nothing else does;
- `UntaggedHasCause` says which requests leave a row without a tag. That the reconciler skips the rows
  after such a row (`reconciler.go:138`) is in `Reconciler` (`Scan`).

History variables (`unheard`, `sound`, `lost`, `missed`, `replaced`, `late`, `shifted`, `excused`) record these
causes and enable no action. `made` and `rows`, which the properties use as well, stand also for what the
registry and the table have seen: a tag is pushed once, a unique name refused twice. `soft` is the state of the disk.

## Findings

Runs that end in a violation, with the text of the repository they contradict:

- `pipeline_second_trigger`: a second trigger while the first build is queued is
  accepted (`builds.service.ts:33`; `deploy-flow.spec.ts:59`).
- `pipeline_deploys`: a successful build leaves the project `deploying` for ever; nothing
  enqueues the deploy job (`kaniko.service.ts:135`; `deploy-flow.spec.ts:39`).
- `webhook_refused`: a push refused during a build is lost, its redelivery being a
  "duplicate" (`webhooks.controller.ts:29`; `deploy-flow.spec.ts:63`).

Seen in the code while modelling it, part of the models, without a run of their own:

- a build that `harbr-worker` dequeues is completed without being built
  (`api/worker/processors/jobs.processor.ts:20`; README.md:43, 93);
- the lease is not released on shutdown (`leader.go:141`; README.md:110);
- one event for two projects builds only one of them (`008_builds.sql:20`; README.md:19);
- no pass of the reconciler ever runs (`reconciler.go:64`; README.md:109), and it would not correct a
  wrong image, as `deployments.service.ts:237` says it does;
- the migration gives the month of the installation no audit partition
  (`011_audit_log.sql:43`);
- the registry sweep keeps one image less than asked for, since `latest` counts
  (`cleanup.service.ts:42`);
- the self-update is a rename and a copy, not an atomic rename, and a failed copy leaves the node
  drained, and nothing is synced before the backup goes (`updater.go:171`, `177`; its header); any network error skips the checksum (`updater.go:243`);
- statements the schema refuses whatever their arguments: the audit entry of a template deploy
  (`templates.service.ts:228`), join tokens (`nodes.service.ts:69`), hardware events
  (`watcher.go:344`), the status words of `jobs.service.ts:60`;
- "Project created — build queued" with nothing queued (`Deploy.tsx:300`).

One more disagreement needs no run: `scenarios.spec.ts:22` expects another node to take the
lease within 15 s, but a standby must wait for the 30 s lease to expire and polls every 15 s
(`leader.go:110`); `TakeoverBounded` states the bound that does hold.

## Proofs

All proofs are checked by TLAPS without omitted steps, from the named assumption on
the constants of each module and, where the theorem says so, one more.

`BuildPipelineProofs`

- `TypeCorrect`: `Spec => []TypeOK`. `TypeOK` is not inductive: that the worker writes a
  project that exists depends on the queue holding only inserted builds. The invariant
  `Shape` adds that (`RowsOK`, `RequestsOK`, `QueueOK`, `WorkersOK`: whoever holds a
  build holds one with a project). One lemma per group of actions.
- `ImagesArePushed`: `Spec => []ImagePushed` assuming `SoleExecutor`. `Ownership` says that a
  waiting job is in the list once and that only the lock holder works on an active
  one; with it and distinct Job names no other execution touches the Job a worker
  polls (`PollsOwn`), a Job succeeds only with its image pushed (`KubeTruth`), so
  a worker past its poll has a pushed image (`VerdictTrue`).
- `TagsOnlyGrow`: `Spec => TagNeverGoesBack` assuming one worker process that builds (`OneWorker`).
  `TagOrder` bounds all tags by the clock and the row's tag by that of the worker; `StubsIdle`
  says that a stub never comes to a step that tags.

- `VerdictsStand`: `Spec => VerdictStands` assuming `~LockLoss`. On its first delivery an execution is the
  only one its build has had, and while it has not written a verdict there is none (`FirstVerdict`). What is
  left are redeliveries and a committed `success` whose answer was lost.
- `CompletedIsSuccess`: `Spec => []CompletedMeansSuccess` assuming `~LockLoss` and no stub: who is about to
  report the job done has written the success (`DoneIsSuccess`), and the one who holds a job is alone on
  it, so nobody else writes the row afterwards.
- `WedgesHaveCauses`: `Spec => []WedgeHasCause` under the same two and no operator who patches a project to
  `building`. A worker that is past that write and has not undone it holds a job of the project (`WedgeHeld`).

  The assumptions are what the code has: a worker that goes on after its lock was given away overwrites
  the verdict of the other; `harbr-worker` completes builds without building them (a finding); a patched
  status has no job behind it.

`LeaderElectionProofs`

- `LeaseTypeCorrect`: `Spec => []TypeOK`.
- `LeaseNotTakenEarly`: `Spec => NoEarlyTakeover`, for any nodes, skews, errors and crashes. The
  invariant (`LockProtects`) says that the row a deciding node saw is the committed one as long
  as it holds the lock, and that a pending write was justified when it was decided; time
  only moves expiries closer, so it still is at the commit.
- `LeaseIsTenure`: `Spec => LeaseIsKept`, the refinement of `Tenure`, as generally. That a renewal never
  shortens the lease rests on `LastWrite`: the holder's row was written by a poll that began before the
  one under way, so it has at most `Lease` less that poll's age ahead of it.
- `OneLeader`: `Spec => []SoleLeader` assuming `Punctual`: the row exists, no statement fails, a transaction
  ends before the next poll is due, and `Skew[n] + Poll + TxTicks <= Lease` for every clock. With 30 s and
  15 s that is 15 s for the fastest clock and the longest transaction together. The invariant
  (`TimelyInv`) counts a leader's lease from the age of its last poll, so that none of the others can see it
  expired; who leads holds the row, or is about to write it and then nobody else leads. Each part of
  `Punctual` is needed: after a failed statement or an INSERT race a node believes wrongly until its next
  poll (`BeliefIsRevised`).
- `TakeoverInTime`: `Spec => []TakeoverBounded` assuming `Punctual` and no clock slower than a transaction
  is long: a primary that stands by found the lease not expired at its last poll, at most `Poll` ago.

`WebhookIntakeProofs`

- `IntakeTypeCorrect`: `Spec => []TypeOK`, by `Shape`: a handler under way knows its webhook, one that
  enqueues knows an inserted row, one that answers has a result, and rows are inserted in order.
- `PushBuiltOnce`: `Spec => []ProcessedOnce`. Neither the check of the delivery nor its record matter
  for it: overlapping handlers pass both. What carries the proof is the unique index (`Unique`) and
  that a row it relied on is gone only with its project or once `KeepBuilds` later rows were
  inserted (`Forgotten`); counting those gives the bound (`InsertedOnce`).

`DeployReconcileProofs`, for any projects, deploys, workers, attempts and faults, and whether or not the
reconciler leads

- `DeployTypeCorrect`: `Spec => []TypeOK`, by `Shape`: a busy worker holds the lock of the job it
  executes, or that job is marked `lost`.
- `PodsSurviveDeploys`: `Spec => NoRestartWhileDeploying`. A pass holds the row lock of every project it has
  still to visit or visits, and selected none that is built or deployed (`LocksHeld`); a worker's UPDATE
  waits for the lock, so the status cannot become either before the pass commits.
- `CompletedIsDone`: `Spec => []CompletedEverywhere`. A worker past its apply has a Deployment in the cluster
  (`InCluster`), one that is to report has its row completed (`EntryDone`), through every retry. That no
  other execution writes the row again needs the lock: for a job that lost it only the Deployment is claimed.
- `RunningImageIsApplied`: `Spec => []RunningIsApplied`. A sound deploy is the only one of its project
  (`SoundAlone`), what it has applied is its own tag (`SoundApplied`), and between its two writes the
  project is not running (`Unsettled`), unless a PATCH makes it so.

`PublicDnsProofs`

- `DnsTypeCorrect`: `DnsSpec => []DnsTypeOK`. The strengthening (`SenderKnows`) says that an address
  about to be sent was looked up.
- `AddressesServed`: `DnsSpec => []OwnAddressOrCause`, for any number of nodes, faults and moves. What is
  inductive is stronger: whatever a running updater holds for sent is in the DNS, also while its next
  update is under way and its address has moved on; a record changes only when a node writes it by the id
  it found, which records every node it belonged to in `replaced`.

`SelfUpdateProofs`

- `UpdateTypeCorrect`: `UpdateSpec => []UpdateTypeOK`.
- `UpdateIsAtomic`: `UpdateSpec => InstallIsAtomic`, the refinement of `Install`. The invariant says what
  the files hold at each step: from the opened to the whole copy the backup is the old program, and a
  backup left by an earlier run is only relied on where the path holds nothing whole. Each action of
  `SelfUpdate` is then `Ask`, `Swap`, `GiveUp`, `Settle` or a stutter, and a loss of power `Lose` only of a
  program that is not on the disk yet.

- `CordonHasCause`: `UpdateSpec => []CordonedByAnUpdate`. Before the drain a node is cordoned only if an
  earlier update left it so.

`PlatformProofs`

- `StacksAreComplete`, `UntaggedIsUnderWay`: `TemplateSpec => []PrimaryHasItsStack` and
  `[](TemplateTypeOK /\ UntaggedHasCause)`, for any stacks and requests. The rows a request has made are the
  first ones of its stack, all tagged but the last; the primary is the last. Of the names it
  is assumed that no sidecar has its primary's, which the suffix sees to.
- `RunningImageStays`: `RegistrySpec => [](RegistryTypeOK /\ CurrentImageKept)`. Whatever the sweep still has
  to delete was outnumbered by newer tags when it was listed, and that never changes again
  (`SweepIsOld`, `GoneHasCause`). A manifest with a tag has its blobs or came late (`BlobsThere`), since a
  collection has marked all that were pushed before it (`MarkedKept`).
- `RemovalHitsItsOwn`: `RoutesSpec => [](RoutesTypeOK /\ RemovesItsOwn)`: routes are added behind the index
  found.
- `RecentActionsStay`: `PartitionsSpec => [](PartitionsTypeOK /\ RecentActionsKept)`, for any calendar, given
  by the last day of each month, and any retention. A month after one in which the job ran has its
  partition or lies before the cutoff.
- `PlatformTypeCorrect`: `FairSpec => []TypeOK` of `MCPlatform`. A behaviour of the composition is one of each
  part (`PartsBehave`), so that every theorem above about a part holds of what the run checks.

`ConsoleProofs`

- `OwnWritesAreSeen`, `FormsMakeOneRow`: `ConsoleSpec => [](ConsoleTypeOK /\ OwnWritesShown)` and
  `[]OneRowPerForm`. Every read under way and every copy is compared with what its tab was told of
  (`ListsInv`); a button of a form is disabled while its call is pending, so a form has one call
  (`FormsInv`).
- `UntypedStaysAsItIs`, `SettingsStayTogether`: `SettingsSpec => [](SettingsTypeOK /\ UntypedIsKept)` and
  `[]SettingsOfOneSave`. The number of writes of a field tells its value: a copy with the number of
  the table has the value of the table.
- `LinesStayInOrder`: `LogSpec => [](LogTypeOK /\ LinesOfSelected)`. The lines shown, those on the way and the
  piece the server cut off last continue each other.
- `ConsoleTypeCorrect`: `FairSpec => []TypeOK` of `MCConsole`, by `PartsBehave`.

Every invariant and every action property of the passing runs is thus stated by a theorem. Each
inductive invariant was checked by TLC before it was proved. Only model-checked:

- the liveness properties `JobSettles`, `BeliefIsRevised`, `DeploySettles`, `SurvivorIsServed` and
  `PollConverges`: they need fairness and `ENABLED`, which the provers do not handle;
- `CompletedMeansSuccess`, `WedgeHasCause` and `VerdictStands` where a worker may lose its lock, and
  `SoleLeader` and `TakeoverBounded` where statements fail: there they do not hold, and no run claims them.

## Bounds and abstractions

Named bounds: `MaxStalled` (BullMQ's own limit, 1 by default), `BackoffLimit` (1 in the
manifest; 0 where two builds already make the space large), `MaxSends`, `MaxBuilds`,
`KeepBuilds` (50 in the code; 1 or 2 suffice to delete a row that is still
referred to), `TxTicks` (how long a transaction may last), `Past` (beyond it an instant
is just long ago). Lease and poll are 30 s and 15 s in the code: 4 and 2, or 2
and 1 ticks, keep the ratio. Two builds, two workers, two handlers, two nodes are the
smallest numbers with which executions overlap, and a third actor only repeats the roles.

Abstracted in `BuildPipeline`: payload data, clone and Kaniko arguments, logs; the `:latest`
tag; finished Jobs are not removed after their hour of TTL; `Date.now()` is strictly
increasing from one execution to the next; a PATCH writes only `project_status` (that of the image tag is
in `Deployments`). A query that is rejected without effect is `QueryFails`, a committed one without answer
`LostAnswer`: a statement whose connection broke has taken effect by then or never does. Only for
the Job's `create` the lost answer is left out: it counts as failed if it was not carried out; `markRunning` and its kin
update no row, since builds have none in `jobs`. A Kaniko pod that pushed may still be
reported failed, and a deleted Job's pod may still push.

In `LeaderElection`: a node's ticker is punctual while it is idle; `ensureLeaseTable` has
succeeded; a partitioned leader, whose statements all hang, keeps believing until a
transaction ends, as in the code. Without a row at the start the losers of the INSERT race
believe to be leader until their next poll: `SoleLeader` is therefore checked with a
row left by an earlier run, and `BeliefIsRevised` without.

In `WebhookIntake`: `ProcessedOnce` allows a push to be built again once `cleanBuildCache` has
deleted its build, which takes `KeepBuilds` later builds of the project; several webhooks and
projects are covered by its proof. A build row's id is its place in the order of `created_at`; a
deleted webhook is a deleted project's.

In `Deployments`: a deploy's tag is named after the deploy; `ensureNamespace` is not a step, since it
swallows every error and without the namespace the next create fails; `markRunning` and `markFailed`
update no row. `MaxFaults` counts rejected calls, lost answers, locks and connections, crashes and PATCHes
together: one suffices to break off any of the two executions anywhere, or to start one beside
another. A PATCH of name, namespace, port or domain is left out: the objects keep their names and `Routed`
is a constant. The run has no project with a domain, so that the steps of the Ingress, whose errors are
swallowed, are covered by the proofs, which hold for any `Routed`. In
`Reconciler` pods are not followed: every observation may answer anything in `Phases`, of which
`Looping` is corrected and `Running` stands for the others, which only differ in the word written.

In `PublicDns` Cloudflare refuses a second record of the same content (external), and a request that
was given up is not carried out later. Three addresses of two nodes let one move to a fresh address; the
proof has no bound on moves. In `RegistryCleanup` three images and two
places, one of them taken by `latest`, let an image be outnumbered and deleted while another is pushed; manifests
may repeat. Each tag is pushed once; the registry (external) refuses a manifest whose blobs it has not got
and looks them up at the time; the collection starts if any repository had something deleted, so it may start
here at any time. `AuditPartitions` counts ten days as one, so that
90 days are `Keep = 9`, over six months from any day of the first. `SelfUpdate`: one update at a time,
Linux' refusal to write a running program, and a file system that journals names at once and contents
later. In `CaddyRoutes` and `TemplateDeploy` calls may be refused
or lost; two callers are the smallest overlap.

In `Console` each tour is two pages and the lists that meet there, so that a list is left and returned to; the
lists of the cache do not meet but by the hooks that change or invalidate several, which tours keep together.
Every hook, every live list with each of its pages and every guarded list is in a tour. Not modelled are a
token put into the browser's storage by hand, and the dialog that deploys a template, as a hook
(`TemplateDeploy` has its request). `MaxWrites = 2`
lets another writer come between, `Slots` lets a button be clicked twice. A `SettingsForm` tab has two
fields, since they are written alike, and two requests in flight come from a page left and opened again.

## Fairness

`BuildPipeline!Fairness`: worker processes run (`WF` of their steps), Kubernetes restarts
dead ones, BullMQ's stalled check runs in some worker. Nothing is assumed of pods, clients
or operators, so `JobSettles` rests on the ten minutes of `pollJob`.
`LeaderElection!Fairness`: time passes and live nodes proceed (`SF`, since another
transaction may hold the lock each time it is looked at). Dead nodes need not come back.
The database's errors that keep a node from reading or taking the lease end some day
(`<>[][~DatabaseError]_vars`): if every transaction failed for ever no belief could be
revised.
`DeployReconcile!Fairness`: workers run, BullMQ looks for jobs whose worker is gone, the pass of a live
daemon goes on. `SF` of a worker's step, because the row lock its UPDATE waits for is taken again by
every pass: Postgres queues the UPDATE and `SKIP LOCKED` passes over a row it holds, so it is served.
`MCPlatform!FairSpec`: the tickers of updater and agent go on in a daemon that is up; nothing is
assumed of the calls, whose failures are bounded by `MaxFaults`. `MCConsole!FairSpec`: the timer of a
polled list goes on and the API answers, refuses or fails. `Live` leaves out the polled lists that the API
refuses always.

## What could come next

1. An abstract `BuildLifecycle` (a build moves from queued to running to one verdict, again only by
   redelivery) that `BuildPipeline` implements; `VerdictStands` is its safety part.
2. `SoleLeader` with bounded failures: how long two beliefs overlap if `k` polls in a row fail.
3. `JobsMirror` and `HardwareWatch`, once their statements fit the tables and something calls them.

## What is not modelled

Single-query CRUD (domains, alerts, db connections, sessions, the audit list): one SQL statement per
handler, nothing to interleave; the console's reads and writes of such tables are in `Console`. Read-only
status endpoints, metrics. The rows of `jobs` and the re-queue of `harbr-worker`: nothing inserts a row.
The events of the hardware watcher and join tokens: their INSERTs are refused. `K8sService`, which has
no caller. The health API, the tunnel manager, configuration parsing and key generation: pure I/O.
Rendering in the console. The commands and the setup wizard: HTTP calls, kubectl and fixed sequences.
Scripts, manifests, templates: declarative or run once.
