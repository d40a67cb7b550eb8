------------------------ MODULE WebhookIntakeProofs ------------------------
(***************************************************************************)
(* Proofs about WebhookIntake for any number of webhooks, projects,        *)
(* handlers, deliveries and builds: a push becomes one build until         *)
(* cleanBuildCache has forgotten it.                                       *)
(***************************************************************************)
EXTENDS WebhookIntake, FiniteSetTheorems, TLAPS

Present(b) == build[b].row # "none"

RowsOK == \A b \in Builds : Present(b) => build[b].project \in Projects

HandlersOK == \A h \in Handlers :
  /\ handler[h].pc # "idle" => handler[h].hook \in Webhooks
  /\ handler[h].pc = "enqueue" =>
       handler[h].build \in Builds /\ Present(handler[h].build)
  /\ handler[h].pc = "mark" => handler[h].result # "none"

QueueOK == \A b \in Builds : Enqueued(b) => Present(b)

\* Rows are inserted in the order of their ids.
InOrder == \A b, c \in Builds : b < c /\ Present(c) => Present(b)

Shape == TypeOK /\ RowsOK /\ HandlersOK /\ QueueOK /\ InOrder

LEMMA InitShape == Init => Shape
  BY IntakeAssumption
  DEF IntakeAssumption, Init, Shape, TypeOK, RowsOK, HandlersOK, QueueOK, InOrder,
      Present, Enqueued, Idle, Ids

HandlerType ==
  [pc : {"idle", "check", "record", "select", "insert", "enqueue", "mark"},
   hook : Webhooks \cup {NoWebhook}, id : Ids, build : {0} \cup Builds,
   result : {"none", "triggered", "conflict", "error"}]

\* Rows may be inserted and deleted, and never become absent again.
KeepsRows == \A b \in Builds :
  Present(b) => build'[b].row # "none" /\ build'[b].project = build[b].project

\* One handler moves on.
LEMMA HandlerMoves ==
  ASSUME Shape, KeepsRows, NEW h \in Handlers, NEW r \in HandlerType,
         handler' = [handler EXCEPT ![h] = r],
         r.pc # "idle" => r.hook \in Webhooks,
         r.pc = "enqueue" => r.build \in Builds /\ build'[r.build].row # "none",
         r.pc = "mark" => r.result # "none"
  PROVE  handler' \in [Handlers -> HandlerType] /\ HandlersOK'
  BY DEF Shape, TypeOK, HandlersOK, Present, HandlerType, KeepsRows

\* A request is answered.
LEMMA AnswerShape ==
  ASSUME Shape, KeepsRows, NEW h \in Handlers,
         NEW a \in {"duplicate", "ignored", "triggered", "conflict", "error"},
         Answer(h, a)
  PROVE  /\ handler' \in [Handlers -> HandlerType] /\ HandlersOK'
         /\ answers' \in [Webhooks \X Ids ->
              SUBSET {"duplicate", "ignored", "triggered", "conflict", "error"}]
<1>1. Idle \in HandlerType /\ Idle.pc = "idle"
  BY DEF Idle, HandlerType, Ids
<1>2. handler' \in [Handlers -> HandlerType] /\ HandlersOK'
  BY <1>1, HandlerMoves DEF Answer
<1> QED BY <1>2 DEF Answer, Shape, TypeOK

\* A handler goes to its next await.
LEMMA GotoShape ==
  ASSUME Shape, KeepsRows, NEW h \in Handlers, handler[h].pc # "idle",
         \/ \E l \in {"check", "record", "select", "insert"} : Goto(h, l)
         \/ \E r \in {"triggered", "conflict", "error"} : Mark(h, r)
  PROVE  handler' \in [Handlers -> HandlerType] /\ HandlersOK'
<1>1. handler \in [Handlers -> HandlerType] /\ handler[h].hook \in Webhooks
  BY DEF Shape, TypeOK, HandlersOK, HandlerType
<1>2. CASE \E l \in {"check", "record", "select", "insert"} : Goto(h, l)
  <2> PICK l \in {"check", "record", "select", "insert"} : Goto(h, l)
    BY <1>2
  <2>1. [handler[h] EXCEPT !.pc = l] \in HandlerType
    BY <1>1 DEF HandlerType
  <2>2. handler' = [handler EXCEPT ![h] = [handler[h] EXCEPT !.pc = l]]
    BY DEF Goto
  <2>3. /\ [handler[h] EXCEPT !.pc = l].hook = handler[h].hook
        /\ [handler[h] EXCEPT !.pc = l].pc = l
    BY <1>1 DEF HandlerType
  <2> QED BY <1>1, <2>1, <2>2, <2>3, HandlerMoves
<1>3. CASE \E r \in {"triggered", "conflict", "error"} : Mark(h, r)
  <2> PICK r \in {"triggered", "conflict", "error"} : Mark(h, r)
    BY <1>3
  <2> DEFINE n == [handler[h] EXCEPT !.pc = "mark", !.result = r]
  <2>1. /\ n \in HandlerType
        /\ n.hook = handler[h].hook /\ n.pc = "mark" /\ n.result = r
    BY <1>1 DEF HandlerType
  <2>2. handler' = [handler EXCEPT ![h] = n]
    BY <1>1 DEF Mark
  <2> HIDE DEF n
  <2> QED BY <1>1, <2>1, <2>2, HandlerMoves
<1> QED BY <1>2, <1>3

\* The requests for one delivery up to the SELECT of triggerBuild.
LEMMA IntakeShape ==
  ASSUME Shape, NEW h \in Handlers,
         \/ \E w \in Webhooks, d \in Ids : Receive(h, w, d)
         \/ CheckDelivery(h) \/ RecordDelivery(h) \/ SelectProject(h)
         \/ CallFails(h) \/ HandlerDies(h)
  PROVE  Shape'
<1> USE DEF tables
<1>1. UNCHANGED <<status, last, build, queue>> /\ KeepsRows
  BY DEF Receive, CheckDelivery, RecordDelivery, SelectProject, CallFails,
         HandlerDies, KeepsRows, Present
<1>2. /\ handler \in [Handlers -> HandlerType] /\ handler[h] \in HandlerType
      /\ handler[h].pc # "idle" => handler[h].hook \in Webhooks
  BY DEF Shape, TypeOK, HandlersOK, HandlerType
<1> SUFFICES /\ record' \in [Deliveries -> Webhooks \cup {NoWebhook}]
             /\ sends' \in [Webhooks \X Ids -> 0..MaxSends]
             /\ answers' \in [Webhooks \X Ids ->
                  SUBSET {"duplicate", "ignored", "triggered", "conflict", "error"}]
             /\ handler' \in [Handlers -> HandlerType] /\ HandlersOK'
  BY <1>1 DEF Shape, TypeOK, RowsOK, QueueOK, InOrder, Present, Enqueued, HandlerType
<1>3. ASSUME NEW w \in Webhooks, NEW d \in Ids, Receive(h, w, d)
      PROVE  /\ UNCHANGED <<record, answers>>
             /\ sends' \in [Webhooks \X Ids -> 0..MaxSends]
             /\ handler' \in [Handlers -> HandlerType] /\ HandlersOK'
  <2> DEFINE n == [Idle EXCEPT !.pc = IF d = NoId THEN "select" ELSE "check",
                               !.hook = w, !.id = d]
  <2>1. n \in HandlerType /\ n.hook = w /\ n.pc \in {"select", "check"}
    BY DEF Idle, HandlerType, Ids
  <2>2. handler' = [handler EXCEPT ![h] = n]
    BY <1>3 DEF Receive
  <2>3. sends' \in [Webhooks \X Ids -> 0..MaxSends]
    <3> DEFINE k == sends[<<w, d>>]
    <3>1. sends \in [Webhooks \X Ids -> 0..MaxSends] /\ MaxSends \in Nat
      BY IntakeAssumption DEF IntakeAssumption, Shape, TypeOK
    <3>2. k \in 0..MaxSends /\ k < MaxSends
      BY <1>3, <3>1 DEF Receive
    <3>3. k + 1 \in 0..MaxSends
      BY <3>1, <3>2
    <3>4. sends' = [sends EXCEPT ![<<w, d>>] = k + 1]
      BY <1>3, <3>1 DEF Receive
    <3> HIDE DEF k
    <3> QED BY <3>1, <3>3, <3>4
  <2> HIDE DEF n
  <2> QED BY <1>1, <1>3, <2>1, <2>2, <2>3, HandlerMoves DEF Receive
<1>4. CASE CheckDelivery(h) \/ SelectProject(h)
  <2>1. UNCHANGED <<record, sends>> /\ handler[h].pc # "idle"
    BY <1>4 DEF CheckDelivery, SelectProject
  <2>2. \/ Answer(h, "duplicate")
        \/ /\ \/ Goto(h, "record") \/ Goto(h, "insert") \/ Mark(h, "conflict")
           /\ UNCHANGED answers
    BY <1>4 DEF CheckDelivery, SelectProject
  <2> QED BY <1>1, <2>1, <2>2, AnswerShape, GotoShape DEF Shape, TypeOK
<1>5. CASE RecordDelivery(h)
  <2>1. UNCHANGED sends /\ handler[h].pc # "idle"
    BY <1>5 DEF RecordDelivery
  <2>2. record' \in [Deliveries -> Webhooks \cup {NoWebhook}]
    BY <1>2, <1>5 DEF RecordDelivery, Shape, TypeOK
  <2>3. \/ \E a \in {"ignored", "error"} : Answer(h, a)
        \/ Goto(h, "select") /\ UNCHANGED answers
    BY <1>5 DEF RecordDelivery
  <2> QED BY <1>1, <2>1, <2>2, <2>3, AnswerShape, GotoShape DEF Shape, TypeOK
<1>6. CASE CallFails(h)
  <2>1. UNCHANGED <<record, sends>> /\ handler[h].pc # "idle"
    BY <1>6 DEF CallFails
  <2>2. Answer(h, "error") \/ (Mark(h, "error") /\ UNCHANGED answers)
    BY <1>6 DEF CallFails
  <2> QED BY <1>1, <2>1, <2>2, AnswerShape, GotoShape DEF Shape, TypeOK
<1>7. CASE HandlerDies(h)
  <2>1. Idle \in HandlerType /\ Idle.pc = "idle"
    BY DEF Idle, HandlerType, Ids
  <2> QED BY <1>1, <1>7, <2>1, HandlerMoves DEF HandlerDies, Shape, TypeOK
<1> QED BY <1>3, <1>4, <1>5, <1>6, <1>7 DEF Shape, TypeOK

\* The INSERT: a new row comes after all that were ever inserted.
LEMMA InsertShape ==
  ASSUME Shape, NEW h \in Handlers, InsertBuild(h)
  PROVE  Shape'
<1>1. /\ handler \in [Handlers -> HandlerType] /\ handler[h] \in HandlerType
      /\ handler[h].hook \in Webhooks /\ handler[h].pc = "insert"
      /\ UNCHANGED <<status, record, last, queue, sends, answers>>
  BY DEF InsertBuild, Shape, TypeOK, HandlersOK, HandlerType
<1>2. CASE Mark(h, "error") /\ UNCHANGED build
  <2>1. KeepsRows
    BY <1>2 DEF KeepsRows, Present
  <2>2. handler' \in [Handlers -> HandlerType] /\ HandlersOK'
    BY <1>1, <1>2, <2>1, GotoShape
  <2> QED BY <1>1, <1>2, <2>2
          DEF Shape, TypeOK, RowsOK, QueueOK, InOrder, Present, Enqueued, HandlerType
<1>3. CASE Inserted(h)
  <2> PICK b \in Fresh :
        /\ \A c \in Fresh : b <= c
        /\ build' = [build EXCEPT ![b] =
             [row |-> "there", project |-> ProjectOf[handler[h].hook],
              id |-> handler[h].id]]
        /\ handler' = [handler EXCEPT ![h].pc = "enqueue", ![h].build = b]
    BY <1>3 DEF Inserted
  <2>1. /\ b \in Builds /\ ~Present(b)
        /\ \A c \in Builds : ~Present(c) => b <= c
        /\ ProjectOf[handler[h].hook] \in Projects /\ handler[h].id \in Ids
    BY <1>1, IntakeAssumption DEF Fresh, Present, IntakeAssumption, HandlerType
  <2> DEFINE row == [row |-> "there", project |-> ProjectOf[handler[h].hook],
                     id |-> handler[h].id]
             n == [handler[h] EXCEPT !.pc = "enqueue", !.build = b]
             Rows == [row : {"none", "there", "deleted"},
                      project : Projects \cup {NoProject}, id : Ids]
  <2>2. row \in Rows /\ row.row = "there" /\ row.project \in Projects
    BY <2>1
  <2>3. n \in HandlerType /\ n.hook = handler[h].hook /\ n.pc = "enqueue" /\ n.build = b
    BY <1>1, <2>1 DEF HandlerType
  <2>4. handler' = [handler EXCEPT ![h] = n]
    BY <1>1
  <2>5. build \in [Builds -> Rows] /\ build' = [build EXCEPT ![b] = row]
    BY DEF Shape, TypeOK
  <2> HIDE DEF row, n, Rows
  <2>6. /\ build' \in [Builds -> Rows] /\ build'[b] = row
        /\ \A c \in Builds : c # b => build'[c] = build[c]
    BY <2>1, <2>2, <2>5
  <2>7. KeepsRows
    BY <2>1, <2>6 DEF KeepsRows, Present
  <2>12. /\ n.pc # "idle" => n.hook \in Webhooks
         /\ n.pc = "enqueue" => n.build \in Builds /\ build'[n.build].row # "none"
         /\ n.pc = "mark" => n.result # "none"
    BY <1>1, <2>1, <2>2, <2>3, <2>6
  <2>8. handler' \in [Handlers -> HandlerType] /\ HandlersOK'
    BY <2>3, <2>4, <2>7, <2>12, HandlerMoves
  <2>9. RowsOK' /\ QueueOK'
    BY <1>1, <2>2, <2>6 DEF Shape, RowsOK, QueueOK, Present, Enqueued
  <2>10. ASSUME NEW c \in Builds, NEW d \in Builds, c < d, Present(d)'
         PROVE  Present(c)'
    <3>1. CASE c = b
      BY <2>2, <2>6, <3>1 DEF Present
    <3>2. CASE c # b /\ d = b
      <4>1. c \in Nat /\ b \in Nat /\ c < b
        BY <2>1, <2>10, <3>2, IntakeAssumption DEF Builds, IntakeAssumption
      <4>2. Present(c)
        BY <2>1, <4>1
      <4> QED BY <2>6, <3>2, <4>2 DEF Present
    <3>3. CASE c # b /\ d # b
      BY <2>6, <2>10, <3>3 DEF Shape, InOrder, Present
    <3> QED BY <3>1, <3>2, <3>3
  <2>11. InOrder'
    BY <2>10 DEF InOrder
  <2> QED BY <1>1, <2>6, <2>8, <2>9, <2>11 DEF Shape, TypeOK, HandlerType, Rows
<1> QED BY <1>2, <1>3 DEF InsertBuild

\* queue.add, and what follows the return of triggerBuild.
LEMMA FinishShape ==
  ASSUME Shape, NEW h \in Handlers, EnqueueBuild(h) \/ UpdateLastTriggered(h)
  PROVE  Shape'
<1> USE DEF tables
<1>1. /\ handler \in [Handlers -> HandlerType] /\ handler[h] \in HandlerType
      /\ handler[h].pc \in {"enqueue", "mark"}
      /\ UNCHANGED <<status, record, build, sends>> /\ KeepsRows
  BY DEF EnqueueBuild, UpdateLastTriggered, Shape, TypeOK, HandlerType, KeepsRows,
         Present
<1>2. CASE EnqueueBuild(h)
  <2>1. handler[h].build \in Builds /\ Present(handler[h].build)
    BY <1>2 DEF EnqueueBuild, Shape, HandlersOK
  <2>2. /\ queue' = [queue EXCEPT ![handler[h].build] = "waiting"]
        /\ UNCHANGED <<last, answers>> /\ Mark(h, "triggered")
    BY <1>2 DEF EnqueueBuild
  <2>3. handler' \in [Handlers -> HandlerType] /\ HandlersOK'
    BY <1>1, <2>2, GotoShape
  <2>4. queue' \in [Builds -> {"none", "waiting", "active", "ended"}] /\ QueueOK'
    BY <1>1, <2>1, <2>2 DEF Shape, TypeOK, QueueOK, Enqueued, Present
  <2> QED BY <1>1, <2>2, <2>3, <2>4
          DEF Shape, TypeOK, RowsOK, InOrder, Present, HandlerType
<1>3. CASE UpdateLastTriggered(h)
  <2>1. handler[h].result \in {"triggered", "conflict", "error"}
    BY <1>1, <1>3 DEF UpdateLastTriggered, Shape, HandlersOK, HandlerType
  <2>2. UNCHANGED queue /\ Answer(h, handler[h].result)
    BY <1>3 DEF UpdateLastTriggered
  <2>3. last' \in [Webhooks -> {"none", "triggered", "failed"}]
    BY <1>3 DEF UpdateLastTriggered, Shape, TypeOK
  <2>4. /\ handler' \in [Handlers -> HandlerType] /\ HandlersOK'
        /\ answers' \in [Webhooks \X Ids ->
             SUBSET {"duplicate", "ignored", "triggered", "conflict", "error"}]
    BY <1>1, <2>1, <2>2, AnswerShape
  <2> QED BY <1>1, <2>2, <2>3, <2>4
          DEF Shape, TypeOK, RowsOK, QueueOK, InOrder, Present, Enqueued, HandlerType
<1> QED BY <1>2, <1>3

\* Workers, cron jobs and deletions.
LEMMA SystemShape ==
  ASSUME Shape,
         \/ \E b \in Builds : StartBuild(b) \/ EndBuild(b)
         \/ \E d \in Deliveries : ExpireDelivery(d)
         \/ \E p \in Projects : DeleteProject(p)
         \/ TrimBuilds
  PROVE  Shape'
<1>1. UNCHANGED <<last, handler, sends, answers>>
  BY DEF StartBuild, EndBuild, ExpireDelivery, DeleteProject, TrimBuilds
<1>2. ASSUME NEW b \in Builds, StartBuild(b) \/ EndBuild(b)
      PROVE  /\ UNCHANGED <<record, build>> /\ QueueOK'
             /\ queue' \in [Builds -> {"none", "waiting", "active", "ended"}]
             /\ status' \in [Projects -> {"free", "busy", "deleted"}]
  <2>1. UNCHANGED <<record, build>> /\ Enqueued(b)
    BY <1>2 DEF StartBuild, EndBuild, Enqueued
  <2>2. \E q \in {"active", "ended"} : queue' = [queue EXCEPT ![b] = q]
    BY <1>2 DEF StartBuild, EndBuild
  <2>3. /\ queue' \in [Builds -> {"none", "waiting", "active", "ended"}]
        /\ \A c \in Builds : c # b => queue'[c] = queue[c]
    BY <2>2 DEF Shape, TypeOK
  <2>4. QueueOK'
    BY <2>1, <2>3 DEF Shape, QueueOK, Enqueued, Present
  <2>5. status' \in [Projects -> {"free", "busy", "deleted"}]
    BY <1>2 DEF StartBuild, EndBuild, Shape, TypeOK
  <2> QED BY <2>1, <2>3, <2>4, <2>5
<1>3. ASSUME NEW d \in Deliveries, ExpireDelivery(d)
      PROVE  /\ UNCHANGED <<status, build, queue>>
             /\ record' \in [Deliveries -> Webhooks \cup {NoWebhook}]
  BY <1>3 DEF ExpireDelivery, Shape, TypeOK
<1>4. ASSUME NEW p \in Projects, DeleteProject(p)
      PROVE  /\ UNCHANGED queue
             /\ status' \in [Projects -> {"free", "busy", "deleted"}]
             /\ record' \in [Deliveries -> Webhooks \cup {NoWebhook}]
  BY <1>4 DEF DeleteProject, Shape, TypeOK
<1> DEFINE Rows == [row : {"none", "there", "deleted"},
                    project : Projects \cup {NoProject}, id : Ids]
<1>5. ASSUME TrimBuilds \/ \E p \in Projects : DeleteProject(p)
      PROVE  \A b \in Builds :
               /\ build'[b] \in {build[b], [build[b] EXCEPT !.row = "deleted"]}
               /\ build[b].row # "there" => build'[b] = build[b]
  BY <1>5 DEF TrimBuilds, DeleteProject
<1>6. ASSUME TrimBuilds \/ \E p \in Projects : DeleteProject(p)
      PROVE  /\ build' \in [Builds -> Rows]
             /\ \A b \in Builds : /\ Present(b)' = Present(b)
                                  /\ build'[b].project = build[b].project
  <2>1. build \in [Builds -> Rows] /\ DOMAIN build' = Builds
        /\ build' = [b \in Builds |-> build'[b]]
    BY <1>6 DEF Shape, TypeOK, TrimBuilds, DeleteProject
  <2>2. ASSUME NEW b \in Builds
        PROVE  /\ build'[b] \in Rows /\ Present(b)' = Present(b)
               /\ build'[b].project = build[b].project
    <3>1. build[b] \in Rows
      BY <2>1
    <3> QED BY <1>5, <1>6, <3>1 DEF Present
  <2> QED BY <2>1, <2>2
<1>7. CASE UNCHANGED build
  BY <1>1, <1>2, <1>3, <1>4, <1>7
  DEF Shape, TypeOK, RowsOK, HandlersOK, QueueOK, InOrder, Present, Enqueued, TrimBuilds
<1>8. CASE TrimBuilds \/ \E p \in Projects : DeleteProject(p)
  <2>1. /\ UNCHANGED queue
        /\ status' \in [Projects -> {"free", "busy", "deleted"}]
        /\ record' \in [Deliveries -> Webhooks \cup {NoWebhook}]
    BY <1>4, <1>8 DEF TrimBuilds, Shape, TypeOK
  <2>2. TypeOK'
    BY <1>1, <1>6, <1>8, <2>1 DEF Shape, TypeOK
  <2>3. RowsOK' /\ HandlersOK' /\ QueueOK' /\ InOrder'
    BY <1>1, <1>6, <1>8, <2>1 DEF Shape, RowsOK, HandlersOK, QueueOK, InOrder, Enqueued
  <2> QED BY <2>2, <2>3 DEF Shape
<1> QED BY <1>2, <1>3, <1>7, <1>8

LEMMA ShapeInductive == Shape /\ [Next]_vars => Shape'
<1> SUFFICES ASSUME Shape, [Next]_vars PROVE Shape'
  OBVIOUS
<1>1. CASE UNCHANGED vars
  BY <1>1 DEF vars, tables, Shape, TypeOK, RowsOK, HandlersOK, QueueOK, InOrder,
              Present, Enqueued
<1>2. CASE Next
  BY <1>2, IntakeShape, InsertShape, FinishShape, SystemShape DEF Next
<1> QED BY <1>1, <1>2

LEMMA ShapeAlways == Spec => []Shape
  BY InitShape, ShapeInductive, PTL DEF Spec

\* Every request, row and reply keeps its type: a handler that is to insert, to
\* enqueue or to answer knows its webhook, its build and its result.
THEOREM IntakeTypeCorrect == Spec => []TypeOK
<1>1. Shape => TypeOK
  BY DEF Shape
<1> QED BY <1>1, ShapeAlways, PTL

-----------------------------------------------------------------------------
(* A delivery is remembered by the unique index while the row of its build *)
(* is there; a row is missing only with its project or after KeepBuilds    *)
(* later ones.                                                             *)

Unique == \A b, c \in Builds :
  build[b].row = "there" /\ build[c].row = "there" /\ SamePush(b, c) => b = c

Later(b) == {x \in Builds : /\ b < x /\ Present(x)
                            /\ build[x].project = build[b].project}

Forgotten == \A b \in Builds : build[b].row = "deleted" =>
  \/ status[build[b].project] = "deleted"
  \/ Cardinality(Later(b)) >= KeepBuilds

\* ProcessedOnce for every inserted row, whether or not it was enqueued.
InsertedOnce == \A b, c \in Builds :
  b < c /\ Present(c) /\ SamePush(b, c) => Cardinality(Between(b, c)) > KeepBuilds

Once == Unique /\ Forgotten /\ InsertedOnce

LEMMA InitOnce == Init => Once
  BY DEF Init, Once, Unique, Forgotten, InsertedOnce, SamePush, Present

\* Sets of builds are finite.
LEMMA FiniteBuilds ==
  ASSUME NEW S \in SUBSET Builds, NEW T \in SUBSET S
  PROVE  /\ IsFiniteSet(S) /\ Cardinality(S) \in Nat
         /\ IsFiniteSet(T) /\ Cardinality(T) \in Nat
         /\ Cardinality(T) <= Cardinality(S)
<1>1. IsFiniteSet(Builds)
  BY FS_Interval, IntakeAssumption DEF Builds, IntakeAssumption
<1>2. IsFiniteSet(S)
  BY <1>1, FS_Subset
<1> QED BY <1>2, FS_Subset, FS_CardinalityType

\* Steps that insert nothing: rows may be deleted, with their project or because
\* enough newer ones are there.
LEMMA DeletingOnce ==
  ASSUME Shape, Once,
         \A p \in Projects : status[p] = "deleted" => status'[p] = "deleted",
         \A b \in Builds :
           /\ build'[b].project = build[b].project /\ build'[b].id = build[b].id
           /\ Present(b)' = Present(b)
           /\ build'[b].row = "there" => build[b].row = "there"
           /\ build[b].row = "there" /\ build'[b].row = "deleted" =>
                \/ status'[build[b].project] = "deleted"
                \/ Cardinality(Newer(b)) >= KeepBuilds
  PROVE  Once'
<1>1. \A b, c \in Builds : SamePush(b, c)' = SamePush(b, c)
  BY DEF SamePush
<1>2. \A b, c \in Builds : Between(b, c)' = Between(b, c)
  BY DEF Between
<1>3. \A b \in Builds : Later(b)' = Later(b)
  BY DEF Later
<1>4. Unique' /\ InsertedOnce'
  BY <1>1, <1>2 DEF Once, Unique, InsertedOnce
<1>5. ASSUME NEW b \in Builds, build'[b].row = "deleted"
      PROVE  \/ status'[build'[b].project] = "deleted"
             \/ Cardinality(Later(b)') >= KeepBuilds
  <2>1. Present(b) /\ build[b].project \in Projects
    BY <1>5 DEF Shape, RowsOK, Present
  <2>2. build[b].row \in {"there", "deleted"}
    BY <2>1 DEF Shape, TypeOK, Present
  <2>3. CASE build[b].row = "deleted"
    BY <1>3, <2>1, <2>3 DEF Once, Forgotten
  <2>4. CASE build[b].row = "there" /\ Cardinality(Newer(b)) >= KeepBuilds
    <3>1. Newer(b) \subseteq Later(b) /\ Later(b) \subseteq Builds
      BY IntakeAssumption DEF Newer, Later, Present, Builds, IntakeAssumption
    <3>2. KeepBuilds \in Nat
      BY IntakeAssumption DEF IntakeAssumption
    <3> QED BY <1>3, <2>4, <3>1, <3>2, FiniteBuilds
  <2> QED BY <1>5, <2>2, <2>3, <2>4
<1>6. Forgotten'
  BY <1>5 DEF Forgotten
<1> QED BY <1>4, <1>6 DEF Once

\* The INSERT of a push that was built before finds the index without its id only
\* if KeepBuilds rows of the project have come in between.
LEMMA InsertOnce ==
  ASSUME Shape, Once, NEW h \in Handlers, InsertBuild(h), build' # build
  PROVE  Once'
<1>1. /\ Inserted(h) /\ Exists(handler[h].hook) /\ UNCHANGED status
      /\ handler[h].id = NoId \/ ~Taken(handler[h].id)
  BY DEF InsertBuild
<1> PICK n \in Fresh :
      /\ \A c \in Fresh : n <= c
      /\ build' = [build EXCEPT ![n] =
           [row |-> "there", project |-> ProjectOf[handler[h].hook],
            id |-> handler[h].id]]
  BY <1>1 DEF Inserted
<1>2. /\ n \in Builds /\ ~Present(n) /\ \A c \in Builds : ~Present(c) => n <= c
      /\ build'[n].row = "there" /\ build'[n].id = handler[h].id
      /\ build'[n].project = ProjectOf[handler[h].hook]
      /\ \A c \in Builds : c # n => build'[c] = build[c]
      /\ \A c \in Builds : c \in Nat
  BY IntakeAssumption DEF Fresh, Present, Shape, TypeOK, Builds, IntakeAssumption
<1>3. \A c \in Builds : Present(c) => c < n
  BY <1>2 DEF Shape, InOrder
<1>4. Unique'
  <2>1. ASSUME NEW b \in Builds, b # n, build'[b].row = "there"
        PROVE  ~SamePush(b, n)' /\ ~SamePush(n, b)'
    BY <1>1, <1>2, <2>1 DEF SamePush, Taken
  <2> QED BY <1>2, <2>1 DEF Once, Unique, SamePush
<1>5. ASSUME NEW b \in Builds, build'[b].row = "deleted"
      PROVE  \/ status'[build'[b].project] = "deleted"
             \/ Cardinality(Later(b)') >= KeepBuilds
  <2>1. b # n /\ build'[b] = build[b]
    BY <1>2, <1>5
  <2>2. Later(b) \subseteq Later(b)' /\ Later(b)' \subseteq Builds
    BY <1>2, <2>1 DEF Later, Present
  <2>3. KeepBuilds \in Nat
    BY IntakeAssumption DEF IntakeAssumption
  <2>4. Cardinality(Later(b)) >= KeepBuilds => Cardinality(Later(b)') >= KeepBuilds
    BY <2>2, <2>3, FiniteBuilds
  <2> QED BY <1>1, <1>5, <2>1, <2>4 DEF Once, Forgotten
<1>6. ASSUME NEW b \in Builds, NEW c \in Builds, b < c, Present(c)', SamePush(b, c)'
      PROVE  Cardinality(Between(b, c)') > KeepBuilds
  <2>1. CASE c # n
    <3>1. c < n /\ b < n
      BY <1>2, <1>3, <1>6, <2>1 DEF Present
    <3>2. Between(b, c)' = Between(b, c)
      BY <1>2, <3>1 DEF Between
    <3>3. Present(c) /\ SamePush(b, c)
      BY <1>2, <1>6, <2>1, <3>1 DEF Present, SamePush
    <3> QED BY <1>6, <3>2, <3>3 DEF Once, InsertedOnce
  <2>2. CASE c = n
    <3>1. /\ b # n /\ build'[b] = build[b] /\ Present(b)
          /\ build[b].id = handler[h].id /\ handler[h].id # NoId
          /\ build[b].project = ProjectOf[handler[h].hook]
      BY <1>2, <1>6, <2>2 DEF SamePush
    <3>2. build[b].row = "deleted"
      BY <1>1, <3>1 DEF Taken, Present, Shape, TypeOK
    <3>3. Cardinality(Later(b)) >= KeepBuilds
      BY <1>1, <3>1, <3>2 DEF Once, Forgotten, Exists
    <3>4. /\ Later(b) \cup {n} \subseteq Between(b, n)' /\ n \notin Later(b)
          /\ Between(b, n)' \subseteq Builds /\ Later(b) \subseteq Builds
      <4>1. n \in Between(b, n)' /\ n \notin Later(b)
        BY <1>2, <1>6, <2>2, <3>1 DEF Between, Later
      <4>2. ASSUME NEW x \in Later(b) PROVE x \in Between(b, n)'
        <5>1. x \in Builds /\ b < x /\ Present(x) /\ build[x].project = build[b].project
          BY DEF Later
        <5>2. x < n /\ build'[x] = build[x]
          BY <1>2, <1>3, <5>1
        <5> QED BY <1>2, <3>1, <5>1, <5>2 DEF Between
      <4> QED BY <4>1, <4>2 DEF Between, Later
    <3>5. Cardinality(Later(b) \cup {n}) = Cardinality(Later(b)) + 1
      BY <3>4, FiniteBuilds, FS_AddElement
    <3>6. /\ Cardinality(Later(b)) \in Nat /\ Cardinality(Between(b, n)') \in Nat
          /\ Cardinality(Later(b) \cup {n}) <= Cardinality(Between(b, n)')
      BY <3>4, FiniteBuilds
    <3>7. KeepBuilds \in Nat
      BY IntakeAssumption DEF IntakeAssumption
    <3> QED BY <2>2, <3>3, <3>5, <3>6, <3>7
  <2> QED BY <2>1, <2>2
<1> QED BY <1>4, <1>5, <1>6 DEF Once, Forgotten, InsertedOnce

LEMMA OnceInductive == Shape /\ Once /\ [Next]_vars => Once'
<1> SUFFICES ASSUME Shape, Once, [Next]_vars PROVE Once'
  OBVIOUS
<1>1. ASSUME UNCHANGED build,
             \A p \in Projects : status[p] = "deleted" => status'[p] = "deleted"
      PROVE  Once'
  <2>1. \A b \in Builds : Present(b)' = Present(b)
    BY <1>1 DEF Present
  <2> QED BY <1>1, <2>1, DeletingOnce
<1>2. ASSUME NEW b \in Builds, StartBuild(b) \/ EndBuild(b) PROVE Once'
  BY <1>1, <1>2 DEF StartBuild, EndBuild, Shape, TypeOK
<1>3. ASSUME NEW p \in Projects, DeleteProject(p) PROVE Once'
  <2>1. \A q \in Projects : /\ status[q] = "deleted" => status'[q] = "deleted"
                            /\ q = p => status'[q] = "deleted"
    BY <1>3 DEF DeleteProject, Shape, TypeOK
  <2>2. ASSUME NEW b \in Builds
        PROVE  /\ build'[b].project = build[b].project /\ build'[b].id = build[b].id
               /\ Present(b)' = Present(b)
               /\ build'[b].row = "there" => build[b].row = "there"
               /\ build[b].row = "there" /\ build'[b].row = "deleted" =>
                    build[b].project = p
    BY <1>3 DEF DeleteProject, Present, Shape, TypeOK
  <2> QED BY <2>1, <2>2, DeletingOnce
<1>4. CASE TrimBuilds
  <2>1. UNCHANGED status
    BY <1>4 DEF TrimBuilds
  <2>2. ASSUME NEW b \in Builds
        PROVE  /\ build'[b].project = build[b].project /\ build'[b].id = build[b].id
               /\ Present(b)' = Present(b)
               /\ build'[b].row = "there" => build[b].row = "there"
               /\ build[b].row = "there" /\ build'[b].row = "deleted" =>
                    Cardinality(Newer(b)) >= KeepBuilds
    BY <1>4 DEF TrimBuilds, Present, Shape, TypeOK
  <2> QED BY <2>1, <2>2, DeletingOnce
<1>5. ASSUME NEW h \in Handlers, InsertBuild(h) PROVE Once'
  BY <1>1, <1>5, InsertOnce DEF InsertBuild
<1>6. CASE UNCHANGED <<status, build>>
  BY <1>1, <1>6
<1>9. ASSUME NEW h \in Handlers,
             \/ \E w \in Webhooks, d \in Ids : Receive(h, w, d)
             \/ CheckDelivery(h) \/ RecordDelivery(h) \/ SelectProject(h)
      PROVE  Once'
  BY <1>6, <1>9 DEF tables, Receive, CheckDelivery, RecordDelivery, SelectProject
<1>10. ASSUME NEW h \in Handlers,
              \/ EnqueueBuild(h) \/ UpdateLastTriggered(h)
              \/ CallFails(h) \/ HandlerDies(h)
       PROVE  Once'
  BY <1>6, <1>10 DEF tables, EnqueueBuild, UpdateLastTriggered, CallFails, HandlerDies
<1>11. ASSUME NEW d \in Deliveries, ExpireDelivery(d) PROVE Once'
  BY <1>6, <1>11 DEF tables, ExpireDelivery
<1>7. CASE Next
  BY <1>2, <1>3, <1>4, <1>5, <1>7, <1>9, <1>10, <1>11 DEF Next
<1>8. CASE UNCHANGED vars
  BY <1>6, <1>8 DEF vars, tables
<1> QED BY <1>7, <1>8

\* However often and however concurrently a delivery is sent, one build of a
\* project is enqueued for it, until cleanBuildCache may have deleted the row that
\* the unique index would have found.
THEOREM PushBuiltOnce == Spec => []ProcessedOnce
<1>1. Shape /\ Once => ProcessedOnce
  BY DEF Shape, QueueOK, Once, InsertedOnce, ProcessedOnce
<1> QED BY <1>1, ShapeAlways, InitOnce, OnceInductive, PTL DEF Spec
=============================================================================
