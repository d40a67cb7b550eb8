--------------------------- MODULE PlatformProofs ---------------------------
(***************************************************************************)
(* Stacks made from templates, the cleanup of the registry, the routes of  *)
(* Caddy and the partitions of the audit log, for any number of requests,  *)
(* names, images, routes and months; and the composition MCPlatform, whose *)
(* behaviours are behaviours of each of its parts.                         *)
(***************************************************************************)
EXTENDS MCPlatform, PublicDnsProofs, SelfUpdateProofs,
        FiniteSetTheorems, SequenceTheorems, WellFoundedInduction, TLAPS

(***************************************************************************)
(* TemplateDeploy. The rows a request has made are the first ones of its   *)
(* stack, so the primary, which is the last, comes after all the others.   *)
(***************************************************************************)
RequestState ==
  [pc : {"idle", "create", "update", "audit", "answered"},
   name : Typed \cup {NoRequest}, template : Templates \cup {NoRequest}, next : Nat]

RequestsShape ==
  /\ request \in [Requests -> RequestState]
  /\ project \in [Names -> Requests \cup {NoRequest, Custom}]
  /\ tagged \subseteq {n \in Names : project[n] # NoRequest}
  /\ deleted \subseteq Names
  /\ \A r \in Requests : request[r].pc # "idle" =>
       /\ request[r].name \in Typed /\ request[r].template \in Templates
       /\ request[r].next \in 1..Len(Stack[request[r].template]) + 1

\* The rows of a request before the one it is at are there, or were deleted.
EarlierRows ==
  \A r \in Requests : request[r].pc # "idle" =>
    \A i \in 1..Len(StackOf(r)) + 1 :
      \/ i < request[r].next
      \/ i = request[r].next /\ request[r].pc \in {"update", "audit"}
      => project[NameOf(r, i)] = r \/ NameOf(r, i) \in deleted

\* A request has no other rows than those.
OnlyOwnRows ==
  \A r \in Requests, n \in Names : project[n] = r =>
    /\ request[r].pc # "idle"
    /\ \E i \in 1..request[r].next : NameOf(r, i) = n
    /\ request[r].pc = "create" => \E i \in 1..(request[r].next - 1) : NameOf(r, i) = n

\* One that was answered while it stood at its primary may or may not have made
\* it; if it has, then all the rows before it.
TemplateInv == RequestsShape /\ EarlierRows /\ OnlyOwnRows /\ UntaggedHasCause

LEMMA NamesOfStack ==
  ASSUME TemplateInv, NEW r \in Requests, request[r].pc # "idle",
         NEW i \in 1..Len(StackOf(r)) + 1
  PROVE  /\ NameOf(r, i) \in Names
         /\ NameOf(r, i) = request[r].name <=> i = Len(StackOf(r)) + 1
<1> DEFINE t == request[r].template
           n == request[r].name
<1>1. t \in Templates /\ n \in Typed /\ StackOf(r) = Stack[t]
  BY DEF TemplateInv, RequestsShape, StackOf
<1>2. /\ Len(Stack[t]) \in Nat
      /\ \A j \in 1..Len(Stack[t]) : SvcName[n][Stack[t][j]] \in Names \ {n}
  BY <1>1, TemplateAssumption DEF TemplateAssumption
<1>3. n \in Names
  BY <1>1, TemplateAssumption DEF TemplateAssumption
<1>4. CASE i > Len(Stack[t])
  <2>1. NameOf(r, i) = n
    BY <1>1, <1>4 DEF NameOf
  <2>2. i = Len(Stack[t]) + 1
    BY <1>1, <1>2, <1>4
  <2> QED BY <1>1, <1>3, <2>1, <2>2
<1>5. CASE ~(i > Len(Stack[t]))
  <2>1. NameOf(r, i) = SvcName[n][Stack[t][i]]
    BY <1>1, <1>5 DEF NameOf
  <2>2. i \in 1..Len(Stack[t]) /\ i # Len(Stack[t]) + 1
    BY <1>1, <1>2, <1>5
  <2> QED BY <1>1, <1>2, <2>1, <2>2
<1> QED BY <1>4, <1>5

LEMMA NameAtNext ==
  ASSUME TemplateInv, NEW r \in Requests, request[r].pc # "idle"
  PROVE  /\ request[r].next \in 1..Len(StackOf(r)) + 1
         /\ Len(StackOf(r)) \in Nat
         /\ NameNow(r) \in Names
<1>1. request[r].next \in 1..Len(StackOf(r)) + 1
  BY DEF TemplateInv, RequestsShape, StackOf
<1>2. Len(StackOf(r)) \in Nat
  BY TemplateAssumption DEF TemplateInv, RequestsShape, StackOf, TemplateAssumption
<1>3. NameNow(r) \in Names
  BY <1>1, NamesOfStack DEF NameNow
<1> QED BY <1>1, <1>2, <1>3

LEMMA TemplateInvInit == TemplateInit => TemplateInv
<1> SUFFICES ASSUME TemplateInit PROVE TemplateInv
  OBVIOUS
<1>1. \A r \in Requests : request[r] = Unasked
  BY DEF TemplateInit
<1>2. \A n \in Names : project[n] = NoRequest
  BY DEF TemplateInit
<1>3. RequestsShape
  BY <1>1, <1>2 DEF TemplateInit, RequestsShape, RequestState, Unasked
<1>4. EarlierRows
  BY <1>1 DEF EarlierRows, Unasked
<1>5. OnlyOwnRows /\ UntaggedHasCause
  BY <1>2, TemplateAssumption DEF OnlyOwnRows, UntaggedHasCause, TemplateAssumption
<1> QED BY <1>3, <1>4, <1>5 DEF TemplateInv

LEMMA ClickKeeps ==
  ASSUME TemplateInv, NEW r \in Requests, NEW n \in Typed, NEW t \in Templates, Click(r, n, t)
  PROVE  TemplateInv'
<1> DEFINE new == [Unasked EXCEPT !.pc = "create", !.name = n, !.template = t]
<1>1. /\ request' = [request EXCEPT ![r] = new]
      /\ request[r].pc = "idle" /\ UNCHANGED <<project, tagged, deleted>>
  BY DEF Click
<1>2. /\ new \in RequestState
      /\ new.pc = "create" /\ new.name = n /\ new.template = t /\ new.next = 1
  <2>1. Unasked \in RequestState /\ Unasked.next = 1
    BY DEF Unasked, RequestState
  <2> QED BY <2>1 DEF RequestState
<1> HIDE DEF new
<1>3. request'[r] = new /\ \A q \in Requests \ {r} : request'[q] = request[q]
  BY <1>1 DEF TemplateInv, RequestsShape
<1>4. RequestsShape'
  <2>1. Len(Stack[t]) \in Nat
    BY TemplateAssumption DEF TemplateAssumption
  <2>2. request' \in [Requests -> RequestState]
    BY <1>1, <1>2 DEF TemplateInv, RequestsShape
  <2> QED BY <1>1, <1>2, <1>3, <2>1, <2>2 DEF TemplateInv, RequestsShape
<1>5. \A m \in Names : project[m] # r
  BY <1>1 DEF TemplateInv, OnlyOwnRows
<1>6. \A q \in Requests \ {r} : /\ StackOf(q)' = StackOf(q) /\ NameNow(q)' = NameNow(q)
                                /\ \A i : NameOf(q, i)' = NameOf(q, i)
  BY <1>3 DEF StackOf, NameOf, NameNow
<1>7. EarlierRows'
  BY <1>1, <1>2, <1>3, <1>6 DEF TemplateInv, EarlierRows
<1>8. OnlyOwnRows'
  BY <1>1, <1>2, <1>3, <1>5, <1>6 DEF TemplateInv, OnlyOwnRows
<1>9. UntaggedHasCause'
  BY <1>1, <1>2, <1>3, <1>5, <1>6 DEF TemplateInv, UntaggedHasCause
<1> QED BY <1>4, <1>7, <1>8, <1>9 DEF TemplateInv

\* An answer, whatever it says, makes no row and loses none.
LEMMA AnswerKeeps ==
  ASSUME TemplateInv, NEW r \in Requests, request[r].pc \in {"create", "update", "audit"},
         Answer(r), UNCHANGED <<project, tagged, deleted>>
  PROVE  TemplateInv'
<1>1. request' = [request EXCEPT ![r] = [request[r] EXCEPT !.pc = "answered"]]
  BY DEF Answer
<1>2. /\ request'[r] = [request[r] EXCEPT !.pc = "answered"]
      /\ \A q \in Requests \ {r} : request'[q] = request[q]
  BY <1>1 DEF TemplateInv, RequestsShape
<1>3. request[r] \in RequestState
  BY DEF TemplateInv, RequestsShape
<1>4. /\ request'[r].pc = "answered" /\ request'[r].name = request[r].name
      /\ request'[r].template = request[r].template /\ request'[r].next = request[r].next
      /\ request'[r] \in RequestState
  BY <1>2, <1>3 DEF RequestState
<1>5. RequestsShape'
  BY <1>1, <1>2, <1>4 DEF TemplateInv, RequestsShape
<1>6. \A q \in Requests : /\ StackOf(q)' = StackOf(q) /\ NameNow(q)' = NameNow(q)
                          /\ \A i : NameOf(q, i)' = NameOf(q, i)
                          /\ request'[q].next = request[q].next
                          /\ request'[q].pc = IF q = r THEN "answered" ELSE request[q].pc
  BY <1>2, <1>4 DEF StackOf, NameOf, NameNow
<1>7. EarlierRows'
  BY <1>6 DEF TemplateInv, EarlierRows
<1>8. OnlyOwnRows'
  BY <1>6 DEF TemplateInv, OnlyOwnRows
<1>9. UntaggedHasCause'
  BY <1>6 DEF TemplateInv, UntaggedHasCause
<1> QED BY <1>5, <1>7, <1>8, <1>9 DEF TemplateInv

LEMMA CreateKeeps ==
  ASSUME TemplateInv, NEW r \in Requests, CreateProject(r)
  PROVE  TemplateInv'
<1>1. request[r].pc = "create" /\ UNCHANGED <<tagged, deleted>>
  BY DEF CreateProject
<1>2. CASE Answer(r) /\ UNCHANGED project
  BY <1>1, <1>2, AnswerKeeps
<1>3. CASE /\ project[NameNow(r)] = NoRequest
           /\ project' = [project EXCEPT ![NameNow(r)] = r]
           /\ request' = [request EXCEPT ![r].pc = "update"]
  <2>1. /\ request'[r] = [request[r] EXCEPT !.pc = "update"]
        /\ \A q \in Requests \ {r} : request'[q] = request[q]
    BY <1>3 DEF TemplateInv, RequestsShape
  <2>2. request[r] \in RequestState
    BY DEF TemplateInv, RequestsShape
  <2>3. /\ request'[r].pc = "update" /\ request'[r].name = request[r].name
        /\ request'[r].template = request[r].template /\ request'[r].next = request[r].next
        /\ request'[r] \in RequestState
    BY <2>1, <2>2 DEF RequestState
  <2>4. \A q \in Requests : /\ StackOf(q)' = StackOf(q) /\ NameNow(q)' = NameNow(q)
                            /\ \A i : NameOf(q, i)' = NameOf(q, i)
                            /\ request'[q].next = request[q].next
                            /\ request'[q].pc = IF q = r THEN "update" ELSE request[q].pc
    BY <2>1, <2>3 DEF StackOf, NameOf, NameNow
  <2>5. /\ NameNow(r) \in Names /\ request[r].next \in 1..Len(StackOf(r)) + 1
        /\ Len(StackOf(r)) \in Nat
        /\ NameNow(r) = NameOf(r, request[r].next)
    BY <1>1, NameAtNext DEF NameNow
  <2>6. \A n \in Names : project'[n] = IF n = NameNow(r) THEN r ELSE project[n]
    BY <1>3, <2>5 DEF TemplateInv, RequestsShape
  <2>7. RequestsShape'
    <3>1. project' \in [Names -> Requests \cup {NoRequest, Custom}]
      BY <1>3 DEF TemplateInv, RequestsShape
    <3>2. request' \in [Requests -> RequestState]
      BY <1>3, <2>3 DEF TemplateInv, RequestsShape
    <3>3. tagged' \subseteq {n \in Names : project'[n] # NoRequest}
      BY <1>1, <2>6, TemplateAssumption DEF TemplateInv, RequestsShape, TemplateAssumption
    <3> QED BY <1>1, <2>1, <2>3, <3>1, <3>2, <3>3 DEF TemplateInv, RequestsShape
  <2>8. EarlierRows'
    <3> SUFFICES ASSUME NEW q \in Requests, request'[q].pc # "idle",
                        NEW i \in 1..Len(StackOf(q)) + 1,
                        \/ i < request'[q].next
                        \/ i = request'[q].next /\ request'[q].pc \in {"update", "audit"}
                 PROVE  project'[NameOf(q, i)] = q \/ NameOf(q, i) \in deleted
      BY <1>1, <2>4 DEF EarlierRows
    <3>1. request[q].pc # "idle"
      BY <1>1, <2>4
    <3>2. NameOf(q, i) \in Names
      BY <3>1, NamesOfStack
    <3>3. CASE q = r /\ i = request[r].next
      BY <2>5, <2>6, <3>3
    <3>4. CASE ~(q = r /\ i = request[r].next)
      <4>1. \/ i < request[q].next
            \/ i = request[q].next /\ request[q].pc \in {"update", "audit"}
        BY <2>4, <3>4
      <4>2. project[NameOf(q, i)] = q \/ NameOf(q, i) \in deleted
        BY <3>1, <4>1 DEF TemplateInv, EarlierRows
      <4>3. q # NoRequest
        BY TemplateAssumption DEF TemplateAssumption
      <4> QED BY <1>3, <2>6, <3>2, <4>2, <4>3
    <3> QED BY <3>3, <3>4
  <2>9. OnlyOwnRows'
    <3> SUFFICES ASSUME NEW q \in Requests, NEW n \in Names, project'[n] = q
                 PROVE  /\ request'[q].pc # "idle"
                        /\ \E i \in 1..request[q].next : NameOf(q, i) = n
                        /\ request'[q].pc = "create" =>
                             \E i \in 1..(request[q].next - 1) : NameOf(q, i) = n
      BY <2>4 DEF OnlyOwnRows
    <3>1. CASE n = NameNow(r)
      <4>1. q = r
        BY <2>6, <3>1
      <4>2. request[r].next \in 1..request[r].next
        BY <2>5
      <4> QED BY <2>4, <2>5, <3>1, <4>1, <4>2
    <3>2. CASE n # NameNow(r)
      BY <2>4, <2>6, <3>2 DEF TemplateInv, OnlyOwnRows
    <3> QED BY <3>1, <3>2
  <2>10. UntaggedHasCause'
    <3>1. \A q \in Requests \ {r}, n \in Names : project'[n] = q => project[n] = q
      BY <2>6
    <3>2. \A n \in Names : project'[n] = r /\ n \notin tagged => n = NameNow(r)
      BY <1>1, <2>6 DEF TemplateInv, UntaggedHasCause
    <3> QED BY <1>1, <2>4, <3>1, <3>2 DEF TemplateInv, UntaggedHasCause
  <2> QED BY <2>7, <2>8, <2>9, <2>10 DEF TemplateInv
<1> QED BY <1>2, <1>3 DEF CreateProject

LEMMA UpdateKeeps ==
  ASSUME TemplateInv, NEW r \in Requests, UpdateProject(r)
  PROVE  TemplateInv'
<1> DEFINE new == IF IsPrimary(r) THEN [request[r] EXCEPT !.pc = "audit"]
                  ELSE [request[r] EXCEPT !.pc = "create", !.next = request[r].next + 1]
<1>1. request[r].pc = "update" /\ UNCHANGED <<project, deleted>>
  BY DEF UpdateProject
<1>2. request' = [request EXCEPT ![r] = new]
  BY DEF UpdateProject
<1>3. request[r] \in RequestState
  BY DEF TemplateInv, RequestsShape
<1>4. /\ NameNow(r) \in Names /\ request[r].next \in 1..Len(StackOf(r)) + 1
      /\ Len(StackOf(r)) \in Nat
      /\ NameNow(r) = NameOf(r, request[r].next)
  BY <1>1, NameAtNext DEF NameNow
<1>5. new \in RequestState /\ new.name = request[r].name /\ new.template = request[r].template
  <2>1. request[r].next + 1 \in Nat
    BY <1>4
  <2>2. [request[r] EXCEPT !.pc = "audit"] \in RequestState
    BY <1>3 DEF RequestState
  <2>3. [request[r] EXCEPT !.pc = "create", !.next = request[r].next + 1] \in RequestState
    BY <1>3, <2>1 DEF RequestState
  <2> QED BY <1>3, <2>2, <2>3 DEF RequestState
<1>6. \/ new.pc = "audit" /\ new.next = request[r].next /\ IsPrimary(r)
      \/ new.pc = "create" /\ new.next = request[r].next + 1 /\ ~IsPrimary(r)
  BY <1>3 DEF RequestState
<1> HIDE DEF new
<1>7. /\ request'[r] = new
      /\ \A q \in Requests \ {r} : request'[q] = request[q]
      /\ request' \in [Requests -> RequestState]
  BY <1>2, <1>5 DEF TemplateInv, RequestsShape
<1>8. \A q \in Requests : /\ StackOf(q)' = StackOf(q)
                          /\ \A i : NameOf(q, i)' = NameOf(q, i)
  BY <1>5, <1>7 DEF StackOf, NameOf
<1>9. \A q \in Requests \ {r} : NameNow(q)' = NameNow(q)
  BY <1>7, <1>8 DEF NameNow
<1>10. tagged' = IF project[NameNow(r)] = r THEN tagged \cup {NameNow(r)} ELSE tagged
  BY DEF UpdateProject
<1>11. RequestsShape'
  <2>1. tagged' \subseteq {n \in Names : project[n] # NoRequest}
    BY <1>4, <1>10, TemplateAssumption DEF TemplateInv, RequestsShape, TemplateAssumption
  <2>2. StackOf(r) = Stack[request[r].template]
    BY DEF StackOf
  <2>3. /\ new.name \in Typed /\ new.template \in Templates
        /\ new.next \in 1..Len(Stack[new.template]) + 1
    <3>1. request[r].name \in Typed /\ request[r].template \in Templates
      BY <1>1 DEF TemplateInv, RequestsShape
    <3>2. new.next \in 1..Len(StackOf(r)) + 1
      BY <1>4, <1>6 DEF IsPrimary
    <3> QED BY <1>5, <2>2, <3>1, <3>2
  <2> QED BY <1>1, <1>7, <2>1, <2>3 DEF TemplateInv, RequestsShape
<1>12. EarlierRows'
  <2> SUFFICES ASSUME NEW q \in Requests, request'[q].pc # "idle",
                      NEW i \in 1..Len(StackOf(q)) + 1,
                      \/ i < request'[q].next
                      \/ i = request'[q].next /\ request'[q].pc \in {"update", "audit"}
               PROVE  project[NameOf(q, i)] = q \/ NameOf(q, i) \in deleted
    BY <1>1, <1>8 DEF EarlierRows
  <2>1. CASE q # r
    BY <1>7, <2>1 DEF TemplateInv, EarlierRows
  <2>2. CASE q = r
    <3>1. i < request[r].next \/ i = request[r].next
      BY <1>4, <1>6, <1>7, <2>2
    <3> QED BY <1>1, <2>2, <3>1 DEF TemplateInv, EarlierRows
  <2> QED BY <2>1, <2>2
<1>13. OnlyOwnRows'
  <2> SUFFICES ASSUME NEW q \in Requests, NEW n \in Names, project[n] = q
               PROVE  /\ request'[q].pc # "idle"
                      /\ \E i \in 1..request'[q].next : NameOf(q, i) = n
                      /\ request'[q].pc = "create" =>
                           \E i \in 1..(request'[q].next - 1) : NameOf(q, i) = n
    BY <1>1, <1>8 DEF OnlyOwnRows
  <2>1. CASE q # r
    BY <1>7, <2>1 DEF TemplateInv, OnlyOwnRows
  <2>2. CASE q = r
    <3>1. PICK i \in 1..request[r].next : NameOf(r, i) = n
      BY <2>2 DEF TemplateInv, OnlyOwnRows
    <3>2. i \in 1..new.next /\ (new.pc = "create" => i \in 1..(new.next - 1))
      BY <1>4, <1>6
    <3> QED BY <1>6, <1>7, <2>2, <3>1, <3>2
  <2> QED BY <2>1, <2>2
<1>14. UntaggedHasCause'
  <2>1. \A n \in Names : project[n] = r => n \in tagged'
    BY <1>10 DEF TemplateInv, UntaggedHasCause
  <2>2. \A n : n \notin tagged' => n \notin tagged
    BY <1>10
  <2> QED BY <1>1, <1>7, <1>9, <2>1, <2>2 DEF TemplateInv, UntaggedHasCause
<1> QED BY <1>11, <1>12, <1>13, <1>14 DEF TemplateInv

\* A row of no request, made or deleted by hand.
LEMMA ByHandKeeps ==
  ASSUME TemplateInv, NEW n \in Names, CreateCustom(n) \/ DeleteProject(n)
  PROVE  TemplateInv'
<1>1. UNCHANGED request /\ deleted \subseteq deleted' /\ deleted' \subseteq Names
  BY DEF CreateCustom, DeleteProject, TemplateInv, RequestsShape
<1>2. \A q \in Requests : /\ StackOf(q)' = StackOf(q) /\ NameNow(q)' = NameNow(q)
                          /\ \A i : NameOf(q, i)' = NameOf(q, i)
  BY <1>1 DEF StackOf, NameOf, NameNow
<1>3. /\ project' \in [Names -> Requests \cup {NoRequest, Custom}]
      /\ \A m \in Names \ {n} : project'[m] = project[m]
      /\ project'[n] \in {NoRequest, Custom}
  BY DEF CreateCustom, DeleteProject, TemplateInv, RequestsShape
<1>4. /\ tagged' \subseteq {m \in Names : project'[m] # NoRequest}
      /\ \A m \in Names \ {n} : m \in tagged' <=> m \in tagged
  <2>1. CASE CreateCustom(n)
    BY <1>3, <2>1 DEF CreateCustom, TemplateInv, RequestsShape
  <2>2. CASE DeleteProject(n)
    BY <1>3, <2>2 DEF DeleteProject, TemplateInv, RequestsShape
  <2> QED BY <2>1, <2>2
<1>5. \A q \in Requests, m \in Names : project'[m] = q => m # n /\ project[m] = q
  BY <1>3, TemplateAssumption DEF Custom, TemplateAssumption
<1>6. \A q \in Requests : project[n] = q => n \in deleted'
  BY TemplateAssumption DEF CreateCustom, DeleteProject, TemplateAssumption
<1>7. RequestsShape'
  BY <1>1, <1>3, <1>4 DEF TemplateInv, RequestsShape
<1>8. EarlierRows'
  <2> SUFFICES ASSUME NEW q \in Requests, request[q].pc # "idle",
                      NEW i \in 1..Len(StackOf(q)) + 1,
                      \/ i < request[q].next
                      \/ i = request[q].next /\ request[q].pc \in {"update", "audit"}
               PROVE  project'[NameOf(q, i)] = q \/ NameOf(q, i) \in deleted'
    BY <1>1, <1>2 DEF EarlierRows
  <2>1. NameOf(q, i) \in Names
    BY NamesOfStack
  <2>2. project[NameOf(q, i)] = q \/ NameOf(q, i) \in deleted
    BY DEF TemplateInv, EarlierRows
  <2> QED BY <1>1, <1>3, <1>6, <2>1, <2>2
<1>9. OnlyOwnRows'
  BY <1>1, <1>2, <1>5 DEF TemplateInv, OnlyOwnRows
<1>10. UntaggedHasCause'
  BY <1>1, <1>2, <1>4, <1>5 DEF TemplateInv, UntaggedHasCause
<1> QED BY <1>7, <1>8, <1>9, <1>10 DEF TemplateInv

LEMMA TemplateInvStep == TemplateInv /\ [TemplateNext]_templateVars => TemplateInv'
<1> SUFFICES ASSUME TemplateInv, [TemplateNext]_templateVars PROVE TemplateInv'
  OBVIOUS
<1>1. CASE UNCHANGED templateVars
  <2>1. RequestsShape'
    BY <1>1 DEF templateVars, TemplateInv, RequestsShape, NameNow, NameOf, StackOf
  <2>3. EarlierRows'
    BY <1>1 DEF templateVars, TemplateInv, EarlierRows, NameOf, StackOf
  <2>5. \A r \in Requests, i \in Int : NameOf(r, i)' = NameOf(r, i)
    BY <1>1 DEF templateVars, NameOf, StackOf
  <2>6. UNCHANGED <<project, request>>
    BY <1>1 DEF templateVars
  <2>2. OnlyOwnRows'
    <3> SUFFICES ASSUME NEW r \in Requests, NEW n \in Names, project[n] = r
                 PROVE  /\ request[r].pc # "idle"
                        /\ \E i \in 1..request[r].next : NameOf(r, i)' = n
                        /\ request[r].pc = "create" =>
                             \E i \in 1..(request[r].next - 1) : NameOf(r, i)' = n
      BY <2>6 DEF OnlyOwnRows
    <3>1. /\ request[r].pc # "idle"
          /\ \E i \in 1..request[r].next : NameOf(r, i) = n
          /\ request[r].pc = "create" =>
               \E i \in 1..(request[r].next - 1) : NameOf(r, i) = n
      BY DEF TemplateInv, OnlyOwnRows
    <3> QED BY <2>5, <3>1
  <2>4. UntaggedHasCause'
    BY <1>1 DEF templateVars, TemplateInv, UntaggedHasCause, NameOf, NameNow, StackOf
  <2> QED BY <2>1, <2>2, <2>3, <2>4 DEF TemplateInv
<1>2. ASSUME NEW r \in Requests, InsertAudit(r) \/ RequestFails(r) PROVE TemplateInv'
  BY <1>2, AnswerKeeps DEF InsertAudit, RequestFails
<1> QED BY <1>1, <1>2, ClickKeeps, CreateKeeps, UpdateKeeps, ByHandKeeps
        DEF TemplateNext, TemplateStep

LEMMA TemplateInvImplies == TemplateInv => TemplateTypeOK /\ PrimaryHasItsStack
<1> SUFFICES ASSUME TemplateInv PROVE TemplateTypeOK /\ PrimaryHasItsStack
  OBVIOUS
<1>1. TemplateTypeOK
  BY DEF TemplateInv, RequestsShape, RequestState, TemplateTypeOK
<1>2. ASSUME NEW r \in Requests, request[r].pc # "idle", project[request[r].name] = r,
             NEW n \in Rows(r) \ deleted
      PROVE  project[n] = r
  <2> DEFINE len == Len(StackOf(r)) + 1
  <2>1. request[r].name \in Names
    BY <1>2, TemplateAssumption DEF TemplateInv, RequestsShape, TemplateAssumption
  <2>2. Len(StackOf(r)) \in Nat /\ request[r].next \in 1..len
    BY <1>2, NameAtNext
  <2>3. PICK i \in 1..request[r].next : NameOf(r, i) = request[r].name
    BY <1>2, <2>1 DEF TemplateInv, OnlyOwnRows
  <2>4. i = len /\ request[r].next = len
    BY <1>2, <2>2, <2>3, NamesOfStack
  <2>5. request[r].pc # "create"
    <3> SUFFICES ASSUME request[r].pc = "create" PROVE FALSE
      OBVIOUS
    <3>1. PICK j \in 1..(request[r].next - 1) : NameOf(r, j) = request[r].name
      BY <1>2, <2>1 DEF TemplateInv, OnlyOwnRows
    <3> QED BY <1>2, <2>2, <2>4, <3>1, NamesOfStack
  <2>6. PICK k \in 1..len : NameOf(r, k) = n
    BY <1>2 DEF Rows
  <2>7. CASE k = len
    BY <1>2, <2>2, <2>6, <2>7, NamesOfStack
  <2>8. CASE k # len
    <3>1. k < request[r].next
      BY <2>2, <2>4, <2>8
    <3> QED BY <1>2, <2>6, <3>1 DEF TemplateInv, EarlierRows
  <2> QED BY <2>7, <2>8
<1> QED BY <1>1, <1>2 DEF PrimaryHasItsStack

\* The primary of a stack is there only with the sidecars its environment
\* names, for any number of requests for overlapping names, whichever of their
\* queries fail: deployFromTemplate makes the sidecars first, and the unique
\* name makes it stop at a row that is somebody else's.
THEOREM StacksAreComplete == TemplateSpec => []PrimaryHasItsStack
  BY TemplateInvInit, TemplateInvStep, TemplateInvImplies, PTL DEF TemplateSpec

\* A row of a template without an image tag is the one its request is at, or
\* broke off at: between the INSERT of create and the UPDATE behind it.
THEOREM UntaggedIsUnderWay == TemplateSpec => [](TemplateTypeOK /\ UntaggedHasCause)
<1>1. TemplateInv => TemplateTypeOK /\ UntaggedHasCause
  BY TemplateInvImplies DEF TemplateInv
<1> QED BY <1>1, TemplateInvInit, TemplateInvStep, PTL DEF TemplateSpec

\* What the uses of a least element need: a set of numbers that is not empty
\* has one.
LEMMA NoneIsLess ==
  ASSUME NEW S \in SUBSET Nat, S # {}
  PROVE  \E x \in S : \A y \in S : ~(y < x)
<1> DEFINE Less == OpToRel(<, Nat)
<1>1. IsWellFoundedOn(Less, Nat)
  BY NatLessThanWellFounded
<1>2. \A x, y \in Nat : <<y, x>> \in Less <=> y < x
  BY DEF OpToRel
<1> HIDE DEF Less
<1>3. PICK x \in S : \A y \in S : ~(<<y, x>> \in Less)
  BY <1>1, WFMin
<1> QED BY <1>2, <1>3

LEMMA LeastExists ==
  ASSUME NEW S \in SUBSET Nat, S # {}
  PROVE  \E x \in S : \A y \in S : x <= y
  BY NoneIsLess

(***************************************************************************)
(* RegistryCleanup. A tag is only ever put on the list with at least       *)
(* KeepTags tags behind it, of which latest is one; it may be deleted much *)
(* later, but what was pushed stays pushed. A collection keeps the blobs of *)
(* every image that was there with its tag when it marked.                 *)
(***************************************************************************)
PushedAfter(t) == Newer(t, Pushed)
Outnumbered(t) == Cardinality(PushedAfter(t)) >= KeepTags - 1

\* An older image is the same manifest.
SharedManifest(t) == \E u \in Images : u < t /\ made[u] = made[t]

TagsNameTheirImage ==
  \A t \in Images : digest[t] # NoDigest => digest[t] = made[t]

GoneHasCause ==
  \A t \in Images : made[t] # NoDigest /\ digest[t] = NoDigest =>
    Outnumbered(t) \/ SharedManifest(t)

SweepIsOld ==
  /\ \A t \in sweep.todo : t \in Images /\ Outnumbered(t)
  /\ sweep.at # NoDigest => /\ sweep.todo # {}
                            /\ sweep.at = made[Min(sweep.todo)]

BlobsThere ==
  \A t \in Images : digest[t] # NoDigest => digest[t] \in blobs \/ t \in late

\* Pods send images that are not pushed yet.
SentOnce == \A t \in Images : sent[t] # NoDigest => made[t] = NoDigest

SeenWasPushed == gc.on => \A t \in gc.seen : made[t] # NoDigest

MarkedKept ==
  gc.on => \A t \in gc.seen : digest[t] # NoDigest => digest[t] \in gc.marked

RegistryInv ==
  /\ RegistryTypeOK
  /\ sweep = [todo |-> sweep.todo, at |-> sweep.at]
  /\ TagsNameTheirImage /\ GoneHasCause /\ SweepIsOld 
  /\ SentOnce /\ BlobsThere /\ MarkedKept /\ SeenWasPushed
  /\ current # 0 => made[current] # NoDigest

LEMMA TagNumbers ==
  /\ Images \subseteq Tags /\ Latest \in Tags \ Images /\ Tags \subseteq Nat
  /\ IsFiniteSet(Images) /\ \A S \in SUBSET Tags : IsFiniteSet(S)
<1>1. MaxTags \in Nat
  BY CleanupAssumption DEF CleanupAssumption
<1>2. IsFiniteSet(1..MaxTags) /\ IsFiniteSet(1..(MaxTags + 1))
  BY <1>1, FS_Interval
<1>3. Tags = 1..(MaxTags + 1)
  BY <1>1 DEF Tags, Images, Latest
<1>4. \A S \in SUBSET Tags : IsFiniteSet(S)
  BY <1>2, <1>3, FS_Subset
<1> QED BY <1>1, <1>2, <1>3, <1>4 DEF Images, Latest

\* The image a sweep is at is one of its list.
LEMMA MinOfTodo ==
  ASSUME NEW S \in SUBSET Tags, S # {} PROVE Min(S) \in S
  BY LeastExists, TagNumbers DEF Min

\* What was pushed stays pushed, so a tag that is outnumbered remains so.
LEMMA OutnumberedStays ==
  ASSUME NEW t \in Images, Outnumbered(t),
         \A u \in Images : made[u] # NoDigest => made'[u] # NoDigest
  PROVE  Outnumbered(t)'
<1>1. PushedAfter(t) \subseteq PushedAfter(t)' /\ PushedAfter(t)' \subseteq Images
  BY DEF PushedAfter, Pushed, Newer
<1>2. IsFiniteSet(PushedAfter(t)')
  BY <1>1, TagNumbers, FS_Subset
<1>3. /\ Cardinality(PushedAfter(t)) <= Cardinality(PushedAfter(t)')
      /\ Cardinality(PushedAfter(t)) \in Nat /\ Cardinality(PushedAfter(t)') \in Nat
  BY <1>1, <1>2, FS_Subset, FS_CardinalityType
<1> QED BY <1>3, CleanupAssumption DEF Outnumbered, CleanupAssumption

\* An image is outnumbered if a newer one is.
LEMMA OlderIsOutnumbered ==
  ASSUME NEW t \in Images, NEW u \in Images, t < u, Outnumbered(u)
  PROVE  Outnumbered(t)
<1>1. PushedAfter(u) \subseteq PushedAfter(t) /\ PushedAfter(t) \subseteq Images
  BY DEF PushedAfter, Pushed, Newer, Images
<1>2. IsFiniteSet(PushedAfter(t))
  BY <1>1, TagNumbers, FS_Subset
<1>3. /\ Cardinality(PushedAfter(u)) <= Cardinality(PushedAfter(t))
      /\ Cardinality(PushedAfter(u)) \in Nat /\ Cardinality(PushedAfter(t)) \in Nat
  BY <1>1, <1>2, FS_Subset, FS_CardinalityType
<1> QED BY <1>3, CleanupAssumption DEF Outnumbered, CleanupAssumption

\* The slice of the list leaves KeepTags tags, and latest is one of them.
LEMMA SliceIsOld ==
  ASSUME RegistryInv, NEW t \in ToDelete PROVE t \in Images /\ Outnumbered(t)
<1>1. t \in Tags /\ Cardinality(Newer(t, Listed)) >= KeepTags
  BY DEF ToDelete, Listed
<1>2. KeepTags \in Nat \ {0} /\ MaxTags \in Nat
  BY CleanupAssumption DEF CleanupAssumption
<1>3. t \in Images
  <2> SUFFICES ASSUME t = Latest PROVE FALSE
    BY <1>1 DEF Tags
  <2>1. Newer(t, Listed) = {}
    BY <1>2 DEF Newer, Listed, Tags, Images, Latest
  <2> QED BY <1>1, <1>2, <2>1, FS_EmptySet
<1>4. Newer(t, Listed) \subseteq PushedAfter(t) \cup {Latest}
  BY DEF Newer, Listed, Tags, PushedAfter, Pushed, RegistryInv, TagsNameTheirImage
<1>5. IsFiniteSet(PushedAfter(t))
  BY TagNumbers, FS_Subset DEF PushedAfter, Pushed, Newer
<1>6. /\ IsFiniteSet(PushedAfter(t) \cup {Latest})
      /\ Cardinality(PushedAfter(t) \cup {Latest}) <= Cardinality(PushedAfter(t)) + 1
      /\ Cardinality(PushedAfter(t)) \in Nat
      /\ Cardinality(PushedAfter(t) \cup {Latest}) \in Nat
  BY <1>5, FS_AddElement, FS_CardinalityType
<1>7. /\ Cardinality(Newer(t, Listed)) <= Cardinality(PushedAfter(t) \cup {Latest})
      /\ Cardinality(Newer(t, Listed)) \in Nat
  BY <1>4, <1>6, FS_Subset, FS_CardinalityType
<1> QED BY <1>1, <1>2, <1>3, <1>6, <1>7 DEF Outnumbered

LEMMA RegistryInvInit == RegistryInit => RegistryInv
<1> SUFFICES ASSUME RegistryInit PROVE RegistryInv
  OBVIOUS
<1>1. /\ digest = [t \in Tags |-> NoDigest] /\ made = [t \in Images |-> NoDigest]
      /\ current = 0 /\ sweep = [todo |-> {}, at |-> NoDigest] /\ sent = made
      /\ blobs = {} /\ late = {} /\ gc = [on |-> FALSE, marked |-> {}, seen |-> {}]
  BY DEF RegistryInit, NoSweep, NoGc
<1>2. RegistryTypeOK
  BY <1>1, CleanupAssumption DEF RegistryTypeOK, CleanupAssumption
<1> QED BY <1>1, <1>2, TagNumbers
        DEF RegistryInv, TagsNameTheirImage, GoneHasCause, SweepIsOld, SentOnce, BlobsThere,
            MarkedKept, SeenWasPushed

LEMMA PushKeeps ==
  ASSUME RegistryInv, NEW t \in Images, Push(t) PROVE RegistryInv'
<1> DEFINE d == sent[t]
<1>1. /\ made' = [made EXCEPT ![t] = d]
      /\ digest' = [digest EXCEPT ![t] = d, ![Latest] = d]
      /\ sent' = [sent EXCEPT ![t] = NoDigest]
  BY DEF Push
<1>2. made[t] = NoDigest /\ d \in blobs /\ UNCHANGED <<blobs, current, sweep, gc, late>>
  <2>1. d \in blobs /\ UNCHANGED <<blobs, current, sweep, gc, late>>
    BY DEF Push
  <2>2. d # NoDigest
    BY <2>1, CleanupAssumption DEF RegistryInv, RegistryTypeOK, Digests, CleanupAssumption
  <2> QED BY <2>1, <2>2 DEF RegistryInv, SentOnce
<1>3. d \in Digests /\ d # NoDigest
  BY <1>2, CleanupAssumption DEF RegistryInv, RegistryTypeOK, Digests, CleanupAssumption
<1> HIDE DEF d
<1>4. /\ made'[t] = d /\ \A u \in Images \ {t} : made'[u] = made[u]
      /\ digest'[t] = d /\ \A u \in Images \ {t} : digest'[u] = digest[u]
      /\ made' \in [Images -> Digests \cup {NoDigest}]
      /\ digest' \in [Tags -> Digests \cup {NoDigest}]
  BY <1>1, <1>3, TagNumbers DEF RegistryInv, RegistryTypeOK
<1>5. \A u \in Images : /\ made[u] # NoDigest => u # t /\ made'[u] = made[u]
                        /\ made[u] # NoDigest => made'[u] # NoDigest
  BY <1>2, <1>4
<1>6. \A u \in Images : Outnumbered(u) => Outnumbered(u)'
  BY <1>5, OutnumberedStays
<1>7. \A u \in Images : made[u] # NoDigest /\ SharedManifest(u) => SharedManifest(u)'
  BY <1>5 DEF SharedManifest
<1>8. RegistryTypeOK'
  <2>1. sent' \in [Images -> Digests \cup {NoDigest}]
    BY <1>1 DEF RegistryInv, RegistryTypeOK
  <2> QED BY <1>2, <1>4, <2>1 DEF RegistryInv, RegistryTypeOK
<1>9. TagsNameTheirImage'
  BY <1>4 DEF RegistryInv, TagsNameTheirImage
<1>10. GoneHasCause'
  <2> SUFFICES ASSUME NEW u \in Images, made'[u] # NoDigest, digest'[u] = NoDigest
               PROVE  Outnumbered(u)' \/ SharedManifest(u)'
    BY DEF GoneHasCause
  <2>1. u # t
    BY <1>3, <1>4
  <2>2. made[u] # NoDigest /\ digest[u] = NoDigest
    BY <1>4, <2>1
  <2> QED BY <1>6, <1>7, <2>2 DEF RegistryInv, GoneHasCause
<1>11. SweepIsOld'
  <2>1. \A u \in sweep.todo : u \in Images /\ Outnumbered(u)'
    BY <1>6 DEF RegistryInv, SweepIsOld
  <2>2. ASSUME sweep.at # NoDigest PROVE /\ sweep.todo # {}
                                         /\ sweep.at = made'[Min(sweep.todo)]
    <3>1. sweep.todo # {} /\ sweep.at = made[Min(sweep.todo)]
      BY <2>2 DEF RegistryInv, SweepIsOld
    <3>2. Min(sweep.todo) \in Images
      BY <3>1, MinOfTodo DEF RegistryInv, RegistryTypeOK, SweepIsOld
    <3> QED BY <1>5, <2>2, <3>1, <3>2
  <2> QED BY <1>2, <2>1, <2>2 DEF SweepIsOld
<1>12. current' # 0 => made'[current'] # NoDigest
  BY <1>2, <1>5, CleanupAssumption
  DEF RegistryInv, RegistryTypeOK, Images, CleanupAssumption
<1>13. SentOnce'
  BY <1>1, <1>2, <1>4 DEF RegistryInv, RegistryTypeOK, SentOnce
<1>14. BlobsThere'
  BY <1>2, <1>4 DEF RegistryInv, BlobsThere
<1>15. MarkedKept'
  <2>1. gc.on => t \notin gc.seen
    BY <1>2 DEF RegistryInv, SeenWasPushed
  <2>2. gc.seen \subseteq Images
    BY DEF RegistryInv, RegistryTypeOK
  <2> QED BY <1>2, <1>4, <2>1, <2>2 DEF RegistryInv, MarkedKept
<1>16. SeenWasPushed'
  BY <1>2, <1>5 DEF RegistryInv, RegistryTypeOK, SeenWasPushed
<1> QED BY <1>2, <1>8, <1>9, <1>10, <1>11, <1>12, <1>13, <1>14, <1>15, <1>16 DEF RegistryInv

\* Uploads, pods that die, and the collection leave tags and the sweep alone.
LEMMA StorageKeeps ==
  ASSUME RegistryInv,
         \/ \E t \in Images : UploadBlobs(t) \/ PushFails(t)
         \/ MarkManifests \/ SweepBlobs
  PROVE  RegistryInv'
<1>1. UNCHANGED <<digest, made, current, sweep>>
  BY DEF UploadBlobs, PushFails, MarkManifests, SweepBlobs
<1>2. TagsNameTheirImage' /\ GoneHasCause' /\ SweepIsOld' /\ \A t : Outnumbered(t)' = Outnumbered(t)
  BY <1>1 DEF RegistryInv, TagsNameTheirImage, GoneHasCause, SweepIsOld, Outnumbered,
              PushedAfter, SharedManifest, Pushed, Newer
<1>3. ASSUME RegistryTypeOK', SentOnce', BlobsThere', MarkedKept', SeenWasPushed'
      PROVE  RegistryInv'
  BY <1>1, <1>2, <1>3 DEF RegistryInv
<1>4. ASSUME NEW t \in Images, UploadBlobs(t) PROVE RegistryInv'
  <2>1. PICK d \in {t} \cup {made[u] : u \in Pushed} :
          sent' = [sent EXCEPT ![t] = d] /\ blobs' = blobs \cup {d}
    BY <1>4 DEF UploadBlobs
  <2>2. made[t] = NoDigest /\ UNCHANGED <<gc, late>>
    BY <1>4 DEF UploadBlobs
  <2>3. d \in Digests
    BY <2>1 DEF RegistryInv, RegistryTypeOK, Pushed, Digests, Images
  <2>4. sent' \in [Images -> Digests \cup {NoDigest}] /\ blobs' \subseteq Digests
    BY <2>1, <2>3 DEF RegistryInv, RegistryTypeOK
  <2>5. RegistryTypeOK'
    BY <1>1, <2>2, <2>4 DEF RegistryInv, RegistryTypeOK
  <2>6. SentOnce'
    BY <1>1, <2>1, <2>2 DEF RegistryInv, RegistryTypeOK, SentOnce
  <2>7. BlobsThere' /\ MarkedKept' /\ SeenWasPushed'
    BY <1>1, <2>1, <2>2 DEF RegistryInv, BlobsThere, MarkedKept, SeenWasPushed
  <2> QED BY <1>3, <2>5, <2>6, <2>7
<1>5. ASSUME NEW t \in Images, PushFails(t) PROVE RegistryInv'
  <2>1. sent' = [sent EXCEPT ![t] = NoDigest] /\ UNCHANGED <<blobs, gc, late>>
    BY <1>5 DEF PushFails
  <2>2. RegistryTypeOK' /\ SentOnce'
    BY <1>1, <2>1 DEF RegistryInv, RegistryTypeOK, SentOnce
  <2>3. BlobsThere' /\ MarkedKept' /\ SeenWasPushed'
    BY <1>1, <2>1 DEF RegistryInv, BlobsThere, MarkedKept, SeenWasPushed
  <2> QED BY <1>3, <2>2, <2>3
<1>6. ASSUME MarkManifests PROVE RegistryInv'
  <2>1. /\ gc' = [on |-> TRUE, marked |-> {digest[t] : t \in Listed}, seen |-> Pushed]
        /\ UNCHANGED <<sent, blobs, late>>
    BY <1>6 DEF MarkManifests
  <2>2. {digest[t] : t \in Listed} \subseteq Digests /\ Pushed \subseteq Images
    BY DEF RegistryInv, RegistryTypeOK, Listed, Pushed
  <2>3. RegistryTypeOK' /\ SentOnce' /\ BlobsThere'
    BY <1>1, <2>1, <2>2 DEF RegistryInv, RegistryTypeOK, SentOnce, BlobsThere
  <2>4. MarkedKept'
    <3>1. \A t \in Pushed : digest[t] # NoDigest => t \in Listed
      BY TagNumbers DEF Pushed, Listed
    <3> QED BY <1>1, <2>1, <3>1 DEF MarkedKept
  <2>5. SeenWasPushed'
    BY <1>1, <2>1 DEF SeenWasPushed, Pushed
  <2> QED BY <1>3, <2>3, <2>4, <2>5
<1>7. ASSUME SweepBlobs PROVE RegistryInv'
  <2>1. PICK S \in SUBSET (blobs \ gc.marked) : blobs' = blobs \ S
    BY <1>7 DEF SweepBlobs
  <2>2. /\ gc.on /\ late' = late \cup (Pushed \ gc.seen) /\ UNCHANGED sent
        /\ gc' = [on |-> FALSE, marked |-> {}, seen |-> {}]
    BY <1>7 DEF SweepBlobs, NoGc
  <2>3. RegistryTypeOK' /\ SentOnce'
    BY <1>1, <2>1, <2>2 DEF RegistryInv, RegistryTypeOK, SentOnce, Pushed
  <2>4. MarkedKept' /\ SeenWasPushed'
    BY <2>2 DEF MarkedKept, SeenWasPushed
  <2>5. BlobsThere'
    <3> SUFFICES ASSUME NEW t \in Images, digest[t] # NoDigest
                 PROVE  digest[t] \in blobs' \/ t \in late'
      BY <1>1 DEF BlobsThere
    <3>1. t \in Pushed
      BY DEF Pushed, RegistryInv, TagsNameTheirImage
    <3>2. digest[t] \in blobs \/ t \in late
      BY DEF RegistryInv, BlobsThere
    <3>3. t \in gc.seen => digest[t] \in gc.marked
      BY <2>2 DEF RegistryInv, MarkedKept
    <3> QED BY <2>1, <2>2, <3>1, <3>2, <3>3
  <2> QED BY <1>3, <2>3, <2>4, <2>5
<1> QED BY <1>4, <1>5, <1>6, <1>7

\* The steps of a sweep that delete nothing, and the builds that are adopted.
LEMMA SweepKeeps ==
  ASSUME RegistryInv,
         ListTags \/ ResolveDigest \/ SkipTag \/ \E t \in Images : Adopt(t)
  PROVE  RegistryInv'
<1>1. UNCHANGED <<digest, made, sent, blobs, gc, late>>
  BY DEF ListTags, ResolveDigest, SkipTag, Adopt
<1>0. SentOnce' /\ BlobsThere' /\ MarkedKept' /\ SeenWasPushed'
  BY <1>1 DEF RegistryInv, SentOnce, BlobsThere, MarkedKept, SeenWasPushed
<1>2. TagsNameTheirImage' /\ GoneHasCause' /\ \A t : Outnumbered(t)' = Outnumbered(t)
  BY <1>1 DEF RegistryInv, TagsNameTheirImage, GoneHasCause, Outnumbered, PushedAfter,
              SharedManifest, Pushed, Newer
<1>3. ASSUME NEW t \in Images, Adopt(t) PROVE RegistryInv'
  <2>1. current' = t /\ UNCHANGED sweep /\ made[t] # NoDigest
    BY <1>3 DEF Adopt, Pushed
  <2>2. RegistryTypeOK' /\ SweepIsOld'
    BY <1>1, <1>2, <2>1, CleanupAssumption
    DEF RegistryInv, RegistryTypeOK, SweepIsOld, Images, CleanupAssumption
  <2> QED BY <1>0, <1>1, <1>2, <2>1, <2>2 DEF RegistryInv
<1>4. ASSUME ListTags PROVE RegistryInv'
  <2>1. sweep' = [todo |-> ToDelete, at |-> NoDigest] /\ UNCHANGED current
    BY <1>4 DEF ListTags, NoSweep
  <2>2. ToDelete \subseteq Tags
    BY DEF ToDelete, Listed
  <2>3. SweepIsOld'
    BY <1>2, <2>1, SliceIsOld DEF SweepIsOld
  <2> QED BY <1>0, <1>1, <1>2, <2>1, <2>2, <2>3 DEF RegistryInv, RegistryTypeOK
<1>5. ASSUME NEW S \in SUBSET sweep.todo, sweep' = [todo |-> S, at |-> NoDigest],
             UNCHANGED current
      PROVE  RegistryInv'
  <2>1. SweepIsOld'
    BY <1>2, <1>5 DEF RegistryInv, SweepIsOld
  <2> QED BY <1>0, <1>1, <1>2, <1>5, <2>1 DEF RegistryInv, RegistryTypeOK
<1>6. ASSUME SkipTag PROVE RegistryInv'
  <2>1. sweep' = [todo |-> sweep.todo \ {Min(sweep.todo)}, at |-> NoDigest] /\ UNCHANGED current
    BY <1>6 DEF SkipTag, NoSweep
  <2> QED BY <1>5, <2>1
<1>7. ASSUME ResolveDigest PROVE RegistryInv'
  <2> DEFINE t == Min(sweep.todo)
  <2>1. sweep.todo # {} /\ sweep.at = NoDigest /\ UNCHANGED current
    BY <1>7 DEF ResolveDigest
  <2>2. t \in sweep.todo /\ t \in Images
    BY <2>1, MinOfTodo DEF RegistryInv, RegistryTypeOK, SweepIsOld
  <2>3. CASE digest[t] = NoDigest
    <3>1. sweep' = [todo |-> sweep.todo \ {t}, at |-> NoDigest]
      BY <1>7, <2>1, <2>3 DEF ResolveDigest, RegistryInv
    <3> QED BY <1>5, <2>1, <3>1
  <2>4. CASE digest[t] # NoDigest
    <3>1. sweep' = [todo |-> sweep.todo, at |-> digest[t]]
      BY <1>7, <2>1, <2>4 DEF ResolveDigest, RegistryInv
    <3>2. digest[t] = made[t] /\ digest[t] \in Digests
      BY <2>2, <2>4, TagNumbers DEF RegistryInv, RegistryTypeOK, TagsNameTheirImage
    <3>3. SweepIsOld'
      BY <1>1, <1>2, <2>1, <3>1, <3>2 DEF RegistryInv, SweepIsOld
    <3> QED BY <1>0, <1>1, <1>2, <2>1, <3>1, <3>2, <3>3 DEF RegistryInv, RegistryTypeOK
  <2> QED BY <2>3, <2>4
<1> QED BY <1>3, <1>4, <1>6, <1>7

\* A manifest that goes takes with it the image the sweep is at, newer ones
\* that share it with that one, and older ones, which are outnumbered too.
LEMMA DeleteKeeps ==
  ASSUME RegistryInv, DeleteManifest PROVE RegistryInv'
<1> DEFINE m == Min(sweep.todo)
<1>1. /\ sweep.at # NoDigest /\ UNCHANGED <<made, sent, blobs, current, gc, late>>
      /\ digest' = [t \in Tags |-> IF digest[t] = sweep.at THEN NoDigest ELSE digest[t]]
      /\ sweep' = [todo |-> sweep.todo \ {m}, at |-> NoDigest]
  BY DEF DeleteManifest, NoSweep
<1>2. m \in sweep.todo /\ m \in Images /\ sweep.at = made[m] /\ Outnumbered(m)
  BY <1>1, MinOfTodo DEF RegistryInv, RegistryTypeOK, SweepIsOld
<1>3. \A t : Outnumbered(t)' = Outnumbered(t) /\ SharedManifest(t)' = SharedManifest(t)
  BY <1>1 DEF Outnumbered, PushedAfter, SharedManifest, Pushed, Newer
<1>4. RegistryTypeOK'
  BY <1>1 DEF RegistryInv, RegistryTypeOK
<1>5. TagsNameTheirImage'
  BY <1>1, TagNumbers DEF RegistryInv, TagsNameTheirImage
<1>6. GoneHasCause'
  <2> SUFFICES ASSUME NEW t \in Images, made[t] # NoDigest, digest'[t] = NoDigest
               PROVE  Outnumbered(t) \/ SharedManifest(t)
    BY <1>1, <1>3 DEF GoneHasCause
  <2>1. CASE digest[t] = NoDigest
    BY <2>1 DEF RegistryInv, GoneHasCause
  <2>2. CASE digest[t] # NoDigest
    <3>1. made[t] = made[m]
      BY <1>1, <1>2, <2>2, TagNumbers DEF RegistryInv, TagsNameTheirImage
    <3>2. CASE m < t
      BY <1>2, <3>1, <3>2 DEF SharedManifest
    <3>3. CASE t < m
      BY <1>2, <3>3, OlderIsOutnumbered
    <3>4. CASE t = m
      BY <1>2, <3>4
    <3>5. t \in Nat /\ m \in Nat
      BY <1>2, TagNumbers
    <3> QED BY <3>2, <3>3, <3>4, <3>5
  <2> QED BY <2>1, <2>2
<1>7. SweepIsOld'
  BY <1>1, <1>3 DEF RegistryInv, SweepIsOld
<1>8. \A t \in Images : digest'[t] # NoDigest => digest'[t] = digest[t]
  BY <1>1, TagNumbers
<1>9. SentOnce' /\ SeenWasPushed' /\ BlobsThere'
  BY <1>1, <1>8 DEF RegistryInv, SentOnce, SeenWasPushed, BlobsThere
<1>10. MarkedKept'
  <2>1. gc.seen \subseteq Images
    BY DEF RegistryInv, RegistryTypeOK
  <2> QED BY <1>1, <1>8, <2>1 DEF RegistryInv, MarkedKept
<1> QED BY <1>1, <1>4, <1>5, <1>6, <1>7, <1>9, <1>10 DEF RegistryInv

LEMMA RegistryInvStep == RegistryInv /\ [RegistryNext]_registryVars => RegistryInv'
<1> SUFFICES ASSUME RegistryInv, [RegistryNext]_registryVars PROVE RegistryInv'
  OBVIOUS
<1>1. CASE UNCHANGED registryVars
  BY <1>1 DEF registryVars, RegistryInv, RegistryTypeOK, TagsNameTheirImage, GoneHasCause,
              SweepIsOld, Outnumbered, PushedAfter, SharedManifest, Pushed, Newer,
              SentOnce, BlobsThere, MarkedKept, SeenWasPushed
<1> QED BY <1>1, PushKeeps, StorageKeeps, SweepKeeps, DeleteKeeps DEF RegistryNext

\* The image a project runs can be pulled from the registry, for every number of
\* images and every REGISTRY_KEEP_TAGS, however pushes fall between the calls of a
\* cleanup and the phases of its garbage collection: only KeepTags - 1 newer
\* pushes, an older tag of the same manifest, or a push that overlapped with a
\* collection take it away.
THEOREM RunningImageStays == RegistrySpec => [](RegistryTypeOK /\ CurrentImageKept)
<1>1. ASSUME RegistryInv, current # 0, digest[current] \notin blobs
      PROVE  Outnumbered(current) \/ SharedManifest(current) \/ current \in late
  <2>1. current \in Images /\ made[current] # NoDigest
    BY <1>1, CleanupAssumption DEF RegistryInv, RegistryTypeOK, Images, CleanupAssumption
  <2> QED BY <1>1, <2>1 DEF RegistryInv, GoneHasCause, BlobsThere
<1>2. RegistryInv => RegistryTypeOK /\ CurrentImageKept
  BY <1>1 DEF RegistryInv, CurrentImageKept, Outnumbered, SharedManifest, PushedAfter
<1> QED BY <1>2, RegistryInvInit, RegistryInvStep, PTL DEF RegistrySpec

(***************************************************************************)
(* CaddyRoutes. What is appended leaves the indexes found before as they   *)
(* are.                                                                    *)
(***************************************************************************)
RoutesInv ==
  /\ RoutesTypeOK
  /\ \A c \in Waiting : remover[c].index >= 1
  /\ RemovesItsOwn

LEMMA RoutesInvInit == RoutesInit => RoutesInv
<1> SUFFICES ASSUME RoutesInit PROVE RoutesInv
  OBVIOUS
<1>1. NoRemoval \in [domain : Domains \cup {NoDomain}, index : 0..MaxRoutes]
  BY RoutesAssumption DEF NoRemoval, RoutesAssumption
<1>2. RoutesTypeOK
  BY <1>1, RoutesAssumption DEF RoutesInit, RoutesTypeOK, RoutesAssumption
<1>3. Waiting = {}
  BY DEF RoutesInit, Waiting
<1> QED BY <1>2, <1>3 DEF RoutesInv, RemovesItsOwn

LEMMA AddRouteKeeps ==
  ASSUME RoutesInv, NEW d \in Domains, AddRoute(d) PROVE RoutesInv'
<1>1. /\ routes' = Append(routes, d) /\ Len(routes) < MaxRoutes
      /\ UNCHANGED <<remover, shifted>>
  BY DEF AddRoute
<1>2. /\ routes' \in Seq(Domains) /\ Len(routes') = Len(routes) + 1 /\ Len(routes) \in Nat
      /\ \A i \in 1..Len(routes) : routes'[i] = routes[i]
  BY <1>1 DEF RoutesInv, RoutesTypeOK
<1>3. Waiting' = Waiting
  BY <1>1 DEF Waiting
<1>4. RoutesTypeOK'
  BY <1>1, <1>2, RoutesAssumption DEF RoutesInv, RoutesTypeOK, RoutesAssumption
<1>5. RemovesItsOwn'
  <2> SUFFICES ASSUME NEW c \in Waiting \ shifted
               PROVE  /\ remover[c].index <= Len(routes')
                      /\ routes'[remover[c].index] = remover[c].domain
    BY <1>1, <1>3 DEF RemovesItsOwn
  <2>1. remover[c].index \in 0..MaxRoutes /\ remover[c].index >= 1
    BY DEF RoutesInv, RoutesTypeOK, Waiting
  <2>2. remover[c].index <= Len(routes) /\ routes[remover[c].index] = remover[c].domain
    BY DEF RoutesInv, RemovesItsOwn
  <2> QED BY <1>2, <2>1, <2>2, RoutesAssumption DEF RoutesAssumption
<1> QED BY <1>1, <1>3, <1>4, <1>5 DEF RoutesInv

LEMMA FindRouteKeeps ==
  ASSUME RoutesInv, NEW c \in Callers, NEW d \in Domains, FindRoute(c, d)
  PROVE  RoutesInv'
<1> DEFINE FirstOf(i) == routes[i] = d /\ \A j \in 1..(i - 1) : routes[j] # d
           at == CHOOSE i \in 1..Len(routes) : FirstOf(i)
<1>1. /\ remover' = [remover EXCEPT ![c] = [domain |-> d, index |-> at]]
      /\ shifted' = shifted \ {c} /\ UNCHANGED routes /\ d \in ToSet(routes)
  BY DEF FindRoute
<1>2. routes \in Seq(Domains) /\ Len(routes) \in Nat /\ Len(routes) <= MaxRoutes
  BY DEF RoutesInv, RoutesTypeOK
<1>3. \E i \in 1..Len(routes) : FirstOf(i)
  <2> DEFINE S == {i \in 1..Len(routes) : routes[i] = d}
  <2>1. S # {} /\ S \in SUBSET Nat
    BY <1>1, <1>2 DEF ToSet
  <2>2. PICK i \in S : \A j \in S : i <= j
    BY <2>1, LeastExists
  <2>3. FirstOf(i)
    BY <1>2, <2>2
  <2> QED BY <2>2, <2>3
<1>4. at \in 1..Len(routes) /\ routes[at] = d
  BY <1>3
<1> HIDE DEF at, FirstOf
<1>5. [domain |-> d, index |-> at] \in [domain : Domains \cup {NoDomain}, index : 0..MaxRoutes]
  BY <1>2, <1>4, RoutesAssumption DEF RoutesAssumption
<1>6. RoutesTypeOK'
  BY <1>1, <1>5 DEF RoutesInv, RoutesTypeOK
<1>7. /\ remover'[c] = [domain |-> d, index |-> at]
      /\ \A e \in Callers \ {c} : remover'[e] = remover[e]
  BY <1>1 DEF RoutesInv, RoutesTypeOK
<1>8. Waiting' \subseteq Waiting \cup {c}
  BY <1>7 DEF Waiting
<1>9. \A e \in Waiting' : remover'[e].index >= 1
  <2> SUFFICES ASSUME NEW e \in Waiting' PROVE remover'[e].index >= 1
    OBVIOUS
  <2>1. CASE e = c
    BY <1>2, <1>4, <1>7, <2>1
  <2>2. CASE e # c
    <3>1. e \in Waiting /\ e \in Callers
      BY <1>8, <2>2 DEF Waiting
    <3> QED BY <1>7, <2>2, <3>1 DEF RoutesInv
  <2> QED BY <2>1, <2>2
<1>10. RemovesItsOwn'
  <2> SUFFICES ASSUME NEW e \in Waiting', e \notin shifted'
               PROVE  /\ remover'[e].index <= Len(routes)
                      /\ routes[remover'[e].index] = remover'[e].domain
    BY <1>1 DEF RemovesItsOwn
  <2>1. CASE e = c
    BY <1>2, <1>4, <1>7, <2>1
  <2>2. CASE e # c
    <3>1. e \in Waiting \ shifted /\ e \in Callers
      BY <1>1, <1>8, <2>2 DEF Waiting
    <3> QED BY <1>7, <2>2, <3>1 DEF RoutesInv, RemovesItsOwn
  <2> QED BY <2>1, <2>2
<1> QED BY <1>6, <1>9, <1>10 DEF RoutesInv

LEMMA DeleteIndexKeeps ==
  ASSUME RoutesInv, NEW c \in Callers, DeleteIndex(c) PROVE RoutesInv'
<1> DEFINE k == remover[c].index
<1>1. remover' = [remover EXCEPT ![c] = NoRemoval] /\ c \in Waiting
  BY DEF DeleteIndex, Waiting
<1>2. k \in 1..MaxRoutes /\ routes \in Seq(Domains) /\ Len(routes) \in Nat
  BY <1>1, RoutesAssumption DEF RoutesInv, RoutesTypeOK, RoutesAssumption
<1>3. NoRemoval \in [domain : Domains \cup {NoDomain}, index : 0..MaxRoutes]
  BY RoutesAssumption DEF NoRemoval, RoutesAssumption
<1>4. /\ Waiting' = Waiting \ {c}
      /\ \A e \in Waiting \ {c} : remover'[e] = remover[e]
      /\ remover' \in [Callers -> [domain : Domains \cup {NoDomain}, index : 0..MaxRoutes]]
  BY <1>1, <1>3 DEF Waiting, RoutesInv, RoutesTypeOK
<1>5. CASE k <= Len(routes)
  <2> DEFINE front == SubSeq(routes, 1, k - 1)
             back == SubSeq(routes, k + 1, Len(routes))
  <2>1. routes' = front \o back
    BY <1>5 DEF DeleteIndex, RemoveAt
  <2>2. shifted' = shifted \cup (Waiting \ {c})
    BY <1>5 DEF DeleteIndex
  <2>3. /\ front \in Seq(Domains) /\ Len(front) = k - 1
        /\ back \in Seq(Domains) /\ Len(back) = Len(routes) - k
    BY <1>2, <1>5
  <2> HIDE DEF front, back
  <2>4. routes' \in Seq(Domains) /\ Len(routes') = Len(routes) - 1
    <3>1. front \o back \in Seq(Domains) /\ Len(front \o back) = Len(front) + Len(back)
      BY <2>3, ConcatProperties
    <3> QED BY <1>2, <2>1, <2>3, <3>1
  <2>5. RoutesTypeOK'
    BY <1>2, <1>4, <2>2, <2>4, RoutesAssumption
    DEF RoutesInv, RoutesTypeOK, Waiting, RoutesAssumption
  <2>6. RemovesItsOwn'
    BY <1>4, <2>2 DEF RemovesItsOwn
  <2> QED BY <1>4, <2>5, <2>6 DEF RoutesInv
<1>6. CASE ~(k <= Len(routes))
  <2>1. UNCHANGED <<routes, shifted>>
    BY <1>6 DEF DeleteIndex
  <2> QED BY <1>4, <2>1 DEF RoutesInv, RoutesTypeOK, RemovesItsOwn
<1> QED BY <1>5, <1>6

LEMMA RoutesInvStep == RoutesInv /\ [RoutesNext]_routeVars => RoutesInv'
<1>1. RoutesInv /\ UNCHANGED routeVars => RoutesInv'
  BY DEF routeVars, RoutesInv, RoutesTypeOK, RemovesItsOwn, Waiting
<1> QED BY <1>1, AddRouteKeeps, FindRouteKeeps, DeleteIndexKeeps DEF RoutesNext

\* removeRoute takes away a route of its own domain, for any number of routes,
\* callers and domains, whatever is added between getConfig and the DELETE,
\* unless another removal comes in between.
THEOREM RemovalHitsItsOwn == RoutesSpec => [](RoutesTypeOK /\ RemovesItsOwn)
<1>1. RoutesInv => RoutesTypeOK /\ RemovesItsOwn
  BY DEF RoutesInv
<1> QED BY <1>1, RoutesInvInit, RoutesInvStep, PTL DEF RoutesSpec

(***************************************************************************)
(* AuditPartitions. A month's partition is made in the month before it, so *)
(* what is remembered of a run of the job is the partition it made.        *)
(***************************************************************************)
\* The month after one in which the job ran has its partition, or is older than
\* the cutoff.
NextMonthKept ==
  \A m \in ran \cup {1} :
    m + 1 \in partitions \/ (day > Keep /\ m + 1 < MonthOf(day - Keep))

AuditInv == PartitionsTypeOK /\ NextMonthKept

LEMMA MonthOfDay ==
  ASSUME NEW d \in 1..LastDay
  PROVE  /\ MonthOf(d) \in Months /\ Months = 1..Len(Ends) /\ Len(Ends) \in Nat
         /\ d <= Ends[MonthOf(d)]
         /\ \A k \in 1..(MonthOf(d) - 1) : Ends[k] < d
<1> DEFINE S == {m \in Months : d <= Ends[m]}
<1>1. /\ Months = 1..Len(Ends) /\ Len(Ends) \in Nat \ {0}
      /\ \A m \in Months : Ends[m] \in Nat
  BY PartitionAssumption DEF PartitionAssumption, Months
<1>2. Len(Ends) \in S /\ S \in SUBSET Nat
  BY <1>1 DEF LastDay
<1>3. PICK m \in S : \A k \in S : m <= k
  BY <1>2, LeastExists
<1>4. \A k \in 1..(m - 1) : Ends[k] < d
  BY <1>1, <1>3
<1>5. \E k \in Months : d <= Ends[k] /\ \A i \in 1..(k - 1) : Ends[i] < d
  BY <1>3, <1>4
<1> QED BY <1>1, <1>5 DEF MonthOf

\* A later day is in no earlier month.
LEMMA MonthsInOrder ==
  ASSUME NEW d \in 1..LastDay, NEW e \in 1..LastDay, d <= e
  PROVE  MonthOf(d) <= MonthOf(e)
<1>1. /\ MonthOf(d) \in 1..Len(Ends) /\ MonthOf(e) \in 1..Len(Ends) /\ Len(Ends) \in Nat
      /\ e <= Ends[MonthOf(e)]
      /\ \A k \in 1..(MonthOf(d) - 1) : Ends[k] < d
  BY MonthOfDay
<1>2. SUFFICES ASSUME MonthOf(e) < MonthOf(d) PROVE FALSE
  BY <1>1
<1>3. Ends[MonthOf(e)] < d
  BY <1>1, <1>2
<1>4. Ends[MonthOf(e)] \in Nat
  BY <1>1, PartitionAssumption DEF PartitionAssumption
<1> QED BY <1>1, <1>3, <1>4

LEMMA LastDayIsDay == LastDay \in Nat \ {0} /\ Ends[1] \in 1..LastDay
<1>1. /\ Len(Ends) \in Nat \ {0} /\ DOMAIN Ends = 1..Len(Ends)
      /\ \A m \in DOMAIN Ends : /\ Ends[m] \in Nat \ {0}
                                /\ \A k \in 1..(m - 1) : Ends[k] < Ends[m]
  BY PartitionAssumption DEF PartitionAssumption
<1>2. Ends[1] \in Nat \ {0} /\ LastDay \in Nat \ {0}
  BY <1>1 DEF LastDay
<1>3. CASE Len(Ends) = 1
  BY <1>2, <1>3 DEF LastDay
<1>4. CASE Len(Ends) # 1
  BY <1>1, <1>2, <1>4 DEF LastDay
<1> QED BY <1>3, <1>4

LEMMA AuditInvInit == PartitionsInit => AuditInv
<1>1. Len(Ends) \in Nat \ {0}
  BY PartitionAssumption DEF PartitionAssumption
<1> QED BY <1>1, LastDayIsDay DEF PartitionsInit, AuditInv, PartitionsTypeOK, NextMonthKept

LEMMA MaintainKeeps == ASSUME AuditInv, MaintainAuditLog PROVE AuditInv'
<1> DEFINE created == partitions \cup {MonthOf(day) + 1}
<1>1. /\ partitions' \in {created, Kept(created)}
      /\ ran' = ran \cup {MonthOf(day)} /\ UNCHANGED <<day, installed>>
  BY DEF MaintainAuditLog
<1>2. /\ MonthOf(day) \in Months /\ Months = 1..Len(Ends) /\ Len(Ends) \in Nat
      /\ day \in Nat /\ Keep \in Nat
  BY MonthOfDay, LastDayIsDay, PartitionAssumption
  DEF AuditInv, PartitionsTypeOK, PartitionAssumption
<1>3. created \subseteq 1..(Len(Ends) + 1) /\ Kept(created) \subseteq created
  <2>1. partitions \subseteq 1..(Len(Ends) + 1)
    BY DEF AuditInv, PartitionsTypeOK
  <2>2. MonthOf(day) + 1 \in 1..(Len(Ends) + 1)
    BY <1>2
  <2>3. \A S : Kept(S) \subseteq S
    BY DEF Kept
  <2> QED BY <2>1, <2>2, <2>3
<1>4. PartitionsTypeOK'
  BY <1>1, <1>2, <1>3 DEF AuditInv, PartitionsTypeOK
<1>5. NextMonthKept'
  <2> SUFFICES ASSUME NEW m \in ran \cup {1, MonthOf(day)}
               PROVE  m + 1 \in partitions' \/ (day > Keep /\ m + 1 < MonthOf(day - Keep))
    BY <1>1 DEF NextMonthKept
  <2>1. m \in Nat
    BY <1>2 DEF AuditInv, PartitionsTypeOK
  <2>2. m + 1 \in created \/ (day > Keep /\ m + 1 < MonthOf(day - Keep))
    BY DEF AuditInv, NextMonthKept
  <2>3. ASSUME m + 1 \in created, m + 1 \notin Kept(created)
        PROVE  day > Keep /\ m + 1 < MonthOf(day - Keep)
    <3>1. ~(day <= Keep) /\ ~(m + 1 >= MonthOf(day - Keep))
      BY <2>3 DEF Kept
    <3>2. day - Keep \in 1..LastDay
      BY <1>2, <3>1, LastDayIsDay DEF AuditInv, PartitionsTypeOK
    <3>3. MonthOf(day - Keep) \in Nat
      BY <3>2, MonthOfDay
    <3> QED BY <1>2, <2>1, <3>1, <3>3
  <2> QED BY <1>1, <2>2, <2>3
<1> QED BY <1>4, <1>5 DEF AuditInv

LEMMA NextDayKeeps == ASSUME AuditInv, NextDay PROVE AuditInv'
<1>1. day' = day + 1 /\ day < LastDay /\ UNCHANGED <<installed, partitions, ran>>
  BY DEF NextDay
<1>2. day \in Nat \ {0} /\ Keep \in Nat /\ LastDay \in Nat /\ Len(Ends) \in Nat
  BY LastDayIsDay, PartitionAssumption DEF AuditInv, PartitionsTypeOK, PartitionAssumption
<1>3. PartitionsTypeOK'
  BY <1>1, <1>2 DEF AuditInv, PartitionsTypeOK
<1>4. ASSUME day > Keep
      PROVE  day' > Keep /\ MonthOf(day - Keep) <= MonthOf(day' - Keep)
             /\ MonthOf(day - Keep) \in Nat /\ MonthOf(day' - Keep) \in Nat
  <2>1. day - Keep \in 1..LastDay /\ day' - Keep \in 1..LastDay /\ day - Keep <= day' - Keep
    BY <1>1, <1>2, <1>4
  <2> QED BY <1>1, <1>2, <1>4, <2>1, MonthOfDay, MonthsInOrder
<1>5. ASSUME NEW m \in ran \cup {1}
      PROVE  m + 1 \in partitions \/ (day' > Keep /\ m + 1 < MonthOf(day' - Keep))
  <2>1. m \in Nat
    BY <1>2 DEF AuditInv, PartitionsTypeOK, Months, PartitionAssumption
  <2> QED BY <1>4, <2>1 DEF AuditInv, NextMonthKept
<1> QED BY <1>1, <1>3, <1>5 DEF AuditInv, NextMonthKept

LEMMA AuditInvStep == AuditInv /\ [PartitionsNext]_auditVars => AuditInv'
<1>1. AuditInv /\ UNCHANGED auditVars => AuditInv'
  BY DEF auditVars, AuditInv, PartitionsTypeOK, NextMonthKept
<1> QED BY <1>1, MaintainKeeps, NextDayKeeps DEF PartitionsNext

LEMMA AuditInvImplies == AuditInv => RecentActionsKept
<1> SUFFICES ASSUME AuditInv, NEW d \in 1..day, d + Keep >= day, MonthOf(d) > 1,
                    MonthOf(d) - 1 \in ran \cup {1}
             PROVE  MonthOf(d) \in partitions
  BY DEF RecentActionsKept
<1>1. day \in 1..LastDay /\ LastDay \in Nat /\ Keep \in Nat
  BY LastDayIsDay, PartitionAssumption DEF AuditInv, PartitionsTypeOK, PartitionAssumption
<1>2. d \in 1..LastDay
  BY <1>1
<1>3. MonthOf(d) \in Nat
  BY <1>2, MonthOfDay
<1>4. MonthOf(d) - 1 + 1 = MonthOf(d)
  BY <1>3
<1>5. MonthOf(d) \in partitions \/ (day > Keep /\ MonthOf(d) < MonthOf(day - Keep))
  BY <1>4 DEF AuditInv, NextMonthKept
<1>6. ASSUME day > Keep, MonthOf(d) < MonthOf(day - Keep) PROVE FALSE
  <2>1. day - Keep \in 1..LastDay /\ day - Keep <= d
    BY <1>1, <1>6
  <2>2. MonthOf(day - Keep) <= MonthOf(d) /\ MonthOf(day - Keep) \in Nat
    BY <1>2, <2>1, MonthsInOrder, MonthOfDay
  <2> QED BY <1>3, <1>6, <2>2
<1> QED BY <1>5, <1>6

\* The partition that holds the actions of the last Keep days was made and is
\* not dropped, for every calendar and every retention: it is enough that the
\* job ran on one day of the month before.
THEOREM RecentActionsStay == PartitionsSpec => [](PartitionsTypeOK /\ RecentActionsKept)
<1>1. AuditInv => PartitionsTypeOK /\ RecentActionsKept
  BY AuditInvImplies DEF AuditInv
<1> QED BY <1>1, AuditInvInit, AuditInvStep, PTL DEF PartitionsSpec


-----------------------------------------------------------------------------
(* The parts together.                                                     *)

\* A behaviour of the composition is one of each part.
LEMMA PartsBehave ==
  FairSpec => /\ TemplateSpec /\ RegistrySpec /\ RoutesSpec
              /\ DnsSpec /\ UpdateSpec /\ PartitionsSpec
<1>1. Init => /\ TemplateInit /\ RegistryInit /\ RoutesInit
              /\ DnsInit /\ UpdateInit /\ PartitionsInit
  BY DEF Init
<1>2. [Next]_vars => [TemplateNext]_templateVars
  BY DEF Next, vars, DnsStep
<1>3. [Next]_vars => [RegistryNext]_registryVars
  BY DEF Next, vars, DnsStep
<1>4. [Next]_vars => [RoutesNext]_routeVars
  BY DEF Next, vars, DnsStep
<1>5. [Next]_vars => [DnsNext]_dnsVars
  BY DEF Next, vars, DnsStep
<1>6. [Next]_vars => [UpdateNext]_updateVars
  BY DEF Next, vars, DnsStep
<1>7. [Next]_vars => [PartitionsNext]_auditVars
  BY DEF Next, vars, DnsStep
<1> QED
  BY <1>1, <1>2, <1>3, <1>4, <1>5, <1>6, <1>7, PTL
     DEF FairSpec, TemplateSpec, RegistrySpec, RoutesSpec, DnsSpec, UpdateSpec,
         PartitionsSpec

\* Whichever part a behaviour is about, its tables, records, files and lists
\* stay well-typed.
THEOREM PlatformTypeCorrect == FairSpec => []TypeOK
<1>1. /\ TemplateTypeOK /\ RegistryTypeOK /\ RoutesTypeOK
      /\ DnsTypeOK /\ UpdateTypeOK /\ PartitionsTypeOK
      => TypeOK
  BY DEF TypeOK
<1> QED
  BY <1>1, PartsBehave, UntaggedIsUnderWay, RunningImageStays, RemovalHitsItsOwn,
     DnsTypeCorrect, UpdateTypeCorrect, RecentActionsStay, PTL
=============================================================================
