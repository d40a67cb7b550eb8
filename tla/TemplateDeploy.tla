--------------------------- MODULE TemplateDeploy ---------------------------
(***************************************************************************)
(* TemplatesService.deployFromTemplate, await by await, for requests that  *)
(* overlap: the dialog of Deploy.tsx leaves its button enabled while one   *)
(* is pending, and so do its retries. A stack is several rows of projects, *)
(* created one after the other without a transaction.                      *)
(***************************************************************************)
EXTENDS Naturals, Sequences, FiniteSets

CONSTANTS
  Names,      \* values of projects.name, and of namespace with it
  Typed,      \* the names typed into a dialog
  Templates,
  Stack,      \* stack_services of each template that STACK_COMPONENTS knows
  SvcName,    \* projectName followed by the suffix of a component
  Requests,
  Failures,   \* may a query be rejected and may the API die
  NoRequest

ASSUME TemplateAssumption ==
  /\ Typed \subseteq Names /\ Failures \in BOOLEAN
  /\ NoRequest \notin Requests /\ "custom" \notin Requests
  /\ \A t \in Templates :
       /\ Len(Stack[t]) \in Nat /\ DOMAIN Stack[t] = 1..Len(Stack[t])
       /\ \A n \in Typed, i \in DOMAIN Stack[t] : SvcName[n][Stack[t][i]] \in Names \ {n}

VARIABLES
  project,   \* per name: the request its row was inserted by, if there is one
  tagged,    \* names whose row has current_image_tag
  request,   \* where each request stands
  deleted    \* history: names an operator deleted

Custom == "custom"   \* rows inserted by POST /projects
Unasked == [pc |-> "idle", name |-> NoRequest, template |-> NoRequest, next |-> 1]

TemplateTypeOK ==
  /\ project \in [Names -> Requests \cup {NoRequest, Custom}]
  /\ tagged \subseteq {n \in Names : project[n] # NoRequest}
  /\ deleted \subseteq Names
  /\ \A r \in Requests :
       /\ request[r].pc \in {"idle", "create", "update", "audit", "answered"}
       /\ request[r].pc # "idle" => /\ request[r].name \in Typed
                                    /\ request[r].template \in Templates
                                    /\ request[r].next \in 1..Len(Stack[request[r].template]) + 1

TemplateInit ==
  /\ project = [n \in Names |-> NoRequest]
  /\ tagged = {} /\ deleted = {}
  /\ request = [r \in Requests |-> Unasked]

StackOf(r) == Stack[request[r].template]
IsPrimary(r) == request[r].next = Len(StackOf(r)) + 1

\* The i-th row of a stack: the sidecars in order, then the primary.
NameOf(r, i) == IF i > Len(StackOf(r)) THEN request[r].name
                ELSE SvcName[request[r].name][StackOf(r)[i]]
NameNow(r) == NameOf(r, request[r].next)

Answer(r) == request' = [request EXCEPT ![r].pc = "answered"]

\* A click on Deploy of the dialog, which only wants a name; findByName reads
\* a file.
Click(r, n, t) ==
  /\ request[r].pc = "idle"
  /\ request' = [request EXCEPT ![r] =
       [Unasked EXCEPT !.pc = "create", !.name = n, !.template = t]]
  /\ UNCHANGED <<project, tagged, deleted>>

\* Mutant: a row that is already there is taken for the sidecar.
BugCreateProject(r) ==
  /\ request[r].pc = "create"
  /\ project' = IF project[NameNow(r)] = NoRequest
                THEN [project EXCEPT ![NameNow(r)] = r] ELSE project
  /\ request' = [request EXCEPT ![r].pc = "update"]
  /\ UNCHANGED <<tagged, deleted>>

\* projectsService.create: name and namespace are unique.
CreateProject(r) ==
  /\ request[r].pc = "create"
  /\ \/ /\ project[NameNow(r)] = NoRequest
        /\ project' = [project EXCEPT ![NameNow(r)] = r]
        /\ request' = [request EXCEPT ![r].pc = "update"]
     \/ /\ project[NameNow(r)] # NoRequest
        /\ Answer(r)
        /\ UNCHANGED project
  /\ UNCHANGED <<tagged, deleted>>

\* Mutant: only the primary is given its tag.
BugUpdateProject(r) ==
  /\ request[r].pc = "update"
  /\ tagged' = IF project[NameNow(r)] = r /\ IsPrimary(r) THEN tagged \cup {NameNow(r)}
               ELSE tagged
  /\ request' = IF IsPrimary(r) THEN [request EXCEPT ![r].pc = "audit"]
                ELSE [request EXCEPT ![r].pc = "create", ![r].next = @ + 1]
  /\ UNCHANGED <<project, deleted>>

\* projectsService.update by id: no row is updated if it was deleted.
UpdateProject(r) ==
  /\ request[r].pc = "update"
  /\ tagged' = IF project[NameNow(r)] = r THEN tagged \cup {NameNow(r)} ELSE tagged
  /\ request' = IF IsPrimary(r) THEN [request EXCEPT ![r].pc = "audit"]
                ELSE [request EXCEPT ![r].pc = "create", ![r].next = @ + 1]
  /\ UNCHANGED <<project, deleted>>

\* The INSERT into audit_log names a column metadata that the table does not
\* have: it is always rejected, so the request is answered with an error and
\* the dialog neither closes nor refreshes the list.
InsertAudit(r) ==
  /\ request[r].pc = "audit"
  /\ Answer(r)
  /\ UNCHANGED <<project, tagged, deleted>>

RequestFails(r) ==
  /\ Failures
  /\ request[r].pc \in {"create", "update"}
  /\ Answer(r)
  /\ UNCHANGED <<project, tagged, deleted>>

\* POST /projects from the tab for custom projects: a row without an image.
CreateCustom(n) ==
  /\ project[n] = NoRequest
  /\ project' = [project EXCEPT ![n] = Custom]
  /\ UNCHANGED <<tagged, request, deleted>>

\* Mutant: the image tag outlives the row.
BugDeleteProject(n) ==
  /\ project[n] # NoRequest
  /\ project' = [project EXCEPT ![n] = NoRequest]
  /\ deleted' = deleted \cup {n}
  /\ UNCHANGED <<tagged, request>>

DeleteProject(n) ==
  /\ project[n] # NoRequest
  /\ project' = [project EXCEPT ![n] = NoRequest]
  /\ tagged' = tagged \ {n} /\ deleted' = deleted \cup {n}
  /\ UNCHANGED request

TemplateStep(r) == CreateProject(r) \/ UpdateProject(r) \/ InsertAudit(r)

TemplateNext ==
  \/ \E r \in Requests :
       \/ \E n \in Typed, t \in Templates : Click(r, n, t)
       \/ TemplateStep(r) \/ RequestFails(r)
  \/ \E n \in Names : CreateCustom(n) \/ DeleteProject(n)

templateVars == <<project, tagged, request, deleted>>

TemplateSpec == TemplateInit /\ [][TemplateNext]_templateVars

-----------------------------------------------------------------------------
(* Properties.                                                             *)

Rows(r) == {NameOf(r, i) : i \in 1..Len(StackOf(r)) + 1}

\* The primary is there only with the sidecars its environment names, however
\* requests overlap and fail: `Deploy stack sidecar services first`. A sidecar
\* is missing only if somebody deleted it.
PrimaryHasItsStack ==
  \A r \in Requests :
    request[r].pc # "idle" /\ project[request[r].name] = r =>
      \A n \in Rows(r) \ deleted : project[n] = r

\* A project of a template without an image tag, at which a pass of the
\* reconciler stops, is the last that a request created, which is under way or
\* was cut short right there.
UntaggedHasCause ==
  \A r \in Requests, n \in Names :
    project[n] = r /\ n \notin tagged =>
      request[r].pc \in {"update", "answered"} /\ NameNow(r) = n

=============================================================================
