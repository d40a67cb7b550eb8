------------------------------- MODULE Console -------------------------------
(***************************************************************************)
(* One browser tab of the web console: a page is mounted, its lists come   *)
(* from the query cache of lib/queryClient.ts, its buttons call the API    *)
(* through mutation hooks, and a hook that succeeded invalidates lists.    *)
(* A list is known by the number of the write it was last changed by, so   *)
(* that a cached copy can be compared with the table.                      *)
(* The cache and its fetches are @tanstack/react-query 5.101 (external).   *)
(***************************************************************************)
EXTENDS Naturals, FiniteSets, FiniteSetsExt

CONSTANTS
  Tours,      \* what is looked at: pages visited, the lists and hooks observed
  MaxWrites,  \* bound: writes to the tables
  MaxFaults,  \* bound: reads and calls that fail
  Slots       \* calls of one tab that may be in flight together

ASSUME ConsoleAssumption == MaxWrites \in Nat /\ MaxFaults \in Nat

VARIABLES
  tour,      \* the member of Tours this behaviour is about
  page,      \* the route that is mounted
  version,   \* per list: the last write to its tables
  writes,    \* writes so far
  cache,     \* per list: NoData, Emptied or the version that was read
  stale,     \* lists that are invalidated or older than staleTime
  fetch,     \* per list: Idle, Asked or the version in the answer under way
  calls,     \* mutations in flight
  filled,    \* hooks whose form on this page is filled in
  faults,
  owed,      \* history: per list, the last write this tab was told of
  excused,   \* history: lists not read again since that write, see Reply
  rows,      \* history: per hook, rows made from the present contents of its
             \* form and not deleted by others
  unheard    \* history: hooks with such a row whose answer was lost

-----------------------------------------------------------------------------
(* The pages: the lists they read and those they poll.                     *)

Dashboard == [reads |-> {"nodes", "projects", "hardware"},
              polls |-> {"nodes", "projects", "hardware"}]
ProjectsPage == [reads |-> {"projects"}, polls |-> {"projects"}]
Deploy == [reads |-> {"templates", "nodes"}, polls |-> {}]
NodesPage == [reads |-> {"nodes"}, polls |-> {"nodes"}]

\* Mutant: the policies are read once.
BugNetwork == [reads |-> {"projects", "proxies", "policies"}, polls |-> {}]

Network == [reads |-> {"projects", "proxies", "policies"}, polls |-> {"policies"}]
Users == [reads |-> {"users"}, polls |-> {}]
Domains == [reads |-> {"domains"}, polls |-> {"domains"}]
Storage == [reads |-> {"storage", "nodes"}, polls |-> {"storage"}]
Alerts == [reads |-> {"alerts"}, polls |-> {"alerts"}]
AuditLog == [reads |-> {"audit"}, polls |-> {"audit"}]

Pages == [projects |-> ProjectsPage, deploy |-> Deploy, nodes |-> NodesPage,
          dashboard |-> Dashboard, network |-> Network, users |-> Users,
          domains |-> Domains, storage |-> Storage, alerts |-> Alerts, audit |-> AuditLog]

Keys == UNION {Pages[p].reads : p \in DOMAIN Pages}

\* Behind AuthGuard('jwt'). No page stores the token lib/api.ts would send, so
\* every call to these controllers is answered with 401.
Guarded == {"users", "domains", "alerts", "audit"}

\* api.get(...).catch(() => []): an error is taken for an empty list.
CatchEmpty == {"proxies", "policies"}

\* The handler itself answers an empty list when the cluster does not answer.
ServedEmpty == {"policies", "storage"}

-----------------------------------------------------------------------------
(* The mutation hooks. `touches` are the lists whose tables the handler    *)
(* changes, `list` the one whose rows carry the button (a form is always   *)
(* there), `guarded` a button disabled while the call is pending, `form`   *)
(* one whose fields are required, `clears` a form emptied on success, and  *)
(* `unique` a name the table refuses to have twice.                        *)

Hook(p, k) == [page |-> p, list |-> k, touches |-> {k}, invalidates |-> {k},
               guarded |-> FALSE, form |-> FALSE, clears |-> FALSE, unique |-> FALSE]

\* Mutant: the button is left enabled while the call is pending.
BugCreateProxy == [Hook("network", "proxies") EXCEPT !.form = TRUE, !.clears = TRUE,
                     !.invalidates = {"proxies", "policies"}]

CreateProxy == [Hook("network", "proxies") EXCEPT !.form = TRUE, !.clears = TRUE,
                  !.guarded = TRUE, !.invalidates = {"proxies", "policies"}]
ToggleProxy == [Hook("network", "proxies") EXCEPT !.invalidates = {"proxies", "policies"}]
DeleteProxy == [Hook("network", "proxies") EXCEPT !.invalidates = {"proxies", "policies"}]

\* POST /projects/:id/deploy and /rollback insert a build; the project row
\* changes later, by the worker.
DeployProject == [Hook("projects", "projects") EXCEPT !.touches = {}, !.guarded = TRUE]

\* Rows of external_proxies and of alert_configs are deleted by the foreign keys.
DeleteProject == [Hook("projects", "projects") EXCEPT !.touches = {"projects", "proxies", "alerts"}]
CreateCustom == [Hook("deploy", "projects") EXCEPT !.form = TRUE, !.guarded = TRUE, !.unique = TRUE]

\* Mutant: the list is left as it is.
BugDeleteNode == [Hook("nodes", "nodes") EXCEPT !.touches = {"nodes", "hardware", "alerts"},
                    !.invalidates = {}]

\* The node's alert_configs go with it, and GET /hardware asks the nodes listed.
DeleteNode == [Hook("nodes", "nodes") EXCEPT !.touches = {"nodes", "hardware", "alerts"}]
CreateUser == [Hook("users", "users") EXCEPT !.form = TRUE, !.clears = TRUE,
                 !.guarded = TRUE, !.unique = TRUE]
ToggleUser == Hook("users", "users")

Hooks == [createProxy |-> CreateProxy, toggleProxy |-> ToggleProxy,
          deleteProxy |-> DeleteProxy,
          deployProject |-> DeployProject, rollbackProject |-> DeployProject,
          deleteProject |-> DeleteProject, createCustom |-> CreateCustom,
          deleteNode |-> DeleteNode, createUser |-> CreateUser, toggleUser |-> ToggleUser]

\* The lists a handler changes and whose hook does not know.
Forgotten == {<<"deleteProject", "proxies">>, <<"deleteProject", "alerts">>,
              <<"deleteNode", "hardware">>, <<"deleteNode", "alerts">>}

ASSUME ToursAssumption ==
  \A t \in Tours : /\ t.pages \subseteq DOMAIN Pages /\ t.keys \subseteq Keys
                   /\ t.hooks \subseteq DOMAIN Hooks

-----------------------------------------------------------------------------
NoData == 0
Emptied == 1
First == 2      \* the version of every list at the start
Idle == 0
Asked == 1
NoCall == [hook |-> "none", at |-> "free", here |-> FALSE, wrote |-> 0]

Versions == First..(First + MaxWrites)
Reads(p) == Pages[p].reads \cap tour.keys
Polls(p) == Pages[p].polls \cap tour.keys

ConsoleTypeOK ==
  /\ tour \in Tours /\ page \in tour.pages
  /\ version \in [Keys -> Versions] /\ writes \in 0..MaxWrites /\ faults \in 0..MaxFaults
  /\ cache \in [Keys -> {NoData, Emptied} \cup Versions]
  /\ fetch \in [Keys -> {Idle, Asked} \cup Versions]
  /\ stale \subseteq Keys /\ excused \subseteq Keys
  /\ \A s \in Slots : calls[s] # NoCall =>
       /\ calls[s].hook \in tour.hooks
       /\ calls[s].at \in {"sent", "done"}
       /\ calls[s].here => Hooks[calls[s].hook].page = page
  /\ filled \subseteq {h \in tour.hooks : Hooks[h].form /\ Hooks[h].page = page}
  /\ unheard \subseteq DOMAIN Hooks

Mounted(p) == [k \in Keys |-> IF k \in Reads(p) THEN Asked ELSE Idle]

ConsoleInit ==
  /\ tour \in Tours
  /\ page \in tour.pages
  /\ version = [k \in Keys |-> First] /\ writes = 0 /\ faults = 0
  /\ cache = [k \in Keys |-> NoData] /\ stale = {}
  /\ fetch = Mounted(page)
  /\ calls = [s \in Slots |-> NoCall]
  /\ filled = {} /\ excused = {} /\ unheard = {}
  /\ owed = [k \in Keys |-> First] /\ rows = [h \in DOMAIN Hooks |-> 0]

serverVars == <<version, writes>>
cacheVars == <<cache, stale, fetch>>
callVars == <<calls, filled, rows, unheard>>

\* A read that starts now sees every write made so far.
StartFetch(ks) ==
  /\ fetch' = [k \in Keys |-> IF k \in ks THEN Asked ELSE fetch[k]]
  /\ excused' = excused \ ks

\* Mutant: the forms outlive their page.
BugNavigate(p) ==
  /\ p \in tour.pages \ {page}
  /\ page' = p
  /\ calls' = [s \in Slots |-> IF calls[s] = NoCall THEN NoCall
                               ELSE [calls[s] EXCEPT !.here = FALSE]]
  /\ StartFetch({k \in Reads(p) : fetch[k] = Idle /\ (cache[k] = NoData \/ k \in stale)})
  /\ UNCHANGED <<tour, serverVars, cache, stale, filled, rows, unheard, faults, owed>>

\* The router mounts another page: hooks and forms start anew, calls go on
\* without it, and lists that are not cached or stale are fetched.
Navigate(p) ==
  /\ p \in tour.pages \ {page}
  /\ page' = p
  /\ calls' = [s \in Slots |-> IF calls[s] = NoCall THEN NoCall
                               ELSE [calls[s] EXCEPT !.here = FALSE]]
  /\ filled' = {} /\ unheard' = {}
  /\ rows' = [h \in DOMAIN Hooks |-> 0]
  /\ StartFetch({k \in Reads(p) : fetch[k] = Idle /\ (cache[k] = NoData \/ k \in stale)})
  /\ UNCHANGED <<tour, serverVars, cache, stale, faults, owed>>

\* refetchInterval of a mounted list; it joins a fetch under way.
Poll(k) ==
  /\ k \in Polls(page) /\ fetch[k] = Idle
  /\ StartFetch({k})
  /\ UNCHANGED <<tour, page, serverVars, cache, stale, callVars, faults, owed>>

\* staleTime is over.
Age(k) ==
  /\ cache[k] # NoData /\ k \notin stale
  /\ stale' = stale \cup {k}
  /\ UNCHANGED <<tour, page, serverVars, cache, fetch, callVars, faults, owed, excused>>

Serve(k) ==
  /\ fetch[k] = Asked /\ k \notin Guarded
  /\ fetch' = [fetch EXCEPT ![k] = version[k]]
  /\ UNCHANGED <<tour, page, serverVars, cache, stale, callVars, faults, owed, excused>>

Deliver(k) ==
  /\ fetch[k] \in Versions
  /\ cache' = [cache EXCEPT ![k] = fetch[k]]
  /\ fetch' = [fetch EXCEPT ![k] = Idle]
  /\ stale' = stale \ {k}
  /\ UNCHANGED <<tour, page, serverVars, callVars, faults, owed, excused>>

\* 401, and for the retry again.
Unauthorized(k) ==
  /\ fetch[k] = Asked /\ k \in Guarded
  /\ fetch' = [fetch EXCEPT ![k] = Idle]
  /\ stale' = stale \cup {k}
  /\ UNCHANGED <<tour, page, serverVars, cache, callVars, faults, owed, excused>>

\* The read failed, its retry too, or its handler found no answer.
FetchFails(k) ==
  /\ fetch[k] # Idle /\ faults < MaxFaults
  /\ faults' = faults + 1
  /\ fetch' = [fetch EXCEPT ![k] = Idle]
  /\ \/ /\ k \in CatchEmpty \cup ServedEmpty
        /\ cache' = [cache EXCEPT ![k] = Emptied] /\ stale' = stale \ {k}
     \/ /\ k \notin CatchEmpty
        /\ UNCHANGED cache /\ stale' = stale \cup {k}
  /\ UNCHANGED <<tour, page, serverVars, callVars, owed, excused>>

\* A row of the shown list carries the button.
Shown(h) == Hooks[h].form \/ cache[Hooks[h].list] \in Versions
Pending(h) == \E s \in Slots : calls[s].hook = h /\ calls[s].here

\* Typing a name that was not sent before.
Fill(h) ==
  /\ h \in tour.hooks /\ Hooks[h].page = page /\ Hooks[h].form
  /\ ~ Pending(h)
  /\ h \notin filled \/ rows[h] > 0
  /\ filled' = filled \cup {h}
  /\ rows' = [rows EXCEPT ![h] = 0]
  /\ unheard' = unheard \ {h}
  /\ UNCHANGED <<tour, page, serverVars, cacheVars, calls, faults, owed, excused>>

\* mutate: an enabled button is clicked, again and again if it stays enabled.
Click(h, s) ==
  /\ h \in tour.hooks /\ Hooks[h].page = page
  /\ calls[s] = NoCall
  /\ Hooks[h].guarded => ~ Pending(h)
  /\ Hooks[h].form => h \in filled
  /\ Shown(h)
  /\ calls' = [calls EXCEPT ![s] = [hook |-> h, at |-> "sent", here |-> TRUE, wrote |-> 0]]
  /\ UNCHANGED <<tour, page, serverVars, cacheVars, filled, rows, unheard, faults, owed, excused>>

Write(ks) ==
  /\ writes < MaxWrites
  /\ writes' = writes + 1
  /\ version' = [k \in Keys |-> IF k \in ks THEN First + writes + 1 ELSE version[k]]

\* What the API refuses always: a call without a token, and a name twice.
Refused(s) ==
  LET h == calls[s].hook IN
    Hooks[h].list \in Guarded \/ (Hooks[h].unique /\ calls[s].here /\ rows[h] > 0)

\* The handler of the API commits.
Commit(s) ==
  /\ calls[s].at = "sent" /\ ~ Refused(s)
  /\ LET h == calls[s].hook IN
       /\ Write(Hooks[h].touches)
       /\ calls' = [calls EXCEPT ![s].at = "done", ![s].wrote = First + writes + 1]
       /\ rows' = IF calls[s].here /\ Hooks[h].form THEN [rows EXCEPT ![h] = @ + 1] ELSE rows
  /\ UNCHANGED <<tour, page, cacheVars, filled, unheard, faults, owed, excused>>

\* Refused, or failed on the way: onError leaves the page as it is.
Refuse(s) ==
  /\ calls[s].at = "sent"
  /\ IF Refused(s) THEN UNCHANGED faults ELSE faults < MaxFaults /\ faults' = faults + 1
  /\ calls' = [calls EXCEPT ![s] = NoCall]
  /\ UNCHANGED <<tour, page, serverVars, cacheVars, filled, rows, unheard, owed, excused>>

\* The answer to a call that took effect is lost.
LoseReply(s) ==
  /\ calls[s].at = "done" /\ faults < MaxFaults
  /\ faults' = faults + 1
  /\ calls' = [calls EXCEPT ![s] = NoCall]
  /\ unheard' = IF calls[s].here THEN unheard \cup {calls[s].hook} ELSE unheard
  /\ UNCHANGED <<tour, page, serverVars, cacheVars, filled, rows, owed, excused>>

\* Lists that were ever asked for: the others have nothing to invalidate.
Known == {k \in Keys : cache[k] # NoData \/ fetch[k] # Idle \/ k \in stale}

\* A fetch under way is started again, but the first one of a list is not.
Refetched(ks) == {k \in ks \cap Reads(page) : fetch[k] = Idle \/ cache[k] # NoData}

\* onSuccess, also of a page that is gone: lists are invalidated, and fetched
\* if they are mounted. A list the handler touched is excused when the hook
\* forgets it, or a fetch is under way that is its first or belongs to another
\* page: then nothing makes it be read again.
Reply(s) ==
  /\ calls[s].at = "done"
  /\ LET h == Hooks[calls[s].hook]
         inv == h.invalidates \cap Known
     IN /\ stale' = stale \cup inv
        /\ fetch' = [k \in Keys |-> IF k \in Refetched(inv) THEN Asked ELSE fetch[k]]
        /\ owed' = [k \in Keys |-> IF k \in h.touches THEN Max({owed[k], calls[s].wrote})
                                   ELSE owed[k]]
        /\ excused' = (excused \ Refetched(inv)) \cup
             {k \in h.touches : \/ <<calls[s].hook, k>> \in Forgotten
                               \/ /\ fetch[k] # Idle
                                  /\ cache[k] = NoData \/ k \notin Reads(page)}
        /\ filled' = IF h.clears /\ calls[s].here THEN filled \ {calls[s].hook} ELSE filled
  /\ calls' = [calls EXCEPT ![s] = NoCall]
  /\ UNCHANGED <<tour, page, serverVars, cache, rows, unheard, faults>>

\* Another tab, the worker or the daemon writes, and may delete what a form
\* of this tab has made.
OtherWrite(k) ==
  /\ k \in tour.keys
  /\ Write({k})
  /\ \E gone \in SUBSET {h \in tour.hooks : Hooks[h].unique /\ k \in Hooks[h].touches} :
       rows' = [h \in DOMAIN Hooks |-> IF h \in gone THEN 0 ELSE rows[h]]
  /\ UNCHANGED <<tour, page, cacheVars, calls, filled, unheard, faults, owed, excused>>

FetchStep(k) == Serve(k) \/ Unauthorized(k) \/ Deliver(k)

ConsoleNext ==
  \/ \E p \in tour.pages : Navigate(p)
  \/ \E k \in tour.keys : Poll(k) \/ Age(k) \/ FetchStep(k) \/ FetchFails(k) \/ OtherWrite(k)
  \/ \E h \in tour.hooks : Fill(h) \/ \E s \in Slots : Click(h, s)
  \/ \E s \in Slots : Commit(s) \/ Refuse(s) \/ LoseReply(s) \/ Reply(s)

consoleVars == <<tour, page, version, writes, cache, stale, fetch, calls, filled,
                 faults, owed, excused, rows, unheard>>

ConsoleSpec == ConsoleInit /\ [][ConsoleNext]_consoleVars

-----------------------------------------------------------------------------
(* Properties.                                                             *)

\* What a user was told to have done is on the screen as soon as the list is
\* not being fetched: a fetch that was under way when he did it cannot bring the
\* older rows back and count as fresh. The exceptions are the lists a hook
\* forgets, a first load that overlaps, and a failed read shown as an empty list.
OwnWritesShown ==
  \A k \in Keys :
    cache[k] \in Versions /\ fetch[k] = Idle /\ k \notin stale \cup excused => cache[k] >= owed[k]

\* One filling of a form makes one row, however often its button is clicked,
\* unless the answer was lost and the user tries again, or another tab has
\* deleted the row meanwhile.
OneRowPerForm ==
  \A h \in DOMAIN Hooks : rows[h] > 1 => h \in unheard /\ ~ Hooks[h].unique

\* The lists that are to follow the tables while their page is open. Domains,
\* Alerts and AuditLog poll as well, but what they ask for is Guarded.
Live == {<<"dashboard", "nodes">>, <<"dashboard", "projects">>, <<"dashboard", "hardware">>,
         <<"projects", "projects">>, <<"nodes", "nodes">>, <<"network", "policies">>,
         <<"storage", "storage">>}

\* README: `Dashboard`. A live list comes to show what its table holds, if its
\* page stays open, whatever reads failed before.
PollConverges ==
  \A pk \in Live :
    <>[](page = pk[1] /\ pk[2] \in tour.keys) => <>[](cache[pk[2]] = version[pk[2]])

=============================================================================
