---------------------------- MODULE CaddyRoutes ----------------------------
(***************************************************************************)
(* CaddyService.addRoute and removeRoute: the list of routes in Caddy is   *)
(* appended to by one call, and shortened by an index that was computed    *)
(* from an earlier one.                                                    *)
(***************************************************************************)
EXTENDS Naturals, Sequences, SequencesExt

CONSTANTS Domains, Callers,
  MaxRoutes,   \* bound: length of the list
  NoDomain

ASSUME RoutesAssumption == MaxRoutes \in Nat /\ NoDomain \notin Domains

VARIABLES
  routes,   \* the hosts of srv0's routes
  remover,  \* of each caller of removeRoute: its domain and the index it found
  shifted   \* history: callers that another removal overtook since they read

NoRemoval == [domain |-> NoDomain, index |-> 0]

RoutesTypeOK ==
  /\ routes \in Seq(Domains) /\ Len(routes) <= MaxRoutes
  /\ remover \in [Callers -> [domain : Domains \cup {NoDomain}, index : 0..MaxRoutes]]
  /\ shifted \subseteq Callers

RoutesInit ==
  /\ routes = <<>>
  /\ remover = [c \in Callers |-> NoRemoval]
  /\ shifted = {}

\* Mutant: the new route is put in front.
BugAddRoute(d) ==
  /\ Len(routes) < MaxRoutes
  /\ routes' = <<d>> \o routes
  /\ UNCHANGED <<remover, shifted>>

\* POST to the list appends, also a domain that is there already.
AddRoute(d) ==
  /\ Len(routes) < MaxRoutes
  /\ routes' = Append(routes, d)
  /\ UNCHANGED <<remover, shifted>>

\* getConfig and findIndex; without a match removeRoute is done.
FindRoute(c, d) ==
  /\ remover[c] = NoRemoval
  /\ d \in ToSet(routes)
  /\ remover' = [remover EXCEPT ![c] =
       [domain |-> d, index |-> CHOOSE i \in 1..Len(routes) :
          routes[i] = d /\ \A j \in 1..(i - 1) : routes[j] # d]]
  /\ shifted' = shifted \ {c}
  /\ UNCHANGED routes

Waiting == {c \in Callers : remover[c] # NoRemoval}

DeleteIndex(c) ==
  /\ remover[c] # NoRemoval
  /\ IF remover[c].index <= Len(routes)
     THEN /\ routes' = RemoveAt(routes, remover[c].index)
          /\ shifted' = shifted \cup (Waiting \ {c})
     ELSE UNCHANGED <<routes, shifted>>
  /\ remover' = [remover EXCEPT ![c] = NoRemoval]

RoutesNext ==
  \/ \E d \in Domains : AddRoute(d)
  \/ \E c \in Callers : DeleteIndex(c) \/ \E d \in Domains : FindRoute(c, d)

routeVars == <<routes, remover, shifted>>

RoutesSpec == RoutesInit /\ [][RoutesNext]_routeVars

-----------------------------------------------------------------------------
(* Properties.                                                             *)

\* removeRoute(domain) takes away a route of that domain and no other, although
\* it finds it by an index that may be old: routes may be added meanwhile, and
\* only another removal in between makes it miss.
RemovesItsOwn ==
  \A c \in Waiting \ shifted :
    /\ remover[c].index <= Len(routes)
    /\ routes[remover[c].index] = remover[c].domain

=============================================================================
