---------------------------- MODULE MCPlatform -----------------------------
(* Components of the API and of the daemon that share no state, checked by *)
(* one run: each behaviour is one of a single component, chosen at the     *)
(* start.                                                                  *)
EXTENDS TemplateDeploy, RegistryCleanup, CaddyRoutes, PublicDns, SelfUpdate,
        AuditPartitions, TLC

CONSTANTS n1, n2, a1, a2, v1

VARIABLE part

\* Two requests for the same app, with and without sidecars; a custom project
\* may have the name of any of the rows.
AppAndSidecars == {"app", "app-redis", "app-postgres"}
PlainAndStack == [t \in Templates |-> IF t = "plain" THEN <<>> ELSE <<"postgres", "redis">>]
SidecarNames == [n \in {"app"} |-> [s \in {"redis", "postgres"} |->
                   IF s = "redis" THEN "app-redis" ELSE "app-postgres"]]

FirstAddresses == n1 :> a1 @@ n2 :> a2

\* Ten days count as one.
SixMonths == <<3, 7, 10, 13, 15, 18>>

vars == <<part, templateVars, registryVars, routeVars, dnsVars, updateVars,
          auditVars>>

Init == /\ part \in {"templates", "registry", "routes", "dns", "update", "audit"}
        /\ TemplateInit /\ RegistryInit /\ RoutesInit
        /\ DnsInit /\ UpdateInit /\ PartitionsInit
        /\ part # "update" => self = v1
        /\ part # "audit" => installed = 1

DnsStep(step) ==
  /\ part = "dns" /\ step
  /\ UNCHANGED <<part, templateVars, registryVars, routeVars, updateVars, auditVars>>

Next ==
  \/ /\ part = "templates" /\ TemplateNext
     /\ UNCHANGED <<part, registryVars, routeVars, dnsVars, updateVars, auditVars>>
  \/ /\ part = "registry" /\ RegistryNext
     /\ UNCHANGED <<part, templateVars, routeVars, dnsVars, updateVars, auditVars>>
  \/ /\ part = "routes" /\ RoutesNext
     /\ UNCHANGED <<part, templateVars, registryVars, dnsVars, updateVars, auditVars>>
  \/ DnsStep(DnsNext)
  \/ /\ part = "update" /\ UpdateNext
     /\ UNCHANGED <<part, templateVars, registryVars, routeVars, dnsVars, auditVars>>
  \/ /\ part = "audit" /\ PartitionsNext
     /\ UNCHANGED <<part, templateVars, registryVars, routeVars, dnsVars, updateVars>>

\* The tickers of a daemon that is up go on.
FairSpec ==
  /\ Init /\ [][Next]_vars
  /\ \A n \in Nodes : WF_vars(DnsStep(DdnsStep(n))) /\ WF_vars(DnsStep(AgentStep(n)))

TypeOK ==
  /\ TemplateTypeOK /\ RegistryTypeOK /\ RoutesTypeOK
  /\ DnsTypeOK /\ UpdateTypeOK /\ PartitionsTypeOK
=============================================================================
