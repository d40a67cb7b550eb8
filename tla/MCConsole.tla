----------------------------- MODULE MCConsole -----------------------------
(* The parts of the web console, which share no state, checked by one run: *)
(* each behaviour is one of a single part, chosen at the start.            *)
EXTENDS Console, SettingsForm, LogStream, TLC

VARIABLE part

Tour(ps, ks, hs) == [pages |-> ps, keys |-> ks, hooks |-> hs]

\* Two pages, and the lists that meet: those a hook changes and the one with its
\* button. Every hook appears, every list in Live with each of its pages, and
\* every Guarded list.
PairsOfPages == {
  Tour({"network", "projects"}, {"proxies"}, {"createProxy", "toggleProxy"}),
  Tour({"network", "projects"}, {"proxies"}, {"deleteProxy"}),
  Tour({"network", "projects"}, {"proxies", "projects"}, {"deleteProject"}),
  Tour({"network", "users"}, {"policies"}, {}),
  Tour({"projects", "deploy"}, {"projects"}, {"deployProject", "createCustom"}),
  Tour({"projects", "dashboard"}, {"projects"}, {"rollbackProject"}),
  Tour({"nodes", "deploy"}, {"nodes"}, {"deleteNode"}),
  Tour({"dashboard", "nodes"}, {"nodes", "hardware"}, {"deleteNode"}),
  Tour({"users", "domains"}, {"users", "domains"}, {"createUser", "toggleUser"}),
  Tour({"alerts", "audit"}, {"alerts", "audit"}, {}),
  Tour({"storage", "domains"}, {"storage"}, {})}

vars == <<part, consoleVars, settingsVars, logVars>>

Init == /\ part \in {"lists", "settings", "logs"}
        /\ ConsoleInit /\ SettingsInit /\ LogInit
        /\ part # "lists" => tour.hooks = {} /\ page = "users"
        /\ part # "logs" => \A p \in Projects : logged[p] = 0

ListStep(A) == part = "lists" /\ A /\ UNCHANGED <<part, settingsVars, logVars>>

Next ==
  \/ ListStep(ConsoleNext)
  \/ part = "settings" /\ SettingsNext /\ UNCHANGED <<part, consoleVars, logVars>>
  \/ part = "logs" /\ LogNext /\ UNCHANGED <<part, consoleVars, settingsVars>>

\* The timer of a polled list goes on, and the API answers.
FairSpec ==
  /\ Init /\ [][Next]_vars
  /\ \A k \in {live[2] : live \in Live} :
       /\ WF_vars(ListStep(k \in tour.keys /\ Poll(k)))
       /\ WF_vars(ListStep(k \in tour.keys /\ FetchStep(k)))

TypeOK == ConsoleTypeOK /\ SettingsTypeOK /\ LogTypeOK
=============================================================================
