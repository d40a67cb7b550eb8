-------------------------- MODULE MCWebhookIntake --------------------------
(* Small instances of WebhookIntake for TLC.                               *)
EXTENDS WebhookIntake, TLC

CONSTANTS p1, p2, w1, w2, d1, d2

OneProject == [w \in Webhooks |-> p1]

\* Only requests that name a delivery trigger; or those that do not as well.
PushesTrigger == Webhooks \X Deliveries
AllTrigger == Webhooks \X Ids

HandlerSymmetry == Permutations(Handlers)
=============================================================================
