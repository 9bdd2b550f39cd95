-------------------------- MODULE MCWebhookFanout --------------------------
(* Small instances of WebhookFanout: every event of one type, and a second *)
(* type that stands for all the others a hook may subscribe to.            *)
EXTENDS WebhookFanout, TLC

CONSTANTS created, other, h2, e2

MCTypes == {created, other}
MCTypeOf == [e \in Events |-> created]

\* Two hooks for one event, or two events at one hook nobody edits.
Either == stage[e2] = "none" \/ (hook[h2].status = "unused" /\ edits = 0)
MCSpec == Init /\ [][Next /\ Either']_vars /\ Fairness
=============================================================================
