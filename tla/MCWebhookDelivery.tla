------------------------- MODULE MCWebhookDelivery -------------------------
(* Instances of WebhookDelivery for TLC.  One tick stands for at least the *)
(* ten seconds GitHub waits; five minutes are two of them.                 *)
EXTENDS WebhookDelivery

MCStatements == [d \in Deliveries |-> 2]
=============================================================================
