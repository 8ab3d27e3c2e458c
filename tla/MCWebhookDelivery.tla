-------------------------- MODULE MCWebhookDelivery --------------------------
(* WebhookDelivery for TLC: its constants need no definitions. *)
EXTENDS WebhookDelivery
=============================================================================
