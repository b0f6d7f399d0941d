-------------------------- MODULE MCWebhookReceiver --------------------------
(* Instances of WebhookReceiver for TLC: one message, two requests at a time. *)
EXTENDS WebhookReceiver

CONSTANTS m, r1, r2

=============================================================================
