-------------------------- MODULE MCWebhookOutbox --------------------------
(* Instances of WebhookOutbox for TLC. *)
EXTENDS WebhookOutbox, TLC
CONSTANTS w1, w2, e1, e2, e3
Symmetric == Permutations({w1, w2})
============================================================================
