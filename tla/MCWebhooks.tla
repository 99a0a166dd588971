----------------------------- MODULE MCWebhooks -----------------------------
(* Small instances of Webhooks for TLC. *)
EXTENDS Webhooks, TLC

CONSTANTS i1, i2
=============================================================================
