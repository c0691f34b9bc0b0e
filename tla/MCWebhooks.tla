----------------------------- MODULE MCWebhooks -----------------------------
(***************************************************************************)
(* Three events with two deliveries each, and room for two marks: a mark   *)
(* can expire, be evicted by a later one, or go with the process.          *)
(***************************************************************************)
EXTENDS Webhooks

CONSTANTS a1, a2, h1

MCAutoposts == {a1, a2}
MCHooks == {h1}
=============================================================================
