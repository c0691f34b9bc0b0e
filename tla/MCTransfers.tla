---------------------------- MODULE MCTransfers -----------------------------
(***************************************************************************)
(* POSTs under one key, the later ones made while the call of an earlier   *)
(* one may still be going on, and a lookup of each; or two keys.  The unit *)
(* of time is 30 s, the timeout of the client and of the interceptor.      *)
(***************************************************************************)
EXTENDS Transfers

CONSTANTS k1, k2

OneKey == {k1}
TwoKeys == {k1, k2}
OneLifetime == {4}
UnsureAnswers == {"unauthorized", "error", "timeout", "gaveUp"}
=============================================================================
