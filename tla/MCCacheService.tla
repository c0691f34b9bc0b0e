--------------------------- MODULE MCCacheService ---------------------------
(***************************************************************************)
(* A small cache: three keys of which two fit, so that every second write  *)
(* of a new key evicts; two failures trip the breaker for two ticks.       *)
(***************************************************************************)
EXTENDS CacheService

CONSTANTS k1, k2, k3

MCKeys == {k1, k2, k3}
MCPrefixes == {{k1, k2}, MCKeys}
=============================================================================
