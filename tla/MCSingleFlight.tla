--------------------------- MODULE MCSingleFlight ---------------------------
(***************************************************************************)
(* Three callers: one starts a flight, one joins it and one comes late.    *)
(* Two losses let the late one start a flight of its own, and the cache    *)
(* fail it once more.                                                      *)
(***************************************************************************)
EXTENDS SingleFlight

CONSTANTS c1, c2, c3

ThreeCallers == {c1, c2, c3}
=============================================================================
