------------------------- MODULE MCUnionbankClient --------------------------
(***************************************************************************)
(* Three calls, and tokens of two lifetimes: calls that share a token,     *)
(* calls that refresh at the same time, and calls that meet a token about  *)
(* to lapse.  The unit of time is the timeout, 30 s.                       *)
(***************************************************************************)
EXTENDS UnionbankClient

CONSTANTS c1, c2, c3

ThreeCalls == {c1, c2, c3}
TwoLifetimes == {3, 4}
=============================================================================
