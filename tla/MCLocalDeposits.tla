--------------------------- MODULE MCLocalDeposits ---------------------------
(***************************************************************************)
(* Two callers and two deposits: an update that overlaps with a deletion   *)
(* of the same deposit, and a deposit that is not concerned.  Ids and      *)
(* callers are interchangeable.                                            *)
(***************************************************************************)
EXTENDS LocalDeposits, TLC

CONSTANTS d1, d2, c1, c2

TwoIds == {d1, d2}
TwoCalls == {c1, c2}
SomeKinds ==
    {[op |-> "delete"],
     [op |-> "update", status |-> "COMPLETED", sets |-> {"completedAt"}],
     [op |-> "update", status |-> "FAILED", sets |-> {"failureReason", "statusMessage"}]}
Deposit ==
    [status : {"PENDING", "PROCESSING", "COMPLETED", "FAILED", "CANCELLED"},
     set : SUBSET {"externalReferenceId", "statusMessage", "failureReason", "completedAt"}]
Symmetry == Permutations(TwoCalls) \cup Permutations(TwoIds)
=============================================================================
