----------------------------- MODULE MCDeposits -----------------------------
(***************************************************************************)
(* Three calls on two deposits: two updates that overlap and a deletion    *)
(* between their steps.  The updates are markAsProcessing, markAsFailed,   *)
(* and updateDepositStatus to three statuses, with a message and without.  *)
(* Ids and calls are interchangeable.                                      *)
(***************************************************************************)
EXTENDS Deposits, TLC

CONSTANTS d1, d2, c1, c2, c3

TwoIds == {d1, d2}
ThreeCalls == {c1, c2, c3}
SomeKinds ==
    {[op |-> "get"], [op |-> "delete"],
     [op |-> "update", status |-> "PROCESSING", sets |-> {"externalReferenceId"}],
     [op |-> "update", status |-> "FAILED", sets |-> {"failureReason", "statusMessage"}],
     [op |-> "update", status |-> "COMPLETED", sets |-> {"completedAt"}],
     [op |-> "update", status |-> "CANCELLED", sets |-> {"statusMessage"}],
     [op |-> "update", status |-> "PENDING", sets |-> {}]}
Symmetry == Permutations(ThreeCalls) \cup Permutations(TwoIds)
=============================================================================
