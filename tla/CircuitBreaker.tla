--------------------------- MODULE CircuitBreaker ---------------------------
(***************************************************************************)
(* What a circuit breaker promises to its callers, apart from how one is   *)
(* kept: it trips at the failure that makes Threshold of them, and only a  *)
(* call that ends a trial makes it forget any, so that successes while it  *)
(* is closed forgive nothing.  Once tripped it refuses calls for Timeout   *)
(* units of time, and only a call let through after that closes it again.  *)
(*                                                                         *)
(* This is the abstract specification that CacheService implements.        *)
(***************************************************************************)
EXTENDS Integers

CONSTANTS
    Threshold,          \* how many failures trip the breaker
    Timeout             \* how long a tripped breaker refuses every call

VARIABLES
    state,              \* "CLOSED", "OPEN" or "HALF_OPEN"
    failures,           \* the failures since it was last closed
    openedAt,           \* when it last tripped (meaningless before that)
    now                 \* the clock

vars == <<state, failures, openedAt, now>>

States == {"CLOSED", "OPEN", "HALF_OPEN"}

\* The refusal period that began at openedAt is over.
RetryDue == now - openedAt >= Timeout

\* Calls go through: the breaker is not open, or its refusal period is over.
LetsThrough == state # "OPEN" \/ RetryDue

Init ==
    /\ state = "CLOSED"
    /\ failures = 0
    /\ openedAt \in Int
    /\ now \in Int

\* A call that was let through fails, and the breaker stays closed.
Fail ==
    /\ state = "CLOSED"
    /\ failures' = failures + 1
    /\ failures' < Threshold
    /\ UNCHANGED <<state, openedAt, now>>

\* A call that was let through fails once too often, or fails the trial.
Trip ==
    /\ LetsThrough
    /\ failures' = failures + 1
    /\ failures' >= Threshold
    /\ state' = "OPEN"
    /\ openedAt' = now
    /\ UNCHANGED now

\* The refusal period ends.
BeginTrial ==
    /\ state = "OPEN"
    /\ RetryDue
    /\ state' = "HALF_OPEN"
    /\ UNCHANGED <<failures, openedAt, now>>

\* A trial call succeeds (it may itself be the call that ends the period).
Close ==
    /\ state # "CLOSED"
    /\ LetsThrough
    /\ state' = "CLOSED"
    /\ failures' = 0
    /\ UNCHANGED <<openedAt, now>>

Tick ==
    /\ now' > now
    /\ UNCHANGED <<state, failures, openedAt>>

Next == Fail \/ Trip \/ BeginTrial \/ Close \/ Tick

Spec == Init /\ [][Next]_vars
=============================================================================
