---------------------------- MODULE WebhookInbox ----------------------------
(***************************************************************************)
(* What the receiver of notifications promises a sender that delivers each *)
(* of them at least once: a delivery is taken on only while its event is   *)
(* not known, an event becomes known only by being processed, and only a   *)
(* known one is answered as a duplicate.  The receiver may forget, and it  *)
(* may crash, which takes everything it knows and all that it was doing.   *)
(*                                                                         *)
(* This is the abstract specification that Webhooks implements.            *)
(***************************************************************************)
CONSTANTS
    Deliveries,         \* pairs of an event and a number
    Hooks               \* the events whose processing may fail

VARIABLES
    answer,             \* "idle", "new" once a delivery was taken on, or how it ended
    known               \* the events that are known to have been processed

vars == <<answer, known>>

EventOf(d) == d[1]

Init ==
    /\ answer = [d \in Deliveries |-> "idle"]
    /\ known = {}

Accept(d) ==
    /\ answer[d] = "idle"
    /\ EventOf(d) \notin known
    /\ answer' = [answer EXCEPT ![d] = "new"]
    /\ UNCHANGED known

Recognise(d) ==
    /\ answer[d] = "idle"
    /\ EventOf(d) \in known
    /\ answer' = [answer EXCEPT ![d] = "duplicate"]
    /\ UNCHANGED known

\* The event is known from now on; to remember it, others may be forgotten.
Process(d) ==
    /\ answer[d] = "new"
    /\ answer' = [answer EXCEPT ![d] = "processed"]
    /\ EventOf(d) \in known'
    /\ known' \subseteq known \cup {EventOf(d)}

\* The event stays unknown, unless another delivery of it was processed.
Fail(d) ==
    /\ answer[d] = "new"
    /\ EventOf(d) \in Hooks
    /\ answer' = [answer EXCEPT ![d] = "failed"]
    /\ UNCHANGED known

Forget ==
    /\ known' \subseteq known
    /\ UNCHANGED answer

Crash ==
    /\ answer' = [d \in Deliveries |-> IF answer[d] = "new" THEN "dropped" ELSE answer[d]]
    /\ known' = {}

Next ==
    \/ \E d \in Deliveries : Accept(d) \/ Recognise(d) \/ Process(d) \/ Fail(d)
    \/ Forget \/ Crash

Spec == Init /\ [][Next]_vars
=============================================================================
