------------------------------ MODULE Webhooks ------------------------------
(***************************************************************************)
(* The webhook endpoints: UnionBank delivers each notification at least    *)
(* once, and the service keeps a mark in the cache for every one it has    *)
(* processed, so that it can tell a duplicate.                             *)
(*                                                                         *)
(* The marks live in CacheService, whose actions are used as they are: it  *)
(* has no other client, every mark is written without encryption (so the   *)
(* breaker never trips), and exists does not refresh a mark's last use.    *)
(*                                                                         *)
(* A delivery looks its mark up, awaits the answer, and only then processes*)
(* and marks.  Two deliveries can both be between the two when their       *)
(* handlers are entered in one turn of the event loop (pipelined requests  *)
(* of one connection); jobs of deliveries of one event keep their order,   *)
(* which no property depends on, so they are left to interleave freely.    *)
(***************************************************************************)
EXTENDS Integers, FiniteSets

CONSTANTS
    Autoposts,          \* idempotency keys transactionId:senderRefId of autopost notifications
    Hooks,              \* eventIds of transfer webhooks
    MaxDeliveries,      \* bound: deliveries of each event
    MaxRestarts,        \* bound: restarts of the process
    MarkTtl,            \* WEBHOOK_TTL_SECONDS (7 days)
    NoEntry, MaxEntries, EvictCount, Threshold, Timeout, MaxTime    \* of the cache

ASSUME WebhookAssumption ==
    /\ Autoposts \cap Hooks = {}
    /\ MaxDeliveries \in Nat \ {0}
    /\ MaxRestarts \in Nat
    /\ MarkTtl \in Nat \ {0}

Events == Autoposts \cup Hooks
Deliveries == Events \X (1..MaxDeliveries)
EventOf(d) == d[1]

VARIABLES
    cache, breaker, timer, now, lastUse,    \* of the cache
    pc,                 \* how far each delivery has come, or how it was answered
    doneAt,             \* history: when each event was last processed, 0 before
    forgotten,          \* history: processed events whose mark was evicted or lost in a restart
    restarts

Cache == INSTANCE CacheService
    WITH Keys <- Events, Prefixes <- {}, Ttls <- {MarkTtl}, Versions <- {1}

ASSUME MarksAssumption == Cache!CacheAssumption

cacheVars == <<cache, breaker, timer, now, lastUse>>
vars == <<cache, breaker, timer, now, lastUse, pc, doneAt, forgotten, restarts>>

\* The answers to UnionBank (all of them HTTP 200), and "dropped": none, the process died.
Answers == {"processed", "duplicate", "failed"}

Init ==
    /\ Cache!Init
    /\ pc = [d \in Deliveries |-> "idle"]
    /\ doneAt = [e \in Events |-> 0]
    /\ forgotten = {}
    /\ restarts = 0

\* Broken variant: the mark is looked up with an expiry test off by one.
MarkedStrictly(e) == e \in Cache!Stored /\ (cache[e].expiresAt = Cache!Never \/ now < cache[e].expiresAt)

\* What exists answers for the event's mark.
Marked(e) == e \in Cache!Stored /\ ~Cache!Expired(e)

\* exists deletes an expired mark when it comes across it.
LookUp(e) == IF Cache!Expired(e) THEN Cache!Exists(e) ELSE UNCHANGED cacheVars

Receive(d) ==
    /\ pc[d] = "idle"
    /\ pc' = [pc EXCEPT ![d] = IF Marked(EventOf(d)) THEN "duplicate" ELSE "new"]
    /\ LookUp(EventOf(d))
    /\ UNCHANGED <<doneAt, forgotten, restarts>>

Mark(e) ==
    /\ Cache!Set(e, MarkTtl, 1, FALSE)
    /\ forgotten' = (forgotten \cup {x \in Cache!Stored : cache'[x] = NoEntry}) \ {e}

\* routeAutopost or the transfer handler does its work, then the mark is written.
Processed(d) ==
    /\ Mark(EventOf(d))
    /\ doneAt' = [doneAt EXCEPT ![EventOf(d)] = now]
    /\ pc' = [pc EXCEPT ![d] = "processed"]
    /\ UNCHANGED restarts

ProcessAutopost(d) ==
    /\ pc[d] = "new"
    /\ EventOf(d) \in Autoposts
    /\ Processed(d)

\* Broken variant: the failure is caught after the mark was written.
WebhookFailsMarked(d) ==
    /\ pc[d] = "new"
    /\ EventOf(d) \in Hooks
    /\ Mark(EventOf(d))
    /\ pc' = [pc EXCEPT ![d] = "failed"]
    /\ UNCHANGED <<doneAt, restarts>>

\* Broken variant: the failure is not caught and answers UnionBank with an error.
WebhookFailsUncaught(d) ==
    /\ pc[d] = "new"
    /\ EventOf(d) \in Hooks
    /\ pc' = [pc EXCEPT ![d] = "error"]
    /\ UNCHANGED <<cacheVars, doneAt, forgotten, restarts>>

\* The handler throws: the failure is logged, UnionBank is told the event was received,
\* and the event stays unmarked.
WebhookFails(d) ==
    /\ pc[d] = "new"
    /\ EventOf(d) \in Hooks
    /\ pc' = [pc EXCEPT ![d] = "failed"]
    /\ UNCHANGED <<cacheVars, doneAt, forgotten, restarts>>

ProcessWebhook(d) ==
    \/ /\ pc[d] = "new"
       /\ EventOf(d) \in Hooks
       /\ Processed(d)
    \/ WebhookFails(d)

\* The process dies and a new one starts: the marks were in its memory.
Restart ==
    /\ restarts < MaxRestarts
    /\ restarts' = restarts + 1
    /\ cache' = [e \in Events |-> NoEntry]
    /\ lastUse' = [e \in Events |-> 0]
    /\ pc' = [d \in Deliveries |-> IF pc[d] = "new" THEN "dropped" ELSE pc[d]]
    /\ forgotten' = {e \in Events : doneAt[e] # 0}
    /\ UNCHANGED <<breaker, timer, now, doneAt>>

Housekeeping ==
    /\ Cache!CleanupExpired \/ Cache!Tick
    /\ UNCHANGED <<pc, doneAt, forgotten, restarts>>

Next ==
    \/ \E d \in Deliveries : Receive(d) \/ ProcessAutopost(d) \/ ProcessWebhook(d)
    \/ Restart
    \/ Housekeeping

Spec == Init /\ [][Next]_vars
-----------------------------------------------------------------------------
(* Properties *)

TypeOK ==
    /\ Cache!TypeOK
    /\ pc \in [Deliveries -> {"idle", "new", "dropped"} \cup Answers]
    /\ doneAt \in [Events -> 0..now]
    /\ forgotten \subseteq Events
    /\ restarts \in 0..MaxRestarts

\* The endpoints keep the promise of a receiver: whatever fails, overlaps, expires, is
\* evicted or lost, an event is marked only by being processed, a marked one is never taken
\* on again, and only a marked one is answered as a duplicate.
Inbox == INSTANCE WebhookInbox WITH answer <- pc, known <- {e \in Events : Marked(e)}
InboxPromise == Inbox!Spec

\* "Already processed" is the truth: whatever failures, restarts, evictions and
\* overlapping deliveries came before, some delivery of the event ran to its end.
DuplicateAnswerIsTrue ==
    \A d \in Deliveries : pc[d] = "duplicate" => doneAt[EventOf(d)] # 0

\* A delivery that comes after the event was processed is recognised for the whole
\* lifetime of the mark, unless the mark was evicted or lost with the process.
RecognisedWhileMarkLives ==
    [][\A d \in Deliveries :
          LET e == EventOf(d)
          IN (pc[d] = "idle" /\ pc'[d] = "new" /\ doneAt[e] # 0 /\ e \notin forgotten)
                => now - doneAt[e] > MarkTtl]_vars

\* As documented, "deduplicated (Redis key, 7-day TTL)": a delivery that comes within the
\* lifetime of the mark is always recognised.
RecognisedForSevenDays ==
    [][\A d \in Deliveries :
          LET e == EventOf(d)
          IN (pc[d] = "idle" /\ pc'[d] = "new" /\ doneAt[e] # 0)
                => now - doneAt[e] > MarkTtl]_vars
=============================================================================
