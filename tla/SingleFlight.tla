---------------------------- MODULE SingleFlight ----------------------------
(***************************************************************************)
(* getOrSet of the cache: callers of one key share one run of the fallback *)
(* that computes its value (keys do not interact here).                    *)
(*                                                                         *)
(* The process has one thread.  Code after an await runs as a job of the   *)
(* microtask queue, first in, first out, and a timer fires only when that  *)
(* queue is empty.  Calls to getOrSet and the end of a fallback may come   *)
(* from any other job, so they may happen at any time, but what they cause *)
(* joins the end of the queue.  That order is what keeps a second fallback *)
(* from starting between the write to the cache and the removal of the     *)
(* flight, so it is modelled and not abstracted to free interleaving.      *)
(*                                                                         *)
(* The further jobs that only carry an answer from a settled promise to    *)
(* its caller (the race, the return of requestPromise) touch nothing that  *)
(* is shared: a caller counts as answered when its outcome is decided.     *)
(*                                                                         *)
(* The rest of the cache is modelled by what it can do to this key: lose   *)
(* the entry at any time, and answer any get with null or ignore any set,  *)
(* as it does while the traffic of other keys keeps its breaker open.      *)
(***************************************************************************)
EXTENDS Naturals, Sequences, FiniteSets

CONSTANTS
    Callers,            \* each calls getOrSet once; a flight has the name of its caller
    None,               \* no flight
    MaxLosses           \* bound: how often the entry is lost, or the cache fails the callers

ASSUME FlightAssumption == IsFiniteSet(Callers) /\ None \notin Callers /\ MaxLosses \in Nat

VARIABLES
    cached,             \* the cache holds a value under the key
    inFlight,           \* inFlightRequests.get(key): the flight on record, or None
    flight,             \* how far the flight each caller started has come
    waiters,            \* the callers that await each flight's promise, in order
    pc,                 \* where each caller is, or how it was answered
    queue,              \* the microtask queue
    losses,             \* how often the entry was lost or the cache failed so far
    destroyed           \* the module was destroyed

vars == <<cached, inFlight, flight, waiters, pc, queue, losses, destroyed>>

Answers == {"value", "null", "error"}
FlightStates == {"none", "fetching", "settled", "storing", "done", "failed"}

\* The flights whose promise is still pending.
Pending == {c \in Callers : flight[c] \in {"fetching", "settled", "storing"}}

Jobs == [do : {"read", "settle", "wake"}, who : Callers, ok : BOOLEAN]
        \cup [do : {"finish"}, who : Callers, ok : {TRUE}]

Job(do, c, ok) == [do |-> do, who |-> c, ok |-> ok]

Init ==
    /\ cached = FALSE
    /\ inFlight = None
    /\ flight = [c \in Callers |-> "none"]
    /\ waiters = [c \in Callers |-> <<>>]
    /\ pc = [c \in Callers |-> "idle"]
    /\ queue = <<>>
    /\ losses = 0
    /\ destroyed = FALSE

\* The cache loses or fails to keep what it should have.
Loss == losses < MaxLosses /\ losses' = losses + 1

\* getOrSet looks into the cache at once, and acts on what it saw one job later.  An open
\* breaker and an entry that cannot be decrypted look like a miss.
GetOrSet(c) ==
    /\ pc[c] = "idle"
    /\ pc' = [pc EXCEPT ![c] = "reading"]
    /\ \/ queue' = Append(queue, Job("read", c, cached)) /\ UNCHANGED losses
       \/ cached /\ Loss /\ queue' = Append(queue, Job("read", c, FALSE))
    /\ UNCHANGED <<cached, inFlight, flight, waiters, destroyed>>

\* executeWithSingleFlight: the fallback starts and the flight goes on record.  A fallback
\* that throws before it returns a promise ends its flight first (finally finds nothing to
\* delete) and leaves the dead flight on record.
Execute(c) ==
    /\ inFlight' = c
    /\ \/ /\ flight' = [flight EXCEPT ![c] = "fetching"]
          /\ pc' = [pc EXCEPT ![c] = "racing"]
       \/ /\ flight' = [flight EXCEPT ![c] = "failed"]
          /\ pc' = [pc EXCEPT ![c] = "error"]

\* The jobs that promise c's settlement queues, one for each caller that awaits it.
Wakes(c, ok) == [i \in DOMAIN waiters[c] |-> Job("wake", waiters[c][i], ok)]

\* The first job of the queue is `do` of caller c; the others move up.
Runs(do, c, ok) == queue # <<>> /\ Head(queue) = Job(do, c, ok)

ReadHit(c) ==
    /\ Runs("read", c, TRUE)
    /\ pc' = [pc EXCEPT ![c] = "value"]
    /\ queue' = Tail(queue)
    /\ UNCHANGED <<cached, inFlight, flight, waiters, losses, destroyed>>

\* A miss joins the flight on record.  If that one is dead its promise is already rejected.
ReadJoins(c) ==
    /\ Runs("read", c, FALSE)
    /\ inFlight # None
    /\ pc' = [pc EXCEPT ![c] = "waiting"]
    /\ IF inFlight \in Pending
       THEN /\ waiters' = [waiters EXCEPT ![inFlight] = Append(@, c)]
            /\ queue' = Tail(queue)
       ELSE /\ queue' = Append(Tail(queue), Job("wake", c, FALSE))
            /\ UNCHANGED waiters
    /\ UNCHANGED <<cached, inFlight, flight, losses, destroyed>>

ReadStarts(c) ==
    /\ Runs("read", c, FALSE)
    /\ inFlight = None
    /\ Execute(c)
    /\ queue' = Tail(queue)
    /\ UNCHANGED <<cached, waiters, losses, destroyed>>

\* The promise the fallback returned is fulfilled or rejected.
FallbackSettles(c, ok) ==
    /\ flight[c] = "fetching"
    /\ flight' = [flight EXCEPT ![c] = "settled"]
    /\ queue' = Append(queue, Job("settle", c, ok))
    /\ UNCHANGED <<cached, inFlight, waiters, pc, losses, destroyed>>

\* Broken variant: the flight leaves the record before its value is awaited into the cache.
FlightStoresUnrecorded(c) ==
    /\ Runs("settle", c, TRUE)
    /\ cached' = TRUE
    /\ inFlight' = None
    /\ flight' = [flight EXCEPT ![c] = "storing"]
    /\ queue' = Append(Tail(queue), Job("finish", c, TRUE))
    /\ UNCHANGED <<waiters, pc, losses, destroyed>>

\* The flight resumes with a value and writes it to the cache, which keeps it unless its
\* breaker is open or the encryption throws.  A value of null is kept, but get cannot tell
\* it from a miss.
FlightStores(c) ==
    /\ Runs("settle", c, TRUE)
    /\ \/ cached' = TRUE /\ UNCHANGED losses
       \/ Loss /\ UNCHANGED cached
    /\ flight' = [flight EXCEPT ![c] = "storing"]
    /\ queue' = Append(Tail(queue), Job("finish", c, TRUE))
    /\ UNCHANGED <<inFlight, waiters, pc, destroyed>>

\* Broken variant: a settled flight stays on record.
EndsUncleared(c, ok) ==
    /\ flight' = [flight EXCEPT ![c] = IF ok THEN "done" ELSE "failed"]
    /\ pc' = [pc EXCEPT ![c] = IF @ # "racing" THEN @ ELSE IF ok THEN "value" ELSE "error"]
    /\ queue' = Tail(queue) \o Wakes(c, ok)
    /\ waiters' = [waiters EXCEPT ![c] = <<>>]
    /\ UNCHANGED <<cached, inFlight, losses, destroyed>>

\* Broken variant: a failed flight answers its own caller only.
EndsAlone(c, ok) ==
    /\ inFlight' = None
    /\ flight' = [flight EXCEPT ![c] = IF ok THEN "done" ELSE "failed"]
    /\ pc' = [pc EXCEPT ![c] = IF @ # "racing" THEN @ ELSE IF ok THEN "value" ELSE "error"]
    /\ queue' = IF ok THEN Tail(queue) \o Wakes(c, ok) ELSE Tail(queue)
    /\ UNCHANGED <<cached, waiters, losses, destroyed>>

\* Broken variant: a rejected flight answers its owner with nothing at all.
EndsUnanswered(c, ok) ==
    /\ inFlight' = None
    /\ flight' = [flight EXCEPT ![c] = IF ok THEN "done" ELSE "failed"]
    /\ pc' = [pc EXCEPT ![c] = IF @ # "racing" THEN @ ELSE IF ok THEN "value" ELSE None]
    /\ queue' = Tail(queue) \o Wakes(c, ok)
    /\ waiters' = [waiters EXCEPT ![c] = <<>>]
    /\ UNCHANGED <<cached, losses, destroyed>>

\* finally: whatever flight is on record is removed, also another caller's; the promise
\* settles, which answers the owner unless its timer already did, and wakes the others.
Ends(c, ok) ==
    /\ inFlight' = None
    /\ flight' = [flight EXCEPT ![c] = IF ok THEN "done" ELSE "failed"]
    /\ pc' = [pc EXCEPT ![c] = IF @ # "racing" THEN @ ELSE IF ok THEN "value" ELSE "error"]
    /\ queue' = Tail(queue) \o Wakes(c, ok)
    /\ waiters' = [waiters EXCEPT ![c] = <<>>]
    /\ UNCHANGED <<cached, losses, destroyed>>

FlightFails(c) == Runs("settle", c, FALSE) /\ Ends(c, FALSE)

FlightFinishes(c) == Runs("finish", c, TRUE) /\ Ends(c, TRUE)

WakeWithValue(c) ==
    /\ Runs("wake", c, TRUE)
    /\ pc' = [pc EXCEPT ![c] = "value"]
    /\ queue' = Tail(queue)
    /\ UNCHANGED <<cached, inFlight, flight, waiters, losses, destroyed>>

\* The flight it waited for failed: it starts its own, without looking at the cache or at
\* the flights on record again.
WakeToRetry(c) ==
    /\ Runs("wake", c, FALSE)
    /\ Execute(c)
    /\ queue' = Tail(queue)
    /\ UNCHANGED <<cached, waiters, losses, destroyed>>

RunJob == \E c \in Callers :
    \/ ReadHit(c) \/ ReadJoins(c) \/ ReadStarts(c)
    \/ FlightStores(c) \/ FlightFails(c) \/ FlightFinishes(c)
    \/ WakeWithValue(c) \/ WakeToRetry(c)

\* Broken variant: the caller awaits its flight without racing a timer.
TimerNeverFires(c) ==
    /\ pc[c] = "racing"
    /\ FALSE
    /\ UNCHANGED vars

\* SINGLE_FLIGHT_TIMEOUT: only the caller that started the flight races it with a timer.
\* The flight goes on without it.
TimerFires(c) ==
    /\ queue = <<>>
    /\ pc[c] = "racing"
    /\ pc' = [pc EXCEPT ![c] = "null"]
    /\ UNCHANGED <<cached, inFlight, flight, waiters, queue, losses, destroyed>>

\* The entry expires, is evicted or is deleted, here or by another call.
Forget ==
    /\ cached
    /\ Loss
    /\ cached' = FALSE
    /\ UNCHANGED <<inFlight, flight, waiters, pc, queue, destroyed>>

\* onModuleDestroy empties the cache and takes every flight off the record.  Requests that
\* are under way go on, and so do their flights.
OnModuleDestroy ==
    /\ ~destroyed
    /\ destroyed' = TRUE
    /\ cached' = FALSE
    /\ inFlight' = None
    /\ UNCHANGED <<flight, waiters, pc, queue, losses>>

Next ==
    \/ \E c \in Callers : GetOrSet(c) \/ TimerFires(c)
    \/ \E c \in Callers, ok \in BOOLEAN : FallbackSettles(c, ok)
    \/ RunJob
    \/ Forget \/ OnModuleDestroy

\* The engine runs queued jobs and due timers.  Nothing obliges a fallback to settle.
Fairness == WF_vars(RunJob) /\ \A c \in Callers : WF_vars(TimerFires(c))

Spec == Init /\ [][Next]_vars /\ Fairness
-----------------------------------------------------------------------------
(* Properties *)

TypeOK ==
    /\ cached \in BOOLEAN
    /\ inFlight \in Callers \cup {None}
    /\ flight \in [Callers -> FlightStates]
    /\ waiters \in [Callers -> Seq(Callers)]
    /\ pc \in [Callers -> {"idle", "reading", "waiting", "racing"} \cup Answers]
    /\ queue \in Seq(Jobs)
    /\ losses \in Nat
    /\ destroyed \in BOOLEAN

\* The flights that were started.
Fills == {c \in Callers : flight[c] # "none"}

\* Single flight: while no fallback fails and the module is up, the fallback runs once, and
\* once more at most for each time the cache lost the entry or failed a caller.  No call
\* slips in between the write to the cache and the removal of the flight.
OneFillPerMiss ==
    (\A c \in Callers : flight[c] # "failed") /\ ~destroyed
        => Cardinality(Fills) <= 1 + losses

\* A caller that waits will be woken: it is on the list of a flight that is still going to
\* settle, or its wake-up is queued.
NoLostWakeup ==
    \A c \in Callers : pc[c] = "waiting" =>
        \/ \E f \in Pending : \E i \in DOMAIN waiters[f] : waiters[f][i] = c
        \/ \E i \in DOMAIN queue : queue[i].do = "wake" /\ queue[i].who = c

\* No flight stays on record after it succeeded: a caller that joins one gets the value
\* of a fallback still under way when it asked, never that of a flight long over.
RecordedFlightIsOpen == inFlight # None => flight[inFlight] # "done"

\* The caller that starts a flight is answered even if the fallback never settles.
OwnerIsAnswered == \A c \in Callers : (pc[c] = "racing") ~> (pc[c] \in Answers)

\* "Set timeout to prevent hanging requests": every caller is answered, the ones that
\* joined a flight too.
EveryCallerIsAnswered == \A c \in Callers : (pc[c] = "reading") ~> (pc[c] \in Answers)
=============================================================================
