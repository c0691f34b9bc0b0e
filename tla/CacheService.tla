---------------------------- MODULE CacheService ----------------------------
(***************************************************************************)
(* The in-memory cache of the gateway: a Map from keys to entries with a   *)
(* time to live, least-recently-used eviction when it is full, a periodic  *)
(* cleanup, and a circuit breaker around get and set.                      *)
(*                                                                         *)
(* Every method of the service runs to its end without an await, so each   *)
(* is one step and reads one instant of the clock.  A behaviour is the     *)
(* life of one process: the Map starts empty and nothing survives it.      *)
(*                                                                         *)
(* Entries are abstracted to the fields the methods branch on.  The value  *)
(* itself, createdAt and accessCount (only the LFU policy, which nothing   *)
(* selects, reads it) and the hit, miss and eviction counters are left     *)
(* out.  healthCheck and getStats only read, setJson and getJson only call *)
(* set and get, clear is DeleteByPrefix(Keys), and a get or set that the   *)
(* breaker refuses changes nothing (a stuttering step).                    *)
(***************************************************************************)
EXTENDS Integers, FiniteSets

CONSTANTS
    Keys,               \* the keys callers use
    Prefixes,           \* the sets of keys that share a prefix
    Ttls,               \* time to live arguments of set; 0 stands for any ttl <= 0
    Versions,           \* version arguments of set and invalidateVersion
    NoEntry,            \* the Map holds nothing under a key
    MaxEntries,         \* MAX_ENTRIES
    EvictCount,         \* ceil(MAX_ENTRIES * EVICTION_THRESHOLD)
    Threshold,          \* CIRCUIT_BREAKER_THRESHOLD
    Timeout,            \* CIRCUIT_BREAKER_TIMEOUT
    MaxTime             \* bound: the clock stops here

ASSUME CacheAssumption ==
    /\ Prefixes \subseteq SUBSET Keys
    /\ Ttls \subseteq Nat
    /\ Versions \subseteq Nat
    /\ NoEntry \notin [expiresAt : Int, lastAccessedAt : Int, version : Nat, isEncrypted : BOOLEAN]
    /\ MaxEntries \in Nat \ {0}
    /\ EvictCount \in 1..MaxEntries
    /\ Threshold \in Nat \ {0}
    /\ Timeout \in Nat
    /\ MaxTime \in Nat \ {0}

VARIABLES
    cache,              \* key -> its entry, or NoEntry
    breaker,            \* state, failures and openedAt of the circuit breaker
    timer,              \* the cleanup interval is scheduled
    now,                \* Date.now(), in units of the smallest ttl
    lastUse             \* history: when a caller last wrote or read each stored key

vars == <<cache, breaker, timer, now, lastUse>>

Never == 0              \* expiresAt = null; the clock starts after it

Times == 1..MaxTime

Entry == [expiresAt : Int, lastAccessedAt : Int, version : Nat, isEncrypted : BOOLEAN]

Stored == {k \in Keys : cache[k] # NoEntry}

Expired(k) ==
    /\ k \in Stored
    /\ cache[k].expiresAt # Never
    /\ now > cache[k].expiresAt

\* The Map after its entries for the keys in S are deleted.
Without(S) == [k \in Keys |-> IF k \in S THEN NoEntry ELSE cache[k]]

UnusedSince(S) == [k \in Keys |-> IF k \in S THEN 0 ELSE lastUse[k]]

\* this.cache.delete(k) for every k in S
Drop(S) ==
    /\ cache' = Without(S)
    /\ lastUse' = UnusedSince(S)

Init ==
    /\ cache = [k \in Keys |-> NoEntry]
    /\ breaker = [state |-> "CLOSED", failures |-> 0, openedAt |-> Never]
    /\ timer = TRUE
    /\ now = 1
    /\ lastUse = [k \in Keys |-> 0]
-----------------------------------------------------------------------------
(* The circuit breaker *)

RetryDue == now - breaker.openedAt >= Timeout

\* isCircuitClosed answers true.
CircuitClosed == breaker.state # "OPEN" \/ RetryDue

\* The breaker as isCircuitClosed leaves it when it answers true.
Admitted ==
    IF breaker.state = "OPEN" THEN [breaker EXCEPT !.state = "HALF_OPEN"] ELSE breaker

\* Broken variants: any success forgives the failures; they survive even the trial that
\* closes the breaker.
RecordSuccessForgives(b) == [b EXCEPT !.state = "CLOSED", !.failures = 0]
RecordSuccessKeepsFailures(b) ==
    IF b.state = "HALF_OPEN" THEN [b EXCEPT !.state = "CLOSED"] ELSE b

RecordSuccess(b) ==
    IF b.state = "HALF_OPEN" THEN [b EXCEPT !.state = "CLOSED", !.failures = 0] ELSE b

RecordFailure(b) ==
    IF b.failures + 1 >= Threshold
    THEN [state |-> "OPEN", failures |-> b.failures + 1, openedAt |-> now]
    ELSE [b EXCEPT !.failures = @ + 1]

\* Broken variants: the cleanup half-opens too early, or leaves the breaker alone.
CheckCircuitBreakerEarly ==
    IF breaker.state = "OPEN" THEN [breaker EXCEPT !.state = "HALF_OPEN"] ELSE breaker
CheckCircuitBreakerNever == breaker

CheckCircuitBreaker ==
    IF breaker.state = "OPEN" /\ RetryDue
    THEN [breaker EXCEPT !.state = "HALF_OPEN"]
    ELSE breaker
-----------------------------------------------------------------------------
(* The operations *)

\* The sets evict() may remove: EvictCount entries, none used later than one that
\* stays.  Entries last used in the same instant leave in insertion order, which is
\* not modelled: any of them may go first.
Victims ==
    {V \in SUBSET Stored :
        /\ Cardinality(V) = EvictCount
        /\ \A v \in V, k \in Stored \ V : cache[v].lastAccessedAt <= cache[k].lastAccessedAt}

\* Broken variant: room is made one write too late.
MakeRoomLate == IF Cardinality(Stored) > MaxEntries THEN Victims ELSE {{}}

\* What a set evicts before it writes: it asks for room whenever the Map is full,
\* also when the key it is about to write is already there.
MakeRoom == IF Cardinality(Stored) >= MaxEntries THEN Victims ELSE {{}}

\* Broken variant: "never expires" written with the sentinel of an absent entry.
NewEntryWrongSentinel(ttl, version, encrypt) ==
    [expiresAt |-> IF ttl > 0 THEN now + ttl ELSE NoEntry,
     lastAccessedAt |-> now, version |-> version, isEncrypted |-> encrypt]

NewEntry(ttl, version, encrypt) ==
    [expiresAt |-> IF ttl > 0 THEN now + ttl ELSE Never,
     lastAccessedAt |-> now,
     version |-> version,
     isEncrypted |-> encrypt]

Set(k, ttl, version, encrypt) ==
    /\ CircuitClosed
    /\ \E V \in MakeRoom :
        /\ cache' = [Without(V) EXCEPT ![k] = NewEntry(ttl, version, encrypt)]
        /\ lastUse' = [UnusedSince(V) EXCEPT ![k] = now]
    /\ breaker' = RecordSuccess(Admitted)
    /\ UNCHANGED <<timer, now>>

\* encrypt() throws (a value JSON.stringify turns into undefined, a key of the wrong
\* length) after the room was made: the evicted entries are gone, nothing is written.
SetThrows(k) ==
    /\ CircuitClosed
    /\ \E V \in MakeRoom : Drop(V)
    /\ breaker' = RecordFailure(Admitted)
    /\ UNCHANGED <<timer, now>>

\* get finds nothing, or an entry past its time, which it deletes.
GetMiss(k) ==
    /\ CircuitClosed
    /\ k \notin Stored \/ Expired(k)
    /\ Drop({k})
    /\ breaker' = Admitted
    /\ UNCHANGED <<timer, now>>

\* Broken variant: reads do not refresh the entry.
TouchNothing(k) ==
    /\ lastUse' = [lastUse EXCEPT ![k] = now]
    /\ UNCHANGED <<cache, timer, now>>

\* The use of the entry is noted before it is decrypted.
Touch(k) ==
    /\ cache' = [cache EXCEPT ![k].lastAccessedAt = now]
    /\ lastUse' = [lastUse EXCEPT ![k] = now]
    /\ UNCHANGED <<timer, now>>

GetHit(k) ==
    /\ CircuitClosed
    /\ k \in Stored /\ ~Expired(k)
    /\ Touch(k)
    /\ breaker' = Admitted

\* decrypt() rejects the stored text; the caller is answered null.
GetThrows(k) ==
    /\ CircuitClosed
    /\ k \in Stored /\ ~Expired(k)
    /\ cache[k].isEncrypted
    /\ Touch(k)
    /\ breaker' = RecordFailure(Admitted)

\* exists, delete, deleteByPrefix and invalidateVersion do not consult the breaker.
\* exists only deletes an expired entry; finding a live one is not a use of it.
Exists(k) ==
    /\ Expired(k)
    /\ Drop({k})
    /\ UNCHANGED <<breaker, timer, now>>

Delete(k) ==
    /\ Drop({k})
    /\ UNCHANGED <<breaker, timer, now>>

DeleteByPrefix(P) ==
    /\ Drop(P)
    /\ UNCHANGED <<breaker, timer, now>>

InvalidateVersion(k, version) ==
    /\ k \in Stored
    /\ cache[k].version < version
    /\ Drop({k})
    /\ UNCHANGED <<breaker, timer, now>>

\* Broken variants: the cleanup takes entries in their last instant, or skips entries.
CleanupTooEager ==
    /\ timer
    /\ Drop({k \in Stored : cache[k].expiresAt # Never /\ now >= cache[k].expiresAt})
    /\ breaker' = CheckCircuitBreaker
    /\ UNCHANGED <<timer, now>>
CleanupBreakerOnly ==
    /\ timer
    /\ breaker' = CheckCircuitBreaker
    /\ UNCHANGED <<cache, timer, now, lastUse>>

\* The interval's callback: expired entries go, a breaker whose time is up half-opens.
CleanupExpired ==
    /\ timer
    /\ Drop({k \in Keys : Expired(k)})
    /\ breaker' = CheckCircuitBreaker
    /\ UNCHANGED <<timer, now>>

\* Nest destroys the module; the service can still be called afterwards.
OnModuleDestroy ==
    /\ timer' = FALSE
    /\ Drop(Keys)
    /\ UNCHANGED <<breaker, now>>

Tick ==
    /\ now < MaxTime
    /\ now' = now + 1
    /\ UNCHANGED <<cache, breaker, timer, lastUse>>

Write == \E k \in Keys :
    \/ \E ttl \in Ttls, v \in Versions, encrypt \in BOOLEAN : Set(k, ttl, v, encrypt)
    \/ SetThrows(k)

Read == \E k \in Keys : GetMiss(k) \/ GetHit(k) \/ GetThrows(k) \/ Exists(k)

Remove ==
    \/ \E k \in Keys : Delete(k) \/ \E v \in Versions : InvalidateVersion(k, v)
    \/ \E P \in Prefixes : DeleteByPrefix(P)

Next == Write \/ Read \/ Remove \/ CleanupExpired \/ OnModuleDestroy \/ Tick

\* Time passes, and setInterval keeps calling back while it is scheduled.
Fairness == WF_vars(Tick) /\ WF_vars(CleanupExpired)

Spec == Init /\ [][Next]_vars /\ Fairness
-----------------------------------------------------------------------------
(* Properties *)

\* What is kept of uses and of the breaker's last trip lies no later than now.
NothingAhead ==
    /\ breaker.openedAt <= now
    /\ \A k \in Keys : lastUse[k] <= now
    /\ \A k \in Stored : cache[k].lastAccessedAt <= now

\* Types, and no instant that has not come.
TypeOK ==
    /\ cache \in [Keys -> Entry \cup {NoEntry}]
    /\ breaker \in [state : {"CLOSED", "OPEN", "HALF_OPEN"}, failures : Nat, openedAt : Int]
    /\ timer \in BOOLEAN
    /\ now \in Nat
    /\ lastUse \in [Keys -> Int]
    /\ NothingAhead

\* The Map never outgrows MAX_ENTRIES, whatever mix of writes, failing writes, expiry
\* and deletions led here: evict() always frees a place before set() takes one.
CapacityBound == Cardinality(Stored) <= MaxEntries

\* The breaker is closed exactly while fewer than the threshold of failures are on
\* record, and one that is not closed tripped at some instant that has passed.  So the
\* first failure of a trial trips it again, and a trial that succeeds clears the count.
BreakerCoherent ==
    /\ breaker.state = "CLOSED" <=> breaker.failures < Threshold
    /\ breaker.state # "CLOSED" => breaker.openedAt \in 1..now

\* The breaker inside the cache keeps the promise of a circuit breaker: it refuses for
\* the whole timeout once tripped, whichever of get, set and the cleanup asks it, and
\* failures met while it is closed add up over any time, whatever succeeds in between.
Breaker == INSTANCE CircuitBreaker WITH
    state <- breaker.state, failures <- breaker.failures, openedAt <- breaker.openedAt
BreakerPromise == Breaker!Spec

\* When a write makes room, no entry it drops was used later than one that it leaves
\* alone: reads refresh an entry, so the ones in use survive.
EvictsLeastRecentlyUsed ==
    [][\A v, k \in Stored :
          /\ cache'[v] = NoEntry
          /\ cache'[k] = cache[k]
          /\ lastUse[v] > lastUse[k]
          => ~Write]_vars

\* Neither a read nor the cleanup ever costs an entry whose time has not passed, its
\* last instant included: the three places that test for expiry agree on the boundary.
LiveEntriesStay ==
    [][\A k \in Stored :
          cache'[k] = NoEntry /\ ~Expired(k) => ~CleanupExpired /\ ~Read]_vars

\* While the cleanup interval runs, an expired entry goes even if nobody asks for it.
ExpiredAreRemoved ==
    \A k \in Keys : (timer /\ Expired(k)) ~> ~(timer /\ Expired(k))

\* A refusal period ends without any traffic, because the cleanup looks at the breaker
\* too: the health indicator (healthy unless OPEN) recovers by itself.
RefusalEnds ==
    \A t \in Times :
        LET Refusing == timer /\ breaker.state = "OPEN" /\ breaker.openedAt = t
        IN (t + Timeout <= MaxTime /\ Refusing) ~> ~Refusing
=============================================================================
