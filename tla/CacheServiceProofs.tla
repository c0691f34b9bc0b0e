------------------------- MODULE CacheServiceProofs -------------------------
(***************************************************************************)
(* What CacheService guarantees for every set of keys, every size, and     *)
(* every setting of the breaker.                                           *)
(*                                                                         *)
(* The inductive invariant is IInv: the types, a coherent breaker, a Map   *)
(* within its capacity, and lastAccessedAt agreeing with the history; that *)
(* no use lies ahead of the clock is part of the types.                    *)
(***************************************************************************)
EXTENDS CacheService, FiniteSetTheorems, TLAPS

BreakerType == [state : {"CLOSED", "OPEN", "HALF_OPEN"}, failures : Nat, openedAt : Int]

\* The instant evict() sorts by is the instant of the last use by a caller.
UseRecorded == \A k \in Stored : cache[k].lastAccessedAt = lastUse[k]

-----------------------------------------------------------------------------
(* The operators on the breaker *)

\* isCircuitClosed, recordSuccess, recordFailure and checkCircuitBreaker keep the
\* breaker well typed.
LEMMA BreakerOpsType ==
    ASSUME TypeOK
    PROVE  /\ Admitted \in BreakerType
           /\ CheckCircuitBreaker \in BreakerType
           /\ RecordSuccess(Admitted) \in BreakerType
           /\ RecordFailure(Admitted) \in BreakerType
<1>1. breaker \in BreakerType /\ now \in Int
  BY DEF TypeOK, BreakerType
<1>2. Admitted \in BreakerType /\ CheckCircuitBreaker \in BreakerType
  BY <1>1 DEF Admitted, CheckCircuitBreaker, BreakerType
<1>3. RecordSuccess(Admitted) \in BreakerType
  BY <1>2 DEF RecordSuccess, BreakerType
<1>4. RecordFailure(Admitted) \in BreakerType
  BY <1>1, <1>2 DEF RecordFailure, BreakerType
<1> QED
  BY <1>2, <1>3, <1>4

\* Deleting keys from the Map keeps its type and that of the history.
LEMMA DropType ==
    ASSUME TypeOK, NEW S
    PROVE  /\ Without(S) \in [Keys -> Entry \cup {NoEntry}]
           /\ UnusedSince(S) \in [Keys -> Int]
BY DEF TypeOK, Without, UnusedSince

\* An entry that a write creates is an entry.
LEMMA NewEntryType ==
    ASSUME TypeOK, NEW ttl \in Ttls, NEW v \in Versions, NEW e \in BOOLEAN
    PROVE  NewEntry(ttl, v, e) \in Entry
BY CacheAssumption DEF TypeOK, NewEntry, Entry, Never

-----------------------------------------------------------------------------
(* What the steps do to the breaker, the clock and the Map *)

\* What the service does to the breaker in one step: it leaves it alone, lets a call
\* through without an outcome, with a success or with a failure, or looks at its time.
LEMMA BreakerSteps ==
    ASSUME Next
    PROVE  \/ breaker' = breaker
           \/ /\ CircuitClosed /\ now' = now
              /\ breaker' \in {Admitted, RecordSuccess(Admitted), RecordFailure(Admitted)}
           \/ breaker' = CheckCircuitBreaker /\ now' = now
BY DEF Next, Write, Read, Remove, Set, SetThrows, GetMiss, GetHit, GetThrows, Touch, Exists,
       Delete, DeleteByPrefix, InvalidateVersion, CleanupExpired, OnModuleDestroy, Tick

LEMMA ClockSteps ==
    ASSUME Next
    PROVE  now' = now \/ (Tick /\ breaker' = breaker)
BY DEF Next, Write, Read, Remove, Set, SetThrows, GetMiss, GetHit, GetThrows, Touch, Exists,
       Delete, DeleteByPrefix, InvalidateVersion, CleanupExpired, OnModuleDestroy, Tick

\* What a step does to the Map: it drops keys, refreshes one entry, or writes one after
\* making room.
LEMMA MapSteps ==
    ASSUME Next
    PROVE  \/ \E S : Drop(S) /\ now' = now
           \/ cache' = cache /\ lastUse' = lastUse
           \/ \E k \in Stored : k \in Keys /\ Touch(k)
           \/ \E k \in Keys, ttl \in Ttls, v \in Versions, e \in BOOLEAN : Set(k, ttl, v, e)
<1>1. CASE Write
  <2>1. ASSUME NEW k \in Keys, SetThrows(k)
        PROVE  \E S : Drop(S) /\ now' = now
    BY <2>1 DEF SetThrows
  <2> QED
    BY <1>1, <2>1 DEF Write
<1>2. CASE Read
  <2>1. ASSUME NEW k \in Keys, GetMiss(k) \/ Exists(k)
        PROVE  \E S : Drop(S) /\ now' = now
    BY <2>1 DEF GetMiss, Exists
  <2>2. ASSUME NEW k \in Keys, GetHit(k) \/ GetThrows(k)
        PROVE  k \in Stored /\ Touch(k)
    BY <2>2 DEF GetHit, GetThrows
  <2> QED
    BY <1>2, <2>1, <2>2 DEF Read
<1>3. CASE Remove
  BY <1>3 DEF Remove, Delete, InvalidateVersion, DeleteByPrefix
<1>4. CASE CleanupExpired
  BY <1>4 DEF CleanupExpired
<1>5. CASE OnModuleDestroy
  BY <1>5 DEF OnModuleDestroy
<1>6. CASE Tick
  BY <1>6 DEF Tick
<1> QED
  BY <1>1, <1>2, <1>3, <1>4, <1>5, <1>6 DEF Next

-----------------------------------------------------------------------------
(* Types *)

\* A step notes at most the present instant.
LEMMA AheadStep ==
    ASSUME TypeOK, Next
    PROVE  NothingAhead'
<1>1. now \in Nat /\ now' \in Nat /\ now <= now'
  BY ClockSteps DEF Tick, TypeOK
<1>2. breaker'.openedAt <= now'
  <2>1. breaker.openedAt \in Int /\ breaker.openedAt <= now /\ breaker \in BreakerType
    BY DEF TypeOK, NothingAhead, BreakerType
  <2>2. Admitted.openedAt = breaker.openedAt /\ CheckCircuitBreaker.openedAt = breaker.openedAt
    BY <2>1 DEF Admitted, CheckCircuitBreaker, BreakerType
  <2>3. Admitted \in BreakerType
    BY BreakerOpsType
  <2>4. RecordSuccess(Admitted).openedAt = Admitted.openedAt
    BY <2>3 DEF RecordSuccess, BreakerType
  <2>5. RecordFailure(Admitted).openedAt \in {Admitted.openedAt, now}
    BY <2>3 DEF RecordFailure, BreakerType
  <2>6. breaker'.openedAt \in {breaker.openedAt, now}
    BY <2>2, <2>4, <2>5, BreakerSteps
  <2> QED
    BY <1>1, <2>1, <2>6
<1> DEFINE Past(k) ==
             /\ lastUse'[k] <= now'
             /\ cache'[k] # NoEntry => cache'[k].lastAccessedAt <= now'
<1> SUFFICES ASSUME NEW k \in Keys
             PROVE  Past(k)
  BY <1>2 DEF NothingAhead, Stored
<1>3. /\ lastUse[k] \in Int /\ lastUse[k] <= now' /\ 0 <= now'
      /\ cache[k] # NoEntry => cache[k] \in Entry /\ cache[k].lastAccessedAt <= now'
  BY <1>1 DEF TypeOK, NothingAhead, Stored, Entry
<1>4. ASSUME NEW S, Drop(S)
      PROVE  Past(k)
  BY <1>3, <1>4 DEF Drop, Without, UnusedSince
<1>5. CASE cache' = cache /\ lastUse' = lastUse
  BY <1>3, <1>5
<1>6. ASSUME NEW j \in Stored, j \in Keys, Touch(j)
      PROVE  Past(k)
  <2>1. /\ cache' = [cache EXCEPT ![j] = [cache[j] EXCEPT !.lastAccessedAt = now]]
        /\ lastUse' = [lastUse EXCEPT ![j] = now]
        /\ now' = now
    BY <1>6 DEF Touch
  <2>2. cache[j] \in Entry /\ DOMAIN cache = Keys /\ DOMAIN lastUse = Keys
    BY <1>6 DEF TypeOK, Stored
  <2>3. CASE k = j
    BY <1>1, <2>1, <2>2, <2>3 DEF Entry
  <2>4. CASE k # j
    BY <1>3, <2>1, <2>2, <2>4
  <2> QED
    BY <2>3, <2>4
<1>7. ASSUME NEW j \in Keys, NEW ttl \in Ttls, NEW v \in Versions, NEW e \in BOOLEAN,
             Set(j, ttl, v, e)
      PROVE  Past(k)
  <2>1. PICK V \in MakeRoom :
          /\ cache' = [Without(V) EXCEPT ![j] = NewEntry(ttl, v, e)]
          /\ lastUse' = [UnusedSince(V) EXCEPT ![j] = now]
    BY <1>7 DEF Set
  <2>2. NewEntry(ttl, v, e).lastAccessedAt = now
    BY DEF NewEntry
  <2>3. CASE k = j
    BY <1>1, <2>1, <2>2, <2>3 DEF Without, UnusedSince
  <2>4. CASE k # j
    BY <1>3, <2>1, <2>4 DEF Without, UnusedSince
  <2> QED
    BY <2>3, <2>4
<1> QED
  BY <1>4, <1>5, <1>6, <1>7, MapSteps

\* Typing is preserved by a change of the Map that drops keys or writes one entry.
LEMMA TypeStep ==
    ASSUME TypeOK, Next
    PROVE  TypeOK'
<1> USE DEF BreakerType
<1>0. NothingAhead'
  BY AheadStep
<1>1. ASSUME NEW k \in Keys, NEW ttl \in Ttls, NEW v \in Versions, NEW e \in BOOLEAN,
             Set(k, ttl, v, e)
      PROVE  TypeOK'
  <2>1. PICK V \in MakeRoom :
          /\ cache' = [Without(V) EXCEPT ![k] = NewEntry(ttl, v, e)]
          /\ lastUse' = [UnusedSince(V) EXCEPT ![k] = now]
    BY <1>1 DEF Set
  <2>2. cache' \in [Keys -> Entry \cup {NoEntry}] /\ lastUse' \in [Keys -> Int]
    BY <2>1, DropType, NewEntryType DEF TypeOK
  <2> QED
    BY <1>0, <1>1, <2>2, BreakerOpsType DEF Set, TypeOK
<1>2. ASSUME NEW k \in Keys, SetThrows(k)
      PROVE  TypeOK'
  BY <1>0, <1>2, DropType, BreakerOpsType DEF SetThrows, Drop, TypeOK
<1>3. ASSUME NEW k \in Keys, GetMiss(k)
      PROVE  TypeOK'
  BY <1>0, <1>3, DropType, BreakerOpsType DEF GetMiss, Drop, TypeOK
<1>4. ASSUME NEW k \in Keys, k \in Stored, Touch(k)
      PROVE  cache' \in [Keys -> Entry \cup {NoEntry}] /\ lastUse' \in [Keys -> Int]
  BY <1>4 DEF Touch, TypeOK, Stored, Entry
<1>5. ASSUME NEW k \in Keys, GetHit(k) \/ GetThrows(k)
      PROVE  TypeOK'
  <2>1. cache' \in [Keys -> Entry \cup {NoEntry}] /\ lastUse' \in [Keys -> Int]
    BY <1>4, <1>5 DEF GetHit, GetThrows
  <2> QED
    BY <1>0, <1>5, <2>1, BreakerOpsType DEF GetHit, GetThrows, Touch, TypeOK
<1>6. ASSUME NEW k \in Keys, Exists(k)
      PROVE  TypeOK'
  BY <1>0, <1>6, DropType DEF Exists, Drop, TypeOK
<1>7. CASE Remove
  BY <1>0, <1>7, DropType DEF Remove, Delete, DeleteByPrefix, InvalidateVersion, Drop, TypeOK
<1>8. CASE CleanupExpired
  BY <1>0, <1>8, DropType, BreakerOpsType DEF CleanupExpired, Drop, TypeOK
<1>9. CASE OnModuleDestroy
  BY <1>0, <1>9, DropType DEF OnModuleDestroy, Drop, TypeOK
<1>10. CASE Tick
  BY <1>0, <1>10 DEF Tick, TypeOK
<1> QED
  BY <1>1, <1>2, <1>3, <1>5, <1>6, <1>7, <1>8, <1>9, <1>10 DEF Next, Write, Read

\* The state of the service is always well typed.
THEOREM TypeCorrect == Spec => []TypeOK
<1>1. Init => TypeOK
  BY DEF Init, TypeOK, NothingAhead, Stored, Never
<1>2. TypeOK /\ [Next]_vars => TypeOK'
  BY TypeStep DEF vars, TypeOK, NothingAhead, Stored
<1> QED
  BY <1>1, <1>2, PTL DEF Spec
-----------------------------------------------------------------------------
(* The breaker *)

\* The clock started after the null instant; needed for the breaker to have a past.
BreakerInv == TypeOK /\ BreakerCoherent /\ now >= 1

LEMMA BreakerInvStep ==
    ASSUME BreakerInv, Next
    PROVE  BreakerInv'
<1> USE DEF BreakerInv
<1>1. TypeOK'
  BY TypeStep
<1>2. now' \in Int /\ now' >= now
  BY ClockSteps DEF Tick, TypeOK
<1>3. CASE breaker' = breaker
  BY <1>1, <1>2, <1>3 DEF BreakerCoherent, TypeOK
<1>4. CASE breaker' \in {Admitted, CheckCircuitBreaker} /\ now' = now
  BY <1>1, <1>4 DEF BreakerCoherent, Admitted, CheckCircuitBreaker, TypeOK
<1>5. CASE breaker' = RecordSuccess(Admitted) /\ now' = now
  BY <1>1, <1>5, CacheAssumption DEF BreakerCoherent, Admitted, RecordSuccess, TypeOK
<1>6. CASE breaker' = RecordFailure(Admitted) /\ now' = now
  BY <1>1, <1>6, CacheAssumption DEF BreakerCoherent, Admitted, RecordFailure, TypeOK
<1> QED
  BY <1>3, <1>4, <1>5, <1>6, BreakerSteps

\* BreakerCoherent is inductive once types and a started clock are known.
THEOREM BreakerInvariant == Spec => []BreakerInv
<1>1. Init => BreakerInv
  BY CacheAssumption
     DEF Init, BreakerInv, TypeOK, NothingAhead, Stored, BreakerCoherent, Never
<1>2. BreakerInv /\ [Next]_vars => BreakerInv'
  BY BreakerInvStep DEF vars, BreakerInv, TypeOK, NothingAhead, Stored, BreakerCoherent
<1> QED
  BY <1>1, <1>2, PTL DEF Spec

\* The breaker is closed exactly while fewer than the threshold of failures are on record.
THEOREM BreakerCoherence == Spec => []BreakerCoherent
BY BreakerInvariant, PTL DEF BreakerInv

\* Every step of the cache is a step of the abstract breaker, or none.
LEMMA BreakerSimulation ==
    ASSUME BreakerInv, [Next]_vars
    PROVE  [Breaker!Next]_Breaker!vars
<1> USE DEF BreakerInv, Breaker!vars
<1>1. CASE UNCHANGED vars
  BY <1>1 DEF vars
<1>2. CASE Tick
  BY <1>2 DEF Tick, Breaker!Next, Breaker!Tick, TypeOK
<1>3. CASE breaker' = breaker /\ now' = now
  BY <1>3
<1>4. CASE breaker' = CheckCircuitBreaker /\ now' = now
  BY <1>4 DEF CheckCircuitBreaker, RetryDue, TypeOK, Breaker!Next, Breaker!BeginTrial,
              Breaker!RetryDue
<1>5. CASE CircuitClosed /\ now' = now /\ breaker' = Admitted
  BY <1>5 DEF CircuitClosed, Admitted, RetryDue, TypeOK, Breaker!Next, Breaker!BeginTrial,
              Breaker!RetryDue
<1>6. CASE CircuitClosed /\ now' = now /\ breaker' = RecordSuccess(Admitted)
  BY <1>6 DEF CircuitClosed, Admitted, RecordSuccess, RetryDue, TypeOK, Breaker!Next,
              Breaker!Close, Breaker!LetsThrough, Breaker!RetryDue
<1>7. CASE CircuitClosed /\ now' = now /\ breaker' = RecordFailure(Admitted)
  <2>1. /\ Admitted.failures = breaker.failures /\ breaker.failures \in Nat
        /\ breaker'.failures = breaker.failures + 1 /\ Threshold \in Nat
    BY <1>7, CacheAssumption DEF Admitted, RecordFailure, TypeOK
  <2>2. CASE breaker'.failures >= Threshold
    <3>1. breaker'.state = "OPEN" /\ breaker'.openedAt = now
      BY <1>7, <2>1, <2>2 DEF RecordFailure
    <3> QED
      BY <1>7, <2>1, <2>2, <3>1 DEF CircuitClosed, RetryDue, Breaker!Next, Breaker!Trip,
                                    Breaker!LetsThrough, Breaker!RetryDue
  <2>3. CASE breaker'.failures < Threshold
    <3>1. breaker.state = "CLOSED"
      BY <2>1, <2>3 DEF BreakerCoherent
    <3>2. breaker'.state = breaker.state /\ breaker'.openedAt = breaker.openedAt
      BY <1>7, <2>1, <2>3, <3>1 DEF RecordFailure, Admitted, TypeOK
    <3> QED
      BY <1>7, <2>1, <2>3, <3>1, <3>2 DEF Breaker!Next, Breaker!Fail
  <2> QED
    BY <2>1, <2>2, <2>3
<1> QED
  BY <1>1, <1>2, <1>3, <1>4, <1>5, <1>6, <1>7, BreakerSteps, ClockSteps

\* The cache implements the abstract circuit breaker.
THEOREM BreakerRefinement == Spec => BreakerPromise
<1>1. Init => Breaker!Init
  BY DEF Init, Breaker!Init, Never
<1>2. BreakerInv /\ [Next]_vars => [Breaker!Next]_Breaker!vars
  BY BreakerSimulation
<1> QED
  BY <1>1, <1>2, BreakerInvariant, PTL DEF Spec, BreakerPromise, Breaker!Spec
-----------------------------------------------------------------------------
(* Capacity and eviction *)

\* Room is made for a write: whatever evict() removes, one more entry still fits.
LEMMA RoomForOneMore ==
    ASSUME IsFiniteSet(Stored), CapacityBound, NEW V \in MakeRoom
    PROVE  /\ V \subseteq Stored
           /\ IsFiniteSet(Stored \ V)
           /\ Cardinality(Stored \ V) < MaxEntries
<1>1. Cardinality(Stored) \in Nat
  BY FS_CardinalityType
<1>2. CASE Cardinality(Stored) >= MaxEntries
  <2>1. V \in SUBSET Stored /\ Cardinality(V) = EvictCount
    BY <1>2 DEF MakeRoom, Victims
  <2>2. IsFiniteSet(V) /\ V \cap Stored = V
    BY <2>1, FS_Subset
  <2>3. /\ IsFiniteSet(Stored \ V)
        /\ Cardinality(Stored \ V) = Cardinality(Stored) - Cardinality(Stored \cap V)
    BY <2>2, FS_Difference
  <2>4. Cardinality(Stored \ V) = Cardinality(Stored) - EvictCount
    BY <2>1, <2>2, <2>3
  <2>5. EvictCount \in Nat /\ EvictCount >= 1 /\ MaxEntries \in Nat
    BY CacheAssumption
  <2>6. Cardinality(Stored \ V) < MaxEntries
    BY <1>1, <2>4, <2>5 DEF CapacityBound
  <2> QED
    BY <2>1, <2>3, <2>6
<1>3. CASE ~(Cardinality(Stored) >= MaxEntries)
  <2>1. V = {} /\ Stored \ V = Stored
    BY <1>3 DEF MakeRoom
  <2> QED
    BY <1>1, <1>3, <2>1, CacheAssumption
<1> QED
  BY <1>2, <1>3

\* The inductive invariant of the Map.
IInv ==
    /\ TypeOK
    /\ IsFiniteSet(Stored)
    /\ CapacityBound
    /\ UseRecorded
    /\ now >= 1

LEMMA StoredShrinks ==
    ASSUME IsFiniteSet(Stored), CapacityBound, Stored' \subseteq Stored
    PROVE  IsFiniteSet(Stored)' /\ CapacityBound'
<1>1. IsFiniteSet(Stored') /\ Cardinality(Stored') <= Cardinality(Stored)
  BY FS_Subset
<1>2. Cardinality(Stored) \in Nat /\ Cardinality(Stored') \in Nat
  BY <1>1, FS_CardinalityType
<1> QED
  BY <1>1, <1>2, CacheAssumption DEF CapacityBound

LEMMA IInvStep ==
    ASSUME IInv, Next
    PROVE  IInv'
<1> USE DEF IInv
<1>1. TypeOK'
  BY TypeStep
<1>2. now' \in Int /\ now' >= now /\ now' >= 1
  BY ClockSteps DEF Tick, TypeOK
<1>3. ASSUME NEW S, Drop(S), now' = now
      PROVE  IInv'
  <2>1. Stored' = Stored \ S /\ \A k \in Stored' : cache'[k] = cache[k] /\ lastUse'[k] = lastUse[k]
    BY <1>3 DEF Drop, Without, UnusedSince, Stored
  <2>2. UseRecorded'
    BY <2>1 DEF UseRecorded
  <2> QED
    BY <1>1, <1>2, <2>1, <2>2, StoredShrinks
<1>4. CASE cache' = cache /\ lastUse' = lastUse
  <2>1. Stored' = Stored /\ UseRecorded'
    BY <1>4 DEF Stored, UseRecorded
  <2> QED
    BY <1>1, <1>2, <2>1, StoredShrinks
<1>5. ASSUME NEW k \in Stored, k \in Keys, Touch(k)
      PROVE  IInv'
  <2>1. cache[k] \in Entry
    BY <1>5 DEF TypeOK, Stored
  <2>2. /\ cache' = [cache EXCEPT ![k] = [cache[k] EXCEPT !.lastAccessedAt = now]]
        /\ lastUse' = [lastUse EXCEPT ![k] = now]
        /\ now' = now
    BY <1>5 DEF Touch
  <2>3. cache'[k] \in Entry /\ cache'[k].lastAccessedAt = now
    BY <1>5, <2>1, <2>2 DEF Entry, TypeOK
  <2>4. Stored' = Stored
    <3>1. cache'[k] # NoEntry
      BY <2>3, CacheAssumption DEF Entry
    <3>2. \A j \in Keys \ {k} : cache'[j] = cache[j]
      BY <2>2 DEF TypeOK
    <3> QED
      BY <1>5, <3>1, <3>2 DEF Stored
  <2>5. UseRecorded'
    BY <1>5, <2>2, <2>3, <2>4 DEF UseRecorded, TypeOK, Stored
  <2> QED
    BY <1>1, <1>2, <2>4, <2>5, StoredShrinks
<1>6. ASSUME NEW k \in Keys, NEW ttl \in Ttls, NEW v \in Versions, NEW e \in BOOLEAN,
             Set(k, ttl, v, e)
      PROVE  IInv'
  <2>1. PICK V \in MakeRoom :
          /\ cache' = [Without(V) EXCEPT ![k] = NewEntry(ttl, v, e)]
          /\ lastUse' = [UnusedSince(V) EXCEPT ![k] = now]
    BY <1>6 DEF Set
  <2>3. Stored' \subseteq (Stored \ V) \cup {k}
    BY <2>1 DEF Without, Stored
  <2>4. /\ IsFiniteSet((Stored \ V) \cup {k})
        /\ Cardinality((Stored \ V) \cup {k}) <= MaxEntries
    <3>1. IsFiniteSet(Stored \ V) /\ Cardinality(Stored \ V) < MaxEntries
      BY RoomForOneMore
    <3>2. Cardinality(Stored \ V) \in Nat
      BY <3>1, FS_CardinalityType
    <3>3. /\ IsFiniteSet((Stored \ V) \cup {k})
          /\ Cardinality((Stored \ V) \cup {k}) =
                IF k \in Stored \ V THEN Cardinality(Stored \ V) ELSE Cardinality(Stored \ V) + 1
      BY <3>1, FS_AddElement
    <3>4. MaxEntries \in Nat
      BY CacheAssumption
    <3> QED
      BY <3>1, <3>2, <3>3, <3>4
  <2>5. IsFiniteSet(Stored)' /\ CapacityBound'
    <3>1. IsFiniteSet(Stored') /\ Cardinality(Stored') <= Cardinality((Stored \ V) \cup {k})
      BY <2>3, <2>4, FS_Subset
    <3>2. Cardinality(Stored') \in Nat /\ Cardinality((Stored \ V) \cup {k}) \in Nat
      BY <2>4, <3>1, FS_CardinalityType
    <3> QED
      BY <2>4, <3>1, <3>2, CacheAssumption DEF CapacityBound
  <2>6. UseRecorded'
    <3>1. cache'[k].lastAccessedAt = now /\ lastUse'[k] = now
      BY <2>1 DEF Without, UnusedSince, NewEntry
    <3>2. \A j \in Keys \ {k} : cache'[j] # NoEntry =>
              j \in Stored /\ cache'[j] = cache[j] /\ lastUse'[j] = lastUse[j]
      BY <2>1 DEF Without, UnusedSince, Stored
    <3> QED
      BY <3>1, <3>2 DEF UseRecorded, Stored
  <2> QED
    BY <1>1, <1>2, <2>5, <2>6
<1> QED
  BY <1>3, <1>4, <1>5, <1>6, MapSteps

THEOREM MapInvariant == Spec => []IInv
<1>1. Init => IInv
  <2> SUFFICES ASSUME Init PROVE IInv
    OBVIOUS
  <2>1. Stored = {}
    BY DEF Init, Stored
  <2>2. IsFiniteSet(Stored) /\ CapacityBound
    BY <2>1, FS_EmptySet, CacheAssumption DEF CapacityBound
  <2> QED
    BY <2>1, <2>2 DEF Init, IInv, TypeOK, NothingAhead, UseRecorded, Never
<1>2. IInv /\ [Next]_vars => IInv'
  <2>1. IInv /\ UNCHANGED vars => IInv'
    BY DEF vars, IInv, TypeOK, NothingAhead, Stored, CapacityBound, UseRecorded
  <2> QED
    BY <2>1, IInvStep
<1> QED
  BY <1>1, <1>2, PTL DEF Spec

\* The Map never outgrows MAX_ENTRIES.
THEOREM Capacity == Spec => []CapacityBound
BY MapInvariant, PTL DEF IInv

\* Making room for a write drops no entry used later than one it leaves alone.
THEOREM LeastRecentlyUsed == Spec => EvictsLeastRecentlyUsed
<1>1. ASSUME IInv, NEW v \in Stored, NEW k \in Stored,
             cache'[v] = NoEntry, cache'[k] = cache[k], Write
      PROVE  lastUse[v] <= lastUse[k]
  <2> USE DEF IInv
  <2>0. v \in Keys /\ k \in Keys /\ lastUse[v] \in Int /\ lastUse[k] \in Int /\ now \in Int
    BY <1>1 DEF Stored, TypeOK
  <2>1. ASSUME NEW V \in MakeRoom, v \in V, k \notin V
        PROVE  lastUse[v] <= lastUse[k]
    BY <1>1, <2>1 DEF MakeRoom, Victims, UseRecorded
  <2>2. ASSUME NEW j \in Keys, SetThrows(j)
        PROVE  lastUse[v] <= lastUse[k]
    BY <1>1, <2>0, <2>1, <2>2 DEF SetThrows, Drop, Without, Stored
  <2>3. ASSUME NEW j \in Keys, NEW ttl \in Ttls, NEW n \in Versions, NEW e \in BOOLEAN,
               Set(j, ttl, n, e)
        PROVE  lastUse[v] <= lastUse[k]
    <3>1. PICK V \in MakeRoom : cache' = [Without(V) EXCEPT ![j] = NewEntry(ttl, n, e)]
      BY <2>3 DEF Set
    <3>2. NewEntry(ttl, n, e) # NoEntry
      BY <1>1, NewEntryType, CacheAssumption DEF Entry
    <3>3. v \in V /\ v # j
      BY <1>1, <2>0, <3>1, <3>2 DEF Without, Stored
    <3>4. CASE k = j
      <4>1. cache[k].lastAccessedAt = now
        BY <1>1, <2>0, <3>1, <3>4 DEF Without, NewEntry
      <4> QED
        BY <1>1, <2>0, <4>1 DEF UseRecorded, TypeOK, NothingAhead
    <3>5. CASE k # j
      BY <1>1, <2>0, <2>1, <3>1, <3>3, <3>5 DEF Without, Stored
    <3> QED
      BY <3>4, <3>5
  <2> QED
    BY <1>1, <2>2, <2>3 DEF Write
<1>2. IInv /\ [Next]_vars =>
        [\A v, k \in Stored :
            /\ cache'[v] = NoEntry
            /\ cache'[k] = cache[k]
            /\ lastUse[v] > lastUse[k]
            => ~Write]_vars
  <2> SUFFICES ASSUME IInv, NEW v \in Stored, NEW k \in Stored, cache'[v] = NoEntry,
                      cache'[k] = cache[k], lastUse[v] > lastUse[k], Write
               PROVE  FALSE
    OBVIOUS
  <2>1. lastUse[v] \in Int /\ lastUse[k] \in Int
    BY DEF IInv, TypeOK, Stored
  <2> QED
    BY <1>1, <2>1
<1> QED
  BY <1>2, MapInvariant, PTL DEF Spec, EvictsLeastRecentlyUsed

\* Reads and the cleanup take nothing whose time has not passed.
THEOREM ReadsSpareTheLive == Spec => LiveEntriesStay
<1>1. ASSUME IInv, NEW k \in Stored, cache'[k] = NoEntry, CleanupExpired \/ Read
      PROVE  Expired(k)
  <2>0. k \in Keys /\ cache[k] \in Entry /\ cache[k] # NoEntry
    BY <1>1 DEF Stored, IInv, TypeOK
  <2>1. CASE CleanupExpired
    BY <1>1, <2>0, <2>1 DEF CleanupExpired, Drop, Without
  <2>2. ASSUME NEW j \in Keys, GetMiss(j) \/ Exists(j)
        PROVE  Expired(k)
    <3>1. Drop({j}) /\ (j \notin Stored \/ Expired(j))
      BY <2>2 DEF GetMiss, Exists
    <3>2. k = j
      BY <1>1, <2>0, <3>1 DEF Drop, Without
    <3> QED
      BY <1>1, <3>1, <3>2
  <2>3. ASSUME NEW j \in Keys, GetHit(j) \/ GetThrows(j)
        PROVE  FALSE
    <3>1. j \in Stored /\ Touch(j)
      BY <2>3 DEF GetHit, GetThrows
    <3>2. cache' = [cache EXCEPT ![j].lastAccessedAt = now] /\ DOMAIN cache = Keys
      BY <1>1, <3>1 DEF Touch, IInv, TypeOK
    <3>3. cache'[k] \in Entry
      BY <1>1, <2>0, <3>2 DEF Entry, IInv, TypeOK
    <3> QED
      BY <1>1, <3>3, CacheAssumption DEF Entry
  <2> QED
    BY <1>1, <2>1, <2>2, <2>3 DEF Read
<1>2. IInv /\ [Next]_vars =>
        [\A k \in Stored :
            cache'[k] = NoEntry /\ ~Expired(k) => ~CleanupExpired /\ ~Read]_vars
  BY <1>1
<1> QED
  BY <1>2, MapInvariant, PTL DEF Spec, LiveEntriesStay
=============================================================================
