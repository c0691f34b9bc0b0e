--------------------------- MODULE WebhooksProofs ---------------------------
(***************************************************************************)
(* What the deduplication of webhooks guarantees for any number of events, *)
(* deliveries and restarts, and for every size of the cache.               *)
(*                                                                         *)
(* The inductive invariant is Marks: a mark in the cache belongs to an     *)
(* event that was processed, and an event that was processed has its mark  *)
(* as long as nothing but time takes it away.                              *)
(*                                                                         *)
(* What CacheServiceProofs shows of the cache is carried over to the marks *)
(* step by step: a restart is the only step that the cache does not know.  *)
(***************************************************************************)
EXTENDS Webhooks, FiniteSetTheorems, TLAPS

\* Enough of the types for the steps below.
Shape ==
    /\ cache \in [Events -> Cache!Entry \cup {NoEntry}]
    /\ now \in Nat \ {0}
    /\ doneAt \in [Events -> Nat]
    /\ pc \in [Deliveries -> {"idle", "new", "dropped"} \cup Answers]

\* A mark is proof of processing: whatever sits in the cache was put there afterwards.
MarksAreEarned == \A e \in Events : cache[e] # NoEntry => doneAt[e] # 0

\* A processed event keeps its mark for MarkTtl, unless it was evicted or lost.
MarksLast ==
    \A e \in Events : doneAt[e] # 0 /\ e \notin forgotten =>
        \/ cache[e] # NoEntry /\ cache[e].expiresAt = doneAt[e] + MarkTtl
        \/ now > doneAt[e] + MarkTtl

Marks == Shape /\ MarksAreEarned /\ MarksLast /\ DuplicateAnswerIsTrue

LEMMA DeliveryEvent ==
    ASSUME NEW d \in Deliveries
    PROVE  EventOf(d) \in Events
BY DEF Deliveries, EventOf

\* Writing a mark evicts some marks, leaves the others as they are, and writes one.
LEMMA MarkEffect ==
    ASSUME Shape, NEW e \in Events, Mark(e)
    PROVE  /\ cache' \in [Events -> Cache!Entry \cup {NoEntry}]
           /\ cache'[e] # NoEntry
           /\ cache'[e].expiresAt = now + MarkTtl
           /\ \A x \in Events \ {e} : cache'[x] \in {cache[x], NoEntry}
           /\ \A x \in Events \ {e} : cache'[x] # cache[x] => x \in forgotten'
           /\ forgotten \ {e} \subseteq forgotten'
           /\ now' = now
<1> DEFINE entry == Cache!NewEntry(MarkTtl, 1, FALSE)
<1>1. PICK V \in Cache!MakeRoom : cache' = [Cache!Without(V) EXCEPT ![e] = entry]
  BY DEF Mark, Cache!Set
<1>2. entry \in Cache!Entry /\ entry # NoEntry /\ entry.expiresAt = now + MarkTtl
  <2>1. MarkTtl \in Nat /\ MarkTtl > 0 /\ now \in Nat
    BY WebhookAssumption DEF Shape
  <2>2. now + MarkTtl \in Int /\ now \in Int /\ 1 \in Nat /\ FALSE \in BOOLEAN
    BY <2>1
  <2>3. [expiresAt |-> now + MarkTtl, lastAccessedAt |-> now, version |-> 1,
         isEncrypted |-> FALSE] \in Cache!Entry
    BY ONLY <2>2 DEF Cache!Entry
  <2>4. entry \in Cache!Entry /\ entry.expiresAt = now + MarkTtl
    BY <2>1, <2>3 DEF Cache!NewEntry
  <2>5. NoEntry \notin Cache!Entry
    BY MarksAssumption DEF Cache!Entry, Cache!CacheAssumption
  <2> QED
    BY <2>4, <2>5
<1>3. cache' \in [Events -> Cache!Entry \cup {NoEntry}] /\ cache'[e] = entry
  BY <1>1, <1>2 DEF Shape, Cache!Without
<1>4. \A x \in Events \ {e} : cache'[x] \in {cache[x], NoEntry}
  BY <1>1 DEF Cache!Without
<1>5. forgotten' = (forgotten \cup {x \in Cache!Stored : cache'[x] = NoEntry}) \ {e}
  BY DEF Mark
<1>6. \A x \in Events \ {e} : cache'[x] # cache[x] => x \in forgotten'
  BY <1>4, <1>5 DEF Cache!Stored
<1>7. now' = now
  BY DEF Mark, Cache!Set
<1> QED
  BY <1>2, <1>3, <1>4, <1>5, <1>6, <1>7

\* Steps that only let expired marks go keep both halves of the invariant.
LEMMA OnlyExpiredGo ==
    ASSUME Marks,
           cache' \in [Events -> Cache!Entry \cup {NoEntry}],
           \A x \in Events : cache'[x] # cache[x] => cache'[x] = NoEntry /\ Cache!Expired(x),
           now' \in Nat, now' >= now, doneAt' = doneAt, forgotten' = forgotten
    PROVE  MarksAreEarned' /\ MarksLast'
<1>1. MarksAreEarned'
  BY DEF Marks, MarksAreEarned
<1>2. ASSUME NEW x \in Events, doneAt[x] # 0, x \notin forgotten
      PROVE  \/ cache'[x] # NoEntry /\ cache'[x].expiresAt = doneAt[x] + MarkTtl
             \/ now' > doneAt[x] + MarkTtl
  <2>1. doneAt[x] + MarkTtl \in Nat /\ now \in Nat
    BY WebhookAssumption DEF Marks, Shape
  <2>2. CASE now > doneAt[x] + MarkTtl
    BY <2>1, <2>2
  <2>3. CASE cache[x] # NoEntry /\ cache[x].expiresAt = doneAt[x] + MarkTtl
    <3>1. cache'[x] # cache[x] => now > cache[x].expiresAt
      BY DEF Cache!Expired
    <3> QED
      BY <2>1, <2>3, <3>1
  <2> QED
    BY <1>2, <2>2, <2>3 DEF Marks, MarksLast
<1>3. MarksLast'
  BY <1>2 DEF MarksLast
<1> QED
  BY <1>1, <1>3

LEMMA ReceiveStep ==
    ASSUME Marks, NEW d \in Deliveries, Receive(d)
    PROVE  Marks'
<1> DEFINE e == EventOf(d)
<1>1. e \in Events
  BY DeliveryEvent
<1>2. now' = now /\ doneAt' = doneAt /\ forgotten' = forgotten
  BY DEF Receive, LookUp, cacheVars, Cache!Exists
<1>3. cache' \in [Events -> Cache!Entry \cup {NoEntry}]
  BY DEF Receive, LookUp, cacheVars, Cache!Exists, Cache!Drop, Cache!Without, Marks, Shape
<1>4. \A x \in Events : cache'[x] # cache[x] => cache'[x] = NoEntry /\ Cache!Expired(x)
  BY DEF Receive, LookUp, cacheVars, Cache!Exists, Cache!Drop, Cache!Without, Marks, Shape
<1>5. MarksAreEarned' /\ MarksLast'
  BY <1>2, <1>3, <1>4, OnlyExpiredGo DEF Marks, Shape
<1>6. Shape'
  BY <1>2, <1>3 DEF Marks, Shape, Receive, Answers
<1>7. DuplicateAnswerIsTrue'
  <2> SUFFICES ASSUME NEW f \in Deliveries, pc'[f] = "duplicate"
               PROVE  doneAt[EventOf(f)] # 0
    BY <1>2 DEF DuplicateAnswerIsTrue
  <2>1. CASE f = d
    <3>1. Marked(e)
      BY <2>1 DEF Receive, Marks, Shape
    <3> QED
      BY <1>1, <2>1, <3>1 DEF Marked, Cache!Stored, Marks, MarksAreEarned
  <2>2. CASE f # d
    BY <2>2 DEF Receive, Marks, Shape, DuplicateAnswerIsTrue
  <2> QED
    BY <2>1, <2>2
<1> QED
  BY <1>5, <1>6, <1>7 DEF Marks

LEMMA ProcessedStep ==
    ASSUME Marks, NEW d \in Deliveries, Processed(d)
    PROVE  Marks'
<1> DEFINE e == EventOf(d)
<1>1. e \in Events
  BY DeliveryEvent
<1>2. Mark(e) /\ doneAt' = [doneAt EXCEPT ![e] = now] /\ pc' = [pc EXCEPT ![d] = "processed"]
  BY DEF Processed
<1>3. /\ cache' \in [Events -> Cache!Entry \cup {NoEntry}]
      /\ cache'[e] # NoEntry
      /\ cache'[e].expiresAt = now + MarkTtl
      /\ \A x \in Events \ {e} : cache'[x] \in {cache[x], NoEntry}
      /\ \A x \in Events \ {e} : cache'[x] # cache[x] => x \in forgotten'
      /\ forgotten \ {e} \subseteq forgotten'
      /\ now' = now
  BY <1>1, <1>2, MarkEffect DEF Marks
<1>4. Shape'
  BY <1>1, <1>2, <1>3 DEF Marks, Shape, Answers
<1>5. doneAt'[e] = now /\ now # 0 /\ \A x \in Events \ {e} : doneAt'[x] = doneAt[x]
  BY <1>1, <1>2 DEF Marks, Shape
<1>6. MarksAreEarned'
  BY <1>3, <1>5 DEF Marks, MarksAreEarned
<1>7. MarksLast'
  BY <1>1, <1>3, <1>5 DEF Marks, MarksLast
<1>8. DuplicateAnswerIsTrue'
  BY <1>2, <1>5, DeliveryEvent DEF Marks, Shape, DuplicateAnswerIsTrue
<1> QED
  BY <1>4, <1>6, <1>7, <1>8 DEF Marks

LEMMA RestartStep ==
    ASSUME Marks, Restart
    PROVE  Marks'
<1>1. Shape'
  BY DEF Restart, Marks, Shape, Answers
<1>2. MarksAreEarned' /\ MarksLast'
  BY DEF Restart, Marks, MarksAreEarned, MarksLast
<1>3. DuplicateAnswerIsTrue'
  BY DEF Restart, Marks, Shape, DuplicateAnswerIsTrue
<1> QED
  BY <1>1, <1>2, <1>3 DEF Marks

LEMMA HousekeepingStep ==
    ASSUME Marks, Housekeeping
    PROVE  Marks'
<1>1. pc' = pc /\ doneAt' = doneAt /\ forgotten' = forgotten
  BY DEF Housekeeping
<1>2. now' \in Nat \ {0} /\ now' >= now
  BY DEF Housekeeping, Cache!CleanupExpired, Cache!Tick, Marks, Shape
<1>3. cache' \in [Events -> Cache!Entry \cup {NoEntry}]
  BY DEF Housekeeping, Cache!CleanupExpired, Cache!Tick, Cache!Drop, Cache!Without, Marks, Shape
<1>4. \A x \in Events : cache'[x] # cache[x] => cache'[x] = NoEntry /\ Cache!Expired(x)
  BY DEF Housekeeping, Cache!CleanupExpired, Cache!Tick, Cache!Drop, Cache!Without
<1>5. MarksAreEarned' /\ MarksLast'
  BY <1>1, <1>2, <1>3, <1>4, OnlyExpiredGo
<1> QED
  BY <1>1, <1>2, <1>3, <1>5 DEF Marks, Shape, DuplicateAnswerIsTrue

\* Every step keeps the invariant.
LEMMA MarksStep ==
    ASSUME Marks, [Next]_vars
    PROVE  Marks'
<1>1. ASSUME NEW d \in Deliveries, Receive(d)
      PROVE  Marks'
  BY <1>1, ReceiveStep
<1>2. ASSUME NEW d \in Deliveries, ProcessAutopost(d) \/ ProcessWebhook(d), ~WebhookFails(d)
      PROVE  Marks'
  BY <1>2, ProcessedStep DEF ProcessAutopost, ProcessWebhook
<1>3. ASSUME NEW d \in Deliveries, WebhookFails(d)
      PROVE  Marks'
  <2>1. UNCHANGED <<cache, now, doneAt, forgotten>>
    BY <1>3 DEF WebhookFails, cacheVars
  <2>2. Shape'
    BY <1>3, <2>1 DEF WebhookFails, Marks, Shape, Answers
  <2>3. MarksAreEarned' /\ MarksLast'
    BY <2>1 DEF Marks, MarksAreEarned, MarksLast
  <2>4. DuplicateAnswerIsTrue'
    BY <1>3, <2>1 DEF WebhookFails, Marks, Shape, DuplicateAnswerIsTrue
  <2> QED
    BY <2>2, <2>3, <2>4 DEF Marks
<1>4. CASE Restart
  BY <1>4, RestartStep
<1>5. CASE Housekeeping
  BY <1>5, HousekeepingStep
<1>6. CASE UNCHANGED vars
  BY <1>6 DEF vars, Marks, Shape, MarksAreEarned, MarksLast, DuplicateAnswerIsTrue
<1> QED
  BY <1>1, <1>2, <1>3, <1>4, <1>5, <1>6 DEF Next

LEMMA MarksInit == Init => Marks
BY DEF Init, Cache!Init, Marks, Shape, MarksAreEarned, MarksLast, DuplicateAnswerIsTrue

LEMMA MarksAlways == Spec => []Marks
BY MarksInit, MarksStep, PTL DEF Spec

\* "Already processed" is the truth, for any number of events, deliveries and restarts and
\* any cache size.
THEOREM DuplicatesAreTrue == Spec => []DuplicateAnswerIsTrue
<1>1. Marks => DuplicateAnswerIsTrue
  BY DEF Marks
<1> QED
  BY <1>1, MarksAlways, PTL

\* A processed event is recognised until its time is up, unless its mark was evicted or
\* lost with the process.
THEOREM RecognisedUntilForgotten == Spec => RecognisedWhileMarkLives
<1> DEFINE A == \A d \in Deliveries :
          LET e == EventOf(d)
          IN (pc[d] = "idle" /\ pc'[d] = "new" /\ doneAt[e] # 0 /\ e \notin forgotten)
                => now - doneAt[e] > MarkTtl
<1>1. ASSUME Marks, [Next]_vars PROVE [A]_vars
  <2> SUFFICES ASSUME Next, NEW d \in Deliveries, pc[d] = "idle", pc'[d] = "new",
                      doneAt[EventOf(d)] # 0, EventOf(d) \notin forgotten
               PROVE  now - doneAt[EventOf(d)] > MarkTtl
    BY <1>1
  <2> DEFINE e == EventOf(d)
  <2>1. e \in Events
    BY DeliveryEvent
  <2>2. PICK f \in Deliveries : Receive(f)
    BY <1>1 DEF Next, ProcessAutopost, ProcessWebhook, Processed, WebhookFails, Restart,
                Housekeeping, Marks, Shape
  <2>3. f = d
    BY <1>1, <2>2 DEF Receive, Marks, Shape
  <2>4. ~Marked(e)
    BY <1>1, <2>2, <2>3 DEF Receive, Marks, Shape
  <2>5. doneAt[e] \in Nat /\ now \in Nat /\ MarkTtl \in Nat
    BY <1>1, <2>1, WebhookAssumption DEF Marks, Shape
  <2>6. CASE now > doneAt[e] + MarkTtl
    BY <2>5, <2>6
  <2>7. CASE cache[e] # NoEntry /\ cache[e].expiresAt = doneAt[e] + MarkTtl
    BY <2>1, <2>4, <2>5, <2>7 DEF Marked, Cache!Stored, Cache!Expired
  <2> QED
    BY <1>1, <2>1, <2>6, <2>7 DEF Marks, MarksLast
<1> QED
  BY <1>1, MarksAlways, PTL DEF Spec, RecognisedWhileMarkLives

-----------------------------------------------------------------------------
(* The endpoints as a receiver *)

\* The events with a live mark.
Known == {e \in Events : Marked(e)}

\* A step that changes nothing but marks that had expired changes nothing that is known.
LEMMA KnownStays ==
    ASSUME now' = now,
           \A x \in Events : cache'[x] # cache[x] => cache'[x] = NoEntry /\ Cache!Expired(x)
    PROVE  Known' = Known
<1>1. ASSUME NEW x \in Events
      PROVE  Marked(x)' <=> Marked(x)
  BY DEF Marked, Cache!Stored, Cache!Expired, Cache!Never
<1> QED
  BY <1>1 DEF Known

\* Time and cleanups only make the receiver forget.
LEMMA KnownShrinks ==
    ASSUME Marks, Housekeeping
    PROVE  Known' \subseteq Known
<1>1. CASE Cache!CleanupExpired
  <2>1. now' = now
    BY <1>1 DEF Cache!CleanupExpired
  <2>2. \A x \in Events : cache'[x] # cache[x] => cache'[x] = NoEntry /\ Cache!Expired(x)
    BY <1>1 DEF Cache!CleanupExpired, Cache!Drop, Cache!Without
  <2> QED
    BY <2>1, <2>2, KnownStays
<1>2. CASE Cache!Tick
  <2>1. cache' = cache /\ now' = now + 1 /\ now \in Nat
    BY <1>2 DEF Cache!Tick, Marks, Shape
  <2>2. ASSUME NEW x \in Events, cache[x] # NoEntry
        PROVE  cache[x].expiresAt \in Int
    BY <2>2 DEF Marks, Shape, Cache!Entry
  <2>3. ASSUME NEW x \in Events, Marked(x)'
        PROVE  Marked(x)
    BY <2>1, <2>2, <2>3 DEF Marked, Cache!Stored, Cache!Expired, Cache!Never
  <2> QED
    BY <2>3 DEF Known
<1> QED
  BY <1>1, <1>2 DEF Housekeeping

\* A processed event is known, and no other has become so.
LEMMA KnownGrows ==
    ASSUME Marks, NEW d \in Deliveries, Processed(d)
    PROVE  EventOf(d) \in Known' /\ Known' \subseteq Known \cup {EventOf(d)}
<1> DEFINE e == EventOf(d)
<1>1. e \in Events /\ Mark(e)
  BY DeliveryEvent DEF Processed
<1>2. /\ cache'[e] # NoEntry
      /\ cache'[e].expiresAt = now + MarkTtl
      /\ \A x \in Events \ {e} : cache'[x] \in {cache[x], NoEntry}
      /\ now' = now
  BY <1>1, MarkEffect DEF Marks
<1>3. now \in Nat /\ MarkTtl \in Nat /\ MarkTtl > 0
  BY WebhookAssumption DEF Marks, Shape
<1>4. Marked(e)'
  BY <1>1, <1>2, <1>3 DEF Marked, Cache!Stored, Cache!Expired
<1>5. ASSUME NEW x \in Events \ {e}, Marked(x)'
      PROVE  Marked(x)
  BY <1>2, <1>5 DEF Marked, Cache!Stored, Cache!Expired, Cache!Never
<1> QED
  BY <1>1, <1>4, <1>5 DEF Known

\* Every step is a step of the receiver or changes nothing in it.
LEMMA InboxStep ==
    ASSUME Marks, [Next]_vars
    PROVE  [Inbox!Next]_(Inbox!vars)
<1> DEFINE Step == (\E d \in Deliveries : Inbox!Accept(d) \/ Inbox!Recognise(d)
                        \/ Inbox!Process(d) \/ Inbox!Fail(d)) \/ Inbox!Forget \/ Inbox!Crash
<1>0. Known = {e \in Events : Marked(e)}
  BY DEF Known
<1>1. ASSUME NEW d \in Deliveries, Receive(d)
      PROVE  Step
  <2>1. EventOf(d) = Inbox!EventOf(d) /\ EventOf(d) \in Events
    BY DeliveryEvent DEF EventOf, Inbox!EventOf
  <2>2. now' = now
    BY <1>1 DEF Receive, LookUp, cacheVars, Cache!Exists
  <2>3. \A x \in Events : cache'[x] # cache[x] => cache'[x] = NoEntry /\ Cache!Expired(x)
    BY <1>1 DEF Receive, LookUp, cacheVars, Cache!Exists, Cache!Drop, Cache!Without, Marks, Shape
  <2>4. Known' = Known
    BY <2>2, <2>3, KnownStays
  <2>5. pc[d] = "idle"
        /\ pc' = [pc EXCEPT ![d] = IF Marked(EventOf(d)) THEN "duplicate" ELSE "new"]
    BY <1>1 DEF Receive
  <2>6. CASE Marked(EventOf(d))
    BY <2>1, <2>4, <2>5, <2>6 DEF Inbox!Recognise, Known
  <2>7. CASE ~Marked(EventOf(d))
    BY <2>1, <2>4, <2>5, <2>7 DEF Inbox!Accept, Known
  <2> QED
    BY <2>6, <2>7
<1>2. ASSUME NEW d \in Deliveries, pc[d] = "new", Processed(d)
      PROVE  Step
  <2>1. EventOf(d) \in Known' /\ Known' \subseteq Known \cup {EventOf(d)}
    BY <1>2, KnownGrows
  <2>2. pc' = [pc EXCEPT ![d] = "processed"]
    BY <1>2 DEF Processed
  <2>3. Inbox!Process(d)
    BY <1>2, <2>1, <2>2 DEF Inbox!Process, Inbox!EventOf, EventOf, Known
  <2> QED
    BY <2>3
<1>3. ASSUME NEW d \in Deliveries, WebhookFails(d)
      PROVE  Step
  <2>1. cache' = cache /\ now' = now
    BY <1>3 DEF WebhookFails, cacheVars
  <2>2. Known' = Known
    BY <2>1, KnownStays
  <2>3. Inbox!Fail(d)
    BY <1>3, <2>2 DEF WebhookFails, Inbox!Fail, Inbox!EventOf, EventOf, Known
  <2> QED
    BY <2>3
<1>4. ASSUME Restart
      PROVE  Step
  <2>1. Known' = {}
    BY <1>4 DEF Restart, Known, Marked, Cache!Stored
  <2>2. Inbox!Crash
    BY <1>4, <2>1 DEF Restart, Inbox!Crash, Known
  <2> QED
    BY <2>2
<1>5. ASSUME Housekeeping
      PROVE  Step
  BY <1>5, KnownShrinks DEF Housekeeping, Inbox!Forget, Known
<1>6. ASSUME UNCHANGED vars
      PROVE  UNCHANGED Inbox!vars
  <2>1. Known' = Known /\ pc' = pc
    BY <1>6, KnownStays DEF vars
  <2> QED
    BY <2>1 DEF Inbox!vars, Known
<1> QED
  BY <1>1, <1>2, <1>3, <1>4, <1>5, <1>6 DEF Next, ProcessAutopost, ProcessWebhook, Inbox!Next

\* The endpoints implement the receiver: for any number of events, deliveries and restarts
\* and any cache size, no order of failures, evictions and overlaps breaks its promise.
THEOREM ImplementsInbox == Spec => InboxPromise
<1>1. Init => Inbox!Init
  <2> SUFFICES ASSUME Init
               PROVE  {e \in Events : Marked(e)} = {}
    BY DEF Init, Inbox!Init
  <2> QED
    BY DEF Init, Cache!Init, Marked, Cache!Stored
<1> QED
  BY <1>1, InboxStep, MarksAlways, PTL DEF Spec, InboxPromise, Inbox!Spec

\* Every duplicate has an original: a delivery of the same event that was processed.
DuplicatesHaveOriginals ==
    \A d \in Deliveries : pc[d] = "duplicate" =>
        \E f \in Deliveries : EventOf(f) = EventOf(d) /\ pc[f] = "processed"

\* What is known was processed.
KnownWasProcessed ==
    \A e \in Known : \E f \in Deliveries : EventOf(f) = e /\ pc[f] = "processed"

Originals == DOMAIN pc = Deliveries /\ DuplicatesHaveOriginals /\ KnownWasProcessed

LEMMA OriginalsStep ==
    ASSUME Originals, [Inbox!Next]_(Inbox!vars)
    PROVE  Originals'
<1> USE DEF Originals
<1>0. /\ Known = {e \in Events : Marked(e)}
      /\ \A d : Inbox!EventOf(d) = EventOf(d)
  BY DEF Known, Inbox!EventOf, EventOf
<1>1. ASSUME NEW d \in Deliveries, Inbox!Process(d)
      PROVE  Originals'
  <2>1. pc' = [pc EXCEPT ![d] = "processed"] /\ pc[d] = "new"
        /\ Known' \subseteq Known \cup {EventOf(d)}
    BY <1>0, <1>1 DEF Inbox!Process, Known
  <2>2. \A f \in Deliveries : pc[f] = "processed" => pc'[f] = "processed"
    BY <2>1
  <2>3. KnownWasProcessed'
    BY <2>1, <2>2 DEF KnownWasProcessed
  <2>4. DuplicatesHaveOriginals'
    BY <2>1, <2>2 DEF DuplicatesHaveOriginals
  <2> QED
    BY <2>1, <2>3, <2>4
<1>2. ASSUME NEW d \in Deliveries, Inbox!Accept(d) \/ Inbox!Recognise(d) \/ Inbox!Fail(d)
      PROVE  Originals'
  <2>1. PICK a \in {"new", "duplicate", "failed"} : pc' = [pc EXCEPT ![d] = a]
                /\ (a = "duplicate" => EventOf(d) \in Known)
    BY <1>0, <1>2 DEF Inbox!Accept, Inbox!Recognise, Inbox!Fail
  <2>2. Known' = Known /\ pc[d] # "processed"
    BY <1>2 DEF Inbox!Accept, Inbox!Recognise, Inbox!Fail, Known
  <2>3. \A f \in Deliveries : pc[f] = "processed" => pc'[f] = "processed"
    BY <2>1, <2>2
  <2>4. KnownWasProcessed'
    BY <2>2, <2>3 DEF KnownWasProcessed
  <2>5. ASSUME NEW f \in Deliveries, pc'[f] = "duplicate"
        PROVE  \E g \in Deliveries : EventOf(g) = EventOf(f) /\ pc[g] = "processed"
    BY <2>1, <2>5 DEF DuplicatesHaveOriginals, KnownWasProcessed
  <2>6. DuplicatesHaveOriginals'
    BY <2>3, <2>5 DEF DuplicatesHaveOriginals
  <2> QED
    BY <2>1, <2>4, <2>6
<1>3. CASE Inbox!Forget \/ Inbox!Crash \/ UNCHANGED Inbox!vars
  <2>1. Known' \subseteq Known /\ DOMAIN pc' = Deliveries
    BY <1>3 DEF Inbox!Forget, Inbox!Crash, Inbox!vars, Known
  <2>2. \A f \in Deliveries :
          /\ pc[f] = "processed" => pc'[f] = "processed"
          /\ pc'[f] = "duplicate" => pc[f] = "duplicate"
    BY <1>3 DEF Inbox!Forget, Inbox!Crash, Inbox!vars
  <2> QED
    BY <2>1, <2>2 DEF KnownWasProcessed, DuplicatesHaveOriginals
<1> QED
  BY <1>1, <1>2, <1>3 DEF Inbox!Next

\* The promise is enough for the sender: of whoever keeps it, every duplicate has an
\* original.
THEOREM PromiseSuffices == InboxPromise => []DuplicatesHaveOriginals
<1>1. Inbox!Init => Originals
  BY DEF Inbox!Init, Originals, DuplicatesHaveOriginals, KnownWasProcessed, Known
<1>2. Originals => DuplicatesHaveOriginals
  BY DEF Originals
<1> QED
  BY <1>1, <1>2, OriginalsStep, PTL DEF InboxPromise, Inbox!Spec

-----------------------------------------------------------------------------
(* What the cache guarantees, for the marks *)

CacheProofs == INSTANCE CacheServiceProofs
    WITH Keys <- Events, Prefixes <- {}, Ttls <- {MarkTtl}, Versions <- {1}

\* Its sets are finite, and counted, as here.
LEMMA SameCounting ==
    ASSUME NEW S
    PROVE  /\ CacheProofs!Cardinality(S) = Cardinality(S)
           /\ Cache!Cardinality(S) = Cardinality(S)
           /\ CacheProofs!IsFiniteSet(S) <=> IsFiniteSet(S)
<1>1. CacheProofs!Cardinality(S) = Cardinality(S)
  BY Zenon DEF CacheProofs!Cardinality, Cardinality
<1>2. Cache!Cardinality(S) = Cardinality(S)
  BY Zenon DEF Cache!Cardinality, Cardinality
<1>3. CacheProofs!IsFiniteSet(S) <=> IsFiniteSet(S)
  BY Zenon DEF CacheProofs!IsFiniteSet, IsFiniteSet
<1> QED
  BY <1>1, <1>2, <1>3

\* The cache that was proved about is the cache of the marks.
LEMMA SameCache ==
    /\ CacheProofs!CacheAssumption
    /\ CacheProofs!Init <=> Cache!Init
    /\ CacheProofs!Next <=> Cache!Next
    /\ CacheProofs!TypeOK <=> Cache!TypeOK
    /\ CacheProofs!CapacityBound <=> Cache!CapacityBound
<1>1. CacheProofs!CacheAssumption
  BY MarksAssumption DEF CacheProofs!CacheAssumption, Cache!CacheAssumption
<1>2. CacheProofs!Init <=> Cache!Init
  BY Zenon DEF CacheProofs!Init, Cache!Init, CacheProofs!Never, Cache!Never
<1>3. CacheProofs!Next <=> Cache!Next
  <2>1. CacheProofs!MakeRoom = Cache!MakeRoom
    <3>1. CacheProofs!Stored = Cache!Stored
      BY Zenon DEF CacheProofs!Stored, Cache!Stored
    <3>2. CacheProofs!Victims = Cache!Victims
      BY <3>1, SameCounting DEF CacheProofs!Victims, Cache!Victims
    <3>3. CacheProofs!Cardinality(Cache!Stored) = Cache!Cardinality(Cache!Stored)
      BY SameCounting
    <3> QED
      BY <3>1, <3>2, <3>3 DEF CacheProofs!MakeRoom, Cache!MakeRoom
  <2>2. \A k, ttl, v, encrypt :
          CacheProofs!Set(k, ttl, v, encrypt) <=> Cache!Set(k, ttl, v, encrypt)
    BY <2>1, Zenon
       DEF CacheProofs!Set, Cache!Set, CacheProofs!Without, Cache!Without,
           CacheProofs!UnusedSince, Cache!UnusedSince,
           CacheProofs!NewEntry, Cache!NewEntry, CacheProofs!Never, Cache!Never,
           CacheProofs!CircuitClosed, Cache!CircuitClosed,
           CacheProofs!RetryDue, Cache!RetryDue, CacheProofs!Admitted, Cache!Admitted,
           CacheProofs!RecordSuccess, Cache!RecordSuccess
  <2>3. \A k : CacheProofs!SetThrows(k) <=> Cache!SetThrows(k)
    BY <2>1, Zenon
       DEF CacheProofs!SetThrows, Cache!SetThrows, CacheProofs!Drop, Cache!Drop,
           CacheProofs!Without, Cache!Without, CacheProofs!UnusedSince, Cache!UnusedSince,
           CacheProofs!CircuitClosed, Cache!CircuitClosed,
           CacheProofs!RetryDue, Cache!RetryDue, CacheProofs!Admitted, Cache!Admitted,
           CacheProofs!RecordFailure, Cache!RecordFailure
  <2>4. CacheProofs!Write <=> Cache!Write
    BY <2>2, <2>3, Zenon DEF CacheProofs!Write, Cache!Write
  <2>5. /\ CacheProofs!Read <=> Cache!Read
        /\ CacheProofs!Remove <=> Cache!Remove
        /\ CacheProofs!CleanupExpired <=> Cache!CleanupExpired
        /\ CacheProofs!OnModuleDestroy <=> Cache!OnModuleDestroy
        /\ CacheProofs!Tick <=> Cache!Tick
    BY Zenon
       DEF CacheProofs!Read, Cache!Read, CacheProofs!Remove, Cache!Remove,
           CacheProofs!GetMiss, Cache!GetMiss, CacheProofs!GetHit, Cache!GetHit,
           CacheProofs!GetThrows, Cache!GetThrows, CacheProofs!Touch, Cache!Touch,
           CacheProofs!Exists, Cache!Exists, CacheProofs!Delete, Cache!Delete,
           CacheProofs!DeleteByPrefix, Cache!DeleteByPrefix,
           CacheProofs!InvalidateVersion, Cache!InvalidateVersion,
           CacheProofs!CleanupExpired, Cache!CleanupExpired,
           CacheProofs!OnModuleDestroy, Cache!OnModuleDestroy,
           CacheProofs!Tick, Cache!Tick, CacheProofs!Drop, Cache!Drop,
           CacheProofs!Without, Cache!Without, CacheProofs!UnusedSince, Cache!UnusedSince,
           CacheProofs!Stored, Cache!Stored, CacheProofs!Expired, Cache!Expired,
           CacheProofs!Never, Cache!Never, CacheProofs!CircuitClosed, Cache!CircuitClosed,
           CacheProofs!RetryDue, Cache!RetryDue, CacheProofs!Admitted, Cache!Admitted,
           CacheProofs!RecordFailure, Cache!RecordFailure,
           CacheProofs!CheckCircuitBreaker, Cache!CheckCircuitBreaker
  <2> QED
    BY <2>4, <2>5 DEF CacheProofs!Next, Cache!Next
<1>4. CacheProofs!TypeOK <=> Cache!TypeOK
  BY Zenon DEF CacheProofs!TypeOK, Cache!TypeOK, CacheProofs!Entry, Cache!Entry,
               CacheProofs!NothingAhead, Cache!NothingAhead, CacheProofs!Stored, Cache!Stored
<1>5. CacheProofs!CapacityBound <=> Cache!CapacityBound
  BY SameCounting DEF CacheProofs!CapacityBound, Cache!CapacityBound,
                      CacheProofs!Stored, Cache!Stored
<1> QED
  BY <1>1, <1>2, <1>3, <1>4, <1>5

\* Every step is a step of the cache, leaves it alone, or is a restart.
LEMMA StepsOfCache ==
    ASSUME [Next]_vars
    PROVE  Cache!Next \/ UNCHANGED cacheVars \/ Restart
<1>1. \A e \in Events : Cache!Set(e, MarkTtl, 1, FALSE) => Cache!Next
  BY DEF Cache!Next, Cache!Write
<1>2. \A e \in Events : Cache!Exists(e) => Cache!Next
  BY DEF Cache!Next, Cache!Read
<1>3. Housekeeping => Cache!Next
  BY DEF Housekeeping, Cache!Next
<1>4. ASSUME NEW d \in Deliveries, Receive(d)
      PROVE  Cache!Next \/ UNCHANGED cacheVars
  BY <1>2, <1>4, DeliveryEvent DEF Receive, LookUp
<1>5. ASSUME NEW d \in Deliveries, ProcessAutopost(d) \/ ProcessWebhook(d)
      PROVE  Cache!Next \/ UNCHANGED cacheVars
  <2>1. CASE Processed(d)
    BY <1>1, <2>1, DeliveryEvent DEF Processed, Mark
  <2>2. CASE WebhookFails(d)
    BY <2>2 DEF WebhookFails
  <2> QED
    BY <1>5, <2>1, <2>2 DEF ProcessAutopost, ProcessWebhook
<1>6. UNCHANGED vars => UNCHANGED cacheVars
  BY DEF vars, cacheVars
<1> QED
  BY <1>3, <1>4, <1>5, <1>6 DEF Next

\* A new process starts with an empty cache, at the time the old one died.
LEMMA RestartOfCache ==
    ASSUME CacheProofs!IInv, Restart
    PROVE  CacheProofs!IInv'
<1>1. cache' = [e \in Events |-> NoEntry] /\ lastUse' = [e \in Events |-> 0]
      /\ UNCHANGED <<breaker, timer, now>>
  BY DEF Restart
<1>2. CacheProofs!Stored' = {}
  BY <1>1 DEF CacheProofs!Stored
<1>3. CacheProofs!TypeOK'
  BY <1>1, <1>2 DEF CacheProofs!IInv, CacheProofs!TypeOK, CacheProofs!NothingAhead
<1>4. IsFiniteSet(CacheProofs!Stored') /\ CacheProofs!CapacityBound'
  <2>1. MaxEntries \in Nat
    BY SameCache DEF CacheProofs!CacheAssumption
  <2>2. IsFiniteSet({}) /\ Cardinality({}) = 0
    BY FS_EmptySet
  <2> QED
    BY <1>2, <2>1, <2>2, SameCounting DEF CacheProofs!CapacityBound
<1>5. CacheProofs!UseRecorded'
  BY <1>2 DEF CacheProofs!UseRecorded
<1>6. now' >= 1
  BY <1>1 DEF CacheProofs!IInv
<1> QED
  BY <1>3, <1>4, <1>5, <1>6, SameCounting DEF CacheProofs!IInv

LEMMA CacheAlways == Spec => []CacheProofs!IInv
<1>1. Init => CacheProofs!IInv
  <2> SUFFICES ASSUME Init PROVE CacheProofs!IInv
    OBVIOUS
  <2>1. CacheProofs!Stored = {}
    BY DEF Init, Cache!Init, CacheProofs!Stored
  <2>2. IsFiniteSet(CacheProofs!Stored) /\ CacheProofs!CapacityBound
    BY <2>1, FS_EmptySet, SameCache, SameCounting DEF CacheProofs!CapacityBound, CacheProofs!CacheAssumption
  <2>3. CacheProofs!UseRecorded
    BY <2>1 DEF CacheProofs!UseRecorded
  <2> QED
    BY <2>1, <2>2, <2>3, SameCounting
       DEF Init, Cache!Init, Cache!Never, CacheProofs!IInv, CacheProofs!TypeOK,
           CacheProofs!NothingAhead
<1>2. ASSUME CacheProofs!IInv, UNCHANGED cacheVars
      PROVE  CacheProofs!IInv'
  BY <1>2 DEF cacheVars, CacheProofs!IInv, CacheProofs!TypeOK, CacheProofs!NothingAhead,
              CacheProofs!Stored,
              CacheProofs!CapacityBound, CacheProofs!UseRecorded
<1>3. CacheProofs!IInv /\ [Next]_vars => CacheProofs!IInv'
  BY <1>2, SameCache, StepsOfCache, RestartOfCache, CacheProofs!IInvStep
<1> QED
  BY <1>1, <1>3, PTL DEF Spec

\* However many events UnionBank delivers, their marks never outgrow MAX_ENTRIES: what
\* CacheService promises holds for its use here.
THEOREM MarksFit == Spec => []Cache!CapacityBound
<1>1. CacheProofs!IInv => Cache!CapacityBound
  BY SameCache DEF CacheProofs!IInv
<1> QED
  BY <1>1, CacheAlways, PTL

\* The types of what the deliveries keep.
DeliveryTypes ==
    /\ pc \in [Deliveries -> {"idle", "new", "dropped"} \cup Answers]
    /\ doneAt \in [Events -> 0..now]
    /\ forgotten \subseteq Events
    /\ restarts \in 0..MaxRestarts

LEMMA DeliveryTypesStep ==
    ASSUME Cache!TypeOK, DeliveryTypes, [Next]_vars
    PROVE  DeliveryTypes'
<1>0. now \in Nat /\ MaxRestarts \in Nat
  BY WebhookAssumption DEF Cache!TypeOK
<1>1. ASSUME NEW d \in Deliveries, Receive(d)
      PROVE  DeliveryTypes'
  <2>1. now' = now
    BY <1>1 DEF Receive, LookUp, cacheVars, Cache!Exists
  <2> QED
    BY <1>1, <2>1 DEF Receive, DeliveryTypes, Answers
<1>2. ASSUME NEW d \in Deliveries, Processed(d)
      PROVE  DeliveryTypes'
  <2>1. now' = now
    BY <1>2 DEF Processed, Mark, Cache!Set
  <2>2. EventOf(d) \in Events
    BY DeliveryEvent
  <2>3. forgotten' \subseteq Events
    BY <1>2 DEF Processed, Mark, DeliveryTypes, Cache!Stored
  <2> QED
    BY <1>0, <1>2, <2>1, <2>2, <2>3 DEF Processed, DeliveryTypes, Answers
<1>3. ASSUME NEW d \in Deliveries, WebhookFails(d)
      PROVE  DeliveryTypes'
  BY <1>3 DEF WebhookFails, cacheVars, DeliveryTypes, Answers
<1>4. CASE Restart
  BY <1>0, <1>4 DEF Restart, DeliveryTypes, Answers
<1>5. CASE Housekeeping
  <2>1. now' \in Nat /\ now' >= now
    BY <1>0, <1>5 DEF Housekeeping, Cache!CleanupExpired, Cache!Tick
  <2> QED
    BY <1>0, <1>5, <2>1 DEF Housekeeping, DeliveryTypes
<1>6. CASE UNCHANGED vars
  BY <1>6 DEF vars, DeliveryTypes
<1> QED
  BY <1>1, <1>2, <1>3, <1>4, <1>5, <1>6 DEF Next, ProcessAutopost, ProcessWebhook

\* Types.
THEOREM WebhookTypes == Spec => []TypeOK
<1>1. Init => DeliveryTypes
  BY WebhookAssumption DEF Init, Cache!Init, DeliveryTypes, Answers
<1>2. CacheProofs!IInv => Cache!TypeOK
  BY SameCache DEF CacheProofs!IInv
<1>3. Cache!TypeOK /\ DeliveryTypes => TypeOK
  BY DEF DeliveryTypes, TypeOK
<1> QED
  BY <1>1, <1>2, <1>3, DeliveryTypesStep, CacheAlways, PTL DEF Spec
=============================================================================
