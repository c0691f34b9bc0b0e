------------------------ MODULE SingleFlightProofs -------------------------
(***************************************************************************)
(* Nobody who joins a flight is forgotten, and concurrent callers share    *)
(* one run of the fallback: for any number of callers and losses.          *)
(*                                                                         *)
(* Tokens is what the promises rest on: a caller that has to be resumed    *)
(* has one job in the queue or one place on one list, never two.  Shared   *)
(* adds the order of the queue: once every loss was made up for, no miss   *)
(* waits behind the removal of the last flight.                            *)
(***************************************************************************)
EXTENDS SingleFlight, SequenceTheorems, FiniteSetTheorems, TLAPS

-----------------------------------------------------------------------------
(* What the steps do to the queue *)

LEMMA AppendAt ==
    ASSUME NEW S, NEW q \in Seq(S), NEW e \in S
    PROVE  /\ Append(q, e) \in Seq(S)
           /\ DOMAIN Append(q, e) = 1..Len(q) + 1
           /\ \A i \in 1..Len(q) : Append(q, e)[i] = q[i]
           /\ Append(q, e)[Len(q) + 1] = e
           /\ DOMAIN q = 1..Len(q) /\ Len(q) \in Nat
OBVIOUS

LEMMA TailAt ==
    ASSUME NEW S, NEW q \in Seq(S), q # <<>>
    PROVE  /\ Tail(q) \in Seq(S)
           /\ Len(Tail(q)) = Len(q) - 1
           /\ DOMAIN Tail(q) = 1..Len(q) - 1
           /\ \A i \in 1..Len(q) - 1 : Tail(q)[i] = q[i + 1]
           /\ DOMAIN q = 1..Len(q) /\ Len(q) \in Nat /\ Len(q) > 0
           /\ Head(q) = q[1] /\ Head(q) \in S
OBVIOUS

LEMMA ConcatAt ==
    ASSUME NEW S, NEW q \in Seq(S), NEW r \in Seq(S)
    PROVE  /\ q \o r \in Seq(S)
           /\ DOMAIN (q \o r) = 1..Len(q) + Len(r)
           /\ \A i \in 1..Len(q) : (q \o r)[i] = q[i]
           /\ \A i \in 1..Len(r) : (q \o r)[Len(q) + i] = r[i]
           /\ \A i \in 1..Len(q) + Len(r) : i \in 1..Len(q) \/ i - Len(q) \in 1..Len(r)
           /\ Len(q) \in Nat /\ Len(r) \in Nat /\ DOMAIN q = 1..Len(q)
OBVIOUS

\* Every element of the whole is one of a part.
LEMMA ConcatHas ==
    ASSUME NEW S, NEW q \in Seq(S), NEW r \in Seq(S), NEW i \in DOMAIN (q \o r)
    PROVE  \/ \E k \in 1..Len(q) : (q \o r)[i] = q[k]
           \/ \E k \in 1..Len(r) : (q \o r)[i] = r[k]
<1>1. CASE i <= Len(q)
    BY <1>1
<1>2. CASE i > Len(q)
  <2>1. i - Len(q) \in 1..Len(r) /\ (q \o r)[i] = r[i - Len(q)]
      BY <1>2
  <2>2. QED
      BY <2>1
<1>3. Len(q) \in Nat /\ i \in Nat
    OBVIOUS
<1>4. QED
    BY <1>1, <1>2, <1>3

LEMMA JobTypes ==
    /\ \A c \in Callers, ok \in BOOLEAN :
        /\ Job("read", c, ok) \in Jobs
        /\ Job("settle", c, ok) \in Jobs
        /\ Job("wake", c, ok) \in Jobs
        /\ Job("finish", c, TRUE) \in Jobs
    /\ \A do, c, ok : /\ Job(do, c, ok).do = do
                      /\ Job(do, c, ok).who = c
                      /\ Job(do, c, ok).ok = ok
    /\ \A j \in Jobs : /\ j.who \in Callers
                       /\ j.do \in {"read", "settle", "wake", "finish"}
                       /\ j.ok \in BOOLEAN
BY DEF Jobs, Job

LEMMA WakesAt ==
    ASSUME waiters \in [Callers -> Seq(Callers)], NEW c \in Callers, NEW ok \in BOOLEAN
    PROVE  /\ Wakes(c, ok) \in Seq(Jobs)
           /\ Len(Wakes(c, ok)) = Len(waiters[c])
           /\ DOMAIN waiters[c] = 1..Len(waiters[c])
           /\ \A i \in 1..Len(waiters[c]) : Wakes(c, ok)[i] = Job("wake", waiters[c][i], ok)
<1>1. Len(waiters[c]) \in Nat /\ DOMAIN waiters[c] = 1..Len(waiters[c])
    OBVIOUS
<1>2. \A i \in 1..Len(waiters[c]) : Job("wake", waiters[c][i], ok) \in Jobs
  <2>1. \A i \in 1..Len(waiters[c]) : waiters[c][i] \in Callers
      OBVIOUS
  <2>2. QED
      BY <2>1, JobTypes
<1>3. Wakes(c, ok) = [i \in 1..Len(waiters[c]) |-> Job("wake", waiters[c][i], ok)]
    BY <1>1 DEF Wakes
<1>4. QED
    BY <1>1, <1>2, <1>3

-----------------------------------------------------------------------------
(* Types *)

LEMMA TypeInit == Init => TypeOK
<1> SUFFICES ASSUME Init
             PROVE  TypeOK
    OBVIOUS
<1>1. <<>> \in Seq(Callers) /\ <<>> \in Seq(Jobs)
    OBVIOUS
<1>2. waiters \in [Callers -> Seq(Callers)]
    BY <1>1 DEF Init
<1>3. QED
    BY <1>1, <1>2 DEF Init, TypeOK, FlightStates

\* A call adds one read to the queue: what it saw, or a miss that was a loss.
LEMMA GetOrSetDoes ==
    ASSUME TypeOK, NEW c \in Callers, GetOrSet(c)
    PROVE  /\ pc[c] = "idle" /\ pc' = [pc EXCEPT ![c] = "reading"]
           /\ UNCHANGED <<inFlight, flight, waiters>>
           /\ cached' = cached /\ destroyed' = destroyed
           /\ losses' \in Nat
           /\ \E ok \in BOOLEAN :
                /\ queue' = Append(queue, Job("read", c, ok))
                /\ \/ ok = cached /\ losses' = losses
                   \/ losses' = losses + 1
<1> DEFINE Adds == \E ok \in BOOLEAN :
                    /\ queue' = Append(queue, Job("read", c, ok))
                    /\ \/ ok = cached /\ losses' = losses
                       \/ losses' = losses + 1
<1>1. FALSE \in BOOLEAN /\ cached \in BOOLEAN
    BY DEF TypeOK
<1>2. ASSUME queue' = Append(queue, Job("read", c, cached)), losses' = losses
      PROVE  Adds
    BY <1>1, <1>2
<1>3. ASSUME queue' = Append(queue, Job("read", c, FALSE)), losses' = losses + 1
      PROVE  Adds
    BY <1>1, <1>3
<1>4. losses' = losses \/ Loss
    BY DEF GetOrSet
<1>5. losses' \in Nat
    BY <1>4 DEF Loss, TypeOK
<1>6. Adds
    BY <1>2, <1>3 DEF GetOrSet, Loss
<1>7. QED
    BY <1>5, <1>6 DEF GetOrSet

LEMMA StoresDoes ==
    ASSUME TypeOK, NEW c \in Callers, FlightStores(c)
    PROVE  /\ Runs("settle", c, TRUE)
           /\ flight' = [flight EXCEPT ![c] = "storing"]
           /\ queue' = Append(Tail(queue), Job("finish", c, TRUE))
           /\ UNCHANGED <<inFlight, waiters, pc>>
           /\ destroyed' = destroyed
           /\ cached' \in BOOLEAN
           /\ losses' \in Nat
           /\ (cached' = TRUE /\ losses' = losses) \/ losses' = losses + 1
<1>1. (cached' = TRUE /\ losses' = losses) \/ (Loss /\ cached' = cached)
    BY DEF FlightStores
<1>2. losses' = losses \/ Loss
    BY DEF FlightStores
<1>3. losses' \in Nat
    BY <1>2 DEF Loss, TypeOK
<1>4. cached' \in BOOLEAN
    BY <1>1 DEF TypeOK
<1>5. QED
    BY <1>1, <1>3, <1>4 DEF FlightStores, Loss

\* The job that runs leaves the queue, and the others move up one place.
LEMMA RunsDoes ==
    ASSUME TypeOK, NEW do, NEW c, NEW ok, Runs(do, c, ok)
    PROVE  /\ queue # <<>> /\ 1 \in DOMAIN queue
           /\ queue[1].do = do /\ queue[1].who = c /\ queue[1].ok = ok
           /\ Tail(queue) \in Seq(Jobs)
           /\ Len(queue) \in Nat /\ Len(queue) > 0 /\ DOMAIN queue = 1..Len(queue)
           /\ Len(Tail(queue)) = Len(queue) - 1
           /\ DOMAIN Tail(queue) = 1..Len(queue) - 1
           /\ \A i \in 1..Len(queue) - 1 : Tail(queue)[i] = queue[i + 1]
<1>1. queue \in Seq(Jobs) /\ queue # <<>> /\ Head(queue) = Job(do, c, ok)
    BY DEF TypeOK, Runs
<1>2. Head(queue) = queue[1]
    BY <1>1
<1>3. QED
    BY <1>1, <1>2, TailAt, JobTypes

LEMMA TypeStep == TypeOK /\ [Next]_vars => TypeOK'
<1> SUFFICES ASSUME TypeOK, [Next]_vars
             PROVE  TypeOK'
    OBVIOUS
<1> DEFINE Places == {"idle", "reading", "waiting", "racing"} \cup {"value", "null", "error"}
<1>0. /\ flight \in [Callers -> FlightStates]
      /\ waiters \in [Callers -> Seq(Callers)]
      /\ pc \in [Callers -> Places]
      /\ inFlight \in Callers \cup {None}
      /\ cached \in BOOLEAN /\ destroyed \in BOOLEAN
      /\ queue \in Seq(Jobs) /\ losses \in Nat
    BY DEF TypeOK, Answers
<1>1. ASSUME NEW c \in Callers, GetOrSet(c)
      PROVE  TypeOK'
  <2>1. queue' \in Seq(Jobs)
    <3>1. PICK ok \in BOOLEAN : queue' = Append(queue, Job("read", c, ok))
        BY <1>1, GetOrSetDoes
    <3>2. QED
        BY <1>0, <3>1, JobTypes, AppendAt
  <2>2. pc' \in [Callers -> Places]
      BY <1>0, <1>1, GetOrSetDoes
  <2>3. QED
      BY <1>0, <1>1, <2>1, <2>2, GetOrSetDoes DEF TypeOK, Answers
<1>2. ASSUME NEW c \in Callers, TimerFires(c)
      PROVE  TypeOK'
  <2>1. pc' \in [Callers -> Places]
      BY <1>0, <1>2 DEF TimerFires
  <2>2. QED
      BY <1>0, <1>2, <2>1 DEF TimerFires, TypeOK, Answers
<1>3. ASSUME NEW c \in Callers, NEW ok \in BOOLEAN, FallbackSettles(c, ok)
      PROVE  TypeOK'
  <2>1. queue' \in Seq(Jobs)
      BY <1>0, <1>3, JobTypes, AppendAt DEF FallbackSettles
  <2>2. flight' \in [Callers -> FlightStates]
      BY <1>0, <1>3 DEF FallbackSettles, FlightStates
  <2>3. QED
      BY <1>0, <1>3, <2>1, <2>2 DEF FallbackSettles, TypeOK, Answers
<1>4. ASSUME NEW c \in Callers, ReadHit(c) \/ WakeWithValue(c)
      PROVE  TypeOK'
  <2>1. queue' \in Seq(Jobs)
      BY <1>4, RunsDoes DEF ReadHit, WakeWithValue
  <2>2. pc' \in [Callers -> Places]
      BY <1>0, <1>4 DEF ReadHit, WakeWithValue
  <2>3. QED
      BY <1>0, <1>4, <2>1, <2>2 DEF ReadHit, WakeWithValue, TypeOK, Answers
<1>5. ASSUME NEW c \in Callers, ReadJoins(c)
      PROVE  TypeOK'
  <2>1. Tail(queue) \in Seq(Jobs)
      BY <1>5, RunsDoes DEF ReadJoins
  <2>2. queue' \in Seq(Jobs)
    <3>1. Job("wake", c, FALSE) \in Jobs
        BY JobTypes
    <3>2. Append(Tail(queue), Job("wake", c, FALSE)) \in Seq(Jobs)
        BY <2>1, <3>1, AppendAt
    <3>3. queue' = Tail(queue) \/ queue' = Append(Tail(queue), Job("wake", c, FALSE))
        BY <1>5 DEF ReadJoins
    <3>4. QED
        BY <2>1, <3>2, <3>3
  <2>3. waiters' \in [Callers -> Seq(Callers)]
    <3>1. CASE inFlight \in Pending
      <4>1. waiters' = [waiters EXCEPT ![inFlight] = Append(@, c)]
          BY <1>5, <3>1 DEF ReadJoins
      <4>2. inFlight \in Callers
          BY <3>1 DEF Pending
      <4>3. QED
          BY <1>0, <4>1, <4>2, AppendAt
    <3>2. CASE inFlight \notin Pending
        BY <1>0, <1>5, <3>2 DEF ReadJoins
    <3>3. QED
        BY <3>1, <3>2
  <2>4. pc' \in [Callers -> Places]
      BY <1>0, <1>5 DEF ReadJoins
  <2>5. QED
      BY <1>0, <1>5, <2>2, <2>3, <2>4 DEF ReadJoins, TypeOK, Answers
<1>6. ASSUME NEW c \in Callers, ReadStarts(c) \/ WakeToRetry(c)
      PROVE  TypeOK'
  <2>1. queue' \in Seq(Jobs)
      BY <1>6, RunsDoes DEF ReadStarts, WakeToRetry
  <2>2. pc' \in [Callers -> Places] /\ flight' \in [Callers -> FlightStates]
      BY <1>0, <1>6 DEF ReadStarts, WakeToRetry, Execute, FlightStates
  <2>3. QED
      BY <1>0, <1>6, <2>1, <2>2 DEF ReadStarts, WakeToRetry, Execute, TypeOK, Answers
<1>7. ASSUME NEW c \in Callers, FlightStores(c)
      PROVE  TypeOK'
  <2>1. Tail(queue) \in Seq(Jobs)
      BY <1>7, StoresDoes, RunsDoes
  <2>2. queue' \in Seq(Jobs)
    <3>1. Job("finish", c, TRUE) \in Jobs
        BY JobTypes
    <3>2. queue' = Append(Tail(queue), Job("finish", c, TRUE))
        BY <1>7, StoresDoes
    <3>3. QED
        BY <2>1, <3>1, <3>2, AppendAt
  <2>3. flight' \in [Callers -> FlightStates]
      BY <1>0, <1>7, StoresDoes DEF FlightStates
  <2>4. QED
      BY <1>0, <1>7, <2>2, <2>3, StoresDoes DEF TypeOK, Answers
<1>8. ASSUME NEW c \in Callers, FlightFails(c) \/ FlightFinishes(c)
      PROVE  TypeOK'
  <2>1. PICK ok \in BOOLEAN : Ends(c, ok)
      BY <1>8 DEF FlightFails, FlightFinishes
  <2>2. Tail(queue) \in Seq(Jobs)
      BY <1>8, RunsDoes DEF FlightFails, FlightFinishes
  <2>3. queue' \in Seq(Jobs)
      BY <1>0, <2>1, <2>2, WakesAt, ConcatAt DEF Ends
  <2>4. waiters' \in [Callers -> Seq(Callers)]
    <3>1. <<>> \in Seq(Callers)
        OBVIOUS
    <3>2. QED
        BY <1>0, <2>1, <3>1 DEF Ends
  <2>5. pc' \in [Callers -> Places] /\ flight' \in [Callers -> FlightStates]
      BY <1>0, <2>1 DEF Ends, FlightStates
  <2>6. QED
      BY <1>0, <2>1, <2>3, <2>4, <2>5 DEF Ends, TypeOK, Answers
<1>9. ASSUME Forget \/ OnModuleDestroy
      PROVE  TypeOK'
  <2>1. /\ cached' = FALSE /\ destroyed' \in BOOLEAN
        /\ UNCHANGED <<flight, waiters, pc, queue>>
        /\ inFlight' = inFlight \/ inFlight' = None
    <3>1. CASE Forget
        BY <1>0, <3>1 DEF Forget
    <3>2. CASE OnModuleDestroy
      <4>1. cached' = FALSE /\ destroyed' = TRUE /\ inFlight' = None
          BY <3>2 DEF OnModuleDestroy
      <4>2. UNCHANGED <<flight, waiters, pc, queue>>
          BY <3>2 DEF OnModuleDestroy
      <4>3. QED
          BY <4>1, <4>2
    <3>3. QED
        BY <1>9, <3>1, <3>2
  <2>2. losses' = losses \/ losses' = losses + 1
      BY <1>9 DEF Forget, OnModuleDestroy, Loss
  <2>3. inFlight' \in Callers \cup {None} /\ losses' \in Nat
      BY <1>0, <2>1, <2>2
  <2>4. cached' \in BOOLEAN
      BY <2>1
  <2>5. QED
      BY <1>0, <2>1, <2>3, <2>4 DEF TypeOK, Answers
<1>10. CASE UNCHANGED vars
    BY <1>0, <1>10 DEF vars, TypeOK, Answers
<1>11. QED
    BY <1>1, <1>2, <1>3, <1>4, <1>5, <1>6, <1>7, <1>8, <1>9, <1>10 DEF Next, RunJob

\* Every variable keeps its type whatever the callers, the fallbacks and the timers do: in
\* particular no caller is answered with anything but a value, null or an error.
THEOREM FlightTypes == Spec => []TypeOK
BY TypeInit, TypeStep, PTL DEF Spec

-----------------------------------------------------------------------------
(* Tokens: who has to be resumed, and by what *)

HasJob(q, c) == \E i \in DOMAIN q : q[i].who = c

\* No caller has two jobs.
Distinct(q) == \A i, k \in DOMAIN q : q[i].who = q[k].who => i = k

\* What a job of the queue says of the caller it resumes.
JobFits(j, p, f) ==
    /\ j.do = "read" => p[j.who] = "reading"
    /\ j.do = "wake" => p[j.who] = "waiting"
    /\ j.do = "settle" => f[j.who] = "settled"
    /\ j.do = "finish" => f[j.who] = "storing"

JobsFit == \A i \in DOMAIN queue : JobFits(queue[i], pc, flight)

\* A caller that still reads or waits has no flight of its own.
Unstarted ==
    \A c \in Callers : pc[c] \in {"idle", "reading", "waiting"} => flight[c] = "none"

\* A caller on a list waits, and has no job.
ListedWaits ==
    \A f \in Callers : \A i \in DOMAIN waiters[f] :
        pc[waiters[f][i]] = "waiting" /\ ~HasJob(queue, waiters[f][i])

\* It is on one list, once.
ListedOnce ==
    \A f, g \in Callers : \A i \in DOMAIN waiters[f], k \in DOMAIN waiters[g] :
        waiters[f][i] = waiters[g][k] => f = g /\ i = k

Tokens ==
    /\ Unstarted
    /\ JobsFit
    /\ Distinct(queue)
    /\ ListedWaits
    /\ ListedOnce
    /\ NoLostWakeup

LEMMA AddsOne ==
    ASSUME NEW q \in Seq(Jobs), NEW j \in Jobs, Distinct(q), ~HasJob(q, j.who)
    PROVE  /\ Distinct(Append(q, j))
           /\ \A c : HasJob(Append(q, j), c) <=> HasJob(q, c) \/ c = j.who
           /\ \A i \in DOMAIN Append(q, j) :
                Append(q, j)[i] = j \/ \E k \in DOMAIN q : Append(q, j)[i] = q[k]
           /\ \A k \in DOMAIN q : \E i \in DOMAIN Append(q, j) : Append(q, j)[i] = q[k]
           /\ \E i \in DOMAIN Append(q, j) : Append(q, j)[i] = j
<1>1. /\ DOMAIN Append(q, j) = 1..Len(q) + 1 /\ DOMAIN q = 1..Len(q) /\ Len(q) \in Nat
      /\ \A i \in 1..Len(q) : Append(q, j)[i] = q[i]
      /\ Append(q, j)[Len(q) + 1] = j
    BY AppendAt
<1>2. \A i \in 1..Len(q) + 1 : i \in 1..Len(q) \/ i = Len(q) + 1
    BY <1>1
<1>3. \A i \in 1..Len(q) : i \in 1..Len(q) + 1 /\ Len(q) + 1 \in 1..Len(q) + 1
    BY <1>1
<1>4. Len(q) + 1 \in 1..Len(q) + 1
    BY <1>1
<1>5. Distinct(Append(q, j))
    BY <1>1, <1>2 DEF Distinct, HasJob
<1>6. \A c : HasJob(Append(q, j), c) <=> HasJob(q, c) \/ c = j.who
    BY <1>1, <1>2, <1>3, <1>4 DEF HasJob
<1>7. QED
    BY <1>1, <1>2, <1>3, <1>4, <1>5, <1>6

\* The jobs that are left when one runs.
LEMMA RunsOne ==
    ASSUME TypeOK, Distinct(queue), NEW do, NEW c, NEW ok, Runs(do, c, ok)
    PROVE  /\ Tail(queue) \in Seq(Jobs)
           /\ 1 \in DOMAIN queue
           /\ queue[1].do = do /\ queue[1].who = c /\ queue[1].ok = ok
           /\ Distinct(Tail(queue))
           /\ ~HasJob(Tail(queue), c)
           /\ \A d : d # c => (HasJob(Tail(queue), d) <=> HasJob(queue, d))
           /\ \A i \in DOMAIN Tail(queue) : \E k \in DOMAIN queue : Tail(queue)[i] = queue[k]
           /\ \A k \in DOMAIN queue : queue[k].who # c =>
                \E i \in DOMAIN Tail(queue) : Tail(queue)[i] = queue[k]
<1>1. /\ DOMAIN Tail(queue) = 1..Len(queue) - 1
      /\ \A i \in 1..Len(queue) - 1 : Tail(queue)[i] = queue[i + 1]
      /\ Len(queue) \in Nat /\ DOMAIN queue = 1..Len(queue) /\ 1 \in DOMAIN queue
      /\ queue[1].do = do /\ queue[1].who = c /\ queue[1].ok = ok
      /\ Tail(queue) \in Seq(Jobs)
    BY RunsDoes
<1>2. \A i \in 1..Len(queue) - 1 : i + 1 \in 1..Len(queue) /\ i + 1 # 1
    BY <1>1
<1>3. \A k \in 1..Len(queue) : k = 1 \/ (k - 1 \in 1..Len(queue) - 1 /\ (k - 1) + 1 = k)
    BY <1>1
<1>4. Distinct(Tail(queue))
    BY <1>1, <1>2 DEF Distinct
<1>5. \A i \in 1..Len(queue) - 1 : Tail(queue)[i].who # c
    BY <1>1, <1>2 DEF Distinct
<1>6. \A k \in DOMAIN queue : queue[k].who # c =>
            \E i \in DOMAIN Tail(queue) : Tail(queue)[i] = queue[k]
    BY <1>1, <1>3
<1>7. \A d : d # c => (HasJob(Tail(queue), d) <=> HasJob(queue, d))
    BY <1>1, <1>2, <1>6 DEF HasJob
<1>8. QED
    BY <1>1, <1>2, <1>4, <1>5, <1>6, <1>7 DEF HasJob

\* The jobs that settling promise c adds: one wake for each caller on its list.
LEMMA AddsWakes ==
    ASSUME TypeOK, ListedOnce, NEW c \in Callers, NEW ok \in BOOLEAN,
           NEW q \in Seq(Jobs), Distinct(q),
           \A i \in DOMAIN waiters[c] : ~HasJob(q, waiters[c][i]),
           queue' = q \o Wakes(c, ok)
    PROVE  /\ Distinct(queue')
           /\ \A d : HasJob(queue', d) =>
                HasJob(q, d) \/ \E n \in DOMAIN waiters[c] : waiters[c][n] = d
           /\ \A i \in DOMAIN queue' :
                \/ \E k \in DOMAIN q : queue'[i] = q[k]
                \/ \E n \in DOMAIN waiters[c] : queue'[i] = Job("wake", waiters[c][n], ok)
           /\ \A k \in DOMAIN q : \E i \in DOMAIN queue' : queue'[i] = q[k]
           /\ \A n \in DOMAIN waiters[c] :
                \E i \in DOMAIN queue' : queue'[i] = Job("wake", waiters[c][n], ok)
<1> DEFINE w == waiters[c]
           Q == Len(q)
           W == Len(w)
<1>1. /\ Wakes(c, ok) \in Seq(Jobs) /\ Len(Wakes(c, ok)) = W /\ DOMAIN w = 1..W
      /\ \A n \in 1..W : Wakes(c, ok)[n] = Job("wake", w[n], ok)
    BY WakesAt DEF TypeOK
<1>2. /\ Q \in Nat /\ W \in Nat /\ DOMAIN q = 1..Q /\ DOMAIN queue' = 1..Q + W
      /\ \A i \in 1..Q : queue'[i] = q[i]
      /\ \A n \in 1..W : queue'[Q + n] = Job("wake", w[n], ok)
      /\ \A i \in 1..Q + W : i \in 1..Q \/ i - Q \in 1..W
  <2> DEFINE v == Wakes(c, ok)
  <2>1. v \in Seq(Jobs) /\ Len(v) = W /\ \A n \in 1..W : v[n] = Job("wake", w[n], ok)
      BY <1>1
  <2> HIDE DEF v, Q, W, w
  <2>2. /\ DOMAIN (q \o v) = 1..Len(q) + Len(v)
        /\ \A i \in 1..Len(q) : (q \o v)[i] = q[i]
        /\ \A n \in 1..Len(v) : (q \o v)[Len(q) + n] = v[n]
        /\ \A i \in 1..Len(q) + Len(v) : i \in 1..Len(q) \/ i - Len(q) \in 1..Len(v)
        /\ Len(q) \in Nat /\ Len(v) \in Nat /\ DOMAIN q = 1..Len(q)
    <3>1. v \in Seq(Jobs)
        BY <2>1
    <3>2. QED
        BY ONLY q \in Seq(Jobs), <3>1, ConcatAt
  <2>3. Q = Len(q) /\ queue' = q \o v
      BY DEF Q, v
  <2>4. /\ DOMAIN queue' = 1..Q + W
        /\ \A i \in 1..Q : queue'[i] = q[i]
      BY <2>1, <2>2, <2>3
  <2>5. \A n \in 1..W : queue'[Q + n] = Job("wake", w[n], ok)
      BY <2>1, <2>2, <2>3
  <2>6. Q \in Nat /\ W \in Nat /\ DOMAIN q = 1..Q
      BY <2>1, <2>2, <2>3
  <2>7. \A i \in 1..Q + W : i \in 1..Q \/ i - Q \in 1..W
      BY <2>6
  <2>8. QED
      BY <2>4, <2>5, <2>6, <2>7
<1>3. \A n \in 1..W : queue'[Q + n].who = w[n]
    BY <1>2, JobTypes
<1>4. \A i \in 1..Q + W : i \notin 1..Q => \E n \in 1..W : i = Q + n
  <2>1. SUFFICES ASSUME NEW i \in 1..Q + W, i \notin 1..Q
                 PROVE  i - Q \in 1..W /\ i = Q + (i - Q)
      OBVIOUS
  <2>2. QED
      BY <1>2, <2>1
<1>5. \A m, n \in 1..W : w[m] = w[n] => m = n
    BY <1>1 DEF ListedOnce
<1> HIDE DEF Q, W
<1>6. \A i \in 1..Q, n \in 1..W : q[i].who # w[n]
    BY <1>1, <1>2 DEF HasJob
<1>7. Distinct(queue')
  <2>1. SUFFICES ASSUME NEW i \in 1..Q + W, NEW k \in 1..Q + W, queue'[i].who = queue'[k].who
                 PROVE  i = k
      BY <1>2 DEF Distinct
  <2>2. CASE i \in 1..Q /\ k \in 1..Q
      BY <1>2, <2>1, <2>2 DEF Distinct
  <2>3. CASE i \notin 1..Q /\ k \notin 1..Q
    <3>1. PICK m \in 1..W : i = Q + m
        BY <1>4, <2>3
    <3>2. PICK n \in 1..W : k = Q + n
        BY <1>4, <2>3
    <3>3. w[m] = w[n]
        BY <1>3, <2>1, <3>1, <3>2
    <3>4. QED
        BY <1>5, <3>1, <3>2, <3>3
  <2>4. CASE i \in 1..Q /\ k \notin 1..Q
    <3>1. PICK n \in 1..W : k = Q + n
        BY <1>4, <2>4
    <3>2. q[i].who = w[n]
        BY <1>2, <1>3, <2>1, <2>4, <3>1
    <3>3. QED
        BY <1>6, <2>4, <3>2
  <2>5. CASE i \notin 1..Q /\ k \in 1..Q
    <3>1. PICK m \in 1..W : i = Q + m
        BY <1>4, <2>5
    <3>2. q[k].who = w[m]
        BY <1>2, <1>3, <2>1, <2>5, <3>1
    <3>3. QED
        BY <1>6, <2>5, <3>2
  <2>6. QED
      BY <2>2, <2>3, <2>4, <2>5
<1>8. \A i \in DOMAIN queue' :
        \/ \E k \in DOMAIN q : queue'[i] = q[k]
        \/ \E n \in DOMAIN w : queue'[i] = Job("wake", w[n], ok)
  <2>1. SUFFICES ASSUME NEW i \in 1..Q + W
                 PROVE  \/ \E k \in DOMAIN q : queue'[i] = q[k]
                        \/ \E n \in DOMAIN w : queue'[i] = Job("wake", w[n], ok)
      BY <1>2
  <2>2. CASE i \in 1..Q
      BY <1>2, <2>2
  <2>3. CASE i \notin 1..Q
    <3>1. PICK n \in 1..W : i = Q + n
        BY <1>4, <2>3
    <3>2. n \in DOMAIN w /\ queue'[i] = Job("wake", w[n], ok)
        BY <1>1, <1>2, <3>1
    <3>3. QED
        BY <3>2
  <2>4. QED
      BY <2>2, <2>3
<1>9. \A d : HasJob(queue', d) => HasJob(q, d) \/ \E n \in DOMAIN w : w[n] = d
  <2>1. SUFFICES ASSUME NEW i \in DOMAIN queue'
                 PROVE  \/ \E k \in DOMAIN q : queue'[i].who = q[k].who
                        \/ \E n \in DOMAIN w : queue'[i].who = w[n]
      BY DEF HasJob
  <2>2. \A n : Job("wake", w[n], ok).who = w[n]
      BY JobTypes
  <2>3. QED
      BY <1>8, <2>2
<1>10. \A k \in DOMAIN q : k \in DOMAIN queue' /\ queue'[k] = q[k]
    BY <1>2
<1>11. \A n \in DOMAIN w : Q + n \in DOMAIN queue' /\ queue'[Q + n] = Job("wake", w[n], ok)
    BY <1>1, <1>2
<1>12. QED
    BY <1>7, <1>8, <1>9, <1>10, <1>11

LEMMA TokensInit == Init => Tokens
<1> SUFFICES ASSUME Init
             PROVE  Tokens
    OBVIOUS
<1>1. DOMAIN queue = {} /\ \A c \in Callers : DOMAIN waiters[c] = {}
    BY DEF Init
<1>2. \A c \in Callers : pc[c] = "idle" /\ flight[c] = "none"
    BY DEF Init
<1>3. QED
    BY <1>1, <1>2 DEF Tokens, Unstarted, JobsFit, Distinct, ListedWaits, ListedOnce, NoLostWakeup

\* A new call or a settled fallback: its caller had no job and was on no list.
LEMMA TokensCall ==
    ASSUME TypeOK, Tokens, NEW c \in Callers,
           GetOrSet(c) \/ \E ok \in BOOLEAN : FallbackSettles(c, ok)
    PROVE  Tokens'
<1>1. PICK j \in Jobs :
        /\ queue' = Append(queue, j) /\ j.who = c
        /\ waiters' = waiters /\ inFlight' = inFlight
        /\ \/ /\ pc[c] = "idle" /\ pc' = [pc EXCEPT ![c] = "reading"]
              /\ j.do = "read" /\ flight' = flight
           \/ /\ flight[c] = "fetching" /\ flight' = [flight EXCEPT ![c] = "settled"]
              /\ j.do = "settle" /\ pc' = pc
  <2>1. ASSUME GetOrSet(c)
        PROVE  \E j \in Jobs : queue' = Append(queue, j) /\ j.who = c /\ j.do = "read"
    <3>1. PICK ok \in BOOLEAN : queue' = Append(queue, Job("read", c, ok))
        BY <2>1, GetOrSetDoes
    <3>2. /\ Job("read", c, ok) \in Jobs
          /\ Job("read", c, ok).who = c /\ Job("read", c, ok).do = "read"
        BY DEF Job, Jobs
    <3>3. QED
        BY <3>1, <3>2
  <2>2. CASE GetOrSet(c)
    <3>1. /\ waiters' = waiters /\ inFlight' = inFlight /\ flight' = flight
          /\ pc[c] = "idle" /\ pc' = [pc EXCEPT ![c] = "reading"]
        BY <2>2, GetOrSetDoes
    <3>2. QED
        BY <2>1, <2>2, <3>1
  <2>3. CASE \E ok \in BOOLEAN : FallbackSettles(c, ok)
    <3>1. PICK ok \in BOOLEAN : FallbackSettles(c, ok)
        BY <2>3
    <3>2. /\ waiters' = waiters /\ inFlight' = inFlight /\ pc' = pc
          /\ flight[c] = "fetching" /\ flight' = [flight EXCEPT ![c] = "settled"]
          /\ queue' = Append(queue, Job("settle", c, ok))
        BY <3>1 DEF FallbackSettles
    <3>3. /\ Job("settle", c, ok) \in Jobs
          /\ Job("settle", c, ok).who = c /\ Job("settle", c, ok).do = "settle"
        BY DEF Job, Jobs
    <3>4. QED
        BY <3>2, <3>3
  <2>4. QED
      BY <2>2, <2>3
<1>2. /\ queue \in Seq(Jobs) /\ flight \in [Callers -> FlightStates]
      /\ DOMAIN pc = Callers
      /\ \A i \in DOMAIN queue : queue[i] \in Jobs
      /\ \A f \in Callers : \A i \in DOMAIN waiters[f] : waiters[f][i] \in Callers
    BY DEF TypeOK
<1>3. \A i \in DOMAIN queue : queue[i].who \in Callers
                              /\ queue[i].do \in {"read", "settle", "wake", "finish"}
    BY <1>2, JobTypes
<1>4. /\ flight[c] = "none" \/ flight[c] = "fetching"
      /\ pc[c] # "reading" /\ pc[c] # "waiting"
    BY <1>1 DEF Tokens, Unstarted
<1>5. ~HasJob(queue, c)
    BY <1>3, <1>4 DEF Tokens, JobsFit, JobFits, HasJob
<1>6. /\ Distinct(queue')
      /\ \A d : HasJob(queue', d) <=> HasJob(queue, d) \/ d = c
      /\ \A i \in DOMAIN queue' : queue'[i] = j \/ \E k \in DOMAIN queue : queue'[i] = queue[k]
      /\ \A k \in DOMAIN queue : \E i \in DOMAIN queue' : queue'[i] = queue[k]
    BY <1>1, <1>2, <1>5, AddsOne DEF Tokens
<1>7. Unstarted'
    BY <1>1, <1>2, <1>4 DEF Tokens, Unstarted
<1>8. JobsFit'
  <2>1. \A k \in DOMAIN queue : queue[k].who # c
      BY <1>5 DEF HasJob
  <2>2. \A k \in DOMAIN queue : JobFits(queue[k], pc', flight')
      BY <1>1, <1>2, <1>3, <2>1 DEF Tokens, JobsFit, JobFits
  <2>3. JobFits(j, pc', flight')
      BY <1>1, <1>2 DEF JobFits
  <2>4. QED
    <3>1. SUFFICES ASSUME NEW i \in DOMAIN queue'
                   PROVE  JobFits(queue'[i], pc', flight')
        BY DEF JobsFit
    <3>2. CASE queue'[i] = j
        BY <2>3, <3>2
    <3>3. CASE \E k \in DOMAIN queue : queue'[i] = queue[k]
        BY <2>2, <3>3
    <3>4. QED
        BY <1>6, <3>2, <3>3
<1>9. ListedWaits'
    BY <1>1, <1>2, <1>4, <1>6 DEF Tokens, ListedWaits
<1>10. ListedOnce'
    BY <1>1 DEF Tokens, ListedOnce
<1>11. NoLostWakeup'
  <2>1. Pending \subseteq Pending'
      BY <1>1, <1>2 DEF Pending
  <2>2. \A d \in Callers : pc'[d] = "waiting" => pc[d] = "waiting"
      BY <1>1, <1>2
  <2>3. QED
      BY <1>1, <1>6, <2>1, <2>2 DEF Tokens, NoLostWakeup
<1>12. QED
    BY <1>6, <1>7, <1>8, <1>9, <1>10, <1>11 DEF Tokens

\* What the invariants say of the caller whose job runs.
LEMMA RunsFits ==
    ASSUME TypeOK, Tokens, NEW do, NEW c \in Callers, NEW ok, Runs(do, c, ok)
    PROVE  /\ do \in {"read", "wake"} => pc[c] \in {"reading", "waiting"} /\ flight[c] = "none"
           /\ do = "read" => pc[c] = "reading"
           /\ do = "wake" => pc[c] = "waiting"
           /\ do = "settle" => flight[c] = "settled"
           /\ do = "finish" => flight[c] = "storing"
           /\ HasJob(queue, c)
<1>1. 1 \in DOMAIN queue /\ queue[1].do = do /\ queue[1].who = c
    BY RunsOne DEF Tokens
<1>2. JobFits(queue[1], pc, flight)
    BY <1>1 DEF Tokens, JobsFit
<1>3. QED
    BY <1>1, <1>2 DEF JobFits, Tokens, Unstarted, HasJob

\* Facts about the data every step of the proof uses.
LEMMA Shapes ==
    ASSUME TypeOK
    PROVE  /\ queue \in Seq(Jobs) /\ flight \in [Callers -> FlightStates]
           /\ DOMAIN pc = Callers
           /\ \A i \in DOMAIN queue : queue[i] \in Jobs /\ queue[i].who \in Callers
                                    /\ queue[i].do \in {"read", "settle", "wake", "finish"}
           /\ \A f \in Callers : \A i \in DOMAIN waiters[f] : waiters[f][i] \in Callers
<1>1. /\ queue \in Seq(Jobs) /\ flight \in [Callers -> FlightStates]
      /\ DOMAIN pc = Callers
      /\ \A i \in DOMAIN queue : queue[i] \in Jobs
      /\ \A f \in Callers : \A i \in DOMAIN waiters[f] : waiters[f][i] \in Callers
    BY DEF TypeOK
<1>2. QED
    BY <1>1, JobTypes

\* A job that only answers its caller, or starts a flight for it.
LEMMA TokensRun ==
    ASSUME TypeOK, Tokens, NEW c \in Callers,
           ReadHit(c) \/ WakeWithValue(c) \/ ReadStarts(c) \/ WakeToRetry(c)
    PROVE  Tokens'
<1>1. /\ queue' = Tail(queue) /\ waiters' = waiters
      /\ \E do \in {"read", "wake"}, ok \in BOOLEAN : Runs(do, c, ok)
      /\ \E v \in {"value", "racing", "error"}, s \in {"none", "fetching", "failed"} :
            pc' = [pc EXCEPT ![c] = v] /\ flight' = [flight EXCEPT ![c] = s]
  <2>1. CASE ReadHit(c) \/ WakeWithValue(c)
    <3>1. flight[c] = "none"
        BY <2>1, RunsFits DEF ReadHit, WakeWithValue
    <3>2. flight' = [flight EXCEPT ![c] = "none"]
        BY <2>1, <3>1, Shapes DEF ReadHit, WakeWithValue
    <3>3. QED
        BY <2>1, <3>2 DEF ReadHit, WakeWithValue
  <2>2. CASE ReadStarts(c) \/ WakeToRetry(c)
      BY <2>2 DEF ReadStarts, WakeToRetry, Execute
  <2>3. QED
      BY <2>1, <2>2
<1>2. PICK do \in {"read", "wake"}, ok \in BOOLEAN : Runs(do, c, ok)
    BY <1>1
<1>3. PICK v \in {"value", "racing", "error"}, s \in {"none", "fetching", "failed"} :
        pc' = [pc EXCEPT ![c] = v] /\ flight' = [flight EXCEPT ![c] = s]
    BY <1>1
<1>4. pc[c] \in {"reading", "waiting"} /\ flight[c] = "none" /\ HasJob(queue, c)
    BY <1>2, RunsFits
<1>5. /\ Distinct(queue') /\ ~HasJob(queue', c)
      /\ \A d : d # c => (HasJob(queue', d) <=> HasJob(queue, d))
      /\ \A i \in DOMAIN queue' : \E k \in DOMAIN queue : queue'[i] = queue[k]
      /\ \A k \in DOMAIN queue : queue[k].who # c =>
            \E i \in DOMAIN queue' : queue'[i] = queue[k]
    BY <1>1, <1>2, RunsOne DEF Tokens
<1>6. Unstarted'
    BY <1>3, Shapes DEF Tokens, Unstarted
<1>7. JobsFit'
  <2>1. SUFFICES ASSUME NEW i \in DOMAIN queue'
                 PROVE  JobFits(queue'[i], pc', flight')
      BY DEF JobsFit
  <2>2. PICK k \in DOMAIN queue : queue'[i] = queue[k]
      BY <1>5, <2>1
  <2>3. JobFits(queue[k], pc, flight) /\ queue[k].who \in Callers /\ queue[k].who # c
      BY <1>5, <2>2, Shapes DEF Tokens, JobsFit, HasJob
  <2>4. pc'[queue[k].who] = pc[queue[k].who] /\ flight'[queue[k].who] = flight[queue[k].who]
      BY <1>3, <2>3, Shapes
  <2>5. QED
      BY <2>2, <2>3, <2>4 DEF JobFits
<1>8. ListedWaits'
  <2>1. \A f \in Callers : \A i \in DOMAIN waiters[f] : waiters[f][i] # c
      BY <1>4 DEF Tokens, ListedWaits
  <2>2. QED
      BY <1>1, <1>3, <1>5, <2>1, Shapes DEF Tokens, ListedWaits
<1>9. ListedOnce'
    BY <1>1 DEF Tokens, ListedOnce
<1>10. NoLostWakeup'
  <2>1. Pending \subseteq Pending'
      BY <1>3, <1>4, Shapes DEF Pending
  <2>2. \A d \in Callers : pc'[d] = "waiting" => pc[d] = "waiting" /\ d # c
      BY <1>3, Shapes
  <2>3. QED
      BY <1>1, <1>5, <2>1, <2>2 DEF Tokens, NoLostWakeup
<1>11. QED
    BY <1>5, <1>6, <1>7, <1>8, <1>9, <1>10 DEF Tokens

\* The flight's job gives way to one that resumes it once the value is written.
LEMMA TokensStore ==
    ASSUME TypeOK, Tokens, NEW c \in Callers, FlightStores(c)
    PROVE  Tokens'
<1> DEFINE T == Tail(queue)
           j == Job("finish", c, TRUE)
<1>1. /\ Runs("settle", c, TRUE) /\ queue' = Append(T, j)
      /\ waiters' = waiters /\ pc' = pc
      /\ flight' = [flight EXCEPT ![c] = "storing"]
    BY StoresDoes
<1>2. flight[c] = "settled" /\ HasJob(queue, c)
    BY <1>1, RunsFits
<1>3. j \in Jobs /\ j.who = c /\ j.do = "finish"
    BY DEF Job, Jobs
<1> HIDE DEF j
<1>4. /\ T \in Seq(Jobs) /\ Distinct(T) /\ ~HasJob(T, c)
      /\ \A d : d # c => (HasJob(T, d) <=> HasJob(queue, d))
      /\ \A i \in DOMAIN T : \E k \in DOMAIN queue : T[i] = queue[k]
      /\ \A k \in DOMAIN queue : queue[k].who # c => \E i \in DOMAIN T : T[i] = queue[k]
    BY <1>1, RunsOne DEF Tokens
<1> HIDE DEF T
<1>5. /\ Distinct(queue')
      /\ \A d : HasJob(queue', d) <=> HasJob(T, d) \/ d = c
      /\ \A i \in DOMAIN queue' : queue'[i] = j \/ \E k \in DOMAIN T : queue'[i] = T[k]
      /\ \A k \in DOMAIN T : \E i \in DOMAIN queue' : queue'[i] = T[k]
    BY <1>1, <1>3, <1>4, AddsOne
<1>6. Unstarted'
    BY <1>1, <1>2, Shapes DEF Tokens, Unstarted
<1>7. JobsFit'
  <2>1. SUFFICES ASSUME NEW i \in DOMAIN queue'
                 PROVE  JobFits(queue'[i], pc', flight')
      BY DEF JobsFit
  <2>2. CASE queue'[i] = j
      BY <1>1, <1>3, <2>2, Shapes DEF JobFits
  <2>3. CASE \E n \in DOMAIN T : queue'[i] = T[n]
    <3>1. PICK n \in DOMAIN T : queue'[i] = T[n]
        BY <2>3
    <3>2. PICK k \in DOMAIN queue : queue'[i] = queue[k]
        BY <1>4, <3>1
    <3>3. JobFits(queue[k], pc, flight) /\ queue[k].who \in Callers /\ queue[k].who # c
        BY <1>4, <3>1, <3>2, Shapes DEF Tokens, JobsFit, HasJob
    <3>4. QED
        BY <1>1, <3>2, <3>3, Shapes DEF JobFits
  <2>4. QED
      BY <1>5, <2>2, <2>3
<1>8. ListedWaits'
  <2>1. \A d : HasJob(queue', d) <=> HasJob(queue, d)
      BY <1>2, <1>4, <1>5
  <2>2. QED
      BY <1>1, <2>1 DEF Tokens, ListedWaits
<1>9. ListedOnce'
    BY <1>1 DEF Tokens, ListedOnce
<1>10. NoLostWakeup'
  <2>1. Pending \subseteq Pending'
      BY <1>1, Shapes DEF Pending
  <2>2. ASSUME NEW k \in DOMAIN queue, queue[k].do = "wake"
        PROVE  \E i \in DOMAIN queue' : queue'[i] = queue[k]
    <3>1. JobFits(queue[k], pc, flight) /\ queue[k].who \in Callers
        BY Shapes DEF Tokens, JobsFit
    <3>2. flight[queue[k].who] = "none"
        BY <2>2, <3>1 DEF JobFits, Tokens, Unstarted
    <3>3. QED
        BY <1>2, <1>4, <1>5, <3>2
  <2>3. QED
      BY <1>1, <2>1, <2>2 DEF Tokens, NoLostWakeup
<1>11. QED
    BY <1>5, <1>6, <1>7, <1>8, <1>9, <1>10 DEF Tokens

\* A miss that finds a flight on record goes on its list, or gets a wake-up at once.
LEMMA TokensJoin ==
    ASSUME TypeOK, Tokens, NEW c \in Callers, ReadJoins(c)
    PROVE  Tokens'
<1> DEFINE T == Tail(queue)
           j == Job("wake", c, FALSE)
<1>1. Runs("read", c, FALSE) /\ pc' = [pc EXCEPT ![c] = "waiting"] /\ flight' = flight
    BY DEF ReadJoins
<1>2. pc[c] = "reading" /\ flight[c] = "none" /\ HasJob(queue, c)
    BY <1>1, RunsFits
<1>3. /\ T \in Seq(Jobs) /\ Distinct(T) /\ ~HasJob(T, c)
      /\ \A d : d # c => (HasJob(T, d) <=> HasJob(queue, d))
      /\ \A i \in DOMAIN T : \E k \in DOMAIN queue : T[i] = queue[k]
      /\ \A k \in DOMAIN queue : queue[k].who # c => \E i \in DOMAIN T : T[i] = queue[k]
    BY <1>1, RunsOne DEF Tokens
<1>4. j \in Jobs /\ j.who = c /\ j.do = "wake"
    BY DEF Job, Jobs
<1> HIDE DEF T, j
<1>5. Unstarted'
    BY <1>1, <1>2, Shapes DEF Tokens, Unstarted
<1>6. \A i \in DOMAIN T : JobFits(T[i], pc', flight')
  <2>1. SUFFICES ASSUME NEW i \in DOMAIN T
                 PROVE  JobFits(T[i], pc', flight')
      OBVIOUS
  <2>2. PICK k \in DOMAIN queue : T[i] = queue[k]
      BY <1>3
  <2>3. JobFits(queue[k], pc, flight) /\ queue[k].who \in Callers /\ queue[k].who # c
      BY <1>3, <2>2, Shapes DEF Tokens, JobsFit, HasJob
  <2>4. QED
      BY <1>1, <2>2, <2>3, Shapes DEF JobFits
<1>7. \A f \in Callers : \A i \in DOMAIN waiters[f] :
        waiters[f][i] # c /\ pc'[waiters[f][i]] = "waiting" /\ ~HasJob(T, waiters[f][i])
    BY <1>1, <1>2, <1>3, Shapes DEF Tokens, ListedWaits
<1>8. \A d \in Callers : pc'[d] = "waiting" => d = c \/ pc[d] = "waiting"
    BY <1>1, Shapes
<1>9. CASE inFlight \in Pending
  <2>1. queue' = T /\ waiters' = [waiters EXCEPT ![inFlight] = Append(@, c)]
      BY <1>9 DEF ReadJoins, T
  <2>2. inFlight \in Callers /\ waiters \in [Callers -> Seq(Callers)]
      BY <1>9 DEF Pending, TypeOK
  <2> DEFINE w == waiters[inFlight]
  <2>3. /\ w \in Seq(Callers) /\ DOMAIN w = 1..Len(w) /\ Len(w) \in Nat
        /\ waiters'[inFlight] = Append(w, c)
        /\ DOMAIN waiters'[inFlight] = 1..Len(w) + 1
        /\ \A i \in 1..Len(w) : waiters'[inFlight][i] = w[i]
        /\ waiters'[inFlight][Len(w) + 1] = c
        /\ \A f \in Callers : f # inFlight => waiters'[f] = waiters[f]
    <3>1. w \in Seq(Callers) /\ DOMAIN w = 1..Len(w) /\ Len(w) \in Nat
        BY <2>2
    <3>2. waiters'[inFlight] = Append(w, c)
        BY <2>1, <2>2
    <3>3. \A f \in Callers : f # inFlight => waiters'[f] = waiters[f]
        BY <2>1, <2>2
    <3> HIDE DEF w
    <3>4. QED
        BY <3>1, <3>2, <3>3, AppendAt
  <2>4. \A i \in 1..Len(w) + 1 : i \in 1..Len(w) \/ i = Len(w) + 1
      BY <2>3
  <2>5. \A i \in 1..Len(w) : i \in 1..Len(w) + 1
      BY <2>3
  <2>6. Len(w) + 1 \in 1..Len(w) + 1
      BY <2>3
  \* Each entry of a list is an old entry of that list, or the new one.
  <2>7. \A f \in Callers : \A i \in DOMAIN waiters'[f] :
            \/ i \in DOMAIN waiters[f] /\ waiters'[f][i] = waiters[f][i]
            \/ f = inFlight /\ i = Len(w) + 1 /\ waiters'[f][i] = c
      BY <2>3, <2>4
  <2>8. \A f \in Callers : \A i \in DOMAIN waiters[f] :
            i \in DOMAIN waiters'[f] /\ waiters'[f][i] = waiters[f][i]
      BY <2>3, <2>5
  <2>9. Len(w) + 1 \in DOMAIN waiters'[inFlight] /\ waiters'[inFlight][Len(w) + 1] = c
      BY <2>3, <2>6
  <2> HIDE DEF w
  <2>10. JobsFit'
      BY <1>6, <2>1 DEF JobsFit
  <2>11. ListedWaits'
    <3>1. pc'[c] = "waiting" /\ ~HasJob(T, c)
        BY <1>1, <1>3, Shapes
    <3>2. QED
        BY <1>7, <2>1, <2>7, <3>1 DEF ListedWaits
  <2>12. ListedOnce'
    <3>1. SUFFICES ASSUME NEW f \in Callers, NEW g \in Callers,
                          NEW i \in DOMAIN waiters'[f], NEW k \in DOMAIN waiters'[g],
                          waiters'[f][i] = waiters'[g][k]
                   PROVE  f = g /\ i = k
        BY DEF ListedOnce
    <3>2. CASE i \in DOMAIN waiters[f] /\ waiters'[f][i] = waiters[f][i]
      <4>1. waiters[f][i] # c
          BY <1>7, <3>2
      <4>2. waiters'[g][k] # c
          BY <3>1, <3>2, <4>1
      <4>3. k \in DOMAIN waiters[g] /\ waiters'[g][k] = waiters[g][k]
        <5>1. g \in Callers /\ k \in DOMAIN waiters'[g]
            BY <3>1
        <5>2. QED
            BY ONLY <2>7, <4>2, <5>1
      <4>4. waiters[f][i] = waiters[g][k]
          BY <3>1, <3>2, <4>3
      <4>5. ListedOnce
          BY DEF Tokens
      <4>6. QED
          BY ONLY <3>1, <3>2, <4>3, <4>4, <4>5, f \in Callers, g \in Callers DEF ListedOnce
    <3>3. CASE f = inFlight /\ i = Len(w) + 1 /\ waiters'[f][i] = c
        BY <1>7, <2>7, <3>1, <3>3
    <3>4. QED
        BY <2>7, <3>2, <3>3
  <2>13. NoLostWakeup'
    <3>1. Pending' = Pending
        BY <1>1 DEF Pending
    <3>2. \A k \in DOMAIN queue : queue[k].do = "wake" => queue[k].who # c
        BY <1>2, Shapes DEF Tokens, JobsFit, JobFits
    <3>3. SUFFICES ASSUME NEW d \in Callers, pc'[d] = "waiting"
                   PROVE  \/ \E f \in Pending : \E i \in DOMAIN waiters'[f] : waiters'[f][i] = d
                          \/ \E i \in DOMAIN T : T[i].do = "wake" /\ T[i].who = d
        BY <2>1, <3>1 DEF NoLostWakeup
    <3>4. CASE d = c
        BY <1>9, <2>9, <3>4
    <3>5. CASE pc[d] = "waiting" /\ d # c
      <4>1. CASE \E f \in Pending : \E i \in DOMAIN waiters[f] : waiters[f][i] = d
        <5>1. Pending \subseteq Callers
            BY DEF Pending
        <5>2. QED
            BY <2>8, <4>1, <5>1
      <4>2. CASE \E k \in DOMAIN queue : queue[k].do = "wake" /\ queue[k].who = d
          BY <1>3, <3>5, <4>2
      <4>3. QED
          BY <3>5, <4>1, <4>2 DEF Tokens, NoLostWakeup
    <3>6. QED
        BY <1>8, <3>3, <3>4, <3>5
  <2>14. QED
      BY <1>3, <1>5, <2>1, <2>10, <2>11, <2>12, <2>13 DEF Tokens
<1>10. CASE inFlight \notin Pending
  <2>1. queue' = Append(T, j) /\ waiters' = waiters
      BY <1>10 DEF ReadJoins, T, j
  <2>2. /\ Distinct(queue')
        /\ \A d : HasJob(queue', d) <=> HasJob(T, d) \/ d = c
        /\ \A i \in DOMAIN queue' : queue'[i] = j \/ \E k \in DOMAIN T : queue'[i] = T[k]
        /\ \A k \in DOMAIN T : \E i \in DOMAIN queue' : queue'[i] = T[k]
        /\ \E i \in DOMAIN queue' : queue'[i] = j
      BY <1>3, <1>4, <2>1, AddsOne
  <2>3. JobsFit'
    <3>1. JobFits(j, pc', flight')
        BY <1>1, <1>4, Shapes DEF JobFits
    <3>2. QED
        BY <1>6, <2>2, <3>1 DEF JobsFit
  <2>4. ListedWaits'
      BY <1>7, <2>1, <2>2 DEF ListedWaits
  <2>5. ListedOnce'
      BY <2>1 DEF Tokens, ListedOnce
  <2>6. NoLostWakeup'
    <3>1. Pending' = Pending
        BY <1>1 DEF Pending
    <3>2. \A k \in DOMAIN queue : queue[k].who # c =>
              \E i \in DOMAIN queue' : queue'[i] = queue[k]
        BY <1>3, <2>2
    <3>3. \A d \in Callers : pc'[d] = "waiting" => d = c \/ (d # c /\ pc[d] = "waiting")
        BY <1>8
    <3>4. \E i \in DOMAIN queue' : queue'[i].do = "wake" /\ queue'[i].who = c
        BY <1>4, <2>2
    <3>5. QED
        BY <2>1, <3>1, <3>2, <3>3, <3>4 DEF Tokens, NoLostWakeup
  <2>7. QED
      BY <1>5, <2>2, <2>3, <2>4, <2>5, <2>6 DEF Tokens
<1>11. QED
    BY <1>9, <1>10

\* A flight ends: its list moves to the queue, and it is off the record.
LEMMA TokensEnd ==
    ASSUME TypeOK, Tokens, NEW c \in Callers, FlightFails(c) \/ FlightFinishes(c)
    PROVE  Tokens'
<1> DEFINE T == Tail(queue)
<1>1. PICK ok \in BOOLEAN, do \in {"settle", "finish"} : Runs(do, c, ok) /\ Ends(c, ok)
    BY DEF FlightFails, FlightFinishes
<1>2. /\ queue' = T \o Wakes(c, ok)
      /\ waiters' = [waiters EXCEPT ![c] = <<>>]
      /\ \E v : pc' = [pc EXCEPT ![c] = v] /\ (v = pc[c] \/ v \in {"value", "error"})
      /\ \E s \in {"done", "failed"} : flight' = [flight EXCEPT ![c] = s]
    BY <1>1 DEF Ends
<1>3. flight[c] \in {"settled", "storing"} /\ HasJob(queue, c)
    BY <1>1, RunsFits
<1>4. pc[c] \notin {"idle", "reading", "waiting"}
    BY <1>3 DEF Tokens, Unstarted
<1>5. /\ T \in Seq(Jobs) /\ Distinct(T) /\ ~HasJob(T, c)
      /\ \A d : d # c => (HasJob(T, d) <=> HasJob(queue, d))
      /\ \A i \in DOMAIN T : \E k \in DOMAIN queue : T[i] = queue[k]
      /\ \A k \in DOMAIN queue : queue[k].who # c => \E i \in DOMAIN T : T[i] = queue[k]
    BY <1>1, RunsOne DEF Tokens
<1> HIDE DEF T
<1>6. \A f \in Callers : \A i \in DOMAIN waiters[f] :
        /\ waiters[f][i] # c /\ pc[waiters[f][i]] = "waiting"
        /\ ~HasJob(T, waiters[f][i]) /\ waiters[f][i] \in Callers
    BY <1>3, <1>5, Shapes DEF Tokens, ListedWaits
<1>7. /\ Distinct(queue')
      /\ \A d : HasJob(queue', d) =>
            HasJob(T, d) \/ \E n \in DOMAIN waiters[c] : waiters[c][n] = d
      /\ \A i \in DOMAIN queue' :
            \/ \E k \in DOMAIN T : queue'[i] = T[k]
            \/ \E n \in DOMAIN waiters[c] : queue'[i] = Job("wake", waiters[c][n], ok)
      /\ \A k \in DOMAIN T : \E i \in DOMAIN queue' : queue'[i] = T[k]
      /\ \A n \in DOMAIN waiters[c] :
            \E i \in DOMAIN queue' : queue'[i] = Job("wake", waiters[c][n], ok)
  <2>1. \A i \in DOMAIN waiters[c] : ~HasJob(T, waiters[c][i])
      BY <1>6
  <2>2. ListedOnce /\ T \in Seq(Jobs) /\ Distinct(T) /\ queue' = T \o Wakes(c, ok)
      BY <1>2, <1>5 DEF Tokens
  <2>3. QED
      BY ONLY TypeOK, c \in Callers, ok \in BOOLEAN, <2>1, <2>2, AddsWakes
<1>8. /\ waiters'[c] = <<>> /\ DOMAIN waiters'[c] = {}
      /\ \A f \in Callers : f # c => waiters'[f] = waiters[f]
    BY <1>2 DEF TypeOK
<1>9. /\ \A d \in Callers : d # c => pc'[d] = pc[d] /\ flight'[d] = flight[d]
      /\ pc'[c] \notin {"idle", "reading", "waiting"}
    BY <1>2, <1>4, Shapes
<1>10. Unstarted'
    BY <1>9 DEF Tokens, Unstarted
<1>11. JobsFit'
  <2>1. SUFFICES ASSUME NEW i \in DOMAIN queue'
                 PROVE  JobFits(queue'[i], pc', flight')
      BY DEF JobsFit
  <2>2. CASE \E n \in DOMAIN T : queue'[i] = T[n]
    <3>1. PICK n \in DOMAIN T : queue'[i] = T[n]
        BY <2>2
    <3>2. PICK k \in DOMAIN queue : queue'[i] = queue[k]
        BY <1>5, <3>1
    <3>3. JobFits(queue[k], pc, flight) /\ queue[k].who \in Callers /\ queue[k].who # c
        BY <1>5, <3>1, <3>2, Shapes DEF Tokens, JobsFit, HasJob
    <3>4. QED
        BY <1>9, <3>2, <3>3 DEF JobFits
  <2>3. CASE \E n \in DOMAIN waiters[c] : queue'[i] = Job("wake", waiters[c][n], ok)
    <3>1. PICK n \in DOMAIN waiters[c] : queue'[i] = Job("wake", waiters[c][n], ok)
        BY <2>3
    <3>2. queue'[i].do = "wake" /\ queue'[i].who = waiters[c][n]
        BY <3>1 DEF Job
    <3>3. QED
        BY <1>6, <1>9, <3>2 DEF JobFits
  <2>4. QED
      BY <1>7, <2>2, <2>3
<1>12. ListedWaits'
  <2>1. SUFFICES ASSUME NEW f \in Callers, NEW i \in DOMAIN waiters'[f]
                 PROVE  pc'[waiters'[f][i]] = "waiting" /\ ~HasJob(queue', waiters'[f][i])
      BY DEF ListedWaits
  <2>2. f # c /\ waiters'[f] = waiters[f]
      BY <1>8, <2>1
  <2>3. \A n \in DOMAIN waiters[c] : waiters[c][n] # waiters[f][i]
      BY <2>1, <2>2 DEF Tokens, ListedOnce
  <2>4. QED
      BY <1>6, <1>7, <1>9, <2>1, <2>2, <2>3
<1>13. ListedOnce'
    BY <1>8 DEF Tokens, ListedOnce
<1>14. NoLostWakeup'
  <2>1. \A f \in Pending : f # c => f \in Pending'
      BY <1>9 DEF Pending
  <2>2. SUFFICES ASSUME NEW d \in Callers, pc'[d] = "waiting"
                 PROVE  \/ \E f \in Pending' : \E i \in DOMAIN waiters'[f] : waiters'[f][i] = d
                        \/ \E i \in DOMAIN queue' : queue'[i].do = "wake" /\ queue'[i].who = d
      BY DEF NoLostWakeup
  <2>3. d # c /\ pc[d] = "waiting"
      BY <1>9, <2>2
  <2>4. CASE \E f \in Pending : \E i \in DOMAIN waiters[f] : waiters[f][i] = d
    <3>1. PICK f \in Pending : \E i \in DOMAIN waiters[f] : waiters[f][i] = d
        BY <2>4
    <3>2. PICK i \in DOMAIN waiters[f] : waiters[f][i] = d
        BY <3>1
    <3>3. CASE f = c
      <4>1. PICK k \in DOMAIN queue' : queue'[k] = Job("wake", waiters[c][i], ok)
          BY <1>7, <3>2, <3>3
      <4>2. queue'[k].do = "wake" /\ queue'[k].who = d
          BY <3>2, <3>3, <4>1 DEF Job
      <4>3. QED
          BY <4>2
    <3>4. CASE f # c
      <4>1. f \in Callers /\ f \in Pending'
          BY <2>1, <3>4 DEF Pending
      <4>2. waiters'[f] = waiters[f]
          BY <1>8, <3>4, <4>1
      <4>3. QED
          BY <3>2, <4>1, <4>2
    <3>5. QED
        BY <3>3, <3>4
  <2>5. CASE \E k \in DOMAIN queue : queue[k].do = "wake" /\ queue[k].who = d
      BY <1>5, <1>7, <2>3, <2>5
  <2>6. QED
      BY <2>3, <2>4, <2>5 DEF Tokens, NoLostWakeup
<1>15. QED
    BY <1>7, <1>10, <1>11, <1>12, <1>13, <1>14 DEF Tokens

\* A timer, a lost entry or the end of the module leaves the jobs and the lists alone.
LEMMA TokensOther ==
    ASSUME TypeOK, Tokens,
           (\E c \in Callers : TimerFires(c)) \/ Forget \/ OnModuleDestroy \/ UNCHANGED vars
    PROVE  Tokens'
<1>1. /\ queue' = queue /\ waiters' = waiters /\ flight' = flight
      /\ \A d \in Callers : pc'[d] = pc[d] \/ (pc[d] = "racing" /\ pc'[d] = "null")
  <2>1. CASE \E c \in Callers : TimerFires(c)
      BY <2>1, Shapes DEF TimerFires
  <2>2. CASE Forget
      BY <2>2 DEF Forget
  <2>3. CASE OnModuleDestroy
    <3>1. queue' = queue /\ waiters' = waiters /\ flight' = flight /\ pc' = pc
        BY <2>3 DEF OnModuleDestroy
    <3>2. QED
        BY <3>1
  <2>4. CASE UNCHANGED vars
      BY <2>4 DEF vars
  <2>5. QED
      BY <2>1, <2>2, <2>3, <2>4
<1>2. Unstarted'
    BY <1>1 DEF Tokens, Unstarted
<1>3. JobsFit'
    BY <1>1, Shapes DEF Tokens, JobsFit, JobFits
<1>4. ListedWaits'
    BY <1>1, Shapes DEF Tokens, ListedWaits
<1>5. ListedOnce' /\ Distinct(queue)'
    BY <1>1 DEF Tokens, ListedOnce
<1>6. NoLostWakeup'
    BY <1>1 DEF Tokens, NoLostWakeup, Pending
<1>7. QED
    BY <1>1, <1>2, <1>3, <1>4, <1>5, <1>6 DEF Tokens

LEMMA TokensStep == TypeOK /\ Tokens /\ [Next]_vars => Tokens'
<1> SUFFICES ASSUME TypeOK, Tokens, [Next]_vars
             PROVE  Tokens'
    OBVIOUS
<1>1. CASE \E c \in Callers : \/ GetOrSet(c)
                              \/ \E ok \in BOOLEAN : FallbackSettles(c, ok)
    BY <1>1, TokensCall
<1>2. CASE \E c \in Callers : \/ ReadHit(c) \/ WakeWithValue(c)
                              \/ ReadStarts(c) \/ WakeToRetry(c)
    BY <1>2, TokensRun
<1>3. CASE \E c \in Callers : ReadJoins(c)
    BY <1>3, TokensJoin
<1>4. CASE \E c \in Callers : FlightStores(c)
    BY <1>4, TokensStore
<1>5. CASE \E c \in Callers : FlightFails(c) \/ FlightFinishes(c)
    BY <1>5, TokensEnd
<1>6. CASE \/ \E c \in Callers : TimerFires(c)
           \/ Forget \/ OnModuleDestroy \/ UNCHANGED vars
    BY <1>6, TokensOther
<1>7. QED
    BY <1>1, <1>2, <1>3, <1>4, <1>5, <1>6 DEF Next, RunJob

LEMMA TokensHold == Spec => [](TypeOK /\ Tokens)
<1>1. Init => TypeOK /\ Tokens
    BY TypeInit, TokensInit
<1>2. TypeOK /\ Tokens /\ [Next]_vars => TypeOK' /\ Tokens'
    BY TypeStep, TokensStep
<1>3. QED
    BY <1>1, <1>2, PTL DEF Spec

\* A caller that joined a flight is never forgotten: as long as it waits, it is on the list
\* of a flight still to settle, or its wake-up is queued.
THEOREM NobodyIsForgotten == Spec => []NoLostWakeup
<1>1. Tokens => NoLostWakeup
    BY DEF Tokens
<1>2. QED
    BY <1>1, TokensHold, PTL

-----------------------------------------------------------------------------
(* The flight on record *)

\* A flight on record was started and did not succeed yet.
RecordFits == inFlight # None => flight[inFlight] \notin {"none", "done"}

LEMMA RecordStep == TypeOK /\ Tokens /\ RecordFits /\ [Next]_vars => RecordFits'
<1> SUFFICES ASSUME TypeOK, Tokens, RecordFits, [Next]_vars
             PROVE  RecordFits'
    OBVIOUS
<1>0. /\ flight \in [Callers -> FlightStates] /\ inFlight \in Callers \cup {None}
      /\ None \notin Callers
    BY FlightAssumption DEF TypeOK
<1>1. CASE \E c \in Callers : ReadStarts(c) \/ WakeToRetry(c)
    BY <1>0, <1>1 DEF ReadStarts, WakeToRetry, Execute, RecordFits
<1>2. CASE \E c \in Callers : FlightFails(c) \/ FlightFinishes(c)
    BY <1>2 DEF FlightFails, FlightFinishes, Ends, RecordFits
<1>3. CASE \E c \in Callers, ok \in BOOLEAN : FallbackSettles(c, ok)
  <2>1. PICK c \in Callers, ok \in BOOLEAN : FallbackSettles(c, ok)
      BY <1>3
  <2>2. inFlight' = inFlight /\ flight' = [flight EXCEPT ![c] = "settled"]
      BY <2>1 DEF FallbackSettles
  <2>3. QED
      BY <1>0, <2>2 DEF RecordFits
<1>4. CASE \E c \in Callers : FlightStores(c)
  <2>1. PICK c \in Callers : FlightStores(c)
      BY <1>4
  <2>2. inFlight' = inFlight /\ flight' = [flight EXCEPT ![c] = "storing"]
      BY <2>1, StoresDoes
  <2>3. QED
      BY <1>0, <2>2 DEF RecordFits
<1>5. CASE OnModuleDestroy
    BY <1>5 DEF OnModuleDestroy, RecordFits
<1>6. CASE \/ \E c \in Callers : \/ GetOrSet(c) \/ TimerFires(c) \/ ReadHit(c)
                                 \/ ReadJoins(c) \/ WakeWithValue(c)
           \/ Forget \/ UNCHANGED vars
  <2>1. inFlight' = inFlight /\ flight' = flight
    <3>1. CASE \E c \in Callers : GetOrSet(c)
        BY <3>1, GetOrSetDoes
    <3>2. CASE \E c \in Callers : TimerFires(c) \/ ReadHit(c) \/ ReadJoins(c) \/ WakeWithValue(c)
        BY <3>2 DEF TimerFires, ReadHit, ReadJoins, WakeWithValue
    <3>3. CASE Forget \/ UNCHANGED vars
        BY <3>3 DEF Forget, vars
    <3>4. QED
        BY <1>6, <3>1, <3>2, <3>3
  <2>2. QED
      BY <2>1 DEF RecordFits
<1>7. QED
    BY <1>1, <1>2, <1>3, <1>4, <1>5, <1>6 DEF Next, RunJob

\* A caller that finds a flight on record never joins one that already succeeded.
THEOREM RecordIsOpen == Spec => []RecordedFlightIsOpen
<1>1. Init => RecordFits
    BY DEF Init, RecordFits
<1>2. RecordFits => RecordedFlightIsOpen
    BY DEF RecordFits, RecordedFlightIsOpen
<1>3. QED
    BY <1>1, <1>2, RecordStep, TokensHold, PTL DEF Spec

-----------------------------------------------------------------------------
(* Shared: one fallback for each miss *)

Healthy == (\A c \in Callers : flight[c] # "failed") /\ ~destroyed

Miss(j) == j.do = "read" /\ j.ok = FALSE

NoMiss(q) == \A i \in DOMAIN q : ~Miss(q[i])

Finishing(q) == \E k \in DOMAIN q : q[k].do = "finish"

\* No miss waits behind the end of a flight.
Cleared(q) ==
    \A i, k \in DOMAIN q : q[k].do = "finish" /\ i > k => ~Miss(q[i])

\* Nobody is about to start another flight: without one on record the value is cached and
\* every read under way saw it, and while one is about to leave the record the same holds
\* of the reads that run after it left.
MadeUp ==
    /\ inFlight = None => cached = TRUE /\ NoMiss(queue)
    /\ Finishing(queue) => cached = TRUE
    /\ Cleared(queue)

Shared ==
    Healthy =>
        /\ Pending \subseteq {inFlight}
        /\ \A i \in DOMAIN queue : queue[i].do = "wake" => queue[i].ok = TRUE
        /\ Cardinality(Fills) <= 1 + losses
        /\ Cardinality(Fills) = 1 + losses => MadeUp

LEMMA TailOrder ==
    ASSUME NEW q \in Seq(Jobs), q # <<>>
    PROVE  /\ NoMiss(q) => NoMiss(Tail(q))
           /\ Finishing(Tail(q)) => Finishing(q)
           /\ Cleared(q) => Cleared(Tail(q))
           /\ Cleared(q) /\ q[1].do = "finish" => NoMiss(Tail(q))
<1>1. /\ DOMAIN Tail(q) = 1..Len(q) - 1 /\ DOMAIN q = 1..Len(q)
      /\ Len(q) \in Nat /\ Len(q) > 0
      /\ \A i \in 1..Len(q) - 1 : Tail(q)[i] = q[i + 1]
    BY TailAt
<1>2. \A i \in 1..Len(q) - 1 : i + 1 \in 1..Len(q) /\ i + 1 > 1
    BY <1>1
<1>3. \A i, k \in 1..Len(q) - 1 : i > k => i + 1 > k + 1
    BY <1>1
<1>4. 1 \in DOMAIN q
    BY <1>1
<1>5. (NoMiss(q) => NoMiss(Tail(q))) /\ (Finishing(Tail(q)) => Finishing(q))
    BY <1>1, <1>2 DEF NoMiss, Finishing
<1>6. Cleared(q) => Cleared(Tail(q))
    BY <1>1, <1>2, <1>3 DEF Cleared
<1>7. Cleared(q) /\ q[1].do = "finish" => NoMiss(Tail(q))
    BY <1>1, <1>2, <1>4 DEF Cleared, NoMiss
<1>8. QED
    BY <1>5, <1>6, <1>7

LEMMA AppendOrder ==
    ASSUME NEW q \in Seq(Jobs), NEW j \in Jobs
    PROVE  /\ NoMiss(q) /\ ~Miss(j) => NoMiss(Append(q, j))
           /\ Finishing(Append(q, j)) => Finishing(q) \/ j.do = "finish"
           /\ Cleared(q) /\ ~Miss(j) => Cleared(Append(q, j))
           /\ Cleared(q) /\ ~Finishing(q) => Cleared(Append(q, j))
<1> DEFINE a == Append(q, j)
<1>1. /\ DOMAIN a = 1..Len(q) + 1 /\ DOMAIN q = 1..Len(q) /\ Len(q) \in Nat
      /\ \A i \in 1..Len(q) : a[i] = q[i]
      /\ a[Len(q) + 1] = j
    BY AppendAt
<1> HIDE DEF a
<1>2. \A i \in DOMAIN a : (i \in DOMAIN q /\ a[i] = q[i]) \/ (i = Len(q) + 1 /\ a[i] = j)
    BY <1>1
<1>3. \A i \in DOMAIN a : ~(i > Len(q) + 1)
    BY <1>1
<1>4. (NoMiss(q) /\ ~Miss(j) => NoMiss(a)) /\ (Finishing(a) => Finishing(q) \/ j.do = "finish")
    BY <1>2 DEF NoMiss, Finishing
<1>5. Cleared(q) /\ ~Miss(j) => Cleared(a)
    BY <1>2, <1>3 DEF Cleared
<1>6. Cleared(q) /\ ~Finishing(q) => Cleared(a)
    BY <1>2, <1>3 DEF Cleared, Finishing
<1>7. QED
    BY <1>4, <1>5, <1>6 DEF a

\* Fills is finite, and a new flight adds one to it.
LEMMA CountsFills ==
    ASSUME TypeOK, NEW c \in Callers, NEW s \in {"fetching", "failed"},
           flight' = [flight EXCEPT ![c] = s], flight[c] = "none"
    PROVE  Cardinality(Fills') = Cardinality(Fills) + 1
<1>1. Fills' = Fills \cup {c} /\ c \notin Fills
    BY DEF TypeOK, Fills
<1>2. IsFiniteSet(Fills)
    BY FlightAssumption, FS_Subset DEF Fills
<1>3. QED
    BY <1>1, <1>2, FS_AddElement

LEMMA FillsNat == Cardinality(Fills) \in Nat
<1>1. IsFiniteSet(Fills)
    BY FlightAssumption, FS_Subset DEF Fills
<1>2. QED
    BY <1>1, FS_CardinalityType

LEMMA SharedInit == Init => Shared
<1> SUFFICES ASSUME Init
             PROVE  Shared
    OBVIOUS
<1>1. DOMAIN queue = {} /\ losses = 0
    BY DEF Init
<1>2. Fills = {} /\ Pending = {}
    BY DEF Init, Fills, Pending
<1>3. Cardinality(Fills) = 0
    BY <1>2, FS_EmptySet
<1>4. QED
    BY <1>1, <1>2, <1>3 DEF Shared

\* What healthy means for the step before: a flight that failed stays failed.
LEMMA HealthyBefore == TypeOK /\ Tokens /\ [Next]_vars /\ Healthy' => Healthy
<1> SUFFICES ASSUME TypeOK, Tokens, [Next]_vars, Healthy'
             PROVE  Healthy
    OBVIOUS
<1>0. flight \in [Callers -> FlightStates]
    BY Shapes
<1>1. ~destroyed
    <2>1. CASE \E c \in Callers : GetOrSet(c)
        BY <2>1, GetOrSetDoes DEF Healthy
    <2>2. CASE \E c \in Callers : FlightStores(c)
        BY <2>2, StoresDoes DEF Healthy
    <2>3. CASE OnModuleDestroy
        BY <2>3 DEF OnModuleDestroy
    <2>4. CASE Forget \/ UNCHANGED vars
        BY <2>4 DEF Forget, vars, Healthy
    <2>5. CASE \E c \in Callers : TimerFires(c)
        BY <2>5 DEF TimerFires, Healthy
    <2>6. CASE \E c \in Callers, ok \in BOOLEAN : FallbackSettles(c, ok)
        BY <2>6 DEF FallbackSettles, Healthy
    <2>7. CASE \E c \in Callers : ReadHit(c) \/ ReadJoins(c) \/ WakeWithValue(c)
        BY <2>7 DEF ReadHit, ReadJoins, WakeWithValue, Healthy
    <2>8. CASE \E c \in Callers : ReadStarts(c) \/ WakeToRetry(c)
        BY <2>8 DEF ReadStarts, WakeToRetry, Healthy
    <2>9. CASE \E c \in Callers : FlightFails(c) \/ FlightFinishes(c)
        BY <2>9 DEF FlightFails, FlightFinishes, Ends, Healthy
    <2>10. QED
        BY <2>1, <2>2, <2>3, <2>4, <2>5, <2>6, <2>7, <2>8, <2>9 DEF Next, RunJob
<1>2. \A d \in Callers : flight[d] = "failed" => flight'[d] = "failed"
    <2>1. CASE \E c \in Callers : GetOrSet(c)
        BY <2>1, GetOrSetDoes
    <2>2. CASE \E c \in Callers : FlightStores(c)
      <3>1. PICK c \in Callers : FlightStores(c)
          BY <2>2
      <3>2. flight' = [flight EXCEPT ![c] = "storing"] /\ flight[c] = "settled"
          BY <3>1, StoresDoes, RunsFits
      <3>3. QED
          BY <1>0, <3>2
    <2>3. CASE OnModuleDestroy \/ Forget \/ UNCHANGED vars
      <3>1. flight' = flight
          BY <2>3 DEF OnModuleDestroy, Forget, vars
      <3>2. QED
          BY <3>1
    <2>4. CASE \E c \in Callers : TimerFires(c)
        BY <2>4 DEF TimerFires
    <2>5. CASE \E c \in Callers, ok \in BOOLEAN : FallbackSettles(c, ok)
        BY <1>0, <2>5 DEF FallbackSettles
    <2>6. CASE \E c \in Callers : ReadHit(c) \/ ReadJoins(c) \/ WakeWithValue(c)
        BY <2>6 DEF ReadHit, ReadJoins, WakeWithValue
    <2>7. CASE \E c \in Callers : ReadStarts(c) \/ WakeToRetry(c)
      <3>1. PICK c \in Callers, do \in {"read", "wake"} : Runs(do, c, FALSE) /\ Execute(c)
          BY <2>7 DEF ReadStarts, WakeToRetry
      <3>2. flight[c] = "none"
          BY <3>1, RunsFits
      <3>3. QED
          BY <1>0, <3>1, <3>2 DEF Execute
    <2>8. CASE \E c \in Callers : FlightFails(c) \/ FlightFinishes(c)
      <3>1. PICK c \in Callers, do \in {"settle", "finish"}, ok \in BOOLEAN :
                Runs(do, c, ok) /\ Ends(c, ok)
          BY <2>8 DEF FlightFails, FlightFinishes
      <3>2. flight[c] \in {"settled", "storing"}
          BY <3>1, RunsFits
      <3>3. QED
          BY <1>0, <3>1, <3>2 DEF Ends
    <2>9. QED
        BY <2>1, <2>2, <2>3, <2>4, <2>5, <2>6, <2>7, <2>8 DEF Next, RunJob
<1>3. QED
    BY <1>1, <1>2 DEF Healthy

\* A step that starts and ends no flight, adds no miss and takes no entry away.
LEMMA SharedKeeps ==
    ASSUME TypeOK, Tokens, Shared, Healthy, Pending' = Pending, Fills' = Fills,
           inFlight' = inFlight, losses' = losses, cached' = cached,
           \A i \in DOMAIN queue' : queue'[i].do = "wake" =>
                \E k \in DOMAIN queue : queue'[i] = queue[k],
           NoMiss(queue) => NoMiss(queue'),
           Finishing(queue') => Finishing(queue),
           Cleared(queue) => Cleared(queue')
    PROVE  Shared'
<1>1. /\ Pending \subseteq {inFlight}
      /\ \A i \in DOMAIN queue : queue[i].do = "wake" => queue[i].ok = TRUE
      /\ Cardinality(Fills) <= 1 + losses
      /\ Cardinality(Fills) = 1 + losses => MadeUp
    BY DEF Shared
<1>2. MadeUp => MadeUp'
    BY DEF MadeUp
<1>3. \A i \in DOMAIN queue' : queue'[i].do = "wake" => queue'[i].ok = TRUE
    BY <1>1
<1>4. QED
    BY <1>1, <1>2, <1>3 DEF Shared

LEMMA SharedCall ==
    ASSUME TypeOK, Tokens, Shared, Healthy, NEW c \in Callers, GetOrSet(c)
    PROVE  Shared'
<1>1. /\ Pending \subseteq {inFlight}
      /\ \A i \in DOMAIN queue : queue[i].do = "wake" => queue[i].ok = TRUE
      /\ Cardinality(Fills) <= 1 + losses
      /\ Cardinality(Fills) = 1 + losses => MadeUp
    BY DEF Shared
<1>2. /\ flight' = flight /\ inFlight' = inFlight /\ cached' = cached
      /\ Pending' = Pending /\ Fills' = Fills
    BY GetOrSetDoes DEF Pending, Fills
<1>3. PICK ok \in BOOLEAN :
        /\ queue' = Append(queue, Job("read", c, ok))
        /\ (ok = cached /\ losses' = losses) \/ losses' = losses + 1
    BY GetOrSetDoes
<1> DEFINE j == Job("read", c, ok)
<1>4. j \in Jobs /\ j.do = "read" /\ j.ok = ok
    BY DEF Job, Jobs
<1>5. queue \in Seq(Jobs) /\ losses \in Nat /\ Cardinality(Fills) \in Nat
    BY FillsNat DEF TypeOK
<1> HIDE DEF j
<1>6. queue' = Append(queue, j)
    BY <1>3 DEF j
<1>7. /\ DOMAIN queue = 1..Len(queue) /\ DOMAIN queue' = 1..Len(queue) + 1
      /\ \A i \in 1..Len(queue) : queue'[i] = queue[i]
      /\ queue'[Len(queue) + 1] = j /\ Len(queue) \in Nat
    BY <1>4, <1>5, <1>6, AppendAt
<1>8. \A i \in DOMAIN queue' : queue'[i].do = "wake" =>
            i \in DOMAIN queue /\ queue'[i] = queue[i]
    BY <1>4, <1>7
<1>9. \A i \in DOMAIN queue' : queue'[i].do = "wake" => queue'[i].ok = TRUE
    BY <1>1, <1>8
<1>10. CASE losses' = losses + 1
    BY <1>1, <1>2, <1>5, <1>9, <1>10 DEF Shared
<1>11. CASE ok = cached /\ losses' = losses
  <2>1. /\ NoMiss(queue) /\ ~Miss(j) => NoMiss(queue')
        /\ Finishing(queue') => Finishing(queue)
        /\ Cleared(queue) /\ ~Miss(j) => Cleared(queue')
        /\ Cleared(queue) /\ ~Finishing(queue) => Cleared(queue')
      BY <1>4, <1>5, <1>6, AppendOrder
  <2>2. cached = TRUE => ~Miss(j)
      BY <1>4, <1>11 DEF Miss
  <2>3. MadeUp => MadeUp'
      BY <1>2, <2>1, <2>2 DEF MadeUp
  <2>4. QED
      BY <1>1, <1>2, <1>9, <1>11, <2>3 DEF Shared
<1>12. QED
    BY <1>3, <1>10, <1>11

LEMMA SharedSettles ==
    ASSUME TypeOK, Tokens, Shared, Healthy, NEW c \in Callers, NEW ok \in BOOLEAN,
           FallbackSettles(c, ok)
    PROVE  Shared'
<1> DEFINE j == Job("settle", c, ok)
<1>1. /\ flight[c] = "fetching" /\ flight' = [flight EXCEPT ![c] = "settled"]
      /\ queue' = Append(queue, j)
      /\ inFlight' = inFlight /\ losses' = losses /\ cached' = cached
    BY DEF FallbackSettles
<1>2. j \in Jobs /\ j.do = "settle"
    BY DEF Job, Jobs
<1>3. queue \in Seq(Jobs) /\ flight \in [Callers -> FlightStates]
    BY Shapes
<1> HIDE DEF j
<1>4. Pending' = Pending /\ Fills' = Fills
    BY <1>1, <1>3 DEF Pending, Fills
<1>5. ~Miss(j)
    BY <1>2 DEF Miss
<1>6. /\ NoMiss(queue) => NoMiss(queue')
      /\ Finishing(queue') => Finishing(queue)
      /\ Cleared(queue) => Cleared(queue')
    BY <1>1, <1>2, <1>3, <1>5, AppendOrder
<1>7. \A i \in DOMAIN queue' : queue'[i].do = "wake" => i \in DOMAIN queue /\ queue'[i] = queue[i]
    BY <1>1, <1>2, <1>3, AppendAt
<1>8. QED
    BY <1>1, <1>4, <1>6, <1>7, SharedKeeps

\* A job that touches no flight leaves the queue.  A miss joins the list of the flight on
\* record, which is not dead while all is well.
LEMMA SharedRun ==
    ASSUME TypeOK, Tokens, RecordFits, Shared, Healthy, NEW c \in Callers,
           ReadHit(c) \/ WakeWithValue(c) \/ ReadJoins(c)
    PROVE  Shared'
<1>1. queue # <<>> /\ flight' = flight /\ inFlight' = inFlight /\ losses' = losses
    BY DEF ReadHit, WakeWithValue, ReadJoins, Runs
<1>2. cached' = cached
    BY DEF ReadHit, WakeWithValue, ReadJoins
<1>3. Pending' = Pending /\ Fills' = Fills
    BY <1>1 DEF Pending, Fills
<1>4. queue' = Tail(queue)
  <2>1. CASE ReadHit(c) \/ WakeWithValue(c)
      BY <2>1 DEF ReadHit, WakeWithValue
  <2>2. CASE ReadJoins(c)
    <3>1. inFlight # None /\ inFlight \in Callers
        BY <2>2 DEF ReadJoins, TypeOK
    <3>2. flight[inFlight] \in {"fetching", "settled", "storing"}
        BY <3>1, Shapes DEF RecordFits, Healthy, FlightStates
    <3>3. inFlight \in Pending
        BY <3>1, <3>2 DEF Pending
    <3>4. QED
        BY <2>2, <3>3 DEF ReadJoins
  <2>3. QED
      BY <2>1, <2>2
<1>5. queue \in Seq(Jobs)
    BY Shapes
<1>6. /\ NoMiss(queue) => NoMiss(queue')
      /\ Finishing(queue') => Finishing(queue)
      /\ Cleared(queue) => Cleared(queue')
    BY <1>1, <1>4, <1>5, TailOrder
<1>7. \A i \in DOMAIN queue' : i + 1 \in DOMAIN queue /\ queue'[i] = queue[i + 1]
    BY <1>1, <1>4, <1>5, TailAt
<1>8. QED
    BY <1>1, <1>2, <1>3, <1>6, <1>7, SharedKeeps

\* A miss starts a flight only if a loss was not made up for yet, or it is the first.
LEMMA SharedStart ==
    ASSUME TypeOK, Tokens, Tokens', Shared, Healthy, Healthy', NEW c \in Callers, ReadStarts(c)
    PROVE  Shared'
<1>1. /\ Runs("read", c, FALSE) /\ inFlight = None /\ queue' = Tail(queue)
      /\ inFlight' = c /\ losses' = losses
      /\ \E s \in {"fetching", "failed"} : flight' = [flight EXCEPT ![c] = s]
    BY DEF ReadStarts, Execute
<1>2. flight' = [flight EXCEPT ![c] = "fetching"]
    BY <1>1, Shapes DEF Healthy
<1>3. flight[c] = "none" /\ flight \in [Callers -> FlightStates] /\ None \notin Callers
    BY <1>1, RunsFits, Shapes, FlightAssumption
<1>4. /\ Pending \subseteq {inFlight}
      /\ \A i \in DOMAIN queue : queue[i].do = "wake" => queue[i].ok = TRUE
      /\ Cardinality(Fills) <= 1 + losses
      /\ Cardinality(Fills) = 1 + losses => MadeUp
    BY DEF Shared
<1>5. Pending' = {c}
  <2>1. Pending = {}
      BY <1>1, <1>3, <1>4 DEF Pending
  <2>2. QED
      BY <1>2, <1>3, <2>1 DEF Pending
<1>6. ~MadeUp
  <2>1. 1 \in DOMAIN queue /\ queue[1].do = "read" /\ queue[1].ok = FALSE
      BY <1>1, RunsDoes
  <2>2. QED
      BY <1>1, <2>1 DEF MadeUp, NoMiss, Miss
<1>7. Cardinality(Fills') <= 1 + losses'
  <2>1. Cardinality(Fills') = Cardinality(Fills) + 1
      BY <1>2, <1>3, CountsFills
  <2>2. Cardinality(Fills) \in Nat /\ losses \in Nat
      BY FillsNat DEF TypeOK
  <2>3. QED
      BY <1>1, <1>4, <1>6, <2>1, <2>2
<1>8. ~Finishing(queue')
  <2>1. ASSUME NEW k \in DOMAIN queue', queue'[k].do = "finish"
        PROVE  FALSE
    <3>1. JobFits(queue'[k], pc', flight')
        BY <2>1 DEF Tokens, JobsFit
    <3>2. queue'[k].who \in Callers
      <4>1. queue \in Seq(Jobs) /\ queue # <<>>
          BY <1>1, Shapes DEF Runs
      <4>2. k + 1 \in DOMAIN queue /\ queue'[k] = queue[k + 1]
          BY <1>1, <2>1, <4>1, TailAt
      <4>3. QED
          BY <4>2, Shapes
    <3>3. flight'[queue'[k].who] = "storing"
        BY <2>1, <3>1 DEF JobFits
    <3>4. QED
        BY <1>2, <1>3, <1>5, <3>2, <3>3 DEF Pending
  <2>2. QED
      BY <2>1 DEF Finishing
<1>9. MadeUp'
    BY <1>1, <1>3, <1>8 DEF MadeUp, Cleared, Finishing
<1>10. \A i \in DOMAIN queue' : queue'[i].do = "wake" => queue'[i].ok = TRUE
  <2>1. queue \in Seq(Jobs) /\ queue # <<>>
      BY <1>1, Shapes DEF Runs
  <2>2. \A i \in DOMAIN queue' : i + 1 \in DOMAIN queue /\ queue'[i] = queue[i + 1]
      BY <1>1, <2>1, TailAt
  <2>3. QED
      BY <1>4, <2>2
<1>11. QED
    BY <1>1, <1>5, <1>7, <1>9, <1>10 DEF Shared

\* The value is written: whoever asks from now on finds it, and whoever missed it before
\* runs before the flight leaves the record.
LEMMA SharedStore ==
    ASSUME TypeOK, Tokens, Shared, Healthy, NEW c \in Callers, FlightStores(c)
    PROVE  Shared'
<1> DEFINE T == Tail(queue)
           j == Job("finish", c, TRUE)
<1>1. /\ Runs("settle", c, TRUE) /\ queue' = Append(T, j) /\ inFlight' = inFlight
      /\ flight' = [flight EXCEPT ![c] = "storing"]
      /\ (cached' = TRUE /\ losses' = losses) \/ losses' = losses + 1
    BY StoresDoes
<1>2. /\ queue # <<>> /\ queue \in Seq(Jobs) /\ losses \in Nat
      /\ flight \in [Callers -> FlightStates] /\ Cardinality(Fills) \in Nat
      /\ flight[c] = "settled"
    BY <1>1, RunsFits, FillsNat, Shapes DEF TypeOK, Runs
<1>3. j \in Jobs /\ j.do = "finish"
    BY DEF Job, Jobs
<1>4. /\ Pending \subseteq {inFlight}
      /\ \A i \in DOMAIN queue : queue[i].do = "wake" => queue[i].ok = TRUE
      /\ Cardinality(Fills) <= 1 + losses
    BY DEF Shared
<1>5. T \in Seq(Jobs) /\ \A i \in DOMAIN T : i + 1 \in DOMAIN queue /\ T[i] = queue[i + 1]
    BY <1>2, TailAt
<1> HIDE DEF T, j
<1>6. Pending' = Pending /\ Fills' = Fills
    BY <1>1, <1>2 DEF Pending, Fills
<1>7. inFlight = c /\ c # None /\ Pending = {c}
    BY <1>2, <1>4, FlightAssumption DEF Pending
<1>8. \A i \in DOMAIN queue' : queue'[i].do = "wake" => i \in DOMAIN T /\ queue'[i] = T[i]
    BY <1>1, <1>3, <1>5, AppendAt
<1>9. \A i \in DOMAIN queue' : queue'[i].do = "wake" => queue'[i].ok = TRUE
    BY <1>4, <1>5, <1>8
<1>10. CASE losses' = losses + 1
    BY <1>1, <1>2, <1>4, <1>6, <1>9, <1>10 DEF Shared
<1>11. CASE cached' = TRUE /\ losses' = losses
  <2>1. ~Finishing(T)
    <3>1. ASSUME NEW k \in DOMAIN queue, queue[k].do = "finish"
          PROVE  FALSE
      <4>1. flight[queue[k].who] = "storing" /\ queue[k].who \in Callers
          BY <3>1, Shapes DEF Tokens, JobsFit, JobFits
      <4>2. QED
          BY <1>2, <1>7, <4>1 DEF Pending
    <3>2. QED
        BY <1>5, <3>1 DEF Finishing
  <2>2. Cleared(T)
      BY <2>1 DEF Cleared, Finishing
  <2>3. Cleared(queue')
      BY <1>1, <1>3, <1>5, <2>1, <2>2, AppendOrder
  <2>4. MadeUp'
      BY <1>1, <1>7, <1>11, <2>3 DEF MadeUp
  <2>5. QED
      BY <1>1, <1>4, <1>6, <1>9, <1>11, <2>4 DEF Shared
<1>12. QED
    BY <1>1, <1>10, <1>11

\* The flight leaves the record: no miss waits behind it.
LEMMA SharedFinish ==
    ASSUME TypeOK, Tokens, Tokens', Shared, Healthy, NEW c \in Callers, FlightFinishes(c)
    PROVE  Shared'
<1> DEFINE T == Tail(queue)
<1>1. /\ Runs("finish", c, TRUE) /\ queue' = T \o Wakes(c, TRUE)
      /\ inFlight' = None /\ losses' = losses /\ cached' = cached
      /\ flight' = [flight EXCEPT ![c] = "done"]
    BY DEF FlightFinishes, Ends
<1>2. /\ queue # <<>> /\ queue \in Seq(Jobs) /\ flight \in [Callers -> FlightStates]
      /\ flight[c] = "storing" /\ 1 \in DOMAIN queue /\ queue[1].do = "finish"
  <2>1. flight[c] = "storing"
      BY <1>1, RunsFits
  <2>2. queue # <<>> /\ 1 \in DOMAIN queue /\ queue[1].do = "finish"
      BY <1>1, RunsDoes
  <2>3. QED
      BY <2>1, <2>2, Shapes
<1>3. /\ Pending \subseteq {inFlight}
      /\ \A i \in DOMAIN queue : queue[i].do = "wake" => queue[i].ok = TRUE
      /\ Cardinality(Fills) <= 1 + losses
      /\ Cardinality(Fills) = 1 + losses => MadeUp
    BY DEF Shared
<1>4. T \in Seq(Jobs) /\ \A i \in DOMAIN T : i + 1 \in DOMAIN queue /\ T[i] = queue[i + 1]
    BY <1>2, TailAt
<1>5. Cleared(queue) => NoMiss(T)
    BY <1>2, TailOrder
<1> HIDE DEF T
<1>6. Pending' = {} /\ Fills' = Fills
  <2>1. Pending \subseteq {c}
      BY <1>2, <1>3 DEF Pending
  <2>2. QED
      BY <1>1, <1>2, <2>1 DEF Pending, Fills
<1>7. \A i \in DOMAIN queue' :
        \/ \E k \in DOMAIN T : queue'[i] = T[k]
        \/ queue'[i].do = "wake" /\ queue'[i].ok = TRUE
  <2>1. ListedOnce /\ Distinct(T) /\ ~HasJob(T, c)
      BY <1>1, RunsOne DEF Tokens, T
  <2>2. \A i \in DOMAIN waiters[c] : ~HasJob(T, waiters[c][i])
    <3>1. \A d : d # c => (HasJob(T, d) <=> HasJob(queue, d))
        BY <1>1, RunsOne DEF Tokens, T
    <3>2. QED
        BY <2>1, <3>1 DEF Tokens, ListedWaits
  <2>3. queue' = T \o Wakes(c, TRUE) /\ TRUE \in BOOLEAN /\ T \in Seq(Jobs)
      BY <1>1, <1>4
  <2>4. \A i \in DOMAIN queue' :
            \/ \E k \in DOMAIN T : queue'[i] = T[k]
            \/ \E n \in DOMAIN waiters[c] : queue'[i] = Job("wake", waiters[c][n], TRUE)
      BY ONLY TypeOK, c \in Callers, <2>1, <2>2, <2>3, AddsWakes
  <2>5. \A d : Job("wake", d, TRUE).do = "wake" /\ Job("wake", d, TRUE).ok = TRUE
      BY DEF Job
  <2>6. QED
      BY <2>4, <2>5
<1>8. \A i \in DOMAIN queue' : queue'[i].do = "wake" => queue'[i].ok = TRUE
    BY <1>3, <1>4, <1>7
<1>9. MadeUp => MadeUp'
  <2>1. ASSUME MadeUp
        PROVE  MadeUp'
    <3>1. cached = TRUE /\ NoMiss(T)
        BY <1>2, <1>5, <2>1 DEF MadeUp, Finishing
    <3>2. NoMiss(queue')
        BY <1>7, <3>1 DEF NoMiss, Miss
    <3>3. QED
        BY <1>1, <3>1, <3>2 DEF MadeUp, NoMiss, Cleared
  <2>2. QED
      BY <2>1
<1>10. QED
    BY <1>1, <1>3, <1>6, <1>8, <1>9 DEF Shared

LEMMA SharedStep ==
    TypeOK /\ Tokens /\ Tokens' /\ RecordFits /\ Shared /\ [Next]_vars => Shared'
<1> SUFFICES ASSUME TypeOK, Tokens, Tokens', RecordFits, Shared, [Next]_vars, Healthy'
             PROVE  Shared'
    BY DEF Shared
<1>1. Healthy
    BY HealthyBefore
<1>2. CASE \E c \in Callers : GetOrSet(c)
    BY <1>1, <1>2, SharedCall
<1>3. CASE \E c \in Callers, ok \in BOOLEAN : FallbackSettles(c, ok)
    BY <1>1, <1>3, SharedSettles
<1>4. CASE \E c \in Callers : ReadHit(c) \/ WakeWithValue(c) \/ ReadJoins(c)
    BY <1>1, <1>4, SharedRun
<1>5. CASE \E c \in Callers : ReadStarts(c)
    BY <1>1, <1>5, SharedStart
<1>6. CASE \E c \in Callers : FlightStores(c)
    BY <1>1, <1>6, SharedStore
<1>7. CASE \E c \in Callers : FlightFinishes(c)
    BY <1>1, <1>7, SharedFinish
<1>8. CASE \E c \in Callers : FlightFails(c)
  <2>1. PICK c \in Callers : FlightFails(c)
      BY <1>8
  <2>2. flight' = [flight EXCEPT ![c] = "failed"]
      BY <2>1 DEF FlightFails, Ends
  <2>3. QED
      BY <2>2, Shapes DEF Healthy
<1>9. CASE \E c \in Callers : WakeToRetry(c)
  <2>1. PICK c \in Callers : Runs("wake", c, FALSE)
      BY <1>9 DEF WakeToRetry
  <2>2. 1 \in DOMAIN queue /\ queue[1].do = "wake" /\ queue[1].ok = FALSE
      BY <2>1, RunsDoes
  <2>3. QED
      BY <1>1, <2>2 DEF Shared
<1>10. CASE OnModuleDestroy
    BY <1>10 DEF OnModuleDestroy, Healthy
<1>11. CASE Forget
  <2>1. /\ UNCHANGED <<inFlight, flight, queue>> /\ losses' = losses + 1
      BY <1>11 DEF Forget, Loss
  <2>2. Pending' = Pending /\ Fills' = Fills
      BY <2>1 DEF Pending, Fills
  <2>3. Cardinality(Fills) \in Nat /\ losses \in Nat
      BY FillsNat DEF TypeOK
  <2>4. QED
      BY <1>1, <2>1, <2>2, <2>3 DEF Shared
<1>12. CASE (\E c \in Callers : TimerFires(c)) \/ UNCHANGED vars
  <2>1. /\ inFlight' = inFlight /\ flight' = flight /\ queue' = queue
        /\ losses' = losses
      BY <1>12 DEF TimerFires, vars
  <2>2. cached' = cached
      BY <1>12 DEF TimerFires, vars
  <2>3. Pending' = Pending /\ Fills' = Fills
      BY <2>1 DEF Pending, Fills
  <2>4. QED
      BY <1>1, <2>1, <2>2, <2>3, SharedKeeps
<1>13. QED
    BY <1>2, <1>3, <1>4, <1>5, <1>6, <1>7, <1>8, <1>9, <1>10, <1>11, <1>12 DEF Next, RunJob

\* Single flight: while no fallback fails and the module is up, concurrent callers run the
\* fallback once, and once more at most for each loss.
THEOREM CallersShareOneFill == Spec => []OneFillPerMiss
<1>1. Init => RecordFits
    BY DEF Init, RecordFits
<1>2. Spec => []RecordFits
    BY <1>1, RecordStep, TokensHold, PTL DEF Spec
<1>3. Spec => []Shared
    BY <1>2, SharedInit, SharedStep, TokensHold, PTL DEF Spec
<1>4. Shared => OneFillPerMiss
    BY DEF Shared, Healthy, OneFillPerMiss
<1>5. QED
    BY <1>3, <1>4, PTL

-----------------------------------------------------------------------------
(* Answers are founded, and final *)

\* Some fallback came back with a value.
Delivered == \E f \in Callers : flight[f] \in {"storing", "done"}

\* An error is that of the caller's own flight, a null that of a timer which raced it, and
\* a value is one that some fallback delivered.
AnswersAreFounded ==
    \A c \in Callers :
        /\ pc[c] = "error" => flight[c] = "failed"
        /\ pc[c] = "null" => flight[c] # "none"
        /\ pc[c] = "value" => Delivered

\* Only the owner of a flight races a timer.
OwnCause ==
    \A c \in Callers :
        /\ pc[c] = "error" => flight[c] = "failed"
        /\ pc[c] \in {"racing", "null"} => flight[c] # "none"

BringsValue(j) == j.do \in {"read", "wake"} /\ j.ok = TRUE

\* No value is in the cache, on its way or answered before a fallback delivered one.
Sourced ==
    ~Delivered =>
        /\ ~cached
        /\ \A i \in DOMAIN queue : ~BringsValue(queue[i])
        /\ \A c \in Callers : pc[c] # "value"

\* A flight that started never counts as not started, one that failed stays failed, and one
\* that delivered stays delivered.
LEMMA FlightsMoveOn ==
    ASSUME TypeOK, Tokens, [Next]_vars, NEW d \in Callers
    PROVE  /\ flight[d] = "failed" => flight'[d] = "failed"
           /\ flight[d] # "none" => flight'[d] # "none"
           /\ flight[d] \in {"storing", "done"} => flight'[d] \in {"storing", "done"}
<1>0. flight \in [Callers -> FlightStates]
    BY Shapes
<1>1. CASE \E c \in Callers : GetOrSet(c)
    BY <1>1, GetOrSetDoes
<1>2. CASE \E c \in Callers : FlightStores(c)
  <2>1. PICK c \in Callers : FlightStores(c)
      BY <1>2
  <2>2. flight' = [flight EXCEPT ![c] = "storing"] /\ flight[c] = "settled"
      BY <2>1, StoresDoes, RunsFits
  <2>3. QED
      BY <1>0, <2>2
<1>3. CASE OnModuleDestroy \/ Forget \/ UNCHANGED vars
  <2>1. flight' = flight
      BY <1>3 DEF OnModuleDestroy, Forget, vars
  <2>2. QED
      BY <2>1
<1>4. CASE \E c \in Callers : TimerFires(c) \/ ReadHit(c) \/ ReadJoins(c) \/ WakeWithValue(c)
    BY <1>4 DEF TimerFires, ReadHit, ReadJoins, WakeWithValue
<1>5. CASE \E c \in Callers, ok \in BOOLEAN : FallbackSettles(c, ok)
    BY <1>0, <1>5 DEF FallbackSettles
<1>6. CASE \E c \in Callers : ReadStarts(c) \/ WakeToRetry(c)
  <2>1. PICK c \in Callers, do \in {"read", "wake"} : Runs(do, c, FALSE) /\ Execute(c)
      BY <1>6 DEF ReadStarts, WakeToRetry
  <2>2. flight[c] = "none"
      BY <2>1, RunsFits
  <2>3. QED
      BY <1>0, <2>1, <2>2 DEF Execute
<1>7. CASE \E c \in Callers : FlightFails(c)
  <2>1. PICK c \in Callers : Runs("settle", c, FALSE) /\ Ends(c, FALSE)
      BY <1>7 DEF FlightFails
  <2>2. flight[c] = "settled"
      BY <2>1, RunsFits
  <2>3. QED
      BY <1>0, <2>1, <2>2 DEF Ends
<1>8. CASE \E c \in Callers : FlightFinishes(c)
  <2>1. PICK c \in Callers : Runs("finish", c, TRUE) /\ Ends(c, TRUE)
      BY <1>8 DEF FlightFinishes
  <2>2. flight[c] = "storing"
      BY <2>1, RunsFits
  <2>3. QED
      BY <1>0, <2>1, <2>2 DEF Ends
<1>9. QED
    BY <1>1, <1>2, <1>3, <1>4, <1>5, <1>6, <1>7, <1>8 DEF Next, RunJob

\* What a step does to where a caller is: nothing, or one of the code's moves.
LEMMA CallersMoveOn ==
    ASSUME TypeOK, Tokens, [Next]_vars, NEW d \in Callers
    PROVE  \/ pc'[d] = pc[d]
           \/ pc[d] = "idle" /\ pc'[d] = "reading"
           \/ pc[d] = "reading" /\ pc'[d] = "waiting"
           \/ pc[d] \in {"reading", "waiting"} /\ pc'[d] = "value"
           \/ pc[d] \in {"reading", "waiting"} /\ pc'[d] = "racing" /\ flight'[d] = "fetching"
           \/ pc[d] \in {"reading", "waiting"} /\ pc'[d] = "error" /\ flight'[d] = "failed"
           \/ pc[d] = "racing" /\ pc'[d] \in {"value", "null"}
           \/ pc[d] = "racing" /\ pc'[d] = "error" /\ flight'[d] = "failed"
<1>0. DOMAIN pc = Callers /\ DOMAIN flight = Callers
    BY Shapes
<1>1. CASE \E c \in Callers : GetOrSet(c)
    BY <1>0, <1>1, GetOrSetDoes
<1>2. CASE \E c \in Callers : FlightStores(c)
    BY <1>2, StoresDoes
<1>3. CASE OnModuleDestroy \/ Forget \/ UNCHANGED vars
  <2>1. pc' = pc
      BY <1>3 DEF OnModuleDestroy, Forget, vars
  <2>2. QED
      BY <2>1
<1>4. CASE \E c \in Callers : TimerFires(c)
    BY <1>0, <1>4 DEF TimerFires
<1>5. CASE \E c \in Callers, ok \in BOOLEAN : FallbackSettles(c, ok)
    BY <1>5 DEF FallbackSettles
<1>6. CASE \E c \in Callers : ReadStarts(c) \/ WakeToRetry(c)
  <2>1. PICK c \in Callers, do \in {"read", "wake"} : Runs(do, c, FALSE) /\ Execute(c)
      BY <1>6 DEF ReadStarts, WakeToRetry
  <2>2. pc[c] \in {"reading", "waiting"}
      BY <2>1, RunsFits
  <2>3. QED
      BY <1>0, <2>1, <2>2 DEF Execute
<1>7. CASE \E c \in Callers : FlightFails(c)
    BY <1>0, <1>7 DEF FlightFails, Ends
<1>8. CASE \E c \in Callers : FlightFinishes(c)
    BY <1>0, <1>8 DEF FlightFinishes, Ends
<1>9. CASE \E c \in Callers : ReadHit(c) \/ WakeWithValue(c)
  <2>1. PICK c \in Callers, do \in {"read", "wake"} :
            Runs(do, c, TRUE) /\ pc' = [pc EXCEPT ![c] = "value"]
      BY <1>9 DEF ReadHit, WakeWithValue
  <2>2. pc[c] \in {"reading", "waiting"}
      BY <2>1, RunsFits
  <2>3. QED
      BY <1>0, <2>1, <2>2
<1>10. CASE \E c \in Callers : ReadJoins(c)
  <2>1. PICK c \in Callers : Runs("read", c, FALSE) /\ pc' = [pc EXCEPT ![c] = "waiting"]
      BY <1>10 DEF ReadJoins
  <2>2. pc[c] = "reading"
      BY <2>1, RunsFits
  <2>3. QED
      BY <1>0, <2>1, <2>2
<1>11. QED
    BY <1>1, <1>2, <1>3, <1>4, <1>5, <1>6, <1>7, <1>8, <1>9, <1>10 DEF Next, RunJob

LEMMA OwnCauseStep == TypeOK /\ Tokens /\ OwnCause /\ [Next]_vars => OwnCause'
<1> SUFFICES ASSUME TypeOK, Tokens, OwnCause, [Next]_vars, NEW d \in Callers
             PROVE  /\ pc'[d] = "error" => flight'[d] = "failed"
                    /\ pc'[d] \in {"racing", "null"} => flight'[d] # "none"
    BY DEF OwnCause
<1>1. /\ pc[d] = "error" => flight[d] = "failed"
      /\ pc[d] \in {"racing", "null"} => flight[d] # "none"
    BY DEF OwnCause
<1>2. QED
    BY <1>1, FlightsMoveOn, CallersMoveOn

LEMMA NoValueBrought ==
    ASSUME NEW c \in Callers, NEW ok \in BOOLEAN
    PROVE  /\ Job("read", c, FALSE) \in Jobs /\ ~BringsValue(Job("read", c, FALSE))
           /\ Job("wake", c, FALSE) \in Jobs /\ ~BringsValue(Job("wake", c, FALSE))
           /\ Job("settle", c, ok) \in Jobs /\ ~BringsValue(Job("settle", c, ok))
<1>1. /\ ~BringsValue(Job("read", c, FALSE))
      /\ ~BringsValue(Job("wake", c, FALSE))
      /\ ~BringsValue(Job("settle", c, ok))
    BY DEF BringsValue, Job
<1>2. QED
    BY <1>1, JobTypes

LEMMA SourcedStep == TypeOK /\ Tokens /\ Sourced /\ [Next]_vars => Sourced'
<1> SUFFICES ASSUME TypeOK, Tokens, Sourced, [Next]_vars, ~Delivered'
             PROVE  /\ ~cached'
                    /\ \A i \in DOMAIN queue' : ~BringsValue(queue'[i])
                    /\ \A c \in Callers : pc'[c] # "value"
    BY DEF Sourced
<1> DEFINE Goal == /\ ~cached'
                   /\ \A i \in DOMAIN queue' : ~BringsValue(queue'[i])
                   /\ \A c \in Callers : pc'[c] # "value"
<1>0. ~Delivered
    BY FlightsMoveOn DEF Delivered
<1>a. /\ ~cached
      /\ \A i \in DOMAIN queue : ~BringsValue(queue[i])
      /\ \A c \in Callers : pc[c] # "value"
      /\ \A c \in Callers : flight[c] \notin {"storing", "done"}
      /\ queue \in Seq(Jobs) /\ DOMAIN pc = Callers /\ DOMAIN flight = Callers
    BY <1>0, Shapes DEF Sourced, Delivered
<1>b. ASSUME NEW do, NEW c \in Callers, NEW ok \in BOOLEAN, Runs(do, c, ok)
      PROVE  /\ \A i \in DOMAIN Tail(queue) : ~BringsValue(Tail(queue)[i])
             /\ do \in {"read", "wake"} => ok = FALSE
             /\ Tail(queue) \in Seq(Jobs)
  <2>1. /\ queue[1].do = do /\ queue[1].ok = ok /\ 1 \in DOMAIN queue
        /\ Tail(queue) \in Seq(Jobs)
        /\ DOMAIN Tail(queue) = 1..Len(queue) - 1 /\ DOMAIN queue = 1..Len(queue)
        /\ Len(queue) \in Nat
        /\ \A i \in 1..Len(queue) - 1 : Tail(queue)[i] = queue[i + 1]
      BY <1>b, RunsDoes
  <2>2. do \in {"read", "wake"} => ok = FALSE
      BY <1>a, <2>1 DEF BringsValue
  <2>3. \A i \in DOMAIN Tail(queue) : i + 1 \in DOMAIN queue
      BY <2>1
  <2>4. QED
      BY <1>a, <2>1, <2>2, <2>3
<1>c. ASSUME NEW q \in Seq(Jobs), NEW j \in Jobs, ~BringsValue(j), queue' = Append(q, j),
             \A i \in DOMAIN q : ~BringsValue(q[i])
      PROVE  \A i \in DOMAIN queue' : ~BringsValue(queue'[i])
  <2>1. \A i \in DOMAIN queue' : i \in 1..Len(q) \/ i = Len(q) + 1
      BY <1>c, AppendAt
  <2>2. QED
      BY <1>c, <2>1, AppendAt
<1>1. ASSUME NEW c \in Callers, GetOrSet(c) PROVE Goal
  <2>1. /\ queue' = Append(queue, Job("read", c, FALSE))
        /\ pc' = [pc EXCEPT ![c] = "reading"] /\ cached' = cached
      BY <1>1, <1>a DEF GetOrSet, TypeOK
  <2>2. Job("read", c, FALSE) \in Jobs /\ ~BringsValue(Job("read", c, FALSE))
      BY NoValueBrought
  <2>3. QED
      BY <1>a, <1>c, <2>1, <2>2
<1>2. ASSUME NEW c \in Callers, FlightStores(c) PROVE Goal
  <2>1. flight'[c] = "storing"
      BY <1>2, <1>a, StoresDoes
  <2>2. QED
      BY <2>1 DEF Delivered
<1>3. CASE OnModuleDestroy \/ Forget \/ UNCHANGED vars
  <2>1. queue' = queue /\ pc' = pc
      BY <1>3 DEF OnModuleDestroy, Forget, vars
  <2>2. ~cached'
      BY <1>3, <1>a DEF OnModuleDestroy, Forget, vars
  <2>3. QED
      BY <1>a, <2>1, <2>2
<1>4. ASSUME NEW c \in Callers, TimerFires(c) PROVE Goal
    BY <1>4, <1>a DEF TimerFires
<1>5. ASSUME NEW c \in Callers, NEW ok \in BOOLEAN, FallbackSettles(c, ok) PROVE Goal
  <2>1. /\ queue' = Append(queue, Job("settle", c, ok)) /\ UNCHANGED <<cached, pc>>
      BY <1>5 DEF FallbackSettles
  <2>2. Job("settle", c, ok) \in Jobs /\ ~BringsValue(Job("settle", c, ok))
      BY NoValueBrought
  <2>3. QED
      BY <1>a, <1>c, <2>1, <2>2
<1>6. ASSUME NEW c \in Callers, ReadStarts(c) \/ WakeToRetry(c) PROVE Goal
  <2>1. PICK do \in {"read", "wake"} : Runs(do, c, FALSE)
      BY <1>6 DEF ReadStarts, WakeToRetry
  <2>2. /\ queue' = Tail(queue) /\ cached' = cached
        /\ pc' = [pc EXCEPT ![c] = "racing"] \/ pc' = [pc EXCEPT ![c] = "error"]
      BY <1>6 DEF ReadStarts, WakeToRetry, Execute
  <2>3. QED
      BY <1>a, <1>b, <2>1, <2>2
<1>7. ASSUME NEW c \in Callers, FlightFails(c) PROVE Goal
  <2>1. /\ Runs("settle", c, FALSE) /\ cached' = cached
        /\ queue' = Tail(queue) \o Wakes(c, FALSE)
        /\ \A d \in Callers : pc'[d] \in {pc[d], "error"}
      BY <1>7, <1>a DEF FlightFails, Ends
  <2>2. /\ Tail(queue) \in Seq(Jobs)
        /\ \A i \in DOMAIN Tail(queue) : ~BringsValue(Tail(queue)[i])
      BY <2>1, <1>b
  <2>3. /\ Wakes(c, FALSE) \in Seq(Jobs)
        /\ \A i \in 1..Len(Wakes(c, FALSE)) : ~BringsValue(Wakes(c, FALSE)[i])
    <3>1. waiters \in [Callers -> Seq(Callers)]
        BY DEF TypeOK
    <3>2. \A i \in 1..Len(waiters[c]) : waiters[c][i] \in Callers
        BY <3>1
    <3>3. /\ Wakes(c, FALSE) \in Seq(Jobs)
          /\ Len(Wakes(c, FALSE)) = Len(waiters[c])
          /\ \A i \in 1..Len(waiters[c]) :
                Wakes(c, FALSE)[i] = Job("wake", waiters[c][i], FALSE)
        BY <3>1, WakesAt
    <3>4. QED
        BY <3>2, <3>3, NoValueBrought
  <2>4. \A i \in DOMAIN queue' : ~BringsValue(queue'[i])
    <3>1. SUFFICES ASSUME NEW i \in DOMAIN queue'
                   PROVE  ~BringsValue(queue'[i])
        OBVIOUS
    <3>2. \/ \E k \in 1..Len(Tail(queue)) : queue'[i] = Tail(queue)[k]
          \/ \E k \in 1..Len(Wakes(c, FALSE)) : queue'[i] = Wakes(c, FALSE)[k]
      <4> DEFINE q == Tail(queue)
                 r == Wakes(c, FALSE)
      <4>1. i \in DOMAIN (q \o r) /\ queue' = q \o r
          BY <2>1
      <4>2. q \in Seq(Jobs) /\ r \in Seq(Jobs)
          BY <2>2, <2>3
      <4> HIDE DEF q, r
      <4>3. \/ \E k \in 1..Len(q) : (q \o r)[i] = q[k]
            \/ \E k \in 1..Len(r) : (q \o r)[i] = r[k]
          BY <4>1, <4>2, ConcatHas
      <4>4. QED
          BY <4>1, <4>3 DEF q, r
    <3>3. DOMAIN Tail(queue) = 1..Len(Tail(queue))
        BY <2>2
    <3>4. CASE \E k \in 1..Len(Tail(queue)) : queue'[i] = Tail(queue)[k]
        BY <2>2, <3>3, <3>4, Zenon
    <3>5. CASE \E k \in 1..Len(Wakes(c, FALSE)) : queue'[i] = Wakes(c, FALSE)[k]
        BY <2>3, <3>5, Zenon
    <3>6. QED
        BY <3>2, <3>4, <3>5
  <2>5. QED
      BY <1>a, <2>1, <2>4
<1>8. ASSUME NEW c \in Callers, FlightFinishes(c) PROVE Goal
    BY <1>8, <1>a, RunsFits DEF FlightFinishes
<1>9. ASSUME NEW c \in Callers, ReadHit(c) \/ WakeWithValue(c) PROVE Goal
    BY <1>9, <1>b DEF ReadHit, WakeWithValue
<1>10. ASSUME NEW c \in Callers, ReadJoins(c) PROVE Goal
  <2>1. /\ Runs("read", c, FALSE) /\ cached' = cached
        /\ pc' = [pc EXCEPT ![c] = "waiting"]
        /\ \/ queue' = Tail(queue)
           \/ queue' = Append(Tail(queue), Job("wake", c, FALSE))
      BY <1>10 DEF ReadJoins
  <2>2. Job("wake", c, FALSE) \in Jobs /\ ~BringsValue(Job("wake", c, FALSE))
      BY NoValueBrought
  <2>3. \A i \in DOMAIN queue' : ~BringsValue(queue'[i])
      BY <1>b, <1>c, <2>1, <2>2
  <2>4. QED
      BY <1>a, <2>1, <2>3
<1>11. QED
    BY <1>1, <1>2, <1>3, <1>4, <1>5, <1>6, <1>7, <1>8, <1>9, <1>10 DEF Next, RunJob

\* A caller gets an error only for its own failed flight, null only from a timer that raced
\* its own flight, and a value only if some fallback delivered one: the failure of another
\* caller's flight reaches nobody else.
THEOREM AnswersHaveCauses == Spec => []AnswersAreFounded
<1>1. Init => OwnCause /\ Sourced
    BY DEF Init, OwnCause, Sourced
<1>2. Spec => [](OwnCause /\ Sourced)
    BY <1>1, OwnCauseStep, SourcedStep, TokensHold, PTL DEF Spec
<1>3. OwnCause /\ Sourced => AnswersAreFounded
    BY DEF OwnCause, Sourced, AnswersAreFounded
<1>4. QED
    BY <1>2, <1>3, PTL

\* A caller is answered once: the flight that goes on after its owner's timer fired, and
\* the wake-ups it causes, change no answer.
THEOREM AnswersAreFinal ==
    Spec => [][\A c \in Callers : pc[c] \in Answers => pc'[c] = pc[c]]_vars
<1>1. TypeOK /\ Tokens /\ [Next]_vars =>
        [\A c \in Callers : pc[c] \in Answers => pc'[c] = pc[c]]_vars
    BY CallersMoveOn DEF Answers
<1>2. QED
    BY <1>1, TokensHold, PTL DEF Spec
=============================================================================
