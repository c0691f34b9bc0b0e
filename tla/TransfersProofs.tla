-------------------------- MODULE TransfersProofs ---------------------------
(***************************************************************************)
(* What a caller can rely on: which answers are true of the transfer, when *)
(* a repeated POST can be carried out twice, and how long an answer takes. *)
(* For any number of keys and attempts, any timeouts and lifetimes, and    *)
(* any set of answers after which the caller repeats.                      *)
(*                                                                         *)
(* The inductive invariant is Ledger, what the answer to a request says of *)
(* its call, and Past, what the requests made so far say of the answers    *)
(* before them.                                                            *)
(*                                                                         *)
(* The requests are calls of UnionbankClient, and every step is one of the *)
(* client's or leaves it alone: what UnionbankClientProofs shows of the    *)
(* client is carried over to the requests, step by step.                   *)
(***************************************************************************)
EXTENDS Transfers, FiniteSetTheorems, TLAPS

\* The caller repeats a POST after a refusal at most.
Careful == RetryOn \subseteq {"unauthorized"}

Shape ==
    /\ pc \in [Requests -> {"idle", "authenticating", "calling"} \cup Client!Ended]
    /\ acted \in [Requests -> BOOLEAN]
    /\ DOMAIN answer = Requests

\* The bank acts on requests that were sent, and a call succeeds only when it has.
ActedWasSent ==
    \A r \in Requests :
        /\ acted[r] => pc[r] \notin {"idle", "authenticating", "unauthorized"}
        /\ pc[r] = "ok" => acted[r]

\* A 401 means that the call ended in the client, for want of a token; a success, that it
\* ended well.
AnswerFitsCall ==
    \A r \in Requests :
        /\ answer[r] = "unauthorized" => pc[r] = "unauthorized"
        /\ answer[r] \in {"created", "found"} => pc[r] = "ok"

\* Nothing is answered before it was asked, and a call that has ended was answered.
AnsweredInTurn ==
    \A r \in Requests :
        /\ pc[r] = "idle" => answer[r] = "none"
        /\ pc[r] \in Client!Ended => answer[r] # "none"

Ledger == Shape /\ ActedWasSent /\ AnswerFitsCall /\ AnsweredInTurn

\* Every attempt before one that was made was answered so that the caller repeats it.
EarlierAnswered ==
    \A k \in Keys : \A i, j \in 1..MaxAttempts :
        i < j /\ pc[Post(k, j)] # "idle" => answer[Post(k, i)] \in RetryOn

\* A lookup is made of a transfer that was created.
LookedUpWasCreated ==
    \A k \in Keys, n \in 1..MaxAttempts :
        pc[Get(k, n)] # "idle" => answer[Post(k, n)] = "created"

Past == EarlierAnswered /\ LookedUpWasCreated

\* A POST and a GET are different requests, and so are two POSTs under one key.
LEMMA RequestNames ==
    /\ \A k \in Keys, n \in 1..MaxAttempts :
        Post(k, n) \in Attempts /\ Post(k, n) \in Requests /\ Get(k, n) \in Requests
    /\ \A k, l, m, n :
        /\ Post(k, n) # Get(l, m)
        /\ Post(k, n) = Post(l, m) => k = l /\ n = m
        /\ Get(k, n) = Get(l, m) => k = l /\ n = m
BY DEF Post, Get, Attempts, Lookups, Requests

\* What any step does to the calls: a call that is made is an attempt whose predecessor
\* was answered so that it is repeated, or a lookup; the other calls keep going.
LEMMA CallSteps ==
    ASSUME Shape, NEW r \in Requests, CallGoesOn(r)
    PROVE  /\ pc[r] # "idle" /\ pc[r] # "unauthorized"
           /\ \/ pc' = pc
              \/ /\ pc[r] = "authenticating"
                 /\ pc' = [pc EXCEPT ![r] = "calling"]
              \/ /\ pc[r] = "authenticating"
                 /\ pc' = [pc EXCEPT ![r] = "unauthorized"]
              \/ /\ pc[r] = "calling"
                 /\ \E o \in {"ok", "error", "timeout"} :
                        pc' = [pc EXCEPT ![r] = o] /\ (o = "ok" => acted[r])
           /\ \/ acted' = acted
              \/ /\ pc' = pc /\ pc[r] \in {"calling", "timeout", "error"}
                 /\ acted' = [acted EXCEPT ![r] = TRUE]
           /\ Answer
BY DEF CallGoesOn, Client!BankIssues, Client!RefreshToken, Client!RefreshFails, Client!BankActs,
       Client!Succeeds, Client!Fails, Client!End, Client!Send

LEMMA AskSteps ==
    ASSUME Shape, NEW r \in Requests, Client!Request(r), UNCHANGED answer
    PROVE  /\ pc[r] = "idle"
           /\ \/ pc' = [pc EXCEPT ![r] = "calling"]
              \/ pc' = [pc EXCEPT ![r] = "authenticating"]
           /\ acted' = acted
BY DEF Client!Request, Client!Send

\* An answer is given once and never taken back, and it says how the call ended.
LEMMA AnswersStay ==
    ASSUME Shape, Answer
    PROVE  /\ DOMAIN answer' = Requests
           /\ \A r \in Requests :
                /\ answer[r] # "none" => answer'[r] = answer[r]
                /\ pc'[r] \notin Client!Ended => answer'[r] = answer[r]
                /\ pc'[r] \in Client!Ended => answer'[r] # "none"
                /\ answer'[r] = "unauthorized" =>
                     answer[r] = "unauthorized" \/ pc'[r] = "unauthorized"
                /\ answer'[r] \in {"created", "found"} =>
                     answer[r] \in {"created", "found"} \/ pc'[r] = "ok"
BY DEF Answer, CreateAnswer, StatusAnswer, Client!Ended

LEMMA LedgerStep ==
    ASSUME Ledger, [Next]_vars
    PROVE  Ledger'
<1> USE DEF Ledger
<1>1. ASSUME NEW r \in Requests, Client!Request(r), UNCHANGED answer
      PROVE  Ledger'
  <2>1. Shape'
    BY <1>1, AskSteps DEF Shape
  <2>2. ActedWasSent' /\ AnswerFitsCall'
    BY <1>1, AskSteps DEF Shape, ActedWasSent, AnswerFitsCall, AnsweredInTurn
  <2>3. AnsweredInTurn'
    BY <1>1, AskSteps DEF Shape, AnsweredInTurn, Client!Ended
  <2> QED
    BY <2>1, <2>2, <2>3
<1>2. ASSUME NEW r \in Requests, CallGoesOn(r)
      PROVE  Ledger'
  <2>1. Shape'
    <3>1. pc' \in [Requests -> {"idle", "authenticating", "calling"} \cup Client!Ended]
      BY <1>2, CallSteps DEF Shape, Client!Ended
    <3>2. acted' \in [Requests -> BOOLEAN]
      BY <1>2, CallSteps DEF Shape
    <3> QED
      BY <1>2, <3>1, <3>2, CallSteps, AnswersStay DEF Shape
  <2>2. ActedWasSent'
    BY <1>2, CallSteps DEF Shape, ActedWasSent
  <2>3. \A q \in Requests :
          /\ pc[q] = "unauthorized" => pc'[q] = "unauthorized"
          /\ pc[q] = "ok" => pc'[q] = "ok"
    BY <1>2, CallSteps DEF Shape
  <2>4. AnswerFitsCall'
    BY <1>2, <2>3, CallSteps, AnswersStay DEF AnswerFitsCall
  <2>5. \A q \in Requests : pc'[q] = "idle" => pc[q] = "idle"
    BY <1>2, CallSteps DEF Shape
  <2>6. AnsweredInTurn'
    BY <1>2, <2>5, CallSteps, AnswersStay DEF AnsweredInTurn, Client!Ended
  <2> QED
    BY <2>1, <2>2, <2>4, <2>6
<1>3. ASSUME NEW r \in Requests, GivesUp(r)
      PROVE  Ledger'
  <2>1. /\ answer' = [answer EXCEPT ![r] = "gaveUp"] /\ pc' = pc /\ acted' = acted
        /\ pc[r] # "idle"
    BY <1>3 DEF GivesUp, Waiting, clientVars
  <2> QED
    BY <2>1 DEF Shape, ActedWasSent, AnswerFitsCall, AnsweredInTurn
<1>4. CASE Tick \/ UNCHANGED vars
  <2>1. UNCHANGED <<pc, acted, answer>>
    BY <1>4 DEF Tick, Client!Tick, vars, clientVars
  <2> QED
    BY <2>1 DEF Shape, ActedWasSent, AnswerFitsCall, AnsweredInTurn
<1>5. \A k \in Keys, n \in 1..MaxAttempts : Post(k, n) \in Requests /\ Get(k, n) \in Requests
  BY RequestNames
<1> QED
  BY <1>1, <1>2, <1>3, <1>4, <1>5 DEF Next, CreateTransfer, GetTransferStatus

LEMMA StartsEmpty == Init => Ledger /\ Past
BY DEF Init, Client!Init, Ledger, Shape, ActedWasSent, AnswerFitsCall, AnsweredInTurn, Past,
       EarlierAnswered, LookedUpWasCreated, Client!Ended, Requests, Attempts, Lookups, Post, Get

\* An answer, once given, stays.
LEMMA AnswersLast ==
    ASSUME Ledger, [Next]_vars, NEW r \in Requests, answer[r] # "none"
    PROVE  answer'[r] = answer[r]
<1>1. CASE answer' = answer
  BY <1>1
<1>2. CASE Answer
  BY <1>2, AnswersStay DEF Ledger
<1>3. ASSUME NEW q \in Requests, GivesUp(q)
      PROVE  answer'[r] = answer[r]
  BY <1>3 DEF GivesUp, Waiting, Ledger, Shape
<1> QED
  BY <1>1, <1>2, <1>3 DEF Next, CreateTransfer, GetTransferStatus, CallGoesOn, Tick, vars

\* A request that appears was made by its handler, in this step.
LEMMA NewRequests ==
    ASSUME Ledger, [Next]_vars, NEW r \in Requests, pc[r] = "idle", pc'[r] # "idle"
    PROVE  \E k \in Keys, n \in 1..MaxAttempts :
              \/ r = Post(k, n) /\ CreateTransfer(k, n)
              \/ r = Get(k, n) /\ GetTransferStatus(k, n)
<1>1. ASSUME NEW q \in Requests, CallGoesOn(q)
      PROVE  pc'[r] = "idle"
  BY <1>1, CallSteps DEF Ledger, Shape
<1>2. ASSUME NEW q \in Requests, Client!Request(q), UNCHANGED answer
      PROVE  r = q
  BY <1>2, AskSteps DEF Ledger, Shape
<1>3. pc' # pc
  OBVIOUS
<1>4. PICK k \in Keys, n \in 1..MaxAttempts : CreateTransfer(k, n) \/ GetTransferStatus(k, n)
  BY <1>1, <1>3 DEF Next, GivesUp, Tick, Client!Tick, clientVars, vars
<1> QED
  BY <1>2, <1>4, RequestNames DEF CreateTransfer, GetTransferStatus

\* The answers behind an attempt stay, and a new attempt adds one to them.
LEMMA EarlierStep ==
    ASSUME Ledger, EarlierAnswered, [Next]_vars
    PROVE  EarlierAnswered'
<1> SUFFICES ASSUME NEW k \in Keys, NEW i \in 1..MaxAttempts, NEW j \in 1..MaxAttempts,
                    i < j, pc'[Post(k, j)] # "idle"
             PROVE  answer'[Post(k, i)] \in RetryOn
  BY DEF EarlierAnswered
<1> DEFINE a == Post(k, i)
<1> DEFINE b == Post(k, j)
<1>1. a \in Requests /\ b \in Requests
  BY RequestNames
<1>2. "none" \notin RetryOn
  BY TransferAssumption DEF Posted
<1>3. answer[a] \in RetryOn => answer'[a] \in RetryOn
  BY <1>1, <1>2, AnswersLast
<1>4. CASE pc[b] # "idle"
  BY <1>3, <1>4 DEF EarlierAnswered
<1>5. CASE pc[b] = "idle"
  <2>1. CreateTransfer(k, j)
    BY <1>1, <1>5, NewRequests, RequestNames
  <2>2. j - 1 \in 1..MaxAttempts /\ j > 1 /\ i <= j - 1
    BY TransferAssumption
  <2>3. answer[Post(k, j - 1)] \in RetryOn
    BY <2>1, <2>2 DEF CreateTransfer
  <2>4. pc[Post(k, j - 1)] # "idle"
    BY <1>2, <2>2, <2>3, RequestNames DEF Ledger, AnsweredInTurn
  <2>5. i < j - 1 => answer[a] \in RetryOn
    BY <2>2, <2>4 DEF EarlierAnswered
  <2>6. i = j - 1 \/ i < j - 1
    BY <2>2
  <2> QED
    BY <1>3, <2>3, <2>5, <2>6
<1> QED
  BY <1>4, <1>5

LEMMA LookupStep ==
    ASSUME Ledger, LookedUpWasCreated, [Next]_vars
    PROVE  LookedUpWasCreated'
<1> SUFFICES ASSUME NEW k \in Keys, NEW n \in 1..MaxAttempts, pc'[Get(k, n)] # "idle"
             PROVE  answer'[Post(k, n)] = "created"
  BY DEF LookedUpWasCreated
<1>1. answer[Post(k, n)] = "created"
  <2>1. CASE pc[Get(k, n)] # "idle"
    BY <2>1 DEF LookedUpWasCreated
  <2>2. CASE pc[Get(k, n)] = "idle"
    <3>1. GetTransferStatus(k, n)
      BY <2>2, NewRequests, RequestNames
    <3> QED
      BY <3>1 DEF GetTransferStatus
  <2> QED
    BY <2>1, <2>2
<1> QED
  BY <1>1, AnswersLast, RequestNames

LEMMA LedgerAlways == Spec => [](Ledger /\ Past)
<1>1. Ledger /\ Past /\ [Next]_vars => (Ledger /\ Past)'
  BY LedgerStep, EarlierStep, LookupStep DEF Past
<1> QED
  BY <1>1, StartsEmpty, PTL DEF Spec

\* No transfer ever follows a 401; a transfer that was answered 201, or that a lookup has
\* found, was carried out.  For any number of keys and attempts and any timeouts.
THEOREM AnswersCanBeTrusted == Spec => []AnswersAreTrue
<1>1. Ledger /\ Past => AnswersAreTrue
  <2> SUFFICES ASSUME Ledger, Past, NEW k \in Keys, NEW n \in 1..MaxAttempts
               PROVE  /\ answer[Post(k, n)] = "unauthorized" => ~acted[Post(k, n)]
                      /\ answer[Post(k, n)] = "created" \/ answer[Get(k, n)] = "found"
                            => acted[Post(k, n)]
    BY DEF AnswersAreTrue
  <2>1. answer[Post(k, n)] = "unauthorized" => ~acted[Post(k, n)]
    BY RequestNames DEF Ledger, ActedWasSent, AnswerFitsCall
  <2>2. answer[Post(k, n)] = "created" => acted[Post(k, n)]
    BY RequestNames DEF Ledger, ActedWasSent, AnswerFitsCall
  <2>3. answer[Get(k, n)] = "found" => answer[Post(k, n)] = "created"
    BY RequestNames DEF Ledger, AnswerFitsCall, Past, LookedUpWasCreated
  <2> QED
    BY <2>1, <2>2, <2>3
<1> QED
  BY <1>1, LedgerAlways, PTL

\* A second transfer under one key needs a caller that repeated a POST after an answer
\* which left open whether it had been carried out; whatever it repeats after.
THEOREM OnlyDoubtDuplicates == Spec => []DuplicatesNeedDoubt
<1>1. Ledger /\ Past => DuplicatesNeedDoubt
  <2> SUFFICES ASSUME Ledger, Past, NEW k \in Keys, NEW m \in 1..MaxAttempts,
                      NEW n \in 1..MaxAttempts,
                      m < n, acted[Post(k, m)], acted[Post(k, n)]
               PROVE  answer[Post(k, m)] \in RetryOn \ {"unauthorized"}
    BY DEF DuplicatesNeedDoubt
  <2>1. answer[Post(k, m)] # "unauthorized"
    BY RequestNames DEF Ledger, ActedWasSent, AnswerFitsCall
  <2>2. pc[Post(k, n)] # "idle"
    BY RequestNames DEF Ledger, ActedWasSent
  <2> QED
    BY <2>1, <2>2 DEF Past, EarlierAnswered
<1> QED
  BY <1>1, LedgerAlways, PTL

\* A caller that repeats a POST under its key only after a 401 never has the bank carry
\* out two transfers for one key, for any number of keys and attempts.
THEOREM SafeRetries == ASSUME Careful PROVE Spec => []OneTransferPerKey
<1>1. DuplicatesNeedDoubt => OneTransferPerKey
  <2> SUFFICES ASSUME DuplicatesNeedDoubt, NEW k \in Keys
               PROVE  Cardinality({n \in 1..MaxAttempts : acted[Post(k, n)]}) <= 1
    BY DEF OneTransferPerKey
  <2> DEFINE S == {n \in 1..MaxAttempts : acted[Post(k, n)]}
  <2>1. \A i, j \in S : ~(i < j)
    BY DEF DuplicatesNeedDoubt, Careful
  <2>2. \A i, j \in S : i = j
    BY <2>1
  <2>3. CASE S = {}
    BY <2>3, FS_EmptySet
  <2>4. CASE \E n \in S : S = {n}
    BY <2>4, FS_Singleton
  <2> QED
    BY <2>2, <2>3, <2>4
<1> QED
  BY <1>1, OnlyDoubtDuplicates, PTL
-----------------------------------------------------------------------------
(* What the client guarantees, for the requests *)

ClientProofs == INSTANCE UnionbankClientProofs WITH Calls <- Requests

\* The client that was proved about is the client of the requests.
LEMMA SameClient ==
    /\ ClientProofs!ClientAssumption
    /\ UNCHANGED ClientProofs!vars <=> UNCHANGED Client!vars
    /\ ClientProofs!Init <=> Client!Init
    /\ ClientProofs!Next <=> Client!Next
    /\ ClientProofs!TypeOK <=> Client!TypeOK
<1>1. ClientProofs!ClientAssumption
  BY BankAssumption DEF ClientProofs!ClientAssumption, Client!ClientAssumption
<1>2. /\ UNCHANGED ClientProofs!vars <=> UNCHANGED Client!vars
      /\ ClientProofs!Init <=> Client!Init
  BY Zenon DEF ClientProofs!vars, Client!vars, ClientProofs!Init, Client!Init
<1>3. ClientProofs!Next <=> Client!Next
  BY Zenon
     DEF ClientProofs!Next, Client!Next, ClientProofs!Step, Client!Step,
         ClientProofs!Request, Client!Request, ClientProofs!BankIssues, Client!BankIssues,
         ClientProofs!RefreshToken, Client!RefreshToken,
         ClientProofs!RefreshFails, Client!RefreshFails,
         ClientProofs!BankActs, Client!BankActs, ClientProofs!Succeeds, Client!Succeeds,
         ClientProofs!Fails, Client!Fails, ClientProofs!Tick, Client!Tick,
         ClientProofs!Send, Client!Send, ClientProofs!End, Client!End,
         ClientProofs!UnderWay, Client!UnderWay,
         ClientProofs!IsTokenValid, Client!IsTokenValid
<1>4. ClientProofs!TypeOK <=> Client!TypeOK
  BY Zenon DEF ClientProofs!TypeOK, Client!TypeOK, ClientProofs!Token, Client!Token,
               ClientProofs!Ended, Client!Ended
<1> QED
  BY <1>1, <1>2, <1>3, <1>4

\* Every step is a step of the client or leaves it alone.
LEMMA StepsOfClient ==
    ASSUME [Next]_vars
    PROVE  [Client!Next]_(Client!vars)
<1>1. \A r \in Requests : Client!Request(r) => Client!Next
  BY DEF Client!Next, Client!Step
<1>2. ASSUME NEW r \in Requests, CallGoesOn(r)
      PROVE  Client!Next
  BY <1>2 DEF CallGoesOn, Client!Next, Client!Step
<1>3. Tick => Client!Next
  BY DEF Tick, Client!Next
<1>4. UNCHANGED clientVars => UNCHANGED Client!vars
  BY DEF clientVars, Client!vars
<1> QED
  BY <1>1, <1>2, <1>3, <1>4, RequestNames
     DEF Next, CreateTransfer, GetTransferStatus, GivesUp, vars

LEMMA ClientAlways == Spec => []ClientProofs!Clocks
<1>1. Init => ClientProofs!Clocks
  BY SameClient, ClientProofs!ClocksInit DEF Init
<1>2. ClientProofs!Clocks /\ [Next]_vars => ClientProofs!Clocks'
  BY SameClient, StepsOfClient, ClientProofs!ClocksStep
<1> QED
  BY <1>1, <1>2, PTL DEF Spec

\* No POST and no GET goes out with a token that has lapsed, and none is under way for more
\* than two timeouts, whether or not the gateway still waits for it.
THEOREM RequestsKeepTheClientsPromise ==
    Spec => [](Client!TokenOutlivesRequest /\ Client!EndsInTime)
<1>1. ClientProofs!Clocks => Client!TokenOutlivesRequest /\ Client!EndsInTime
  <2> SUFFICES ASSUME ClientProofs!Clocks
               PROVE  Client!TokenOutlivesRequest /\ Client!EndsInTime
    OBVIOUS
  <2>1. ClientProofs!TokenOutlivesRequest /\ ClientProofs!EndsInTime
    BY SameClient, ClientProofs!ClocksSuffice
  <2> QED
    BY <2>1 DEF ClientProofs!TokenOutlivesRequest, Client!TokenOutlivesRequest,
                ClientProofs!EndsInTime, Client!EndsInTime,
                ClientProofs!UnderWay, Client!UnderWay
<1> QED
  BY <1>1, ClientAlways, PTL

\* What each kind of request is answered.
AnswerTypes ==
    /\ answer \in [Requests -> {"none"} \cup Posted \cup Looked]
    /\ \A a \in Attempts : answer[a] \notin Looked \ Posted
    /\ \A l \in Lookups : answer[l] \notin Posted \ Looked

LEMMA AnswerTypesStep ==
    ASSUME AnswerTypes, [Next]_vars
    PROVE  AnswerTypes'
<1> USE DEF Posted, Looked
<1>1. CASE answer' = answer
  BY <1>1 DEF AnswerTypes
<1>2. CASE Answer
  <2>1. \A o \in Client!Ended :
          CreateAnswer(o) \in Posted /\ StatusAnswer(o) \in {"found", "notFound"}
    BY DEF Client!Ended, CreateAnswer, StatusAnswer
  <2>2. Attempts \cap Lookups = {} /\ Requests = Attempts \cup Lookups
    BY DEF Attempts, Lookups, Requests
  <2>3. \A r \in Requests :
          \/ answer'[r] = answer[r]
          \/ r \in Attempts /\ answer'[r] \in Posted
          \/ r \in Lookups /\ answer'[r] \in {"found", "notFound"}
    BY <1>2, <2>1, <2>2 DEF Answer
  <2>4. DOMAIN answer' = Requests /\ answer' = [r \in Requests |-> answer'[r]]
    BY <1>2 DEF Answer
  <2> QED
    BY <2>2, <2>3, <2>4 DEF AnswerTypes
<1>3. ASSUME NEW r \in Requests, GivesUp(r)
      PROVE  AnswerTypes'
  BY <1>3 DEF GivesUp, AnswerTypes, Requests
<1> QED
  BY <1>1, <1>2, <1>3 DEF Next, CreateTransfer, GetTransferStatus, CallGoesOn, Tick, vars

\* Types: a POST and a GET are each answered with what their handler can end with.
THEOREM TransferTypes == Spec => []TypeOK
<1>1. Init => AnswerTypes
  BY DEF Init, AnswerTypes, Requests, Posted, Looked
<1>2. ClientProofs!Clocks /\ AnswerTypes => TypeOK
  BY SameClient DEF ClientProofs!Clocks, AnswerTypes, TypeOK
<1> QED
  BY <1>1, <1>2, AnswerTypesStep, ClientAlways, PTL DEF Spec
-----------------------------------------------------------------------------
(* How long a caller waits *)

\* A caller that waits asked no longer ago than the interceptor allows.
Patience ==
    \A r \in Requests : Client!UnderWay(r) /\ answer[r] = "none" =>
        started[r] <= now /\ now <= started[r] + GatewayTimeout

LEMMA PatienceStep ==
    ASSUME ClientProofs!Clocks, Ledger, Patience, [Next]_vars
    PROVE  Patience'
<1>1. /\ now \in Nat /\ GatewayTimeout \in Nat
      /\ started \in [Requests -> Nat]
      /\ pc \in [Requests -> {"idle", "authenticating", "calling"} \cup Client!Ended]
      /\ DOMAIN answer = Requests
  BY SameClient, TransferAssumption DEF ClientProofs!Clocks, Client!TypeOK, Ledger, Shape
<1>2. ASSUME NEW r \in Requests, Client!Request(r), UNCHANGED answer
      PROVE  Patience'
  <2>1. /\ started' = [started EXCEPT ![r] = now] /\ now' = now /\ answer' = answer
        /\ \A q \in Requests : q # r => pc'[q] = pc[q]
    BY <1>1, <1>2 DEF Client!Request, Client!Send
  <2> QED
    BY <1>1, <2>1 DEF Patience, Client!UnderWay
<1>3. ASSUME NEW r \in Requests, CallGoesOn(r)
      PROVE  Patience'
  <2>1. now' = now /\ \A q \in Requests : Client!UnderWay(q)' =>
          Client!UnderWay(q) /\ started'[q] = started[q]
    BY <1>1, <1>3
       DEF CallGoesOn, Client!BankIssues, Client!RefreshToken, Client!RefreshFails,
           Client!BankActs, Client!Succeeds, Client!Fails, Client!End, Client!Send,
           Client!UnderWay, Client!Ended
  <2>2. \A q \in Requests : Client!UnderWay(q)' => answer'[q] = answer[q]
    BY <1>3, AnswersStay, CallSteps DEF Ledger, Client!UnderWay, Client!Ended
  <2> QED
    BY <2>1, <2>2 DEF Patience
<1>4. ASSUME NEW r \in Requests, GivesUp(r)
      PROVE  Patience'
  <2>1. answer' = [answer EXCEPT ![r] = "gaveUp"] /\ UNCHANGED <<pc, now, started>>
    BY <1>4 DEF GivesUp, clientVars
  <2> QED
    BY <1>1, <2>1 DEF Patience, Client!UnderWay
<1>5. CASE Tick
  <2>1. now' = now + 1 /\ UNCHANGED <<pc, started, answer>>
    BY <1>5 DEF Tick, Client!Tick
  <2>2. \A r \in Requests : Client!UnderWay(r) /\ answer[r] = "none"
          => started[r] <= now /\ now - started[r] < GatewayTimeout
    BY <1>5 DEF Tick, Patience, Waiting, Client!UnderWay
  <2> QED
    BY <1>1, <2>1, <2>2 DEF Patience, Client!UnderWay
<1>6. CASE UNCHANGED vars
  BY <1>6 DEF vars, clientVars, Patience, Client!UnderWay
<1> QED
  BY <1>2, <1>3, <1>4, <1>5, <1>6, RequestNames DEF Next, CreateTransfer, GetTransferStatus

\* A request that waits is one whose call is still under way: the handler settles with its
\* call.  Nobody waits for an answer longer than the interceptor's timeout, nor longer than
\* the client's two timeouts, whatever the bank does and whatever the interceptor is set to.
NobodyWaitsLonger ==
    \A r \in Requests : Waiting(r) =>
        Client!UnderWay(r) /\ now - started[r] <= GatewayTimeout
                          /\ now - started[r] <= 2 * Timeout

\* The bound on the waiting time, for any number of requests and any settings.
THEOREM AnswersAreInTime == Spec => []NobodyWaitsLonger
<1>1. Init => Patience
  BY DEF Init, Client!Init, Patience, Client!UnderWay
<1>2. Spec => []Patience
  BY <1>1, PatienceStep, ClientAlways, LedgerAlways, PTL DEF Spec
<1>3. ClientProofs!Clocks /\ Client!EndsInTime /\ Ledger /\ Patience => NobodyWaitsLonger
  <2> SUFFICES ASSUME ClientProofs!Clocks, Client!EndsInTime, Ledger, Patience,
                      NEW r \in Requests, Waiting(r)
               PROVE  Client!UnderWay(r) /\ now - started[r] <= GatewayTimeout
                        /\ now - started[r] <= 2 * Timeout
    BY DEF NobodyWaitsLonger
  <2>1. now \in Nat /\ started[r] \in Nat /\ GatewayTimeout \in Nat
    BY SameClient, TransferAssumption DEF ClientProofs!Clocks, Client!TypeOK
  <2>2. Client!UnderWay(r)
    BY DEF Ledger, Shape, AnsweredInTurn, Client!UnderWay, Waiting
  <2> QED
    BY <2>1, <2>2 DEF Patience, Client!EndsInTime, Waiting
<1> QED
  BY <1>2, <1>3, ClientAlways, LedgerAlways, RequestsKeepTheClientsPromise, PTL
=============================================================================
