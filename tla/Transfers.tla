----------------------------- MODULE Transfers ------------------------------
(***************************************************************************)
(* POST /transfers and GET /transfers/:referenceId/status.  Every POST     *)
(* makes a reference of its own and one call of the bank's client; the     *)
(* idempotency key of the caller travels along as a request id and is      *)
(* looked at by nobody.  The timeout interceptor answers 408 when its time *)
(* is up, and leaves the call going.                                       *)
(*                                                                         *)
(* The caller is external: it repeats a POST under the same key after the  *)
(* answers in RetryOn, and asks for the status of a transfer it was told   *)
(* was created, once for each.  The bank carries out each reference once.  *)
(***************************************************************************)
EXTENDS Integers, FiniteSets

CONSTANTS
    Keys,               \* idempotency keys
    MaxAttempts,        \* bound: POSTs under one key
    RetryOn,            \* the answers after which the caller repeats a POST
    GatewayTimeout,     \* DEFAULT_TIMEOUT_MS of the interceptor
    Lifetimes, Timeout, Buffer, NoToken, MaxTime    \* of the bank's client

\* The answers to a POST: 201, and the statuses 502, 504, 401 and 408; and to a GET.
Posted == {"created", "error", "timeout", "unauthorized", "gaveUp"}
Looked == {"found", "notFound", "gaveUp"}

\* A caller that repeats a POST has an answer to the one before.
ASSUME TransferAssumption ==
    /\ MaxAttempts \in Nat \ {0}
    /\ RetryOn \subseteq Posted
    /\ GatewayTimeout \in Nat

Attempts == {"post"} \X Keys \X (1..MaxAttempts)
Lookups == {"get"} \X Keys \X (1..MaxAttempts)
Requests == Attempts \cup Lookups

Post(k, n) == <<"post", k, n>>
Get(k, n) == <<"get", k, n>>

VARIABLES
    now, tokenInfo, pc, started, since, granted, used, acted,   \* of the bank's client
    answer              \* what each request was answered, "none" before

Client == INSTANCE UnionbankClient WITH Calls <- Requests

ASSUME BankAssumption == Client!ClientAssumption

clientVars == <<now, tokenInfo, pc, started, since, granted, used, acted>>
vars == <<clientVars, answer>>

Init ==
    /\ Client!Init
    /\ answer = [r \in Requests |-> "none"]

\* The handler was entered, and nothing was sent to the caller yet.
Waiting(r) == pc[r] # "idle" /\ answer[r] = "none"

\* Broken variant: a timeout is reported like a refusal.
CreateAnswerBlurred(outcome) ==
    CASE outcome = "ok" -> "created"
      [] outcome = "timeout" -> "unauthorized"
      [] OTHER -> outcome

\* createTransfer throws what the client throws.
CreateAnswer(outcome) == IF outcome = "ok" THEN "created" ELSE outcome

\* Broken variant: a failed lookup reports what the client threw.
StatusAnswerRaw(outcome) == IF outcome = "ok" THEN "found" ELSE outcome

\* getTransferStatus turns every exception into TransactionNotFoundException.
StatusAnswer(outcome) == IF outcome = "ok" THEN "found" ELSE "notFound"

\* The gateway answers a request as soon as its call ends, unless it has given up on it.
Answer ==
    answer' = [r \in Requests |->
        IF answer[r] # "none" \/ pc'[r] \notin Client!Ended THEN answer[r]
        ELSE IF r \in Attempts THEN CreateAnswer(pc'[r]) ELSE StatusAnswer(pc'[r])]

\* A caller's first POST under a key, or a repeated one.
CreateTransfer(k, n) ==
    /\ n > 1 => answer[Post(k, n - 1)] \in RetryOn
    /\ Client!Request(Post(k, n))
    /\ UNCHANGED answer

GetTransferStatus(k, n) ==
    /\ answer[Post(k, n)] = "created"
    /\ Client!Request(Get(k, n))
    /\ UNCHANGED answer

\* The call of a request goes on, whether or not anybody waits for it.
CallGoesOn(r) ==
    /\ \/ Client!BankIssues(r) \/ Client!RefreshToken(r) \/ Client!RefreshFails(r)
       \/ Client!BankActs(r) \/ Client!Succeeds(r) \/ Client!Fails(r)
    /\ Answer

\* Broken variants: giving up is answered 401; or the timeout is caught and nothing sent in
\* its place, so that what the handler settles with later goes nowhere either.
GivesUpAsRefusal(r) ==
    /\ Waiting(r)
    /\ now - started[r] >= GatewayTimeout
    /\ answer' = [answer EXCEPT ![r] = "unauthorized"]
    /\ UNCHANGED clientVars
GivesUpSilently(r) ==
    /\ Waiting(r)
    /\ now - started[r] >= GatewayTimeout
    /\ answer' = [answer EXCEPT ![r] = "nothing"]
    /\ UNCHANGED clientVars

\* TimeoutInterceptor: whatever keeps the handler from settling, the caller is answered 408
\* when the time is up, and the handler's call is not cancelled.
GivesUp(r) ==
    /\ Waiting(r)
    /\ now - started[r] >= GatewayTimeout
    /\ answer' = [answer EXCEPT ![r] = "gaveUp"]
    /\ UNCHANGED clientVars

\* The interceptor's timer, too, fires when it is due.
Tick ==
    /\ \A r \in Requests : Waiting(r) => now - started[r] < GatewayTimeout
    /\ Client!Tick
    /\ UNCHANGED answer

Next ==
    \/ \E k \in Keys, n \in 1..MaxAttempts : CreateTransfer(k, n) \/ GetTransferStatus(k, n)
    \/ \E r \in Requests : CallGoesOn(r) \/ GivesUp(r)
    \/ Tick

\* A timer that is due: the interceptor's, or that of the client's current HTTP request.
TimerFires(r) == GivesUp(r) \/ (Client!Expires(r) /\ Answer)

\* Time passes and due timers fire; the bank owes nothing.
Fairness == WF_vars(Tick) /\ WF_vars(\E r \in Requests : TimerFires(r))

Spec == Init /\ [][Next]_vars /\ Fairness
-----------------------------------------------------------------------------
(* Properties *)

TypeOK ==
    /\ Client!TypeOK
    /\ answer \in [Requests -> {"none"} \cup Posted \cup Looked]
    /\ \A a \in Attempts : answer[a] \notin Looked \ Posted
    /\ \A l \in Lookups : answer[l] \notin Posted \ Looked

\* "If a transfer with the same idempotency key already exists, the existing transfer will
\* be returned": a key never makes the bank carry out two transfers.
OneTransferPerKey ==
    \A k \in Keys : Cardinality({n \in 1..MaxAttempts : acted[Post(k, n)]}) <= 1

\* Every caller is sent an answer of its kind, also when the bank never answers: either the
\* handler settles first, or the interceptor gives up on it, and whichever comes second
\* does not take the answer away.  (As there are finitely many requests, nobody waits
\* forever if time and again nobody waits.)
EveryoneIsAnswered ==
    []<>(\A r \in Requests :
            pc[r] # "idle" => answer[r] \in IF r \in Attempts THEN Posted ELSE Looked)

\* The bank carries out two transfers for one key only for a caller that repeated a POST
\* after an answer, other than 401, that did not tell whether that one was carried out.
DuplicatesNeedDoubt ==
    \A k \in Keys : \A m, n \in 1..MaxAttempts :
        m < n /\ acted[Post(k, m)] /\ acted[Post(k, n)]
            => answer[Post(k, m)] \in RetryOn \ {"unauthorized"}

\* What a caller is told of a transfer is so, however late the token, the interceptor or
\* the bank: after a 401 it is never carried out, and after a 201, or once a lookup has
\* found it, it was.
AnswersAreTrue ==
    \A k \in Keys, n \in 1..MaxAttempts :
        /\ answer[Post(k, n)] = "unauthorized" => ~acted[Post(k, n)]
        /\ answer[Post(k, n)] = "created" \/ answer[Get(k, n)] = "found" => acted[Post(k, n)]
=============================================================================
