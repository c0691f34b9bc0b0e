----------------------- MODULE UnionbankClientProofs ------------------------
(***************************************************************************)
(* What the bank's clients guarantee for any number of calls, any timeout, *)
(* any buffer of at least twice the timeout, and any lifetimes beyond it.  *)
(*                                                                         *)
(* The inductive invariant ties the three clocks together: the client's    *)
(* view of a token's expiry is at most one timeout later than the bank's,  *)
(* because the token's answer took at most one timeout to arrive.          *)
(***************************************************************************)
EXTENDS UnionbankClient, TLAPS

\* Requests under way are within their timeout.
InTime == \A c \in Calls : UnderWay(c) => since[c] <= now /\ now <= since[c] + Timeout

\* The client's view of the expiry is at most one timeout late.
ViewIsClose == tokenInfo # NoToken => tokenInfo.expiresAt <= tokenInfo.lapsesAt + Timeout

\* A token is on its way only to a refresh under way, and was issued after that began.
GrantIsFresh ==
    \A c \in Calls : granted[c] # NoToken =>
        /\ pc[c] = "authenticating"
        /\ granted[c].life > 2 * Timeout
        /\ granted[c].lapsesAt >= since[c] + granted[c].life

\* The token a request carries outlives the request's timeout.
UsedIsGood ==
    \A c \in Calls : pc[c] = "calling" =>
        used[c] # NoToken /\ since[c] + Timeout < used[c].lapsesAt

\* A call got to its current request within one timeout.
Prompt ==
    \A c \in Calls :
        /\ pc[c] = "authenticating" => since[c] = started[c]
        /\ pc[c] = "calling" => since[c] <= started[c] + Timeout

Clocks == TypeOK /\ InTime /\ ViewIsClose /\ GrantIsFresh /\ UsedIsGood /\ Prompt

LEMMA ClocksInit == Init => Clocks
BY DEF Init, Clocks, TypeOK, InTime, ViewIsClose, GrantIsFresh, UsedIsGood, Prompt, UnderWay,
       Ended

LEMMA TimeoutType == Timeout \in Nat /\ Buffer \in Nat /\ 2 * Timeout <= Buffer
BY ClientAssumption

\* A new call keeps the invariant: the buffer makes up for the client's late view.
LEMMA RequestStep ==
    ASSUME Clocks, NEW c \in Calls, Request(c)
    PROVE  Clocks'
<1> USE DEF Clocks
<1>1. CASE IsTokenValid /\ Send(c, tokenInfo)
  <2>1. tokenInfo \in Token /\ tokenInfo # NoToken
    BY <1>1 DEF IsTokenValid, TypeOK
  <2>2. now + Timeout < tokenInfo.lapsesAt
    <3>1. now \in Nat /\ tokenInfo.expiresAt \in Nat /\ tokenInfo.lapsesAt \in Nat
      BY <2>1 DEF Token, TypeOK
    <3>2. now < tokenInfo.expiresAt - Buffer /\ tokenInfo.expiresAt <= tokenInfo.lapsesAt + Timeout
      BY <1>1, <2>1 DEF IsTokenValid, ViewIsClose
    <3> QED
      BY <3>1, <3>2, TimeoutType
  <2>3. TypeOK'
    BY <1>1, <2>1 DEF Request, Send, TypeOK
  <2>4. InTime' /\ Prompt'
    BY <1>1, TimeoutType DEF Request, Send, TypeOK, InTime, Prompt, UnderWay
  <2>5. ViewIsClose' /\ GrantIsFresh'
    BY <1>1 DEF Request, Send, TypeOK, ViewIsClose, GrantIsFresh
  <2>6. UsedIsGood'
    BY <1>1, <2>1, <2>2 DEF Request, Send, TypeOK, UsedIsGood
  <2> QED
    BY <2>3, <2>4, <2>5, <2>6
<1>2. CASE ~(IsTokenValid /\ Send(c, tokenInfo))
  <2>1. /\ pc[c] = "idle"
        /\ started' = [started EXCEPT ![c] = now]
        /\ pc' = [pc EXCEPT ![c] = "authenticating"]
        /\ since' = [since EXCEPT ![c] = now]
        /\ UNCHANGED <<now, tokenInfo, granted, acted, used>>
    BY <1>2 DEF Request
  <2>2. TypeOK'
    BY <2>1 DEF TypeOK
  <2>3. InTime' /\ Prompt'
    BY <2>1, TimeoutType DEF TypeOK, InTime, Prompt, UnderWay
  <2>4. ViewIsClose' /\ UsedIsGood'
    BY <2>1 DEF TypeOK, ViewIsClose, UsedIsGood
  <2>5. GrantIsFresh'
    BY <2>1 DEF TypeOK, GrantIsFresh
  <2> QED
    BY <2>2, <2>3, <2>4, <2>5
<1> QED
  BY <1>1, <1>2

LEMMA BankIssuesStep ==
    ASSUME Clocks, NEW c \in Calls, BankIssues(c)
    PROVE  Clocks'
<1> USE DEF Clocks
<1>1. PICK l \in Lifetimes : granted' = [granted EXCEPT ![c] = [life |-> l, lapsesAt |-> now + l]]
  BY DEF BankIssues
<1>2. l \in Nat /\ l > 2 * Timeout /\ now \in Nat
  BY ClientAssumption DEF TypeOK
<1>3. [life |-> l, lapsesAt |-> now + l] \in [life : Nat, lapsesAt : Nat]
  BY <1>2
<1>4. TypeOK'
  BY <1>1, <1>3 DEF BankIssues, TypeOK
<1>5. InTime' /\ ViewIsClose' /\ UsedIsGood' /\ Prompt'
  BY DEF BankIssues, InTime, ViewIsClose, UsedIsGood, Prompt, UnderWay
<1>6. GrantIsFresh'
  BY <1>1, <1>2 DEF BankIssues, TypeOK, GrantIsFresh, InTime, UnderWay
<1> QED
  BY <1>4, <1>5, <1>6

\* A token that arrives within the timeout of its request is good for the call it was
\* asked for, and its expiry is known to within one timeout.
LEMMA RefreshTokenStep ==
    ASSUME Clocks, NEW c \in Calls, RefreshToken(c)
    PROVE  Clocks'
<1> USE DEF Clocks
<1> DEFINE tok == [expiresAt |-> now + granted[c].life, lapsesAt |-> granted[c].lapsesAt]
<1>1. /\ granted[c] \in [life : Nat, lapsesAt : Nat]
      /\ now \in Nat /\ since[c] \in Nat /\ started[c] \in Nat
  BY DEF RefreshToken, TypeOK
<1>2. tok \in Token
  BY <1>1 DEF Token
<1>3. tok # NoToken
  BY <1>2, ClientAssumption DEF Token
<1>4. /\ granted[c].life \in Nat /\ granted[c].lapsesAt \in Nat
      /\ granted[c].life > 2 * Timeout
      /\ granted[c].lapsesAt >= since[c] + granted[c].life
      /\ since[c] <= now /\ now <= since[c] + Timeout
  BY <1>1 DEF RefreshToken, GrantIsFresh, InTime, UnderWay
<1>5. tok.expiresAt <= tok.lapsesAt + Timeout /\ now + Timeout < tok.lapsesAt
  BY <1>1, <1>4, TimeoutType
<1>6. /\ tokenInfo' = tok
      /\ pc' = [pc EXCEPT ![c] = "calling"]
      /\ since' = [since EXCEPT ![c] = now]
      /\ used' = [used EXCEPT ![c] = tok]
      /\ granted' = [granted EXCEPT ![c] = NoToken]
      /\ UNCHANGED <<now, started, acted>>
      /\ pc[c] = "authenticating"
  BY DEF RefreshToken, Send
<1> HIDE DEF tok
<1>7. TypeOK'
  BY <1>2, <1>6 DEF TypeOK
<1>8. InTime'
  BY <1>1, <1>6, TimeoutType DEF TypeOK, InTime, UnderWay
<1>9. Prompt'
  BY <1>1, <1>4, <1>6 DEF TypeOK, Prompt
<1>10. ViewIsClose' /\ GrantIsFresh'
  BY <1>5, <1>6 DEF TypeOK, ViewIsClose, GrantIsFresh
<1>11. UsedIsGood'
  BY <1>3, <1>5, <1>6 DEF TypeOK, UsedIsGood
<1> QED
  BY <1>7, <1>8, <1>9, <1>10, <1>11

\* A call that ends leaves the others as they are.
LEMMA EndStep ==
    ASSUME Clocks, NEW c \in Calls, NEW outcome \in Ended, End(c, outcome),
           \/ granted' = granted /\ pc[c] = "calling"
           \/ granted' = [granted EXCEPT ![c] = NoToken],
           UNCHANGED <<now, tokenInfo, acted>>
    PROVE  Clocks'
<1> USE DEF Clocks
<1>1. outcome # "authenticating" /\ outcome # "calling"
  BY DEF Ended
<1>2. TypeOK'
  BY DEF End, TypeOK
<1>3. InTime' /\ Prompt'
  BY <1>1 DEF End, TypeOK, InTime, Prompt, UnderWay
<1>4. ViewIsClose' /\ GrantIsFresh'
  BY <1>1 DEF End, TypeOK, ViewIsClose, GrantIsFresh
<1>5. UsedIsGood'
  BY <1>1 DEF End, TypeOK, UsedIsGood
<1> QED
  BY <1>2, <1>3, <1>4, <1>5

LEMMA BankActsStep ==
    ASSUME Clocks, NEW c \in Calls, BankActs(c)
    PROVE  Clocks'
BY DEF BankActs, Clocks, TypeOK, InTime, ViewIsClose, GrantIsFresh, UsedIsGood, Prompt, UnderWay

\* The clock waits for requests that are due.
LEMMA TickStep ==
    ASSUME Clocks, Tick
    PROVE  Clocks'
<1> USE DEF Clocks
<1>1. TypeOK' /\ ViewIsClose' /\ GrantIsFresh' /\ UsedIsGood' /\ Prompt'
  BY DEF Tick, TypeOK, ViewIsClose, GrantIsFresh, UsedIsGood, Prompt
<1>2. InTime'
  BY TimeoutType DEF Tick, TypeOK, InTime, UnderWay
<1> QED
  BY <1>1, <1>2

LEMMA ClocksStep ==
    ASSUME Clocks, [Next]_vars
    PROVE  Clocks'
<1>1. ASSUME NEW c \in Calls, Step(c)
      PROVE  Clocks'
  <2>1. CASE RefreshFails(c)
    BY <2>1, EndStep DEF RefreshFails, Ended
  <2>2. CASE Succeeds(c)
    BY <2>2, EndStep DEF Succeeds, Ended
  <2>3. CASE Fails(c)
    BY <2>3, EndStep DEF Fails, Ended
  <2> QED
    BY <1>1, <2>1, <2>2, <2>3, RequestStep, BankIssuesStep, RefreshTokenStep, BankActsStep DEF Step
<1>2. CASE Tick
  BY <1>2, TickStep
<1>3. CASE UNCHANGED vars
  BY <1>3 DEF vars, Clocks, TypeOK, InTime, ViewIsClose, GrantIsFresh, UsedIsGood, Prompt, UnderWay
<1> QED
  BY <1>1, <1>2, <1>3 DEF Next

LEMMA ClocksAlways == Spec => []Clocks
BY ClocksInit, ClocksStep, PTL DEF Spec

\* The invariant gives the two safety properties.
LEMMA ClocksSuffice ==
    ASSUME Clocks
    PROVE  TokenOutlivesRequest /\ EndsInTime
<1>1. TokenOutlivesRequest
  <2> SUFFICES ASSUME NEW c \in Calls, pc[c] = "calling"
               PROVE  now < used[c].lapsesAt
    BY DEF TokenOutlivesRequest
  <2>1. /\ now \in Nat /\ since[c] \in Nat
        /\ used[c] # NoToken /\ used[c].lapsesAt \in Nat
    BY DEF Clocks, TypeOK, UsedIsGood, Token
  <2>2. now <= since[c] + Timeout /\ since[c] + Timeout < used[c].lapsesAt
    BY DEF Clocks, InTime, UsedIsGood, UnderWay
  <2> QED
    BY <2>1, <2>2, TimeoutType
<1>2. EndsInTime
  <2> SUFFICES ASSUME NEW c \in Calls, UnderWay(c)
               PROVE  now - started[c] <= 2 * Timeout
    BY DEF EndsInTime
  <2>1. now \in Nat /\ since[c] \in Nat /\ started[c] \in Nat
    BY DEF Clocks, TypeOK
  <2>2. now <= since[c] + Timeout /\ since[c] <= started[c] + Timeout
    BY <2>1, TimeoutType DEF Clocks, InTime, Prompt, UnderWay
  <2> QED
    BY <2>1, <2>2, TimeoutType
<1> QED
  BY <1>1, <1>2

\* The types of the tokens, the calls and the clocks.
THEOREM ClientTypes == Spec => []TypeOK
<1>1. Clocks => TypeOK
  BY DEF Clocks
<1> QED
  BY <1>1, ClocksAlways, PTL

\* Whatever the order in which tokens are issued and arrive, no request is under way with
\* a token that the bank has let lapse.
THEOREM LiveTokens == Spec => []TokenOutlivesRequest
BY ClocksSuffice, ClocksAlways, PTL

\* No call keeps its caller longer than two timeouts.
THEOREM CallsAreBounded == Spec => []EndsInTime
BY ClocksSuffice, ClocksAlways, PTL
=============================================================================
