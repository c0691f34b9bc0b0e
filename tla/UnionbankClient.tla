-------------------------- MODULE UnionbankClient ---------------------------
(***************************************************************************)
(* The clients of the bank's API.  UnionbankOAuthClient keeps one access   *)
(* token and asks for another when the one it has is missing or about to   *)
(* expire; UnionbankApiClient puts that token on every request it sends.   *)
(* Calls that find no valid token ask for one each: refreshes are not      *)
(* shared, and the answer that arrives last stays.                         *)
(*                                                                         *)
(* What follows the arrival of a token (storing it, reading it back,       *)
(* sending the request) runs as microtasks of one turn of the event loop,  *)
(* which nothing can come between: one step here.                          *)
(*                                                                         *)
(* Time passes only while no HTTP request is past its timeout: timers are  *)
(* taken to fire when they are due.  The bank is external: it issues       *)
(* tokens, carries requests out, and answers, late or never.               *)
(***************************************************************************)
EXTENDS Integers

CONSTANTS
    Calls,              \* get and post calls; each is made at most once
    Lifetimes,          \* values of expires_in
    Timeout,            \* config.timeout: of the token request and of the request itself
    Buffer,             \* TOKEN_REFRESH_BUFFER_MS
    NoToken,            \* no token
    MaxTime             \* bound: the clock stops here

\* The timeout is 30 s by default and the buffer 60 s.
ASSUME ClientAssumption ==
    /\ Timeout \in Nat \ {0}
    /\ Buffer \in Nat
    /\ 2 * Timeout <= Buffer
    /\ Lifetimes \subseteq Nat
    /\ \A l \in Lifetimes : l > 2 * Timeout
    /\ NoToken \notin [life : Nat, lapsesAt : Nat]
    /\ NoToken \notin [expiresAt : Nat, lapsesAt : Nat]
    /\ MaxTime \in Nat

VARIABLES
    now,                \* Date.now()
    tokenInfo,          \* the token in use: when the client and the bank take it to expire
    pc,                 \* where each call is, or how it ended
    started,            \* when each call was made
    since,              \* when its current HTTP request was sent
    granted,            \* the token the bank issued in answer to its token request
    used,               \* the token its request carries
    acted               \* the bank carried the request out

vars == <<now, tokenInfo, pc, started, since, granted, used, acted>>

\* What a call can end with: its result, and the 502, 504 and 401 exceptions.
Ended == {"ok", "error", "timeout", "unauthorized"}

UnderWay(c) == pc[c] \in {"authenticating", "calling"}

Token == [expiresAt : Nat, lapsesAt : Nat]

Init ==
    /\ now = 0
    /\ tokenInfo = NoToken
    /\ pc = [c \in Calls |-> "idle"]
    /\ started = [c \in Calls |-> 0]
    /\ since = [c \in Calls |-> 0]
    /\ granted = [c \in Calls |-> NoToken]
    /\ used = [c \in Calls |-> NoToken]
    /\ acted = [c \in Calls |-> FALSE]

\* The call is over and its locals are gone.
End(c, outcome) ==
    /\ pc' = [pc EXCEPT ![c] = outcome]
    /\ started' = [started EXCEPT ![c] = 0]
    /\ since' = [since EXCEPT ![c] = 0]
    /\ used' = [used EXCEPT ![c] = NoToken]

\* Broken variant: the token is used to its last moment.
IsTokenValidToTheEnd == tokenInfo # NoToken /\ now < tokenInfo.expiresAt

IsTokenValid == tokenInfo # NoToken /\ now < tokenInfo.expiresAt - Buffer

\* buildHeaders and the request: sent with the token tok.
Send(c, tok) ==
    /\ pc' = [pc EXCEPT ![c] = "calling"]
    /\ since' = [since EXCEPT ![c] = now]
    /\ used' = [used EXCEPT ![c] = tok]

\* getAccessToken: the token in use will do, or a new one is asked for.
Request(c) ==
    /\ pc[c] = "idle"
    /\ now + 2 * Timeout <= MaxTime
    /\ started' = [started EXCEPT ![c] = now]
    /\ \/ IsTokenValid /\ Send(c, tokenInfo)
       \/ /\ ~IsTokenValid
          /\ pc' = [pc EXCEPT ![c] = "authenticating"]
          /\ since' = [since EXCEPT ![c] = now]
          /\ UNCHANGED used
    /\ UNCHANGED <<now, tokenInfo, granted, acted>>

\* The bank issues a token; its lifetime runs from here.
BankIssues(c) ==
    /\ pc[c] = "authenticating"
    /\ granted[c] = NoToken
    /\ \E l \in Lifetimes :
        granted' = [granted EXCEPT ![c] = [life |-> l, lapsesAt |-> now + l]]
    /\ UNCHANGED <<now, tokenInfo, pc, started, since, used, acted>>

\* refreshToken gets its answer: the client counts the lifetime from now, stores the token
\* over whatever is there, and the call goes on with it.
RefreshToken(c) ==
    /\ pc[c] = "authenticating"
    /\ granted[c] # NoToken
    /\ LET tok == [expiresAt |-> now + granted[c].life, lapsesAt |-> granted[c].lapsesAt]
       IN tokenInfo' = tok /\ Send(c, tok)
    /\ granted' = [granted EXCEPT ![c] = NoToken]
    /\ UNCHANGED <<now, started, acted>>

\* Broken variant: the HTTP library's own error reaches the caller.
RefreshFailsRaw(c) ==
    /\ pc[c] = "authenticating"
    /\ End(c, "AxiosError")
    /\ granted' = [granted EXCEPT ![c] = NoToken]
    /\ UNCHANGED <<now, tokenInfo, acted>>

\* The token request is refused, breaks, or times out.  The old token stays.
RefreshFails(c) ==
    /\ pc[c] = "authenticating"
    /\ End(c, "unauthorized")
    /\ granted' = [granted EXCEPT ![c] = NoToken]
    /\ UNCHANGED <<now, tokenInfo, acted>>

\* The bank carries the request out, perhaps after the client gave up on it.
BankActs(c) ==
    /\ pc[c] \in {"calling", "timeout", "error"}
    /\ ~acted[c]
    /\ acted' = [acted EXCEPT ![c] = TRUE]
    /\ UNCHANGED <<now, tokenInfo, pc, started, since, granted, used>>

Succeeds(c) ==
    /\ pc[c] = "calling"
    /\ acted[c]
    /\ End(c, "ok")
    /\ UNCHANGED <<now, tokenInfo, granted, acted>>

\* Broken variant: the bank refused the token, so the call asks for another and starts over.
FailsAndReauthenticates(c) ==
    /\ pc[c] = "calling"
    /\ \/ End(c, "error")
       \/ now - since[c] >= Timeout /\ End(c, "timeout")
       \/ /\ pc' = [pc EXCEPT ![c] = "authenticating"]
          /\ since' = [since EXCEPT ![c] = now]
          /\ used' = [used EXCEPT ![c] = NoToken]
          /\ UNCHANGED started
    /\ UNCHANGED <<now, tokenInfo, granted, acted>>

\* handleError: an error answer or a broken connection, or the timeout.
Fails(c) ==
    /\ pc[c] = "calling"
    /\ \/ End(c, "error")
       \/ now - since[c] >= Timeout /\ End(c, "timeout")
    /\ UNCHANGED <<now, tokenInfo, granted, acted>>

\* Broken variant: the token request is made without a timeout.
ExpiresAfterToken(c) == now - since[c] >= Timeout /\ Fails(c)

\* A request's timer fires when it is due, whatever the bank does.
Expires(c) == now - since[c] >= Timeout /\ (RefreshFails(c) \/ Fails(c))

Step(c) ==
    \/ Request(c)
    \/ BankIssues(c) \/ RefreshToken(c) \/ RefreshFails(c)
    \/ BankActs(c) \/ Succeeds(c) \/ Fails(c)

Tick ==
    /\ now < MaxTime
    /\ \A c \in Calls : UnderWay(c) => now - since[c] < Timeout
    /\ now' = now + 1
    /\ UNCHANGED <<tokenInfo, pc, started, since, granted, used, acted>>

Next == (\E c \in Calls : Step(c)) \/ Tick

\* Time passes and due timers fire; the bank owes nothing.
Fairness == WF_vars(Tick) /\ \A c \in Calls : WF_vars(Expires(c))

Spec == Init /\ [][Next]_vars /\ Fairness
-----------------------------------------------------------------------------
(* Properties *)

TypeOK ==
    /\ now \in Nat
    /\ tokenInfo \in Token \cup {NoToken}
    /\ pc \in [Calls -> {"idle", "authenticating", "calling"} \cup Ended]
    /\ started \in [Calls -> Nat]
    /\ since \in [Calls -> Nat]
    /\ granted \in [Calls -> [life : Nat, lapsesAt : Nat] \cup {NoToken}]
    /\ used \in [Calls -> Token \cup {NoToken}]
    /\ acted \in [Calls -> BOOLEAN]

\* The bank never sees a lapsed token: the token of a request stays good for as long as
\* the client waits for its answer, although the client counts its lifetime from the
\* moment the token arrived and several refreshes may overtake each other.
TokenOutlivesRequest ==
    \A c \in Calls : pc[c] = "calling" => now < used[c].lapsesAt

\* No call keeps its caller longer than two timeouts, one for the token and one for the
\* request: no call starts over, and none waits for another call's refresh.  The bound
\* leaves no room for what docs/unionbank-integration.md (lines 401 and 464-470) says of
\* this client, up to three attempts after a timeout: it sends a request once.
EndsInTime ==
    \A c \in Calls : UnderWay(c) => now - started[c] <= 2 * Timeout

\* Every call ends, also when the bank never answers, whether it has to ask for a token
\* first or is sent straight away with the one in use.
CallsEnd == \A c \in Calls : UnderWay(c) ~> pc[c] \in Ended
=============================================================================
