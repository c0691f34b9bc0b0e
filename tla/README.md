# Verification of the Inspire Wallet Gateway

The gateway is a NestJS service between a wallet backend and UnionBank's API.
This directory holds TLA+ models of the parts that keep state or coordinate
several steps, TLC runs that check them on small instances, and TLAPS proofs
for every value of the constants. Paths below are relative to the repository
(`src/...`, `docs/...`).

How to run, in this directory:

    tlc -workers 2 -config MCTransfers.cfg MCTransfers     # any of the runs below
    tlapm TransfersProofs.tla                              # any of the *Proofs modules

`PROJECT.json` lists the components, the runs, for each property a mutant of
the model that breaks it, the source lines behind each definition, the
hazards, and the theorems.


## 1. Inventory

One Node process runs everything. Handlers interleave only at an `await`, at
timers and at incoming requests. State that outlives a request:

| component | state | operations |
|---|---|---|
| CacheService (`src/infrastructure/cache/cache.service.ts`) | Map of entries with expiry and last access; circuit breaker; cleanup interval | get, set, getJson, setJson, delete, deleteByPrefix, exists, invalidateVersion, clear, cleanupExpired, onModuleDestroy |
| getOrSet of CacheService | `inFlightRequests`: the promise of the fallback under way for each key | getOrSet, executeWithSingleFlight, a timer |
| WebhooksService (`src/modules/webhooks`) | a mark for each processed notification, in CacheService | processAutopost, processTransferWebhook |
| UnionbankOAuthClient, UnionbankApiClient (`src/integrations/unionbank/client`) | one access token with the client's idea of its expiry | getAccessToken, refreshToken, get, post, handleError |
| TransfersService (`src/modules/transfers`) with TimeoutInterceptor | none of its own; what the bank has carried out | createTransfer, getTransferStatus, the 408 |
| DepositsService, DepositRepository (`src/modules/deposits`), FirebaseService | documents in Firestore; whether there is a client for it | create, lookup, update, updateStatus, markAs..., delete; onModuleInit, onModuleDestroy |
| DepositLocalRepository, LocalStorageService (`src/infrastructure/local-storage`) | collections in memory, one JSON file, an auto-save timer | the same on a file; save, scheduleSave, clearAll, clear, onModuleDestroy |
| UpayService, the UPay validators, mobile numbers (`src/modules/upay`, `src/integrations/unionbank/validators`, `src/common/utils`) | none; a biller configured at UnionBank | createTransaction, createDebitCreditCardTransaction, the GET routes, the 408 |

Interactions: controllers call services; WebhooksService calls CacheService;
Transfers and UPay call UnionbankApiClient, which calls UnionbankOAuthClient
and HttpService; the interceptors and the exception filter sit around every
handler; the cache's health indicator reads the breaker. `AppModule` imports
neither `RedisModule` nor `DatabaseModule`, so the marks of webhooks live in
the memory of the process, whatever the documents say. DepositLocalRepository
is a stand-in for tests.

The rest keeps no state of its own (auth, guards, signatures, encryption,
audit, configuration) or is not wired up (queue processors, Redis, Prisma);
`PROJECT.json` lists each with the reason it is not modelled.

What is hard, and what makes each part correct:

- **Cache.** Eviction, three separate tests for expiry, a failing write that has
  already evicted, a breaker that leaves OPEN by two routes. It must stay within
  its size, drop the least recently used, keep what is still live, remove what
  is not, refuse exactly as long as promised, and forgive no failure while closed.
- **getOrSet.** Fallbacks that fail, hang, or end while others look: one fill per
  miss, no caller left behind.
- **Webhooks.** At-least-once delivery, two deliveries in one turn, a restart or an
  eviction between them: "Already processed" must be true, and a processed event
  must be recognised.
- **Bank client.** Refreshes that overtake each other, a clock that starts late, two
  timeouts in a row: no lapsed token, no call longer than that.
- **Transfers.** An answer lost, a 408 while the call goes on, a bank that acts late:
  which repetitions are safe, and that every caller is sent an answer.
- **Deposits.** Read, write, read without a transaction, any request rejected or its
  answer lost: overlapping updates and deletions must add up to whole updates, deleted
  deposits must stay deleted, and an answer must not hide the write it answers.
- **Local storage.** Timers, failed and torn writes, an exit at any moment: changes must
  reach the file, and a restart must bring them back.
- **UPay.** What is checked and what is posted are built in two places from different
  forms of the body: both must agree. The caller may be answered 408 while the call goes
  on: a 400 and a 201 must still mean what they say.

`PROJECT.json` "hazards" names the line where each of these bites.


## 2. Modules

| module | models | uses |
|---|---|---|
| `CircuitBreaker` | abstract: what a breaker promises | |
| `CacheService` | the cache and its breaker | refines `CircuitBreaker` |
| `SingleFlight` | getOrSet on one key, with what the rest of the cache can do to it | |
| `WebhookInbox` | abstract: what a receiver promises a sender that delivers at least once | |
| `Webhooks` | both webhook endpoints | composed with `CacheService`, refines `WebhookInbox` |
| `UnionbankClient` | token, requests, timeouts | |
| `Transfers` | the transfer endpoints with the interceptor | composed with `UnionbankClient` |
| `DepositStore` | abstract: what a store of deposits promises | |
| `Deposits` | service and repository on Firestore | refines `DepositStore` |
| `LocalStorage` | the file-backed storage | |
| `LocalDeposits` | the repository on local storage | extends `LocalStorage`, uses the operators of `DepositStore` |
| `UpayValidation` | the pure checks, as operators | |
| `Upay` | the transaction in three requests | extends `UpayValidation` |
| `MC...` | the instances that TLC checks | |
| `...Proofs` | theorems and proofs, one module per component | extend the component |

An action is one method where the method has no `await`, and otherwise what it
does between two awaits. Definitions have the names of the code where TLA+
allows it. A definition headed "Broken variant" is no part of the model: it is
the mutant that shows that a property can fail.

**CacheService.** `cache` is the Map, `breaker` the three breaker fields, `timer` the
cleanup interval. Every method runs without an await, so each is one step.
`Set` makes room (`Victims`) before it writes, `SetThrows` makes room and then
writes nothing, `GetThrows` counts the use before decryption fails, as the code
does. `lastUse` is a history variable: when a caller last used an entry, kept
apart from the field the code sorts by. The abstract breaker counts failures, too: a
success while it is closed forgives none of them, and an implementation that resets
the count there is no implementation of it. Left out: values, counters, the LFU
branch no configuration selects. Entries used in the same instant may leave in
any order.

**SingleFlight.** `queue` is the microtask queue, first in first out; a timer fires only
when it is empty. That order is kept because a correctness argument hangs on it:
between the write to the cache and the removal of the flight no caller may slip
in (`OneFillPerMiss`; the mutant that removes the flight first breaks it).
A fallback settles whenever it likes, or never, or throws at once. The rest of the
cache appears by what it can do to the key: `Forget` is an expiry, eviction or deletion
at any time; a get may answer null and a set may be ignored, which is what an open
breaker or a failing encryption looks like from here. `losses` counts these events, and
`OneFillPerMiss` allows for one more fill per loss. `OnModuleDestroy` takes every
flight off the record while its callers still wait for it.

**Webhooks.** The marks are handled by the actions of `CacheService` itself
(`Cache!Set`, `Cache!Exists`, `Cache!CleanupExpired`), under the cache's own assumption
(`MarksAssumption`). `Receive` looks the mark up,
`ProcessAutopost` / `ProcessWebhook` do the work and write the mark, so two deliveries
can be between the two. `Restart` empties the memory. `doneAt` and `forgotten` are
history variables. As an inbox (`Inbox`), what is answered is `pc` and what is known are
the events whose mark is in the cache: `Restart` is its `Crash`, and what expiry and
cleanup take, its `Forget`. A mark that is written may evict others, which is why
`Process` of the inbox may forget too.

**UnionbankClient.** `Request` uses the token or asks for one; `BankIssues`,
`RefreshToken`, `RefreshFails`, `BankActs`, `Succeeds`, `Fails` are the two requests
of a call. Nothing shares a refresh. `tokenInfo.expiresAt` is the client's view,
`lapsesAt` the bank's. The bank may act after the client has given up.

**Transfers.** A request is one call of `UnionbankClient`; `answer` is the HTTP status
its caller sees; `GivesUp` is the interceptor, which times the handler: it answers 408
once the time is up and nothing was answered (`Waiting`), whatever keeps the handler
from settling. `BankAssumption` is the client's own
assumption, so what is proved of the client carries over. `RetryOn` is a constant: the
answers after which the caller repeats a POST under the same key (`TransferAssumption`:
it repeats only what was answered). After a 408 the attempt that was given up goes on
next to its repetition. The caller is external.

**Deposits.** A document is its status and the set of optional fields that are set. A call
goes checked, written, answered (a lookup and a deletion answer earlier), with any other
call's steps in between; `Kinds`, a constant, is what calls may do: a lookup, a deletion,
any of the service's updates. What is read is answered through `toResponseDto`, which
leaves `failureReason` out; `markAsFailed` writes the same text as the message, which is
shown. Firestore's `update` merges the named
fields into the document of that moment and rejects if there is none. Any request may be
rejected, and a write may have been applied although its answer was lost. `up` is the
life of FirebaseService: no client without a complete configuration, then a client,
then none after `onModuleDestroy`, with calls still under way. TimeoutInterceptor is not
part of it: it discards the answer and changes nothing else. `create` hands Firestore a
`metadata` that may be undefined; whether the client refuses that is decided in a
library, so the creation is applied or refused.

**LocalStorage, LocalDeposits.** `data` is the memory, `file` what a later process can
read. `save` may fail and may leave the file unreadable (it is rewritten in place).
`saveTimeout` is "stale" when the timer was cleared but the field was not reset,
which is what `onModuleDestroy` does. `lapse` is a history variable: the last save
failed, or `clear()` came after it. The repository writes whole deposits back.

**UpayValidation, Upay.** A text is its length, the kinds of its characters, and whether
it is an address. Channel codes, names and payment methods are labels without case; the code
trims codes and methods but not names, so a name with blanks around it is another label.
`buildReferencesForValidation` and `createUpayTransactionRequest`
are the two places that build references. UnionBank may reconfigure the biller
between the requests (`Reconfigure`), and may create a transaction after the gateway has
stopped waiting for it (`BankActs`). `GivesUp` is the interceptor: the caller is answered
408 and the call goes on. `answer` is what the caller was told, `acted` what became of
the transaction. A GET is one request whose answer is passed on.


## 3. Runs

| run | instance | distinct states | question |
|---|---|---|---|
| `cache` | 3 keys, size 2, evict 1, threshold 2, timeout 2, ttl 0 or 1, clock to 3 | 28 thousand | size, eviction, expiry, breaker |
| `single_flight` | 3 callers, 2 losses (entry lost, get or set in vain), module destroyed | 40 thousand | one fill per miss, no lost wake-up, owner answered |
| `single_flight_hang` | the same | | **violation** of `EveryCallerIsAnswered` |
| `webhooks` | 2 autopost events and 1 webhook, 2 deliveries each, room for 2 marks, 1 restart, lifetime 1, clock to 4 | 1.2 million | implements `WebhookInbox`; recognition while the mark lives |
| `webhooks_documented` | the same | | **violation** of `RecognisedForSevenDays` |
| `unionbank_client` | 3 calls, timeout 1, buffer 2, lifetimes 3 and 4, clock to 5 | 475 thousand | live tokens, bounded calls |
| `transfers` | 1 key, 3 attempts, both timeouts 1, lifetime 4, clock to 6, repeats after 401, 502, 504, 408 | 166 thousand | when a repetition is carried out twice; what answers say is true; every caller is answered |
| `transfers_retried` | 2 keys, 2 attempts, clock to 4, the same repetitions | | **violation** of `OneTransferPerKey` |
| `deposits` | 2 deposits, 3 calls, symmetric; lookup, deletion, five updates; any request rejected, any answer lost | 383 thousand | implements `DepositStore`; answers show their own write |
| `local_deposits` | 2 deposits, 2 callers, symmetric; COMPLETED, markAsFailed, delete | 1.1 million | counts, saves, restarts |
| `upay` | 1 call, 6 lists of references, 6 of channels, bodies in four families | 384 thousand | what is posted is what was checked; 400 and 201 are true |
| `upay_documented` | the same | | **violation** of `AllReferencesMeetRules` |

Why these bounds reach the interesting cases:

- *cache*: one key more than there is room, so that eviction has a choice; two
  failures trip the breaker; the clock covers a whole refusal period and an
  entry's last instant and the one after. The proofs remove the bounds for all but the two liveness
  properties.
- *single_flight*: a flight and two callers that join it, so that both wake and record
  one flight over the other; a loss for the flight and one for its repetition. More
  callers and losses are left to the proof.
- *webhooks*: more events than room for marks, each delivered twice, and time for a mark
  to expire and be written again.
- *unionbank_client*: three calls let two refreshes overtake each other while a third
  call uses the token. The buffer is exactly twice the timeout (60 s and 30 s by
  default), the tightest case the assumption allows; the clock leaves room
  for a refresh after the first token has run out for the client.
- *transfers*: three attempts, so that two that are carried out can have another before,
  between or after them. Attempts overlap after a 408 and share one token. Timeout and
  interceptor are equal, as in the defaults, so 408 and 504 race. The clock leaves room
  for three attempts one after the other.
- *deposits*: one call that checks, one that deletes, one that writes; a second deposit
  that no call may disturb. The five updates set each optional field in every combination
  the code has but one (a completion with a message, which is a union of two that are
  there); the proofs take any set of updates.
- *local_deposits*: both saving modes (interval 0 and a timer), any number of calls one
  after the other.
- *upay*: calls share nothing, so one is enough; the references have a definition of every
  type, a limit, a hidden one and an index outside the five; the channels have a
  method whose name contains another's, off or absent; the numbers have every
  documented lead-in and some that only look like one.

`CHECK_DEADLOCK FALSE` is set where each call is made once or the clock stops at
`MaxTime`, which ends a behaviour. `MaxTime`, `MaxLosses`, `MaxDeliveries`, `MaxRestarts` and
`MaxAttempts` are the only bounds in guards.

Fairness:

- *cache*: time passes, and `setInterval` calls back while it is scheduled (`Tick`,
  `CleanupExpired`). No caller is obliged to do anything.
- *single_flight*: the engine runs queued jobs and due timers. Nothing obliges a
  fallback to settle; `OwnerIsAnswered` holds all the same.
- *unionbank_client*: time passes and the timers of requests fire. The bank owes no answer.
- *transfers*: time passes and a timer that is due fires, the request's or the
  interceptor's. The bank owes no answer and no caller owes a request;
  `EveryoneIsAnswered` says that again and again whoever has asked has an answer of the
  kind its handler gives, be it the 408.

The other specifications claim no liveness and state no fairness.


## 4. Where documents and code disagree

Four are shown by runs that must end in a counterexample:

1. `single_flight_hang`: "Set timeout to prevent hanging requests"
   (`cache.service.ts:277`). The timer is raced only by the caller that started the flight;
   one that joins (`cache.service.ts:113`) waits without a timer, and a fallback that
   never settles hangs all of them.
2. `webhooks_documented`: "deduplicated (Redis key, 7-day TTL)" (`docs/webhooks.md:60`).
   The marks are in the memory of one process and do not survive a restart.
   `RecognisedWhileMarkLives`, which allows for that, holds.
3. `transfers_retried`: "the existing transfer will be returned instead of creating a new
   one" (`docs/transfers.md:155`). Nothing looks the idempotency key up, so a POST
   repeated after a 504, 502 or 408 may be carried out twice. Repeating only
   after a 401 is safe (theorem `SafeRetries`), and whenever two transfers are carried
   out, the earlier one was repeated after another answer than that (`DuplicatesNeedDoubt`,
   which holds).
4. `upay_documented`: "ensures that the data meets the specific requirements of the chosen
   biller" (`docs/upay.md:297`, `:322`). Custom references are checked and then not
   posted. Bodies without them are fine (`ReferencesMeetRules`).

The others were met in the code while modelling; the model does what the code does, and no
run is spent on them:

5. `docs/unionbank-integration.md:401` and `:464-470`: the client "implements automatic
   retry for transient failures", three attempts after network errors, 5xx answers and
   timeouts. The code has none: `unionbank-api.client.ts` sends a request once and turns
   the failure into an exception. `EndsInTime` holds of that code and could not hold of the
   documented one, as three attempts of one timeout each exceed its bound; its mutant is
   a call that starts over with a fresh token after a 401.
6. `docs/upay.md:414-418`: "Validation is applied post-normalization", ten digits, first
   digit 9 or 8. `normalizeMobileNumber` tests that (`mobile-number.util.ts:94`) and returns
   the same text either way, so any other number is posted too. `NumberIsSubscribers` claims
   something of the four documented forms only.
7. `docs/infrastructure.md:186`: half-open "allows one test request". `isCircuitClosed`
   lets every call through until one ends the trial (`cache.service.ts:345`), and the abstract
   breaker does, too.
8. `docs/transfers.md:196`: 404 is "Transfer not found". `getTransferStatus` answers 404 to
   any exception (`transfers.service.ts:165`), a timeout or a refused token included; in the
   model a lookup that does not succeed ends in `notFound`, whatever became of the transfer,
   and no property reads anything into it.
9. `docs/transfers.md:206`: 409 for a duplicate idempotency key. Nothing looks the key up, so
   nothing answers it; it is the other side of 3.
10. `docs/webhooks.md:217`, `:275`: failed webhooks are retried three times, and a failure in
    processing is a 500. The handler of transfer webhooks catches the exception and answers
    200 (`webhooks.service.ts:113`), after which neither the gateway nor UnionBank has a
    reason to repeat anything; nothing in the gateway repeats an autopost either.


## 5. Proofs

All for every value of the constants that meets the named assumptions, with no
bound on keys, callers, deliveries, losses or time. Every invariant and every action
property of the passing runs is proved, and so are the three refinements
(`BreakerPromise`, `InboxPromise`, `StorePromise`). Some theorems have no run of their own: they
say more of a model than its run asks.

| theorem | says | rests on |
|---|---|---|
| `CacheServiceProofs!TypeCorrect`, `Capacity`, `LeastRecentlyUsed`, `ReadsSpareTheLive` | types, and no recorded instant ahead of the clock; never more than `MAX_ENTRIES`; eviction by last use; reads and cleanup spare live entries | `IInv`: types, capacity, and `UseRecorded` (the field that evict sorts by is the instant of the last use). Capacity is not enough for eviction, which needs the field to be true |
| `BreakerCoherence`, `BreakerRefinement` | closed exactly below the threshold; implements `CircuitBreaker`, in particular forgives no failure before a trial succeeds | `BreakerInv`, of breaker and clock alone |
| `SingleFlightProofs!FlightTypes`, `NobodyIsForgotten`, `RecordIsOpen` | types; a waiting caller has its wake-up on a list or in the queue; no finished flight stays on record | `Tokens`: a caller that has to be resumed has exactly one job in the queue or one place on one list. `RecordFits`: the flight on record is pending or threw at once |
| `AnswersHaveCauses`, `AnswersAreFinal` | an error is that of the caller's own flight, a null answers only an owner, a value was delivered by some fallback; an answer is final | `OwnCause`, and `Sourced`: before a fallback delivers, no value is in the cache, in the queue or answered |
| `CallersShareOneFill` | one fill per miss, and one more per loss | `Shared`: once every loss has been made up for, no miss stands in the queue behind the removal of the last flight. This is where the order of the microtask queue is used |
| `WebhooksProofs!ImplementsInbox` | refinement of `WebhookInbox` | each step is mapped by what it does to the marks: a write adds one and may evict others, a cleanup only takes away |
| `PromiseSuffices` | an inbox answers "duplicate" only to a delivery some other delivery of whose event was processed | `Originals`, an invariant of the abstract state alone: what is known was processed |
| `DuplicatesAreTrue`, `RecognisedUntilForgotten` | the same with the instant of processing; recognition while the mark lives | `Marks`: a mark belongs to a processed event, and a processed event has a mark with the right expiry, or is forgotten, or its time is over |
| `MarksFit`, `WebhookTypes` | marks never outgrow the cache; types | composition: every step is a step of the cache, leaves it alone, or is a restart, which starts the cache anew. `CacheServiceProofs` is instantiated for the marks and its `IInv` carried over |
| `UnionbankClientProofs!LiveTokens`, `CallsAreBounded`, `ClientTypes` | no lapsed token in use; two timeouts at most; types | `Clocks`: the client's view of the expiry is at most one timeout late, and a used token outlives its request. Assumes `2 * Timeout <= Buffer` and lifetimes above `2 * Timeout` |
| `TransfersProofs!AnswersCanBeTrusted` | a transfer answered 401 is never carried out, one answered 201 or found by a lookup was | `Ledger`: the bank acts only on calls that were sent, an answer fits the end of its call, nothing is answered before it was asked; a 401 ends a call before it is sent. `LookedUpWasCreated` |
| `OnlyDoubtDuplicates` | two transfers under one key only after an answer, other than 401, that the caller took for a reason to repeat | `Ledger` and `Past`: every attempt before one that was made was answered so that it is repeated |
| `SafeRetries` | one transfer per key for a caller that repeats only after 401 | a corollary. Assumes `Careful` |
| `AnswersAreInTime` | nobody waits longer than the interceptor allows, nor longer than the client's two timeouts | `Patience`, with `Clocks` of the client: each bound holds however the other is set |
| `RequestsKeepTheClientsPromise`, `TransferTypes` | no POST and no GET with a lapsed token, none under way for more than two timeouts; types | composition: every step is a step of the client or leaves it alone, so `Clocks` of `UnionbankClientProofs` carries over |
| `DepositsProofs!Implements`, `CompletionIsDated`, `NotFoundIsFinal`, `OwnWriteIsShown`, `DepositTypes` | refinement of `DepositStore`, and the four invariants; `OwnWriteIsShown` is about the answer as `toResponseDto` makes it | `Inv`: documents only under given ids, so that a deleted one cannot return; a written field stays written until the deposit is deleted, so the read after a write finds it, and `toResponseDto` keeps all but `failureReason` |
| `LocalDepositsProofs!CountsAreExact`, `SavesAreComing`, `RestartsRestore`, `Types` | counts, saves, restarts, types | `Inv`, whose core is `Settled`: with no timer pending and no lapse the file holds exactly the memory |
| `CompletionIsDated` | no COMPLETED deposit without its time, in memory or on disk | `DatedInv`, which adds the deposits that updates hold across their awaits and write back whole |
| `OrderlyUseImplements` | used in an orderly way, the stand-in implements `DepositStore` as the repository does | `OrderlyInv`, whose core is `Current`: what an update has read is still what is stored when it writes. `Orderly` is a condition on steps: no `clearAll`, no dropped collection, a process starts from what the last one had in memory, and updates of one deposit do not overlap |
| `UpayProofs!PostedMeetsRules`, `RefusalHasCause`, `ChannelIsLive`, `NumberIsNormalised`, `AnswersCanBeTrusted`, `UpayTypes` | the properties of `upay` | `Inv`, which carries the outcome of each check to the post and ties the answer to the outcome; lemmas `NoErrorsMeansMeets`, `SameReferences` (the two places agree), `ValidIsLive`, `TenDigitsRemain`, `RequestType` |
| `MethodRefusalHasCause` | a method is refused only if it has no live channel that is not masked by an earlier, dead one | `MethodChecked`, and `FirstExists`: the index that `find` returns exists when any matches |

The assumptions on constants (`CacheAssumption`, `FlightAssumption`, `WebhookAssumption`,
`MarksAssumption`, `ClientAssumption`, `BankAssumption`, `TransferAssumption`,
`DepositsAssumption`, `LocalStorageAssumption`, `LocalDepositsAssumption`, `UpayAssumption`)
are evaluated by TLC in every run of a module that has them. The assumption on the
client's timeouts is a real one: with a configured timeout above half the refresh
buffer, `TokenOutlivesRequest` is not claimed.

Only model-checked: liveness (`ExpiredAreRemoved`, `RefusalEnds`, `OwnerIsAnswered`,
`CallsEnd`, `EveryoneIsAnswered`), as the prover handles neither fairness nor ENABLED.

What a recursive definition or a fold computes cannot be proved by induction over data
with this prover. None of the modules that are proved about declares a recursive operator.


## 6. Not modelled

- Cryptography (cache encryption, signatures, the UPay redirect): functions of
  libraries on one argument; the cache models that they may throw.
- Auth: no state, credentials are a placeholder. Queue processors: bodies are TODO and
  nothing adds jobs. Redis and Prisma: not imported by `AppModule`.
- Firestore, UnionBank and the HTTP library are external and modelled from their use.
- Queries over several deposits or documents: they read and change nothing, and an
  answer is as old as its read.
- Logging, wording and the layout of answers, throughout.
- In `SingleFlight` the breaker appears by its effects only; in `Upay` a request ends with
  an answer or an exception, its tokens and timeouts being the subject of
  `UnionbankClient`.
- The local stand-in is no `DepositStore` in general: it writes whole deposits back, and
  so brings a deleted one back when an update was under way, which the Firestore
  repository does not. `OrderlyUseImplements` says for which tests on it the difference does
  not show.


## 7. Plan

All modules of the first plan are in place: cache, single flight, webhooks (composed with
the cache), bank client, transfers (composed with the client), deposits, local storage,
UPay. What is left, in order of use:

1. The disagreements 5 to 10 of section 4 as runs of their own, where the documents say
   enough to state a property: first 8 (a 404 for a transfer the bank carries out) and 7.
2. `Upay` over the bank's client, as `Transfers` is.
3. What a caller sees of `Deposits` when the Firestore client refuses `metadata: undefined`:
   decided in a library, so the model leaves both outcomes open.
