-------------------------------- MODULE Upay --------------------------------
(***************************************************************************)
(* UpayService: a transaction is created in up to three requests to        *)
(* UnionBank, with an await at each.  The biller's reference definitions   *)
(* are fetched and the references of the body checked against them; the    *)
(* biller's channels are fetched and the payment method checked, if one is *)
(* named; then the transaction is posted.  Nothing of what was fetched is  *)
(* kept for the next call, and UnionBank may reconfigure the biller at any *)
(* time.  The timeout interceptor answers 408 when its time is up, and     *)
(* leaves the call going.  The GET routes make one request and pass its    *)
(* answer on.                                                              *)
(*                                                                         *)
(* Each request goes through UnionbankApiClient and ends with an answer or *)
(* an exception; tokens and timeouts are the subject of UnionbankClient.   *)
(* UnionBank is external.                                                  *)
(***************************************************************************)
EXTENDS UpayValidation

CONSTANTS
    Calls,              \* calls of the handlers; each is made once
    Bodies,             \* the bodies of callers
    ReferenceLists,     \* the lists of references UnionBank may configure for the biller
    ChannelLists        \* the lists of channels it may configure

VARIABLES
    biller,             \* the biller's references and channels at UnionBank
    step,               \* how far each call is
    body,               \* the body a call was made with
    card,               \* whether it came in on the route for debit and credit cards
    references,         \* the references of the biller that the call has read
    channels,           \* the channels of the biller that the call has read
    request,            \* what the call posts to UnionBank
    acted,              \* UnionBank has created the transaction of the call
    answer              \* what the caller was answered, "none" before

vars == <<biller, step, body, card, references, channels, request, acted, answer>>

Label == STRING
Channel == [code : Label, name : Label, isEnabled : BOOLEAN, isAvailed : BOOLEAN]

Optional(S) == S \cup {Undefined}

\* CreateUpayTransactionDto.  extra is the array "references", as a function on its indices:
\* of two entries with one index the first counts.
IsBody(b) ==
    /\ b \in [firstName : Value, lastName : Value,
              accountNumber : Optional(Value), userRef : Optional(Value), extra : {b.extra},
              paymentMethod : Optional(UPAY_PAYMENT_METHODS),
              countryCode : Optional(STRING), mobileNumber : Optional(Seq(0..9))]
    /\ b.firstName # Empty /\ b.lastName # Empty
    /\ b.mobileNumber # Undefined => Len(b.mobileNumber) \in 10..13
    /\ b.extra \in [DOMAIN b.extra -> Value]
    /\ DOMAIN b.extra \subseteq Nat

NoExtra == [i \in {} |-> Empty]

\* CreateUpayDebitCreditCardTransactionDto: neither a payment method nor the array.
IsCardBody(b) == b.paymentMethod = Undefined /\ b.extra = NoExtra

ASSUME UpayAssumption ==
    /\ Undefined \notin Value \cup UPAY_PAYMENT_METHODS \cup Bodies
    /\ \A b \in Bodies : IsBody(b)
    /\ \A list \in ReferenceLists : list \subseteq Reference
    /\ ChannelLists \subseteq Seq(Channel)

OrEmpty(v) == IF v = Undefined THEN Empty ELSE v

\* Broken variant: the first name is not repeated.
buildReferencesForValidationOnce(b) ==
    LET fields == <<b.firstName, b.accountNumber, b.userRef, b.lastName>>
        given == {i \in 1..4 : fields[i] # Undefined}
    IN  [i \in given \cup DOMAIN b.extra |->
            IF i \in given THEN fields[i] ELSE b.extra[i]]

\* The references that are checked.  An entry of the array gives way to a field of the body.
buildReferencesForValidation(b) ==
    LET fields == <<b.firstName, b.accountNumber, b.userRef, b.lastName, b.firstName>>
        given == {i \in 1..5 : fields[i] # Undefined}
    IN  [i \in given \cup DOMAIN b.extra |->
            IF i \in given THEN fields[i] ELSE b.extra[i]]

\* Broken variants: what the body leaves out stays out; the account number and the user's
\* reference change places.
createUpayTransactionRequestUnfilled(b, method) ==
    [references |-> <<b.firstName, b.accountNumber, b.userRef, b.lastName, b.firstName>>,
     paymentMethod |-> IF method = Undefined THEN "paygate" ELSE method,
     mobileNumber |-> normalizeMobileNumber(b.mobileNumber, normalizeCountryCode(b.countryCode))]

createUpayTransactionRequestSwapped(b, method) ==
    [references |-> <<b.firstName, OrEmpty(b.userRef), OrEmpty(b.accountNumber),
                      b.lastName, b.firstName>>,
     paymentMethod |-> IF method = Undefined THEN "paygate" ELSE method,
     mobileNumber |-> normalizeMobileNumber(b.mobileNumber, normalizeCountryCode(b.countryCode))]

\* The transaction that is posted.  The country code and the array are not part of it.
createUpayTransactionRequest(b, method) ==
    [references |-> <<b.firstName, OrEmpty(b.accountNumber), OrEmpty(b.userRef),
                      b.lastName, b.firstName>>,
     paymentMethod |-> IF method = Undefined THEN "paygate" ELSE method,
     mobileNumber |-> normalizeMobileNumber(b.mobileNumber, normalizeCountryCode(b.countryCode))]

Init ==
    /\ biller \in [references : ReferenceLists, channels : ChannelLists]
    /\ step = [c \in Calls |-> "idle"]
    /\ body = [c \in Calls |-> Undefined]
    /\ card = [c \in Calls |-> FALSE]
    /\ references = [c \in Calls |-> {}]
    /\ channels = [c \in Calls |-> <<>>]
    /\ request = [c \in Calls |-> Undefined]
    /\ acted = [c \in Calls |-> FALSE]
    /\ answer = [c \in Calls |-> "none"]

\* What the caller is answered when its call comes to this step: 200, 201, 400, one of the
\* statuses of the client's exceptions, or nothing yet.
Outcome(s) ==
    CASE s = "passedOn" -> "ok"
      [] s = "created" -> "created"
      [] s \in {"badReferences", "badMethod"} -> "refused"
      [] s \in {"failed", "unanswered"} -> "error"
      [] OTHER -> "none"

\* A call moves on.  If that ends it, the caller is answered, unless it was given up.
MovesOn(c, s) ==
    /\ step' = [step EXCEPT ![c] = s]
    /\ answer' = [answer EXCEPT ![c] = IF @ = "none" THEN Outcome(s) ELSE @]

\* The payment method that the call has checked: the one the body names, or the cards'.
Method(c) == IF card[c] THEN "debit/credit" ELSE body[c].paymentMethod

Create(c, b, isCard) ==
    /\ step[c] = "idle"
    /\ isCard => IsCardBody(b)
    /\ MovesOn(c, "references")
    /\ body' = [body EXCEPT ![c] = b]
    /\ card' = [card EXCEPT ![c] = isCard]
    /\ UNCHANGED <<biller, references, channels, request, acted>>

\* One of the GET routes: the status of a transaction or of a biller, a biller's details or
\* references, the privacy policy, the two lists of banks.
Get(c) ==
    /\ step[c] = "idle"
    /\ MovesOn(c, "get")
    /\ UNCHANGED <<biller, body, card, references, channels, request, acted>>

PassOn(c) ==
    /\ step[c] = "get"
    /\ MovesOn(c, "passedOn")
    /\ UNCHANGED <<biller, body, card, references, channels, request, acted>>

Post(c) ==
    /\ MovesOn(c, "posted")
    /\ request' = [request EXCEPT ![c] = createUpayTransactionRequest(body[c], Method(c))]

Refuse(c, why) ==
    /\ MovesOn(c, why)
    /\ UNCHANGED request

\* The definitions are fetched and the references checked against them.
ReadReferences(c) ==
    /\ step[c] = "references"
    /\ references' = [references EXCEPT ![c] = biller.references]
    /\ LET checked == buildReferencesForValidation(body[c]) IN
       IF validateReferences(biller.references, checked) # {} THEN Refuse(c, "badReferences")
       ELSE IF Method(c) = Undefined THEN Post(c)
       ELSE MovesOn(c, "channels") /\ UNCHANGED request
    /\ UNCHANGED <<biller, body, card, channels, acted>>

\* The channels are fetched and the payment method checked against them.
ReadChannels(c) ==
    /\ step[c] = "channels"
    /\ channels' = [channels EXCEPT ![c] = biller.channels]
    /\ IF validatePaymentMethod(biller.channels, Method(c)) = "valid" THEN Post(c)
       ELSE Refuse(c, "badMethod")
    /\ UNCHANGED <<biller, body, card, references, acted>>

\* UnionBank creates the transaction, perhaps after the gateway stopped waiting for it.
BankActs(c) ==
    /\ step[c] \in {"posted", "unanswered"}
    /\ ~acted[c]
    /\ acted' = [acted EXCEPT ![c] = TRUE]
    /\ UNCHANGED <<biller, step, body, card, references, channels, request, answer>>

\* Its answer to the transaction.
Answered(c) ==
    /\ step[c] = "posted"
    /\ acted[c]
    /\ MovesOn(c, "created")
    /\ UNCHANGED <<biller, body, card, references, channels, request, acted>>

\* A request to UnionBank ends with an exception, which ends the call; after the transaction
\* was posted the caller cannot tell whether it was created.
Fail(c) ==
    /\ \/ step[c] \in {"get", "references", "channels"} /\ MovesOn(c, "failed")
       \/ step[c] = "posted" /\ MovesOn(c, "unanswered")
    /\ UNCHANGED <<biller, body, card, references, channels, request, acted>>

UnderWay(c) == step[c] \in {"get", "references", "channels", "posted"}

\* Broken variant: giving up is answered 400.
GivesUpAsRefusal(c) ==
    /\ UnderWay(c)
    /\ answer[c] = "none"
    /\ answer' = [answer EXCEPT ![c] = "refused"]
    /\ UNCHANGED <<biller, step, body, card, references, channels, request, acted>>

\* TimeoutInterceptor, at any time before the call ends: the caller is answered 408, and the
\* call makes the requests it has left.
GivesUp(c) ==
    /\ UnderWay(c)
    /\ answer[c] = "none"
    /\ answer' = [answer EXCEPT ![c] = "gaveUp"]
    /\ UNCHANGED <<biller, step, body, card, references, channels, request, acted>>

\* UnionBank reconfigures the biller.
Reconfigure ==
    /\ \/ \E list \in ReferenceLists : biller' = [biller EXCEPT !.references = list]
       \/ \E list \in ChannelLists : biller' = [biller EXCEPT !.channels = list]
    /\ UNCHANGED <<step, body, card, references, channels, request, acted, answer>>

Next ==
    \/ \E c \in Calls :
        \/ \E b \in Bodies, isCard \in BOOLEAN : Create(c, b, isCard)
        \/ ReadReferences(c) \/ ReadChannels(c) \/ BankActs(c) \/ Answered(c)
        \/ Get(c) \/ PassOn(c)
        \/ Fail(c) \/ GivesUp(c)
    \/ Reconfigure

Spec == Init /\ [][Next]_vars
-----------------------------------------------------------------------------
(* Properties                                                              *)

Steps == {"idle", "get", "passedOn", "references", "channels", "posted", "created",
          "badReferences", "badMethod", "failed", "unanswered"}

Request ==
    [references : Value \X Value \X Value \X Value \X Value,
     paymentMethod : UPAY_PAYMENT_METHODS,
     mobileNumber : Optional(Seq(0..9))]

Sent(c) == step[c] \in {"posted", "created", "unanswered"}

\* Types, the only sanity invariant: among others, what is posted has a text at each of
\* the five indices and a payment method of the list, whatever the body left out.
TypeOK ==
    /\ biller \in [references : ReferenceLists, channels : ChannelLists]
    /\ step \in [Calls -> Steps]
    /\ card \in [Calls -> BOOLEAN]
    /\ \A c \in Calls :
        /\ body[c] \in Optional(Bodies)
        /\ step[c] \in {"references", "channels"} => body[c] # Undefined
        /\ references[c] \in ReferenceLists \cup {{}}
        /\ channels[c] \in ChannelLists \cup {<<>>}
        /\ IF Sent(c) THEN body[c] # Undefined /\ request[c] \in Request
                      ELSE request[c] = Undefined
    /\ acted \in [Calls -> BOOLEAN]
    /\ answer \in [Calls -> {"none", "ok", "created", "refused", "error", "gaveUp"}]

\* A text is what a biller's definition asks for, as docs/upay.md:304 to :308 lists it.
Meets(ref, v) ==
    /\ ref.required => ~isEmpty(v)
    /\ isEmpty(v) \/ /\ v.size >= ref.min
                     /\ ref.max # 0 => v.size <= ref.max
                     /\ FitsType(ref.type, v)
                     /\ FitsPattern(ref.pattern, v)

\* Definitions that are hidden and optional are not enforced (validateSingleReference).
Enforced(refs) == {ref \in refs : ref.visible \/ ref.required}

MeetsAll(posted, refs) ==
    \A ref \in Enforced(refs) : Meets(ref, ValueAt(posted.references, ref.index))

\* What createTransaction posts meets every definition the call has read, if the body has
\* no array of its own: the references that are checked (upay.service.ts:302) and those
\* that are posted (upay-transaction.request.dto.ts:81) are built in two places, from
\* different forms of the body, and must come to the same at every index.
ReferencesMeetRules ==
    \A c \in Calls :
        Sent(c) /\ body[c].extra = NoExtra => MeetsAll(request[c], references[c])

\* The same for every body, as docs/upay.md:297 has it.  Not true of the code.
AllReferencesMeetRules ==
    \A c \in Calls : Sent(c) => MeetsAll(request[c], references[c])

\* A body without an array is refused only if what would have been posted breaks a rule:
\* the two places agree in the other direction as well.
RefusedForCause ==
    \A c \in Calls :
        step[c] = "badReferences" /\ body[c].extra = NoExtra =>
            ~MeetsAll(createUpayTransactionRequest(body[c], Method(c)), references[c])

IsLive(channel) == channel.isEnabled /\ channel.isAvailed

\* A transaction that names a payment method, or comes in on the route for cards, goes out
\* with that method and only after the call has seen a channel for it that is enabled and
\* availed; a channel that merely has a similar name counts only if the biller has none
\* under the method's own codes (findMatchingChannel).
ChannelWasLive ==
    \A c \in Calls :
        Sent(c) /\ Method(c) # Undefined =>
            /\ request[c].paymentMethod = Method(c)
            /\ \E i \in DOMAIN channels[c] :
                /\ IsLive(channels[c][i])
                /\ \/ IsOwn(channels[c][i], Method(c))
                   \/ /\ \A j \in DOMAIN channels[c] : ~IsOwn(channels[c][j], Method(c))
                      /\ IsAlike(channels[c][i], Method(c))

\* A caller can rely on the two answers that are definite: after a 400 there is no transaction
\* and never will be, so that it may correct the body and try again, and after a 201 there
\* is one; whatever the interceptor, the call and UnionBank do in which order.
AnswersAreTrue ==
    \A c \in Calls :
        /\ answer[c] = "refused" => ~acted[c]
        /\ answer[c] = "created" => acted[c]

\* What a Philippine number may have before its ten digits.
LeadIns == {<<>>, <<0>>, <<6, 3>>, <<6, 3, 0>>}

\* A Philippine subscriber's number is posted as its ten digits in whichever of the forms
\* of docs/upay.md:408 to :411 the body has it.
NumberIsSubscribers ==
    \A c \in Calls :
        Sent(c) /\ body[c].mobileNumber # Undefined =>
            LET number == body[c].mobileNumber
                ten == SubSeq(number, Len(number) - 9, Len(number))
                before == SubSeq(number, 1, Len(number) - 10)
            IN  /\ normalizeCountryCode(body[c].countryCode) = DEFAULT_COUNTRY_CODE
                /\ before \in LeadIns
                /\ ten[1] \in VALID_PH_MOBILE_PREFIXES
                => request[c].mobileNumber = ten
=============================================================================
