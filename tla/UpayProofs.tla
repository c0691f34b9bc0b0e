----------------------------- MODULE UpayProofs -----------------------------
(***************************************************************************)
(* What UpayService posts is what it checked, for any definitions, any     *)
(* channels and any bodies.  The argument has two halves: the two places   *)
(* that build references agree at every index (SameReferences), and the    *)
(* list of errors is empty exactly when the rules are met                  *)
(* (NoErrorsMeansMeets); the invariant Inv carries the outcome of each     *)
(* check from the step that makes it to the request that is posted.        *)
(***************************************************************************)
EXTENDS Upay, SequenceTheorems, FiniteSetTheorems, TLAPS

-----------------------------------------------------------------------------
(* The pure checks *)

\* A definition reports no error exactly if it is not enforced or the text meets it.
LEMMA NoErrorsMeansMeets ==
    ASSUME NEW ref \in Reference, NEW v \in Value
    PROVE  validateSingleReference(ref, v) = {}
             <=> (ref.visible \/ ref.required => Meets(ref, v))
<1>1. /\ ref.min \in Nat /\ ref.max \in Nat /\ v.size \in Nat
      /\ ref.visible \in BOOLEAN /\ ref.required \in BOOLEAN
  BY DEF Reference, Value
<1>2. TextErrors(ref, v) = {}
        <=> /\ v.size >= ref.min
            /\ ref.max # 0 => v.size <= ref.max
            /\ FitsType(ref.type, v)
            /\ FitsPattern(ref.pattern, v)
  <2>1. TextErrors(ref, v) = {} <=>
          /\ ~(ref.min > 0 /\ v.size < ref.min)
          /\ ~(ref.max > 0 /\ v.size > ref.max)
          /\ FitsType(ref.type, v)
          /\ FitsPattern(ref.pattern, v)
    BY DEF TextErrors
  <2> QED
    BY <1>1, <2>1
<1>3. CASE ~ref.visible /\ ~ref.required
  BY <1>3 DEF validateSingleReference
<1>4. CASE (ref.visible \/ ref.required) /\ ~isEmpty(v)
  BY <1>2, <1>4 DEF validateSingleReference, Meets
<1>5. CASE (ref.visible \/ ref.required) /\ isEmpty(v)
  BY <1>1, <1>5 DEF validateSingleReference, Meets
<1> QED
  BY <1>3, <1>4, <1>5

\* Without an array in the body, the references that are checked and those that are posted
\* have the same text at every index, and it is a text.
LEMMA SameReferences ==
    ASSUME NEW b, IsBody(b), b.extra = NoExtra, NEW method, NEW i
    PROVE  /\ ValueAt(buildReferencesForValidation(b), i)
                = ValueAt(createUpayTransactionRequest(b, method).references, i)
           /\ ValueAt(createUpayTransactionRequest(b, method).references, i) \in Value
<1> DEFINE checked == buildReferencesForValidation(b)
           posted == createUpayTransactionRequest(b, method).references
<1>1. /\ b.firstName \in Value /\ b.lastName \in Value
      /\ b.accountNumber \in Value \cup {Undefined} /\ b.userRef \in Value \cup {Undefined}
  BY DEF IsBody, Optional
<1>2. Empty \in Value /\ Undefined \notin Value
  BY UpayAssumption DEF Empty, Value
<1>3. DOMAIN b.extra = {}
  BY DEF NoExtra
<1>4. /\ DOMAIN posted = 1..5
      /\ posted[1] = b.firstName /\ posted[5] = b.firstName /\ posted[4] = b.lastName
      /\ posted[2] = OrEmpty(b.accountNumber) /\ posted[3] = OrEmpty(b.userRef)
  BY DEF createUpayTransactionRequest
<1> DEFINE fields == <<b.firstName, b.accountNumber, b.userRef, b.lastName, b.firstName>>
           given == {j \in 1..5 : fields[j] # Undefined}
<1>5. checked = [j \in given |-> fields[j]]
  BY <1>3 DEF buildReferencesForValidation
<1>6. /\ fields[1] = b.firstName /\ fields[5] = b.firstName /\ fields[4] = b.lastName
      /\ fields[2] = b.accountNumber /\ fields[3] = b.userRef
  OBVIOUS
<1> HIDE DEF checked, posted, fields
<1>7. CASE i \in 1..5
  <2>1. posted[i] = OrEmpty(fields[i])
    BY <1>1, <1>2, <1>4, <1>6, <1>7 DEF OrEmpty
  <2>2. fields[i] \in Value \cup {Undefined}
    BY <1>1, <1>6, <1>7
  <2> QED
    BY <1>2, <1>4, <1>5, <1>7, <2>1, <2>2 DEF ValueAt, OrEmpty, checked, posted
<1>8. CASE i \notin 1..5
  BY <1>2, <1>4, <1>5, <1>8 DEF ValueAt, checked, posted
<1> QED
  BY <1>7, <1>8

\* Together: the check passes exactly if what will be posted meets every enforced rule.
LEMMA CheckIsExact ==
    ASSUME NEW b, IsBody(b), b.extra = NoExtra, NEW method, NEW refs \in SUBSET Reference
    PROVE  validateReferences(refs, buildReferencesForValidation(b)) = {}
             <=> MeetsAll(createUpayTransactionRequest(b, method), refs)
<1> DEFINE text(i) == ValueAt(createUpayTransactionRequest(b, method).references, i)
<1>1. ASSUME NEW ref \in refs
      PROVE  validateSingleReference(ref, ValueAt(buildReferencesForValidation(b), ref.index)) = {}
               <=> (ref.visible \/ ref.required => Meets(ref, text(ref.index)))
  <2>1. /\ ValueAt(buildReferencesForValidation(b), ref.index) = text(ref.index)
        /\ text(ref.index) \in Value
    BY SameReferences
  <2> HIDE DEF text
  <2> QED
    BY <2>1, NoErrorsMeansMeets
<1> QED
  BY <1>1 DEF validateReferences, MeetsAll, Enforced

\* A method is valid only if a channel that is enabled and availed was found for it.
LEMMA ValidIsLive ==
    ASSUME NEW offer, NEW method, validatePaymentMethod(offer, method) = "valid"
    PROVE  \E i \in DOMAIN offer :
              /\ IsLive(offer[i])
              /\ \/ IsOwn(offer[i], method)
                 \/ /\ \A j \in DOMAIN offer : ~IsOwn(offer[j], method)
                    /\ IsAlike(offer[i], method)
<1> DEFINE own   == {i \in DOMAIN offer : IsOwn(offer[i], method)}
           alike == {i \in DOMAIN offer : IsAlike(offer[i], method)}
           found == First(IF own # {} THEN own ELSE alike)
<1>1. /\ findMatchingChannel(offer, method) # {}
      /\ \A ch \in findMatchingChannel(offer, method) : ch.isEnabled /\ ch.isAvailed
  BY DEF validatePaymentMethod
<1>2. findMatchingChannel(offer, method) = {offer[i] : i \in found}
  BY DEF findMatchingChannel
<1>3. PICK i \in found : IsLive(offer[i])
  BY <1>1, <1>2 DEF IsLive
<1>4. i \in (IF own # {} THEN own ELSE alike)
  BY <1>3 DEF First
<1> QED
  BY <1>3, <1>4

\* In each of the four forms of a Philippine subscriber's number, taking away the country
\* code and then the leading zero leaves its ten digits: the country code is gone before
\* the length is compared with 11, and the digits themselves start with 8 or 9, so that
\* neither removal touches them.
LEMMA TenDigitsRemain ==
    ASSUME NEW number \in Seq(0..9), Len(number) \in 10..13,
           SubSeq(number, 1, Len(number) - 10) \in LeadIns,
           SubSeq(number, Len(number) - 9, Len(number))[1] \in VALID_PH_MOBILE_PREFIXES
    PROVE  WithoutZero(WithoutCountry(number))
             = SubSeq(number, Len(number) - 9, Len(number))
<1> DEFINE before == SubSeq(number, 1, Len(number) - 10)
           ten == SubSeq(number, Len(number) - 9, Len(number))
<1>0. PICK n \in 10..13 : n = Len(number)
  OBVIOUS
<1>a. \A i \in 1..n : number[i] \in 0..9
  BY <1>0, ElementOfSeq
<1>b. \A m \in 1..n : /\ Len(SubSeq(number, m, n)) = n - m + 1
                      /\ SubSeq(number, m, n) \in Seq(0..9)
                      /\ SubSeq(number, m, n)[1] = number[m]
                      /\ m < n => Tail(SubSeq(number, m, n)) = SubSeq(number, m + 1, n)
  <2>1. SUFFICES ASSUME NEW m \in 1..n
                 PROVE  /\ Len(SubSeq(number, m, n)) = n - m + 1
                        /\ SubSeq(number, m, n) \in Seq(0..9)
                        /\ SubSeq(number, m, n)[1] = number[m]
                        /\ m < n => Tail(SubSeq(number, m, n)) = SubSeq(number, m + 1, n)
    OBVIOUS
  <2>2. \A i \in m..n : number[i] \in 0..9
    BY <1>a
  <2>3. /\ SubSeq(number, m, n) \in Seq(0..9)
        /\ Len(SubSeq(number, m, n)) = IF m <= n THEN n - m + 1 ELSE 0
        /\ \A i \in 1 .. n - m + 1 : SubSeq(number, m, n)[i] = number[m + i - 1]
    BY <2>2, SubSeqProperties
  <2>4. m < n => Tail(SubSeq(number, m, n)) = SubSeq(number, m + 1, n)
    BY <1>0, HeadTailOfSubSeq
  <2>5. m \in Int /\ n \in Int /\ m <= n /\ 1 \in 1 .. n - m + 1 /\ m + 1 - 1 = m
    BY <1>0
  <2>6. Len(SubSeq(number, m, n)) = n - m + 1
    BY <2>3, <2>5
  <2>7. SubSeq(number, m, n)[1] = number[m]
    BY <2>3, <2>5
  <2> QED BY <2>3, <2>4, <2>6, <2>7, Zenon
<1>c. /\ Len(before) = n - 10
      /\ \A i \in 1..(n - 10) : before[i] = number[i]
  <2>1. \A i \in 1..(n - 10) : number[i] \in 0..9
    BY <1>a
  <2>3. /\ Len(SubSeq(number, 1, n - 10)) = IF 1 <= n - 10 THEN n - 10 - 1 + 1 ELSE 0
        /\ \A i \in 1 .. n - 10 - 1 + 1 : SubSeq(number, 1, n - 10)[i] = number[1 + i - 1]
    BY <2>1, SubSeqProperties
  <2> QED BY <1>0, <2>3
<1>d. number[n - 9] \in {8, 9}
  BY <1>0, <1>b DEF VALID_PH_MOBILE_PREFIXES
<1>e. SubSeq(number, 1, n) = number
  BY <1>0, SubSeqFull
<1>f. Len(<<6,3>>) = 2 /\ <<6,3>>[1] = 6 /\ <<6,3>>[2] = 3 /\ Len(<<0>>) = 1 /\ <<0>>[1] = 0
  OBVIOUS
<1> HIDE DEF before
<1>4. CASE before = <<>>
  <2>1. n = 10
    BY <1>c, <1>4
  <2>2. WithoutCountry(number) = number
    BY <1>0, <2>1 DEF WithoutCountry
  <2>3. WithoutZero(number) = number
    BY <1>0, <2>1 DEF WithoutZero
  <2> QED BY <1>0, <1>e, <2>1, <2>2, <2>3
<1>5. CASE before = <<0>>
  <2>1. n = 11 /\ number[1] = 0
    BY <1>c, <1>5
  <2>2. WithoutCountry(number) = number
    BY <1>0, <1>f, <2>1 DEF WithoutCountry, StartsWith
  <2>3. WithoutZero(number) = Tail(number)
    BY <1>0, <1>f, <2>1 DEF WithoutZero, StartsWith
  <2>4. Tail(SubSeq(number, 1, n)) = SubSeq(number, 1 + 1, n)
    BY <1>b, <2>1
  <2>5. ten = SubSeq(number, 1 + 1, n)
    BY <1>0, <2>1
  <2> QED BY <1>e, <2>2, <2>3, <2>4, <2>5, Zenon
<1>6. CASE before = <<6, 3>>
  <2>1. n = 12 /\ number[1] = 6 /\ number[2] = 3
    BY <1>c, <1>6
  <2>2. WithoutCountry(number) = SubSeq(number, 3, n)
    BY <1>0, <1>f, <2>1 DEF WithoutCountry, StartsWith
  <2>3. Len(SubSeq(number, 3, n)) = 10
    BY <1>b, <2>1
  <2>4. WithoutZero(SubSeq(number, 3, n)) = SubSeq(number, 3, n)
    BY <2>3 DEF WithoutZero
  <2>5. ten = SubSeq(number, 3, n)
    BY <1>0, <2>1
  <2> QED BY <2>2, <2>4, <2>5
<1>7. CASE before = <<6, 3, 0>>
  <2>1. n = 13 /\ number[1] = 6 /\ number[2] = 3 /\ number[3] = 0
    BY <1>c, <1>7
  <2>2. WithoutCountry(number) = SubSeq(number, 3, n)
    BY <1>0, <1>f, <2>1 DEF WithoutCountry, StartsWith
  <2>3. Len(SubSeq(number, 3, n)) = 11 /\ SubSeq(number, 3, n)[1] = 0
    BY <1>b, <2>1
  <2>4. WithoutZero(SubSeq(number, 3, n)) = Tail(SubSeq(number, 3, n))
    BY <1>f, <2>3 DEF WithoutZero, StartsWith
  <2>5. Tail(SubSeq(number, 3, n)) = SubSeq(number, 3 + 1, n)
    BY <1>b, <2>1
  <2>6. ten = SubSeq(number, 3 + 1, n)
    BY <1>0, <2>1
  <2> QED BY <2>2, <2>4, <2>5, <2>6
<1> QED
  BY <1>4, <1>5, <1>6, <1>7 DEF before, LeadIns

-----------------------------------------------------------------------------
(* The invariant *)

\* The variables of the calls, as far as the argument needs them.
Calling ==
    /\ step \in [Calls -> Steps]
    /\ card \in [Calls -> BOOLEAN]
    /\ body \in [Calls -> Optional(Bodies)]
    /\ references \in [Calls -> SUBSET Reference]
    /\ DOMAIN channels = Calls
    /\ DOMAIN request = Calls
    /\ acted \in [Calls -> BOOLEAN]
    /\ DOMAIN answer = Calls
    /\ biller \in [references : ReferenceLists, channels : ChannelLists]
    /\ \A c \in Calls :
        step[c] \notin {"idle", "get", "passedOn", "failed"} => body[c] \in Bodies

ChecksPass(c) == validateReferences(references[c], buildReferencesForValidation(body[c])) = {}

\* A call gets past the references only if they were found without error.
PastReferences ==
    \A c \in Calls :
        /\ step[c] = "channels" \/ Sent(c) => ChecksPass(c)
        /\ step[c] = "badReferences" => ~ChecksPass(c)

\* What is posted is made of the body and the method that were checked.
PostedAsChecked ==
    \A c \in Calls :
        Sent(c) =>
            /\ request[c] = createUpayTransactionRequest(body[c], Method(c))
            /\ Method(c) # Undefined => validatePaymentMethod(channels[c], Method(c)) = "valid"

\* A 400 is given only by a call that was refused, and only what was sent is acted upon.
AnsweredByOutcome ==
    \A c \in Calls :
        /\ answer[c] = "refused" => step[c] \in {"badReferences", "badMethod"}
        /\ answer[c] = "created" => step[c] = "created"
        /\ step[c] = "created" => acted[c]
        /\ acted[c] => Sent(c)

Inv == Calling /\ PastReferences /\ PostedAsChecked /\ AnsweredByOutcome

LEMMA InvInit ==
    Init => Inv
<1> SUFFICES ASSUME Init PROVE Inv
  OBVIOUS
<1>1. Calling
  BY DEF Init, Calling, Steps, Optional
<1> QED
  BY <1>1 DEF Init, Inv, PastReferences, PostedAsChecked, AnsweredByOutcome, Sent

\* The parts of the invariant that are about one call.
CallInv(c) ==
    /\ step[c] = "channels" \/ Sent(c) => ChecksPass(c)
    /\ step[c] = "badReferences" => ~ChecksPass(c)
    /\ Sent(c) =>
        /\ request[c] = createUpayTransactionRequest(body[c], Method(c))
        /\ Method(c) # Undefined => validatePaymentMethod(channels[c], Method(c)) = "valid"

\* The same for what the caller was answered.
AnswerInv(c) ==
    /\ answer[c] = "refused" => step[c] \in {"badReferences", "badMethod"}
    /\ answer[c] = "created" => step[c] = "created"
    /\ step[c] = "created" => acted[c]
    /\ acted[c] => Sent(c)

\* A call that a step leaves alone keeps its part.
LEMMA OtherCalls ==
    ASSUME Inv, NEW c \in Calls,
           step'[c] = step[c], body'[c] = body[c], card'[c] = card[c],
           references'[c] = references[c], channels'[c] = channels[c],
           request'[c] = request[c]
    PROVE  CallInv(c)'
<1>1. CallInv(c)
  BY DEF Inv, PastReferences, PostedAsChecked, CallInv
<1>2. /\ Sent(c)' = Sent(c) /\ ChecksPass(c)' = ChecksPass(c) /\ Method(c)' = Method(c)
  BY DEF Sent, ChecksPass, Method
<1> QED
  BY <1>1, <1>2 DEF CallInv

\* The invariant is one part about the variables and one about each call.
LEMMA InvByCalls ==
    Inv <=> Calling /\ \A c \in Calls : CallInv(c) /\ AnswerInv(c)
BY DEF Inv, PastReferences, PostedAsChecked, AnsweredByOutcome, CallInv, AnswerInv

\* When a call moves on, it is answered by what it comes to.
LEMMA AnswerStep ==
    ASSUME Calling, \A c \in Calls : AnswerInv(c), NEW c \in Calls, NEW s, MovesOn(c, s),
           acted' = acted,
           step[c] \in {"idle", "get", "references", "channels", "posted"},
           s = "created" => acted[c],
           Sent(c) => s \in {"created", "unanswered"}
    PROVE  \A d \in Calls : AnswerInv(d)'
<1>1. /\ step'[c] = s
      /\ answer'[c] = IF answer[c] = "none" THEN Outcome(s) ELSE answer[c]
      /\ \A d \in Calls \ {c} : step'[d] = step[d] /\ answer'[d] = answer[d]
  BY DEF MovesOn, Calling
<1>2. ASSUME NEW d \in Calls, d # c PROVE AnswerInv(d)'
  BY <1>1, <1>2 DEF AnswerInv, Sent
<1>3. /\ Outcome(s) = "refused" => s \in {"badReferences", "badMethod"}
      /\ Outcome(s) = "created" => s = "created"
  BY DEF Outcome
<1>4. answer[c] \notin {"refused", "created"}
  BY DEF AnswerInv
<1>5. acted[c] => s \in {"created", "unanswered"}
  BY DEF AnswerInv
<1>6. AnswerInv(c)'
  BY <1>1, <1>3, <1>4, <1>5 DEF AnswerInv, Sent
<1> QED
  BY <1>2, <1>6

LEMMA InvStep ==
    Inv /\ [Next]_vars => Inv'
<1> SUFFICES ASSUME Inv, [Next]_vars
             PROVE  /\ Calling' /\ \A c \in Calls : CallInv(c)'
                    /\ \A c \in Calls : AnswerInv(c)'
  BY DEF Inv, PastReferences, PostedAsChecked, AnsweredByOutcome, CallInv, AnswerInv
<1>a. \A c \in Calls : AnswerInv(c)'
  <2>1. Calling /\ \A c \in Calls : AnswerInv(c)
    BY InvByCalls
  <2>2. ASSUME NEW c \in Calls, Get(c) \/ PassOn(c)
        PROVE  \A d \in Calls : AnswerInv(d)'
    BY <2>1, <2>2, AnswerStep DEF Get, PassOn, Sent
  <2>3. ASSUME NEW c \in Calls, NEW b \in Bodies, NEW isCard \in BOOLEAN, Create(c, b, isCard)
        PROVE  \A d \in Calls : AnswerInv(d)'
    BY <2>1, <2>3, AnswerStep DEF Create, Sent
  <2>4. ASSUME NEW c \in Calls, ReadReferences(c) \/ ReadChannels(c)
        PROVE  \A d \in Calls : AnswerInv(d)'
    <3>1. PICK s \in {"posted", "channels", "badReferences", "badMethod"} : MovesOn(c, s)
      BY <2>4 DEF ReadReferences, ReadChannels, Post, Refuse
    <3> QED
      BY <2>1, <2>4, <3>1, AnswerStep DEF ReadReferences, ReadChannels, Sent
  <2>5. ASSUME NEW c \in Calls, Answered(c) \/ Fail(c)
        PROVE  \A d \in Calls : AnswerInv(d)'
    <3>1. CASE Answered(c)
      BY <2>1, <3>1, AnswerStep DEF Answered
    <3>2. CASE Fail(c)
      BY <2>1, <3>2, AnswerStep DEF Fail, Sent
    <3> QED
      BY <2>5, <3>1, <3>2
  <2>6. ASSUME NEW c \in Calls, BankActs(c)
        PROVE  \A d \in Calls : AnswerInv(d)'
    BY <2>1, <2>6 DEF BankActs, AnswerInv, Sent, Calling
  <2>7. ASSUME NEW c \in Calls, GivesUp(c)
        PROVE  \A d \in Calls : AnswerInv(d)'
    BY <2>1, <2>7 DEF GivesUp, AnswerInv, Sent, Calling
  <2>8. CASE Reconfigure \/ UNCHANGED vars
    BY <2>1, <2>8 DEF Reconfigure, vars, AnswerInv, Sent
  <2> QED
    BY <2>2, <2>3, <2>4, <2>5, <2>6, <2>7, <2>8 DEF Next
<1> SUFFICES Calling' /\ \A c \in Calls : CallInv(c)'
  BY <1>a
<1> USE DEF MovesOn, Post, Refuse
<1>0. /\ Calling
      /\ \A list \in ReferenceLists : list \in SUBSET Reference
      /\ Undefined \notin Bodies
  BY UpayAssumption DEF Inv
<1>1. ASSUME NEW c \in Calls, NEW b \in Bodies, NEW isCard \in BOOLEAN, Create(c, b, isCard)
      PROVE  Calling' /\ \A d \in Calls : CallInv(d)'
  <2>1. Calling'
    BY <1>0, <1>1 DEF Create, Calling, Steps, Optional
  <2>2. CallInv(c)'
    BY <1>0, <1>1 DEF Create, Calling, CallInv, Sent
  <2>3. ASSUME NEW d \in Calls, d # c PROVE CallInv(d)'
    BY <1>0, <1>1, <2>3, OtherCalls DEF Create, Calling
  <2> QED
    BY <2>1, <2>2, <2>3
<1>2. ASSUME NEW c \in Calls, ReadReferences(c)
      PROVE  Calling' /\ \A d \in Calls : CallInv(d)'
  <2>1. Calling'
    BY <1>0, <1>2 DEF ReadReferences, Calling, Steps
  <2>2. CallInv(c)'
    <3>1. /\ references'[c] = biller.references /\ body'[c] = body[c]
          /\ Method(c)' = Method(c)
      BY <1>0, <1>2 DEF ReadReferences, Calling, Method
    <3>2. ChecksPass(c)' <=>
            validateReferences(biller.references, buildReferencesForValidation(body[c])) = {}
      BY <3>1 DEF ChecksPass
    <3>3. CASE ~ChecksPass(c)'
      <4>1. step'[c] = "badReferences"
        BY <1>0, <1>2, <3>2, <3>3 DEF ReadReferences, Calling
      <4> QED
        BY <3>3, <4>1 DEF CallInv, Sent
    <3>4. CASE ChecksPass(c)' /\ Method(c) # Undefined
      <4>1. step'[c] = "channels"
        BY <1>0, <1>2, <3>2, <3>4 DEF ReadReferences, Calling
      <4> QED
        BY <3>4, <4>1 DEF CallInv, Sent
    <3>5. CASE ChecksPass(c)' /\ Method(c) = Undefined
      <4>1. /\ step'[c] = "posted"
            /\ request'[c] = createUpayTransactionRequest(body[c], Method(c))
        BY <1>0, <1>2, <3>2, <3>5 DEF ReadReferences, Calling
      <4> QED
        BY <3>1, <3>5, <4>1 DEF CallInv, Sent
    <3> QED
      BY <3>3, <3>4, <3>5
  <2>3. ASSUME NEW d \in Calls, d # c PROVE CallInv(d)'
    BY <1>0, <1>2, <2>3, OtherCalls DEF ReadReferences, Calling
  <2> QED
    BY <2>1, <2>2, <2>3
<1>3. ASSUME NEW c \in Calls, ReadChannels(c)
      PROVE  Calling' /\ \A d \in Calls : CallInv(d)'
  <2>1. Calling'
    BY <1>0, <1>3 DEF ReadChannels, Calling, Steps
  <2>2. CallInv(c)'
    <3>1. /\ channels'[c] = biller.channels /\ Method(c)' = Method(c)
          /\ body'[c] = body[c]
          /\ ChecksPass(c)' = ChecksPass(c)
      BY <1>0, <1>3 DEF ReadChannels, Calling, Method, ChecksPass
    <3>2. ChecksPass(c)
      BY <1>3, InvByCalls DEF ReadChannels, CallInv
    <3>3. \/ /\ step'[c] = "posted"
             /\ validatePaymentMethod(biller.channels, Method(c)) = "valid"
             /\ request'[c] = createUpayTransactionRequest(body[c], Method(c))
          \/ step'[c] = "badMethod"
      BY <1>0, <1>3 DEF ReadChannels, Calling
    <3> QED
      BY <3>1, <3>2, <3>3 DEF CallInv, Sent
  <2>3. ASSUME NEW d \in Calls, d # c PROVE CallInv(d)'
    BY <1>0, <1>3, <2>3, OtherCalls DEF ReadChannels, Calling
  <2> QED
    BY <2>1, <2>2, <2>3
<1>4. ASSUME NEW c \in Calls, Answered(c) \/ Fail(c) \/ Get(c) \/ PassOn(c)
      PROVE  Calling' /\ \A d \in Calls : CallInv(d)'
  <2>1. Calling'
    BY <1>0, <1>4 DEF Answered, Fail, Get, PassOn, Calling, Steps
  <2>2. CallInv(c)'
    <3>1. /\ ChecksPass(c)' = ChecksPass(c) /\ Method(c)' = Method(c)
          /\ body'[c] = body[c] /\ channels'[c] = channels[c] /\ request'[c] = request[c]
      BY <1>4 DEF Answered, Fail, Get, PassOn, ChecksPass, Method
    <3>2. \/ step'[c] \in {"failed", "get", "passedOn"}
          \/ step[c] = "posted" /\ step'[c] \in {"created", "unanswered"}
      BY <1>0, <1>4 DEF Answered, Fail, Get, PassOn, Calling
    <3>3. CallInv(c)
      BY InvByCalls
    <3> QED
      BY <3>1, <3>2, <3>3 DEF CallInv, Sent
  <2>3. ASSUME NEW d \in Calls, d # c PROVE CallInv(d)'
    BY <1>0, <1>4, <2>3, OtherCalls DEF Answered, Fail, Get, PassOn, Calling
  <2> QED
    BY <2>1, <2>2, <2>3
<1>5. CASE Reconfigure
  <2>1. biller' \in [references : ReferenceLists, channels : ChannelLists]
    BY <1>0, <1>5 DEF Reconfigure, Calling
  <2>2. Calling'
    BY <1>0, <1>5, <2>1 DEF Reconfigure, Calling
  <2> QED
    BY <1>5, <2>2, OtherCalls DEF Reconfigure
<1>6. ASSUME NEW c \in Calls, BankActs(c) \/ GivesUp(c)
      PROVE  Calling' /\ \A d \in Calls : CallInv(d)'
  <2>1. Calling'
    BY <1>0, <1>6 DEF BankActs, GivesUp, Calling
  <2> QED
    BY <1>6, <2>1, OtherCalls DEF BankActs, GivesUp
<1>7. CASE UNCHANGED vars
  <2>1. Calling'
    BY <1>0, <1>7 DEF Calling, vars
  <2> QED
    BY <1>7, <2>1, OtherCalls DEF vars
<1> QED
  BY <1>1, <1>2, <1>3, <1>4, <1>5, <1>6, <1>7 DEF Next

\* Inv is an invariant.
THEOREM Invariance ==
    Spec => []Inv
BY InvInit, InvStep, PTL DEF Spec

-----------------------------------------------------------------------------
(* What the invariant gives *)

\* What createTransaction posts for a body without an array meets every enforced definition
\* of the biller the call has read.
THEOREM PostedMeetsRules ==
    Spec => []ReferencesMeetRules
<1>1. Inv => ReferencesMeetRules
  <2> SUFFICES ASSUME Inv, NEW c \in Calls, Sent(c), body[c].extra = NoExtra
               PROVE  MeetsAll(request[c], references[c])
    BY DEF ReferencesMeetRules
  <2>1. CallInv(c) /\ Calling
    BY InvByCalls
  <2>2. body[c] \in Bodies /\ references[c] \in SUBSET Reference
    BY <2>1 DEF Calling, Sent
  <2>3. IsBody(body[c])
    BY <2>2, UpayAssumption
  <2> QED
    BY <2>1, <2>2, <2>3, CheckIsExact DEF CallInv, ChecksPass
<1> QED
  BY <1>1, Invariance, PTL

\* A body without an array is refused only if what would have been posted breaks a rule.
THEOREM RefusalHasCause ==
    Spec => []RefusedForCause
<1>1. Inv => RefusedForCause
  <2> SUFFICES ASSUME Inv, NEW c \in Calls, step[c] = "badReferences", body[c].extra = NoExtra
               PROVE  ~MeetsAll(createUpayTransactionRequest(body[c], Method(c)), references[c])
    BY DEF RefusedForCause
  <2>1. CallInv(c) /\ Calling
    BY InvByCalls
  <2>2. body[c] \in Bodies /\ references[c] \in SUBSET Reference
    BY <2>1 DEF Calling
  <2>3. IsBody(body[c])
    BY <2>2, UpayAssumption
  <2> QED
    BY <2>1, <2>2, <2>3, CheckIsExact DEF CallInv, ChecksPass
<1> QED
  BY <1>1, Invariance, PTL

\* A transaction goes out with the method that was checked, after the call has seen a
\* channel for it that is enabled and availed.
THEOREM ChannelIsLive ==
    Spec => []ChannelWasLive
<1>1. Inv => ChannelWasLive
  <2> SUFFICES ASSUME Inv, NEW c \in Calls, Sent(c), Method(c) # Undefined
               PROVE  /\ request[c].paymentMethod = Method(c)
                      /\ \E i \in DOMAIN channels[c] :
                          /\ IsLive(channels[c][i])
                          /\ \/ IsOwn(channels[c][i], Method(c))
                             \/ /\ \A j \in DOMAIN channels[c] : ~IsOwn(channels[c][j], Method(c))
                                /\ IsAlike(channels[c][i], Method(c))
    BY DEF ChannelWasLive
  <2>1. /\ request[c] = createUpayTransactionRequest(body[c], Method(c))
        /\ validatePaymentMethod(channels[c], Method(c)) = "valid"
    BY InvByCalls DEF CallInv
  <2>2. request[c].paymentMethod = Method(c)
    BY <2>1 DEF createUpayTransactionRequest
  <2> QED
    BY <2>1, <2>2, ValidIsLive
<1> QED
  BY <1>1, Invariance, PTL

\* A Philippine subscriber's number is posted as its ten digits, whatever they are and in
\* whichever of the documented forms the body has it.
THEOREM NumberIsNormalised ==
    Spec => []NumberIsSubscribers
<1>1. Inv => NumberIsSubscribers
  <2> SUFFICES ASSUME Inv, NEW c \in Calls, Sent(c), body[c].mobileNumber # Undefined,
                      NEW number, number = body[c].mobileNumber,
                      normalizeCountryCode(body[c].countryCode) = DEFAULT_COUNTRY_CODE,
                      SubSeq(number, 1, Len(number) - 10) \in LeadIns,
                      SubSeq(number, Len(number) - 9, Len(number))[1]
                        \in VALID_PH_MOBILE_PREFIXES
               PROVE  request[c].mobileNumber
                        = SubSeq(number, Len(number) - 9, Len(number))
    BY DEF NumberIsSubscribers
  <2>1. CallInv(c) /\ Calling
    BY InvByCalls
  <2>2. IsBody(body[c])
    BY <2>1, UpayAssumption DEF Calling, Sent
  <2>3. number \in Seq(0..9) /\ Len(number) \in 10..13
    BY <2>2 DEF IsBody, Optional
  <2>4. request[c].mobileNumber = normalizeMobileNumber(number, DEFAULT_COUNTRY_CODE)
    BY <2>1 DEF CallInv, createUpayTransactionRequest
  <2>5. @ = WithoutZero(WithoutCountry(number))
    BY DEF normalizeMobileNumber
  <2> QED
    BY <2>3, <2>4, <2>5, TenDigitsRemain
<1> QED
  BY <1>1, Invariance, PTL

\* After a 400 there is no transaction and never will be, and after a 201 there is one.
THEOREM AnswersCanBeTrusted ==
    Spec => []AnswersAreTrue
<1>1. Inv => AnswersAreTrue
  BY DEF Inv, AnsweredByOutcome, AnswersAreTrue, Sent
<1> QED
  BY <1>1, Invariance, PTL

-----------------------------------------------------------------------------
(* Types *)

\* A transaction made of a body is a request.
LEMMA RequestType ==
    ASSUME NEW b, IsBody(b), NEW method \in Optional(UPAY_PAYMENT_METHODS)
    PROVE  createUpayTransactionRequest(b, method) \in Request
<1>1. /\ b.firstName \in Value /\ b.lastName \in Value
      /\ OrEmpty(b.accountNumber) \in Value /\ OrEmpty(b.userRef) \in Value
  BY DEF IsBody, Optional, OrEmpty, Empty, Value
<1>2. (IF method = Undefined THEN "paygate" ELSE method) \in UPAY_PAYMENT_METHODS
  <2>1. "paygate" \in UPAY_PAYMENT_METHODS
    <3>1. <<"paygate", "paygate">> \in PAYMENT_METHOD_TO_CHANNEL_CODE
      BY DEF PAYMENT_METHOD_TO_CHANNEL_CODE
    <3> QED
      BY <3>1 DEF UPAY_PAYMENT_METHODS
  <2> QED
    BY <2>1 DEF Optional
<1>3. ASSUME NEW number \in Optional(Seq(0..9)), NEW country
      PROVE  normalizeMobileNumber(number, country) \in Optional(Seq(0..9))
  <2>1. CASE number = Undefined
    BY <2>1 DEF normalizeMobileNumber, Optional
  <2>2. CASE number # Undefined
    <3>1. number \in Seq(0..9)
      BY <2>2 DEF Optional
    <3>2. ASSUME NEW n \in Seq(0..9), Len(n) > 10
          PROVE  SubSeq(n, 3, Len(n)) \in Seq(0..9)
      BY <3>2, SubSeqProperties
    <3>3. WithoutCountry(number) \in Seq(0..9)
      BY <3>1, <3>2 DEF WithoutCountry
    <3>4. ASSUME NEW n \in Seq(0..9) PROVE WithoutZero(n) \in Seq(0..9)
      <4>1. CASE Len(n) = 11
        BY <4>1 DEF WithoutZero
      <4> QED
        BY <4>1 DEF WithoutZero
    <3> QED
      BY <2>2, <3>1, <3>3, <3>4 DEF normalizeMobileNumber, Optional
  <2> QED
    BY <2>1, <2>2
<1>4. b.mobileNumber \in Optional(Seq(0..9))
  BY DEF IsBody
<1>5. normalizeMobileNumber(b.mobileNumber, normalizeCountryCode(b.countryCode))
        \in Optional(Seq(0..9))
  BY <1>3, <1>4
<1> QED
  BY ONLY <1>1, <1>2, <1>5 DEF createUpayTransactionRequest, Request

\* What Calling leaves open.
Carrying ==
    /\ answer \in [Calls -> {"none", "ok", "created", "refused", "error", "gaveUp"}]
    /\ references \in [Calls -> ReferenceLists \cup {{}}]
    /\ channels \in [Calls -> ChannelLists \cup {<<>>}]
    /\ \A c \in Calls : ~Sent(c) => request[c] = Undefined

LEMMA CarryingStep ==
    Inv /\ Carrying /\ [Next]_vars => Carrying'
<1> SUFFICES ASSUME Inv, Carrying, [Next]_vars PROVE Carrying'
  OBVIOUS
<1>0. /\ step \in [Calls -> Steps] /\ DOMAIN request = Calls
      /\ biller.references \in ReferenceLists /\ biller.channels \in ChannelLists
  BY DEF Inv, Calling
<1> DEFINE Answers == {"none", "ok", "created", "refused", "error", "gaveUp"}
<1>1. \A s : Outcome(s) \in Answers
  BY DEF Outcome
<1>2. ASSUME NEW c \in Calls, NEW s, MovesOn(c, s)
      PROVE  /\ answer' \in [Calls -> Answers]
             /\ step'[c] = s /\ \A d \in Calls \ {c} : step'[d] = step[d]
  BY <1>0, <1>1, <1>2 DEF MovesOn, Carrying
<1>3. ASSUME NEW c \in Calls, NEW s, MovesOn(c, s), UNCHANGED <<references, channels, request>>,
             Sent(c) => s \in {"posted", "created", "unanswered"}
      PROVE  Carrying'
  BY <1>2, <1>3 DEF Carrying, Sent
<1>4. ASSUME NEW c \in Calls, NEW s, step[c] \in {"references", "channels"},
             \/ Post(c)
             \/ MovesOn(c, s) /\ UNCHANGED request
      PROVE  /\ answer' \in [Calls -> Answers]
             /\ \A d \in Calls : ~Sent(d)' => request'[d] = Undefined
  <2>1. CASE Post(c)
    <3>1. /\ step'[c] = "posted" /\ \A d \in Calls \ {c} : step'[d] = step[d]
          /\ answer' \in [Calls -> Answers]
      BY <1>2, <2>1 DEF Post
    <3>2. \A d \in Calls \ {c} : request'[d] = request[d]
      BY <1>0, <2>1 DEF Post
    <3> QED
      BY <3>1, <3>2 DEF Carrying, Sent
  <2>2. CASE MovesOn(c, s) /\ UNCHANGED request
    <3>1. /\ \A d \in Calls \ {c} : step'[d] = step[d]
          /\ answer' \in [Calls -> Answers]
      BY <1>2, <2>2
    <3>2. ~Sent(c)
      BY <1>4 DEF Sent
    <3> QED
      BY <2>2, <3>1, <3>2 DEF Carrying, Sent
  <2> QED
    BY <1>4, <2>1, <2>2
<1>5. ASSUME NEW c \in Calls, ReadReferences(c) PROVE Carrying'
  <2>1. \E s : Post(c) \/ (MovesOn(c, s) /\ UNCHANGED request)
    BY <1>5 DEF ReadReferences, Refuse
  <2>2. /\ answer' \in [Calls -> Answers]
        /\ \A d \in Calls : ~Sent(d)' => request'[d] = Undefined
    BY <1>4, <1>5, <2>1 DEF ReadReferences
  <2>3. references' \in [Calls -> ReferenceLists \cup {{}}] /\ channels' = channels
    BY <1>0, <1>5 DEF ReadReferences, Carrying
  <2> QED
    BY <2>2, <2>3 DEF Carrying
<1>6. ASSUME NEW c \in Calls, ReadChannels(c) PROVE Carrying'
  <2>1. \E s : Post(c) \/ (MovesOn(c, s) /\ UNCHANGED request)
    BY <1>6 DEF ReadChannels, Refuse
  <2>2. /\ answer' \in [Calls -> Answers]
        /\ \A d \in Calls : ~Sent(d)' => request'[d] = Undefined
    BY <1>4, <1>6, <2>1 DEF ReadChannels
  <2>3. channels' \in [Calls -> ChannelLists \cup {<<>>}] /\ references' = references
    BY <1>0, <1>6 DEF ReadChannels, Carrying
  <2> QED
    BY <2>2, <2>3 DEF Carrying
<1>7. ASSUME NEW c \in Calls, Answered(c) \/ Fail(c) \/ Get(c) \/ PassOn(c)
                              \/ \E b \in Bodies, isCard \in BOOLEAN : Create(c, b, isCard)
      PROVE  Carrying'
  <2>1. \E s : /\ MovesOn(c, s)
               /\ Sent(c) => s \in {"posted", "created", "unanswered"}
               /\ UNCHANGED <<references, channels, request>>
    BY <1>7 DEF Answered, Fail, Get, PassOn, Create, Sent
  <2> QED
    BY <1>3, <2>1
<1>8. ASSUME NEW c \in Calls, BankActs(c) \/ GivesUp(c) PROVE Carrying'
  <2>1. answer' \in [Calls -> Answers] /\ UNCHANGED <<step, references, channels, request>>
    BY <1>8 DEF BankActs, GivesUp, Carrying
  <2> QED
    BY <2>1 DEF Carrying, Sent
<1>9. CASE Reconfigure \/ UNCHANGED vars
  BY <1>9 DEF Reconfigure, vars, Carrying, Sent
<1> QED
  BY <1>5, <1>6, <1>7, <1>8, <1>9 DEF Next

\* Types: among others, a transaction goes out with all five references and a payment
\* method of the list, whatever the body left out.
THEOREM UpayTypes ==
    Spec => []TypeOK
<1>1. Init => Carrying
  BY DEF Init, Carrying
<1>2. ASSUME Inv, Carrying PROVE TypeOK
  <2>1. Calling /\ \A c \in Calls : CallInv(c)
    BY <1>2, InvByCalls
  <2>2. ASSUME NEW c \in Calls, Sent(c)
        PROVE  body[c] # Undefined /\ request[c] \in Request
    <3>1. body[c] \in Bodies /\ body[c] # Undefined /\ IsBody(body[c])
      BY <2>1, <2>2, UpayAssumption DEF Calling, Sent
    <3>2. Method(c) \in Optional(UPAY_PAYMENT_METHODS)
      <4>1. <<"debit/credit", "debit/credit">> \in PAYMENT_METHOD_TO_CHANNEL_CODE
        BY DEF PAYMENT_METHOD_TO_CHANNEL_CODE
      <4>2. "debit/credit" \in UPAY_PAYMENT_METHODS
        BY <4>1 DEF UPAY_PAYMENT_METHODS
      <4>3. body[c].paymentMethod \in Optional(UPAY_PAYMENT_METHODS)
        BY <3>1 DEF IsBody
      <4> QED
        BY <4>2, <4>3 DEF Method, Optional
    <3> QED
      BY <2>1, <2>2, <3>1, <3>2, RequestType DEF CallInv
  <2>3. ASSUME NEW c \in Calls, step[c] \in {"references", "channels"}
        PROVE  body[c] # Undefined
    BY <2>1, <2>3, UpayAssumption DEF Calling
  <2> QED
    BY <1>2, <2>1, <2>2, <2>3 DEF Calling, Carrying, TypeOK
<1> QED
  BY <1>1, <1>2, CarryingStep, Invariance, InvInit, PTL DEF Spec

-----------------------------------------------------------------------------
(* A method is refused for a cause *)

\* A channel that would do is passed over only for one that does not: a live channel under
\* the method's own codes only for an earlier one of these, a live one with a similar name
\* for one under the codes, or for an earlier one with a similar name.
Excused(offer, method) ==
    \A i \in DOMAIN offer : IsLive(offer[i]) =>
        /\ IsOwn(offer[i], method) =>
            \E j \in DOMAIN offer : j < i /\ IsOwn(offer[j], method) /\ ~IsLive(offer[j])
        /\ IsAlike(offer[i], method) =>
            \E j \in DOMAIN offer :
                /\ ~IsLive(offer[j])
                /\ IsOwn(offer[j], method) \/ (j < i /\ IsAlike(offer[j], method))

MethodRefusedForCause ==
    \A c \in Calls :
        step[c] = "badMethod" => Method(c) # Undefined /\ Excused(channels[c], Method(c))

\* A finite set of indices that is not empty has a first one: the least of its initial
\* segments is that of the first index.
LEMMA FirstExists ==
    ASSUME NEW S \in SUBSET Nat, IsFiniteSet(S), S # {}
    PROVE  First(S) # {}
<1> DEFINE upTo(i) == {j \in S : j <= i}
           segments == {upTo(i) : i \in S}
<1>1. segments \subseteq FiniteSubsetsOf(S) /\ segments # {}
  <2>1. ASSUME NEW i \in S PROVE upTo(i) \in FiniteSubsetsOf(S)
    <3>1. upTo(i) \subseteq S
      OBVIOUS
    <3> QED
      BY <3>1, FS_Subset DEF FiniteSubsetsOf
  <2> QED
    BY <2>1
<1>2. IsWellFoundedOn(StrictSubsetOrdering(S), FiniteSubsetsOf(S))
  BY FS_StrictSubsetOrderingWellFounded
<1>3. PICK x \in segments : \A y \in segments : <<y, x>> \notin StrictSubsetOrdering(S)
  <2> HIDE DEF segments
  <2> QED
    BY <1>1, <1>2, WFMin
<1>4. PICK i \in S : x = upTo(i)
  OBVIOUS
<1>5. ASSUME NEW j \in S, j < i PROVE FALSE
  <2>1. upTo(j) \subseteq upTo(i) /\ upTo(i) # upTo(j)
    <3>1. i \in Nat /\ j \in Nat /\ S \subseteq Nat
      OBVIOUS
    <3>2. i \in upTo(i) /\ i \notin upTo(j)
      BY <1>5, <3>1
    <3>3. \A k \in S : k <= j => k <= i
      BY <1>5, <3>1
    <3> QED
      BY <3>2, <3>3
  <2>2. <<upTo(j), upTo(i)>> \in StrictSubsetOrdering(S)
    BY <2>1 DEF StrictSubsetOrdering
  <2> QED
    BY <1>3, <1>4, <2>2
<1>6. \A j \in S : i <= j
  BY <1>5
<1> QED
  BY <1>6 DEF First

\* The check refuses a method only for the channel that it found, or if there is none.
LEMMA RefusalIsExcused ==
    ASSUME NEW offer \in Seq(Channel), NEW method, validatePaymentMethod(offer, method) # "valid"
    PROVE  Excused(offer, method)
<1> DEFINE own   == {i \in DOMAIN offer : IsOwn(offer[i], method)}
           alike == {i \in DOMAIN offer : IsAlike(offer[i], method)}
           searched == IF own # {} THEN own ELSE alike
<1>1. searched \subseteq DOMAIN offer /\ DOMAIN offer \subseteq Nat /\ IsFiniteSet(searched)
  <2>1. DOMAIN offer = 1..Len(offer) /\ Len(offer) \in Nat
    OBVIOUS
  <2>2. searched \subseteq 1..Len(offer)
    BY <2>1
  <2>3. IsFiniteSet(1..Len(offer))
    BY <2>1, FS_Interval
  <2>4. IsFiniteSet(searched)
    BY <2>2, <2>3, FS_Subset
  <2> QED
    BY <2>1, <2>2, <2>4
<1>2. findMatchingChannel(offer, method) = {offer[i] : i \in First(searched)}
  BY DEF findMatchingChannel
<1>3. ASSUME NEW i \in searched, IsLive(offer[i])
      PROVE  \E k \in searched : k < i /\ ~IsLive(offer[k])
  <2>1. PICK k : k \in First(searched)
    BY <1>1, <1>3, FirstExists
  <2>2. k \in searched /\ k <= i
    BY <2>1 DEF First
  <2>3. \A l \in First(searched) : l = k
    BY <1>1, <2>1 DEF First
  <2>4. findMatchingChannel(offer, method) = {offer[k]}
    BY <1>2, <2>1, <2>3
  <2>5. offer # <<>>
    BY <1>1, <2>2
  <2>6. ~IsLive(offer[k])
    BY <2>4, <2>5 DEF validatePaymentMethod, IsLive
  <2> QED
    BY <1>1, <1>3, <2>2, <2>6
<1>4. ASSUME NEW i \in DOMAIN offer, IsLive(offer[i]), IsOwn(offer[i], method)
      PROVE  \E j \in DOMAIN offer : j < i /\ IsOwn(offer[j], method) /\ ~IsLive(offer[j])
  <2>1. i \in searched /\ searched = own
    BY <1>4
  <2> QED
    BY <1>1, <1>3, <1>4, <2>1
<1>5. ASSUME NEW i \in DOMAIN offer, IsLive(offer[i]), IsAlike(offer[i], method)
      PROVE  \E j \in DOMAIN offer :
                /\ ~IsLive(offer[j])
                /\ IsOwn(offer[j], method) \/ (j < i /\ IsAlike(offer[j], method))
  <2>1. CASE own = {}
    <3>1. i \in searched /\ searched = alike
      BY <1>5, <2>1
    <3> QED
      BY <1>1, <1>3, <1>5, <3>1
  <2>2. CASE own # {}
    <3>1. PICK k \in own : TRUE
      BY <2>2
    <3>2. k \in searched /\ searched = own
      BY <2>2, <3>1
    <3>3. CASE IsLive(offer[k])
      BY <1>1, <1>3, <3>2, <3>3
    <3>4. CASE ~IsLive(offer[k])
      BY <3>1, <3>4
    <3> QED
      BY <3>3, <3>4
  <2> QED
    BY <2>1, <2>2
<1> QED
  BY <1>4, <1>5 DEF Excused

\* Only a call that has a method checks one, and it is refused by the check.
MethodChecked ==
    \A c \in Calls :
        /\ step[c] \in {"channels", "badMethod"} => Method(c) # Undefined
        /\ step[c] = "badMethod" => validatePaymentMethod(channels[c], Method(c)) # "valid"

LEMMA MethodCheckedStep ==
    Inv /\ MethodChecked /\ [Next]_vars => MethodChecked'
<1> SUFFICES ASSUME Inv, MethodChecked, [Next]_vars, NEW d \in Calls
             PROVE  /\ step'[d] \in {"channels", "badMethod"} => Method(d)' # Undefined
                    /\ step'[d] = "badMethod" =>
                        validatePaymentMethod(channels'[d], Method(d)') # "valid"
  BY DEF MethodChecked
<1> DEFINE Kept == /\ step'[d] \in {"channels", "badMethod"} => Method(d)' # Undefined
                   /\ step'[d] = "badMethod" =>
                        validatePaymentMethod(channels'[d], Method(d)') # "valid"
<1>0. Calling
  BY DEF Inv
<1>a. ASSUME step'[d] = step[d], Method(d)' = Method(d), channels'[d] = channels[d]
      PROVE  Kept
  BY <1>a DEF MethodChecked
<1>b. ASSUME NEW c \in Calls, NEW s, MovesOn(c, s)
      PROVE  step'[c] = s /\ (d # c => step'[d] = step[d])
  BY <1>0, <1>b DEF MovesOn, Calling
<1>1. ASSUME NEW c \in Calls, NEW b \in Bodies, NEW isCard \in BOOLEAN, Create(c, b, isCard)
      PROVE  Kept
  <2>1. CASE d = c
    BY <1>1, <1>b, <2>1 DEF Create
  <2>2. CASE d # c
    BY <1>0, <1>1, <1>a, <1>b, <2>2 DEF Create, Method, Calling
  <2> QED
    BY <2>1, <2>2
<1>2. ASSUME NEW c \in Calls, ReadReferences(c) PROVE Kept
  <2>1. Method(d)' = Method(d) /\ channels' = channels
    BY <1>2 DEF ReadReferences, Method
  <2>2. CASE d = c
    <3>1. \/ step'[d] \in {"badReferences", "posted"}
          \/ step'[d] = "channels" /\ Method(d) # Undefined
      BY <1>2, <1>b, <2>2 DEF ReadReferences, Refuse, Post
    <3> QED
      BY <2>1, <3>1
  <2>3. CASE d # c
    <3>1. step'[d] = step[d]
      BY <1>2, <1>b, <2>3 DEF ReadReferences, Refuse, Post
    <3> QED
      BY <1>a, <2>1, <3>1
  <2> QED
    BY <2>2, <2>3
<1>3. ASSUME NEW c \in Calls, ReadChannels(c) PROVE Kept
  <2>1. /\ Method(d)' = Method(d) /\ channels' = [channels EXCEPT ![c] = biller.channels]
        /\ step[c] = "channels"
    BY <1>3 DEF ReadChannels, Method
  <2>2. CASE d = c
    <3>1. Method(d) # Undefined /\ channels'[d] = biller.channels
      BY <1>0, <2>1, <2>2 DEF MethodChecked, Calling
    <3>2. \/ step'[d] = "posted"
          \/ /\ step'[d] = "badMethod"
             /\ validatePaymentMethod(biller.channels, Method(d)) # "valid"
      BY <1>3, <1>b, <2>2 DEF ReadChannels, Refuse, Post
    <3> QED
      BY <2>1, <3>1, <3>2
  <2>3. CASE d # c
    <3>1. step'[d] = step[d] /\ channels'[d] = channels[d]
      BY <1>0, <1>3, <1>b, <2>1, <2>3 DEF ReadChannels, Refuse, Post, Calling
    <3> QED
      BY <1>a, <2>1, <3>1
  <2> QED
    BY <2>2, <2>3
<1>4. ASSUME NEW c \in Calls, Answered(c) \/ Fail(c) \/ Get(c) \/ PassOn(c) PROVE Kept
  <2>1. Method(d)' = Method(d) /\ channels' = channels
    BY <1>4 DEF Answered, Fail, Get, PassOn, Method
  <2>2. /\ step'[c] \in {"created", "failed", "unanswered", "get", "passedOn"}
        /\ d # c => step'[d] = step[d]
    BY <1>4, <1>b DEF Answered, Fail, Get, PassOn
  <2> QED
    BY <1>a, <2>1, <2>2
<1>5. CASE \/ \E c \in Calls : BankActs(c) \/ GivesUp(c)
           \/ Reconfigure \/ UNCHANGED vars
  <2>1. step' = step /\ channels' = channels /\ Method(d)' = Method(d)
    BY <1>5 DEF BankActs, GivesUp, Reconfigure, vars, Method
  <2> QED
    BY <1>a, <2>1
<1> QED
  BY <1>1, <1>2, <1>3, <1>4, <1>5 DEF Next

\* A payment method is refused only if one was named, and no channel that would do was
\* passed over but for one that the code prefers and that is not live.
THEOREM MethodRefusalHasCause ==
    Spec => []MethodRefusedForCause
<1>1. Init => MethodChecked /\ Carrying
  BY DEF Init, MethodChecked, Carrying
<1>2. ASSUME MethodChecked, Carrying PROVE MethodRefusedForCause
  <2> SUFFICES ASSUME NEW c \in Calls, step[c] = "badMethod"
               PROVE  Method(c) # Undefined /\ Excused(channels[c], Method(c))
    BY DEF MethodRefusedForCause
  <2>1. channels[c] \in ChannelLists \cup {<<>>} /\ <<>> \in Seq(Channel)
    BY <1>2 DEF Carrying
  <2>2. channels[c] \in Seq(Channel)
    BY <2>1, UpayAssumption
  <2> QED
    BY <1>2, <2>2, RefusalIsExcused DEF MethodChecked
<1> QED
  BY <1>1, <1>2, MethodCheckedStep, CarryingStep, Invariance, InvInit, PTL DEF Spec
=============================================================================
