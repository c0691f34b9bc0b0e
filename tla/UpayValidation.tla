--------------------------- MODULE UpayValidation ---------------------------
(***************************************************************************)
(* The pure checks of a UPay transaction: ReferenceValidationService,      *)
(* PaymentMethodValidationService, and the normalisation of mobile         *)
(* numbers.                                                                *)
(*                                                                         *)
(* The text of a reference is abstracted to what the rules look at: its    *)
(* length, the classes of characters in it, and whether it has the shape   *)
(* of an email address.  A length limit of 0 stands for one that is        *)
(* absent or does not parse.  Channel codes, channel names and payment     *)
(* methods are labels, without case.  The code takes surrounding blanks    *)
(* from codes and methods, but not from names: a name with blanks around   *)
(* it is a label of its own, which is no channel code and may contain one. *)
(***************************************************************************)
EXTENDS Integers, Sequences

CONSTANTS
    Undefined,          \* an optional field that the body leaves out
    Substrings          \* the pairs of labels <<short, long>>, the short one within the long

-----------------------------------------------------------------------------
(* References                                                              *)

\* "mark" is one of the characters - _ . @
CharClasses == {"letter", "digit", "space", "mark", "other"}

Value == [size : Nat, chars : SUBSET CharClasses, email : BOOLEAN]
Empty == [size |-> 0, chars |-> {}, email |-> FALSE]

isEmpty(v) == v.chars \subseteq {"space"}

Letters == {"letter"}
Digits == {"digit"}
Alphanumerics == {"letter", "digit"}

FIELD_TYPE_PATTERNS ==
    [NUMERIC |-> Digits, ALPHABETIC |-> Letters, ALPHANUMERIC |-> Alphanumerics]

FIELD_VALIDATION_PATTERNS ==
    [Alphabetic |-> Letters, Numeric |-> Digits, Alphanumeric |-> Alphanumerics,
     AlphanumericWithSpaces |-> Alphanumerics \cup {"space"},
     AlphanumericWithSymbols |-> Alphanumerics \cup {"space", "mark"}]

\* A type or pattern without an entry (TEXT, Simple, an unknown name) lets any text pass.
FitsType(type, v) ==
    type \in DOMAIN FIELD_TYPE_PATTERNS => v.chars \subseteq FIELD_TYPE_PATTERNS[type]

FitsPattern(name, v) ==
    /\ name \in DOMAIN FIELD_VALIDATION_PATTERNS =>
            v.chars \subseteq FIELD_VALIDATION_PATTERNS[name]
    /\ name = "Email" => v.email

\* A biller's definition of one of its references.
Reference ==
    [index : Nat, required : BOOLEAN, visible : BOOLEAN, min : Nat, max : Nat,
     type : STRING, pattern : STRING]

TextErrors(ref, v) ==
    {e \in {"MIN_LENGTH", "MAX_LENGTH", "INVALID_TYPE", "PATTERN_MISMATCH"} :
        \/ e = "MIN_LENGTH" /\ ref.min > 0 /\ v.size < ref.min
        \/ e = "MAX_LENGTH" /\ ref.max > 0 /\ v.size > ref.max
        \/ e = "INVALID_TYPE" /\ ~FitsType(ref.type, v)
        \/ e = "PATTERN_MISMATCH" /\ ~FitsPattern(ref.pattern, v)}

validateSingleReference(ref, v) ==
    IF ~ref.visible /\ ~ref.required THEN {}
    ELSE IF ~isEmpty(v) THEN TextErrors(ref, v)
    ELSE IF ref.required THEN {"REQUIRED"}
    ELSE {}

\* What a list of references, kept as a function on its indices, has at an index.
ValueAt(references, i) == IF i \in DOMAIN references THEN references[i] ELSE Empty

validateReferences(billerReferences, references) ==
    {ref \in billerReferences :
        validateSingleReference(ref, ValueAt(references, ref.index)) # {}}

-----------------------------------------------------------------------------
(* Payment channels                                                        *)

\* The channel codes of each payment method.
PAYMENT_METHOD_TO_CHANNEL_CODE ==
    {<<"debit/credit", "debit/credit">>, <<"debit/credit", "visa/mastercard">>,
     <<"ub online", "ub online">>, <<"ub online", "unionbank online">>,
     <<"instapay", "instapay">>,
     <<"instapay p2b", "instapay p2b">>, <<"instapay p2b", "instapay_p2b">>,
     <<"paygate", "paygate">>, <<"paygate", "pchc paygate">>, <<"paygate", "pesonet">>,
     <<"gcash", "gcash">>, <<"grabpay", "grabpay">>,
     <<"bayad_center", "bayad_center">>, <<"bayad_center", "bayad center">>,
     <<"cebl", "cebl">>, <<"ecpay", "ecpay">>, <<"plwn", "plwn">>,
     <<"mlh", "mlh">>, <<"smr", "smr">>, <<"rds", "rds">>}

UPAY_PAYMENT_METHODS == {p[1] : p \in PAYMENT_METHOD_TO_CHANNEL_CODE}

\* The channel is configured under one of the method's own codes.
IsOwn(channel, method) ==
    \E label \in {channel.code, channel.name} :
        <<method, label>> \in PAYMENT_METHOD_TO_CHANNEL_CODE

\* The fallback: the labels agree, or one of name and method is within the other.
IsAlike(channel, method) ==
    \/ method \in {channel.code, channel.name}
    \/ <<method, channel.name>> \in Substrings
    \/ <<channel.name, method>> \in Substrings

First(S) == {i \in S : \A j \in S : i <= j}

\* The set of the one channel that is found, or the empty set.
findMatchingChannel(channels, method) ==
    LET own   == {i \in DOMAIN channels : IsOwn(channels[i], method)}
        alike == {i \in DOMAIN channels : IsAlike(channels[i], method)}
    IN  {channels[i] : i \in First(IF own # {} THEN own ELSE alike)}

\* Broken variant: an enabled channel need not be availed.
validatePaymentMethodUnavailed(channels, method) ==
    LET matched == findMatchingChannel(channels, method) IN
    IF channels = <<>> THEN "NO_CHANNELS_CONFIGURED"
    ELSE IF matched = {} THEN "METHOD_NOT_FOUND"
    ELSE IF \E ch \in matched : ~ch.isEnabled THEN "METHOD_NOT_ENABLED"
    ELSE "valid"

\* No billers in the answer count as a biller without channels.
validatePaymentMethod(channels, method) ==
    LET matched == findMatchingChannel(channels, method) IN
    IF channels = <<>> THEN "NO_CHANNELS_CONFIGURED"
    ELSE IF matched = {} THEN "METHOD_NOT_FOUND"
    ELSE IF \E ch \in matched : ~ch.isEnabled THEN "METHOD_NOT_ENABLED"
    ELSE IF \E ch \in matched : ~ch.isAvailed THEN "METHOD_NOT_AVAILED"
    ELSE "valid"

-----------------------------------------------------------------------------
(* Mobile numbers, as sequences of digits                                  *)

DEFAULT_COUNTRY_CODE == "63"
VALID_PH_MOBILE_PREFIXES == {8, 9}

\* The body's validation lets only one to four digits through.
normalizeCountryCode(code) == IF code = Undefined THEN DEFAULT_COUNTRY_CODE ELSE code

StartsWith(number, prefix) ==
    /\ Len(number) >= Len(prefix)
    /\ \A i \in 1..Len(prefix) : number[i] = prefix[i]

WithoutCountry(number) ==
    IF StartsWith(number, <<6, 3>>) /\ Len(number) > 10
    THEN SubSeq(number, 3, Len(number)) ELSE number

WithoutZero(number) ==
    IF StartsWith(number, <<0>>) /\ Len(number) = 11 THEN Tail(number) ELSE number

\* Broken variant: the zero goes first, while the country code is still in front of it.
normalizeMobileNumberZeroFirst(number, country) ==
    IF number = Undefined THEN Undefined
    ELSE IF country = DEFAULT_COUNTRY_CODE THEN WithoutCountry(WithoutZero(number))
    ELSE number

\* A number that does not end up as ten digits with a valid prefix is passed on all the
\* same: the test of that (lines 93 to 96) makes no difference to the result.
normalizeMobileNumber(number, country) ==
    IF number = Undefined THEN Undefined
    ELSE IF country = DEFAULT_COUNTRY_CODE THEN WithoutZero(WithoutCountry(number))
    ELSE number
=============================================================================
