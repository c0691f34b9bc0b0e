------------------------------- MODULE MCUpay -------------------------------
(***************************************************************************)
(* A biller with references at the five fixed indices and at one more, and *)
(* three texts to put into them; channels for two methods, one of which    *)
(* contains the name of the other.                                         *)
(***************************************************************************)
EXTENDS Upay, FiniteSets

Name == [size |-> 4, chars |-> {"letter"}, email |-> FALSE]
Number == [size |-> 9, chars |-> {"digit"}, email |-> FALSE]
Mail == [size |-> 12, chars |-> {"letter", "mark"}, email |-> TRUE]
Spaces == [size |-> 2, chars |-> {"space"}, email |-> FALSE]

MCSubstrings ==
    {<<m, m>> : m \in {"instapay", "paygate", "rds"}} \cup
    {<<"instapay", "instapay p2b">>, <<"rds", "credit cards">>}

Rule(index, required, min, max, type, pattern) ==
    [index |-> index, required |-> required, visible |-> TRUE,
     min |-> min, max |-> max, type |-> type, pattern |-> pattern]

MCReferenceLists ==
    {{},
     {Rule(1, TRUE, 2, 0, "TEXT", "Simple"), Rule(5, TRUE, 0, 0, "ALPHABETIC", "Simple")},
     {Rule(2, TRUE, 9, 9, "NUMERIC", "Simple"), Rule(3, FALSE, 0, 10, "TEXT", "Alphabetic")},
     {Rule(2, FALSE, 9, 9, "NUMERIC", "Simple"), Rule(4, TRUE, 0, 8, "TEXT", "Alphabetic")},
     {[Rule(2, FALSE, 9, 9, "NUMERIC", "Simple") EXCEPT !.visible = FALSE],
      Rule(3, TRUE, 0, 0, "TEXT", "Email")},
     {Rule(2, FALSE, 5, 0, "ALPHANUMERIC", "Simple"), Rule(6, TRUE, 0, 0, "TEXT", "Email")}}

MCChannel(code, enabled, availed) ==
    [code |-> code, name |-> code, isEnabled |-> enabled, isAvailed |-> availed]

Cards == [code |-> "visa/mastercard", name |-> "credit cards",
          isEnabled |-> TRUE, isAvailed |-> TRUE]

MCChannelLists ==
    {<<>>,
     <<MCChannel("instapay", TRUE, TRUE), Cards>>,
     <<MCChannel("instapay", TRUE, TRUE), MCChannel("instapay p2b", FALSE, TRUE)>>,
     <<MCChannel("instapay p2b", TRUE, TRUE), MCChannel("instapay", TRUE, FALSE)>>,
     <<MCChannel("pesonet", FALSE, TRUE), MCChannel("paygate", TRUE, TRUE)>>,
     <<MCChannel("paygate", TRUE, FALSE), [Cards EXCEPT !.isAvailed = FALSE]>>}

Plain ==
    [firstName |-> Name, lastName |-> Name, accountNumber |-> Number, userRef |-> Undefined,
     extra |-> NoExtra, paymentMethod |-> Undefined, countryCode |-> Undefined,
     mobileNumber |-> Undefined]

References ==
    {[Plain EXCEPT !.firstName = names[1], !.lastName = names[2],
                   !.accountNumber = a, !.userRef = u] :
        names \in {<<Name, Name>>, <<Spaces, Name>>, <<Name, Mail>>},
        a \in {Undefined, Empty, Name, Number}, u \in {Undefined, Name, Mail}}

Arrays ==
    {[Plain EXCEPT !.accountNumber = a, !.extra = x] :
        a \in {Undefined, Number}, x \in UNION {[I -> {Number, Mail}] : I \in {{2}, {6}, {2, 6}}}}

Methods ==
    {[Plain EXCEPT !.paymentMethod = m] :
        m \in {"instapay", "instapay p2b", "paygate", "debit/credit", "rds"}}

Prefixes == {<<>>, <<0>>, <<6, 3>>, <<6, 3, 0>>, <<0, 6, 3>>, <<6, 3, 6>>, <<1>>}
TenDigits == {<<n, 3, 7, 0, 0, 0, 0, 0, 0, 1>> : n \in {0, 6, 8, 9}}

Numbers ==
    {[Plain EXCEPT !.mobileNumber = p \o ten] : p \in Prefixes, ten \in TenDigits} \cup
    {[Plain EXCEPT !.mobileNumber = p \o ten, !.countryCode = "1"] :
        p \in {<<0>>, <<1>>}, ten \in TenDigits}

MCBodies == References \cup Arrays \cup Methods \cup Numbers
=============================================================================
