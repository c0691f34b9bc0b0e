--------------------------- MODULE DepositsProofs ---------------------------
(***************************************************************************)
(* The unguarded read, write, read of the deposits repository implements   *)
(* DepositStore, for any number of deposits and of calls that overlap and  *)
(* wherever a request fails.                                               *)
(*                                                                         *)
(* The inductive invariant is Inv: types, documents only under ids that    *)
(* were given out, a document that still shows what a call wrote to it     *)
(* until the call has read it again, and the three safety properties; a    *)
(* get never gets as far as a write.                                       *)
(***************************************************************************)
EXTENDS Deposits, TLAPS

Given ==
    /\ \A i \in Ids : docs[i] # NoDoc => i \in created
    /\ \A c \in Calls : ~IsAt(c, "idle") => call[c].id \in created

GetsOnlyRead == \A c \in Calls : IsAt(c, "checked") => call[c].kind.op # "get"

WriteStays ==
    \A c \in Calls : IsAt(c, "written") /\ docs[call[c].id] # NoDoc =>
        call[c].kind.sets \subseteq docs[call[c].id].set

Inv ==
    /\ TypeOK /\ Given /\ GetsOnlyRead /\ WriteStays
    /\ CompletedIsDated /\ NotFoundLasts /\ AnswerShowsOwnWrite

Active == [step : Steps, kind : Kinds, id : Ids, seen : Store!Doc \cup {NoDoc}]

\* A call that has left idle is a record with all its fields.
LEMMA ActiveCall ==
    ASSUME TypeOK, NEW c \in Calls, ~IsAt(c, "idle")
    PROVE  call[c] \in Active
BY DEF TypeOK, Idle, IsAt, Active

\* An update writes a status and some fields, and one that completes sets the time.
LEMMA UpdateTypes ==
    ASSUME NEW u \in Store!Updates
    PROVE  /\ u.op = "update" /\ u.status \in Store!Statuses /\ u.sets \subseteq Store!Fields
           /\ u.status = "COMPLETED" => "completedAt" \in u.sets
<1>1. CASE u \in {Store!markAsProcessing, Store!markAsFailed}
  BY <1>1 DEF Store!markAsProcessing, Store!markAsFailed, Store!Statuses, Store!Fields
<1>2. ASSUME NEW s \in Store!Statuses, NEW m \in {{}, {"statusMessage"}},
             u = Store!updateDepositStatus(s, m)
      PROVE  /\ u.op = "update" /\ u.status = s /\ u.sets \subseteq Store!Fields
             /\ u.status = "COMPLETED" => "completedAt" \in u.sets
  BY <1>2 DEF Store!updateDepositStatus, Store!Fields
<1> QED
  BY <1>1, <1>2 DEF Store!Updates

\* An update makes a document of a document, dates the one it completes, sets its own
\* fields, and leaves set those that were.
LEMMA UpdatedDoc ==
    ASSUME NEW d \in Store!Doc, NEW u \in Store!Updates
    PROVE  /\ Store!Updated(d, u) \in Store!Doc
           /\ Store!Updated(d, u).status = "COMPLETED"
                => "completedAt" \in Store!Updated(d, u).set
           /\ u.sets \subseteq Store!Updated(d, u).set
           /\ d.set \subseteq Store!Updated(d, u).set
BY UpdateTypes DEF Store!Updated, Store!Doc

\* What is shown of a document has the shape of one, and all its fields save one.
LEMMA ShownDoc ==
    ASSUME NEW d \in Store!Doc
    PROVE  /\ toResponseDto(d) \in Store!Doc
           /\ toResponseDto(d).set = d.set \ {"failureReason"}
BY DEF toResponseDto, Shown, Store!Doc, Store!Fields

LEMMA FreshDoc == Store!Fresh \in Store!Doc /\ Store!Fresh.status = "PENDING"
BY DEF Store!Fresh, Store!Doc, Store!Statuses

\* One call is at another step, and still about the same; the others are left alone.
Moved(c, step) ==
    /\ call' \in [Calls -> {Idle} \cup Active]
    /\ call'[c].step = step /\ call'[c].id = call[c].id /\ call'[c].kind = call[c].kind
    /\ \A x \in Calls \ {c} : call'[x] = call[x]

LEMMA MoveStep ==
    ASSUME TypeOK, NEW c \in Calls, ~IsAt(c, "idle"), NEW steps \in SUBSET Steps,
           MovesTo(c, steps)
    PROVE  \E step \in steps : Moved(c, step)
BY ActiveCall DEF MovesTo, Moved, TypeOK, Active

LEMMA InvInit == Init => Inv
BY DEF Init, Store!Init, OnModuleInit, Inv, TypeOK, Given, GetsOnlyRead, WriteStays, CompletedIsDated,
       NotFoundLasts, AnswerShowsOwnWrite, IsAt, Idle

LEMMA CreateStep ==
    ASSUME Inv, NEW i \in Ids, CreateDeposit(i)
    PROVE  Inv'
<1>1. /\ i \notin created /\ docs' = [docs EXCEPT ![i] = Store!Fresh]
      /\ created' = created \cup {i} /\ call' = call /\ up' = up
  BY DEF CreateDeposit, Store!Create
<1>2. TypeOK'
  BY <1>1, FreshDoc DEF Inv, TypeOK
<1>3. Given' /\ GetsOnlyRead' /\ CompletedIsDated' /\ AnswerShowsOwnWrite'
  BY <1>1, FreshDoc
     DEF Inv, TypeOK, Given, GetsOnlyRead, CompletedIsDated, AnswerShowsOwnWrite, IsAt
<1>4. \A c \in Calls : ~IsAt(c, "idle") => call[c].id \in Ids \ {i}
  BY <1>1, ActiveCall DEF Inv, Given, Active
<1>5. \A c \in Calls : ~IsAt(c, "idle") => docs'[call[c].id] = docs[call[c].id]
  BY <1>1, <1>4 DEF Inv, TypeOK
<1>6. NotFoundLasts' /\ WriteStays'
  BY <1>1, <1>5 DEF Inv, NotFoundLasts, WriteStays, IsAt
<1> QED
  BY <1>2, <1>3, <1>6 DEF Inv

LEMMA CheckStep ==
    ASSUME Inv, NEW c \in Calls, NEW i \in Ids, NEW kind \in Kinds, Check(c, i, kind)
    PROVE  Inv'
<1> PICK step \in AfterRead(i, kind) : call' = [call EXCEPT ![c] =
                     [step |-> step, kind |-> kind, id |-> i,
                      seen |-> IF step = "answered" THEN toResponseDto(docs[i]) ELSE docs[i]]]
  BY DEF Check
<1> DEFINE new == [step |-> step, kind |-> kind, id |-> i,
                   seen |-> IF step = "answered" THEN toResponseDto(docs[i]) ELSE docs[i]]
<1>1. i \in created /\ docs' = docs /\ created' = created /\ up' = up
  BY DEF Check
<1>2. /\ step \in Steps \ {"idle", "written"}
      /\ step = "notFound" => docs[i] = NoDoc
      /\ step = "answered" => kind.op = "get" /\ docs[i] # NoDoc
      /\ step = "checked" => kind.op # "get"
  BY DEF AfterRead, Steps
<1>3. new \in Active
  <2>1. docs[i] \in Store!Doc \cup {NoDoc}
    BY DEF Inv, TypeOK
  <2> QED
    BY <1>2, <2>1, ShownDoc DEF Active
<1>4. TypeOK'
  BY <1>1, <1>3 DEF Inv, TypeOK, Active
<1>5. call'[c] = new /\ \A x \in Calls \ {c} : call'[x] = call[x]
  BY DEF Inv, TypeOK
<1>6. Given' /\ GetsOnlyRead' /\ CompletedIsDated' /\ NotFoundLasts' /\ WriteStays'
  BY <1>1, <1>2, <1>5
     DEF Inv, Given, GetsOnlyRead, CompletedIsDated, NotFoundLasts, WriteStays, IsAt
<1>7. AnswerShowsOwnWrite'
  BY <1>2, <1>5 DEF Inv, AnswerShowsOwnWrite, IsAt
<1> QED
  BY <1>4, <1>6, <1>7 DEF Inv

\* A write to the document of one call, by which no deposit comes back and no field that was
\* set is lost, keeps the rest.
LEMMA WriteStep ==
    ASSUME Inv, NEW c \in Calls, ~IsAt(c, "idle"), NEW step \in Steps \ {"checked"}, Moved(c, step),
           created' = created, up' = up,
           NEW new \in Store!Doc \cup {NoDoc}, docs' = [docs EXCEPT ![call[c].id] = new],
           docs[call[c].id] = NoDoc => new = NoDoc,
           new # NoDoc => docs[call[c].id].set \subseteq new.set,
           new # NoDoc /\ new.status = "COMPLETED" => "completedAt" \in new.set,
           step = "notFound" => new = NoDoc,
           step = "written" /\ new # NoDoc => call[c].kind.sets \subseteq new.set,
           step = "answered" /\ call[c].kind.op = "update" =>
                call[c].kind.sets \ {"failureReason"} \subseteq call'[c].seen.set
    PROVE  Inv'
<1> DEFINE i == call[c].id
<1>1. i \in Ids /\ i \in created
  BY ActiveCall DEF Inv, Given, Active
<1>2. docs'[i] = new /\ \A x \in Ids \ {i} : docs'[x] = docs[x]
  BY <1>1 DEF Inv, TypeOK
<1>3. /\ call' \in [Calls -> {Idle} \cup Active]
      /\ call'[c].step = step /\ call'[c].id = i /\ call'[c].kind = call[c].kind
      /\ \A x \in Calls \ {c} : call'[x] = call[x]
  BY DEF Moved
<1>4. TypeOK'
  BY <1>3 DEF Inv, TypeOK, Active
<1>5. Given' /\ GetsOnlyRead'
  BY <1>1, <1>2, <1>3 DEF Inv, Given, GetsOnlyRead, IsAt
<1>6. CompletedIsDated'
  BY <1>2 DEF Inv, CompletedIsDated
<1>7. NotFoundLasts'
  <2> SUFFICES ASSUME NEW x \in Calls, call'[x].step = "notFound"
               PROVE  docs'[call'[x].id] = NoDoc
    BY DEF NotFoundLasts, IsAt
  <2>1. CASE x = c
    BY <1>2, <1>3, <2>1
  <2>2. CASE x # c
    <3>1. call[x].id \in Ids /\ docs[call[x].id] = NoDoc /\ call'[x] = call[x]
      BY <1>3, <2>2, ActiveCall DEF Inv, NotFoundLasts, IsAt, Active
    <3> QED
      BY <1>2, <3>1
  <2> QED
    BY <2>1, <2>2
<1>8. WriteStays'
  <2> SUFFICES ASSUME NEW x \in Calls, call'[x].step = "written",
                      docs'[call'[x].id] # NoDoc
               PROVE  call'[x].kind.sets \subseteq docs'[call'[x].id].set
    BY DEF WriteStays, IsAt
  <2>1. CASE x = c
    BY <1>2, <1>3, <2>1
  <2>2. CASE x # c
    <3>1. call[x].id \in Ids /\ call'[x] = call[x]
      BY <1>3, <2>2, ActiveCall DEF Inv, IsAt, Active
    <3>2. docs[call[x].id] # NoDoc
      BY <1>2, <3>1
    <3>3. call[x].kind.sets \subseteq docs[call[x].id].set
      BY <3>1, <3>2 DEF Inv, WriteStays, IsAt
    <3>4. CASE call[x].id = i
      BY <1>2, <3>1, <3>3, <3>4
    <3>5. CASE call[x].id # i
      BY <1>2, <3>1, <3>3, <3>5
    <3> QED
      BY <3>4, <3>5
  <2> QED
    BY <2>1, <2>2
<1>9. AnswerShowsOwnWrite'
  BY <1>3 DEF Inv, AnswerShowsOwnWrite, IsAt
<1> QED
  BY <1>4, <1>5, <1>6, <1>7, <1>8, <1>9 DEF Inv

\* What the steps of one call are to the store: nothing, an update, or a deletion; and they
\* keep the invariant.
LEMMA CallStep ==
    ASSUME Inv, NEW c \in Calls,
           WriteUpdate(c) \/ WriteRejected(c) \/ WriteDelete(c) \/ AnswerUpdate(c)
    PROVE  Inv' /\ [Store!Next]_(Store!vars)
<1> DEFINE i == call[c].id
<1>1. ~IsAt(c, "idle")
  BY DEF IsAt, Writes, WriteUpdate, WriteRejected, WriteDelete, AnswerUpdate
<1>2. i \in Ids /\ call[c].kind \in Kinds /\ docs[i] \in Store!Doc \cup {NoDoc}
  BY <1>1, ActiveCall DEF Inv, Active, TypeOK
<1>3. docs = [docs EXCEPT ![i] = docs[i]]
  BY <1>2 DEF Inv, TypeOK
<1>4. CASE WriteUpdate(c)
  <2> DEFINE new == Store!Updated(docs[i], call[c].kind)
  <2>1. call[c].kind \in Store!Updates /\ docs[i] \in Store!Doc
    <3>1. call[c].kind.op # "delete" /\ call[c].kind.op # "get" /\ docs[i] # NoDoc
      BY <1>4 DEF WriteUpdate, Writes, Inv, GetsOnlyRead
    <3>2. Lookup.op = "get" /\ Deletion.op = "delete"
      BY DEF Lookup, Deletion
    <3>3. call[c].kind \in Store!Updates \cup {Lookup, Deletion}
      BY <1>2, DepositsAssumption
    <3> QED
      BY <1>2, <3>1, <3>2, <3>3
  <2>2. Store!Update(i)
    BY <1>4, <2>1 DEF WriteUpdate, Store!Update
  <2>3. PICK step \in Sent("written") : Moved(c, step)
    BY <1>1, <1>4, MoveStep DEF WriteUpdate, Sent, Steps, Inv
  <2>4. step \in {"rejected", "written"}
    BY DEF Sent
  <2>5. /\ docs' = [docs EXCEPT ![i] = new] /\ docs[i] # NoDoc
        /\ created' = created /\ up' = up
    BY <1>4 DEF WriteUpdate
  <2>6. /\ new \in Store!Doc
        /\ new.status = "COMPLETED" => "completedAt" \in new.set
        /\ call[c].kind.sets \subseteq new.set
        /\ docs[i].set \subseteq new.set
    BY <2>1, UpdatedDoc
  <2> HIDE DEF new
  <2>7. Inv'
    BY <1>1, <2>3, <2>4, <2>5, <2>6, WriteStep DEF Steps
  <2> QED
    BY <1>2, <2>2, <2>7 DEF Store!Next
<1>5. CASE WriteDelete(c)
  <2>1. PICK step \in Sent("answered") : Moved(c, step)
    BY <1>1, <1>5, MoveStep DEF WriteDelete, Sent, Steps, Inv
  <2>2. step \in {"rejected", "answered"}
    BY DEF Sent
  <2>3. call[c].kind.op # "update"
    BY <1>5 DEF WriteDelete
  <2>4. Inv'
    BY <1>1, <1>5, <2>1, <2>2, <2>3, WriteStep DEF WriteDelete, Steps
  <2>5. docs[i] # NoDoc => Store!Delete(i)
    BY <1>5 DEF WriteDelete, Store!Delete
  <2>6. docs[i] = NoDoc => UNCHANGED Store!vars
    BY <1>3, <1>5 DEF WriteDelete, Store!vars
  <2> QED
    BY <1>2, <2>4, <2>5, <2>6 DEF Store!Next
<1>6. CASE WriteRejected(c)
  <2>1. Moved(c, "rejected")
    BY <1>1, <1>6, MoveStep DEF WriteRejected, Steps, Inv
  <2>2. docs' = docs /\ created' = created /\ up' = up
    BY <1>6 DEF WriteRejected
  <2>3. Inv'
    BY <1>1, <1>2, <1>3, <2>1, <2>2, WriteStep DEF Inv, CompletedIsDated, Steps
  <2> QED
    BY <2>2, <2>3 DEF Store!vars
<1>7. CASE AnswerUpdate(c)
  <2>1. PICK step \in Sent(IF docs[i] = NoDoc THEN "notFound" ELSE "answered") :
            call' = [call EXCEPT ![c].step = step,
                       ![c].seen = IF step = "answered" THEN toResponseDto(docs[i]) ELSE docs[i]]
    BY <1>7 DEF AnswerUpdate
  <2>2. /\ step \in {"rejected", "notFound", "answered"}
        /\ step = "notFound" => docs[i] = NoDoc
        /\ step = "answered" => docs[i] # NoDoc
    BY DEF Sent
  <2> DEFINE shown == IF step = "answered" THEN toResponseDto(docs[i]) ELSE docs[i]
  <2>3. Moved(c, step) /\ call'[c].seen = shown
    <3>1. shown \in Store!Doc \cup {NoDoc}
      BY <1>2, <2>2, ShownDoc
    <3>2. call' = [call EXCEPT ![c].step = step, ![c].seen = shown]
      BY <2>1
    <3> HIDE DEF shown
    <3> QED
      BY <1>1, <2>2, <3>1, <3>2, ActiveCall DEF Moved, Inv, TypeOK, Active, Steps
  <2>4. docs' = docs /\ created' = created /\ up' = up
    BY <1>7 DEF AnswerUpdate
  <2>5. step = "answered" => call[c].kind.sets \ {"failureReason"} \subseteq call'[c].seen.set
    <3>1. CASE step = "answered"
      <4>1. call[c].kind.sets \subseteq docs[i].set /\ docs[i] # NoDoc
        BY <1>7, <2>2, <3>1 DEF AnswerUpdate, Inv, WriteStays
      <4>2. call'[c].seen.set = docs[i].set \ {"failureReason"}
        BY <1>2, <2>3, <3>1, <4>1, ShownDoc
      <4> QED
        BY <4>1, <4>2
    <3> QED
      BY <3>1
  <2>6. Inv'
    BY <1>1, <1>2, <1>3, <2>2, <2>3, <2>4, <2>5, WriteStep DEF Inv, CompletedIsDated, Steps
  <2> QED
    BY <2>4, <2>6 DEF Store!vars
<1> QED
  BY <1>4, <1>5, <1>6, <1>7

\* Every step keeps the invariant and is a step of the store or changes nothing in it.
LEMMA StepImplements ==
    ASSUME Inv, [Next]_vars
    PROVE  Inv' /\ [Store!Next]_(Store!vars)
<1>1. ASSUME NEW i \in Ids, CreateDeposit(i)
      PROVE  Inv' /\ [Store!Next]_(Store!vars)
  BY <1>1, CreateStep DEF CreateDeposit, Store!Next
<1>2. ASSUME NEW c \in Calls, NEW i \in Ids, NEW kind \in Kinds, Check(c, i, kind)
      PROVE  Inv' /\ [Store!Next]_(Store!vars)
  BY <1>2, CheckStep DEF Check, Store!vars
<1>3. CASE OnModuleDestroy \/ UNCHANGED vars
  BY <1>3 DEF OnModuleDestroy, vars, Store!vars, Inv, TypeOK, Given, GetsOnlyRead, WriteStays,
              CompletedIsDated, NotFoundLasts, AnswerShowsOwnWrite, IsAt
<1> QED
  BY <1>1, <1>2, <1>3, CallStep DEF Next

LEMMA InvAlways == Spec => []Inv
<1>1. Inv /\ [Next]_vars => Inv'
  BY StepImplements
<1> QED
  BY InvInit, <1>1, PTL DEF Spec

\* The repository implements the store: overlapping updates never undo each other's fields
\* and never bring a deleted deposit back, and a request that fails leaves no half update.
THEOREM Implements == Spec => StorePromise
<1>1. Init => Store!Init
  BY DEF Init
<1>2. Inv /\ [Next]_vars => [Store!Next]_(Store!vars)
  BY StepImplements
<1> QED
  BY <1>1, <1>2, InvAlways, PTL DEF Spec, StorePromise, Store!Spec

\* The types of the deposits and of the calls.
THEOREM DepositTypes == Spec => []TypeOK
<1>1. Inv => TypeOK
  BY DEF Inv
<1> QED
  BY <1>1, InvAlways, PTL

\* A deposit is never COMPLETED without its time.
THEOREM CompletionIsDated == Spec => []CompletedIsDated
<1>1. Inv => CompletedIsDated
  BY DEF Inv
<1> QED
  BY <1>1, InvAlways, PTL

\* A 404 on a deposit that existed is final.
THEOREM NotFoundIsFinal == Spec => []NotFoundLasts
<1>1. Inv => NotFoundLasts
  BY DEF Inv
<1> QED
  BY <1>1, InvAlways, PTL

\* Nothing an update recorded is missing in the answer to it, whatever was written
\* meanwhile: the reference, the time of the completion, and the message, which for a
\* failure is its reason, are shown although failureReason is not.
THEOREM OwnWriteIsShown == Spec => []AnswerShowsOwnWrite
<1>1. Inv => AnswerShowsOwnWrite
  BY DEF Inv
<1> QED
  BY <1>1, InvAlways, PTL
=============================================================================
