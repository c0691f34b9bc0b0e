------------------------------ MODULE Deposits ------------------------------
(***************************************************************************)
(* DepositsService and the Firestore repository behind it.  An update is   *)
(* three requests to Firestore with awaits in between: it reads the        *)
(* document to see that it is there, writes the fields it changes, and     *)
(* reads the document again for its answer.  Nothing ties the three        *)
(* together, so the requests of other calls fall in between, and any of    *)
(* the three may fail after the ones before it took effect.                *)
(*                                                                         *)
(* Firestore is external: update writes the named fields of the document   *)
(* that is there at that moment and rejects if there is none, delete       *)
(* succeeds in either case, and a new uuid is never given out twice.  Any  *)
(* request may be rejected, and a write may have been applied although its *)
(* answer was lost.                                                        *)
(***************************************************************************)
EXTENDS Integers

CONSTANTS
    Ids,                \* ids of deposits
    Calls,              \* calls of the service on an existing deposit; each is made once
    Kinds,              \* what calls do: updates, a lookup, a deletion
    NoDoc               \* no document under an id

VARIABLES
    docs,               \* the collection: id -> its document, or NoDoc
    created,            \* the ids that were given out
    call,               \* what each call does, to which deposit, how far it is, and
                        \* what it read last: once it is answered, as it is answered
    up                  \* FirebaseService has its client, and has not shut it down

vars == <<docs, created, call, up>>

Store == INSTANCE DepositStore

Lookup == [op |-> "get"]
Deletion == [op |-> "delete"]

ASSUME DepositsAssumption ==
    /\ NoDoc \notin Store!Doc
    /\ Kinds \subseteq Store!Updates \cup {Lookup, Deletion}

Steps == {"checked", "written", "answered", "notFound", "rejected"}
Idle == [step |-> "idle"]

\* Without a complete configuration, or if the client cannot be made, there is none.
OnModuleInit == up \in BOOLEAN

Init ==
    /\ Store!Init
    /\ call = [c \in Calls |-> Idle]
    /\ OnModuleInit

\* app.delete(): no request succeeds from here on.
OnModuleDestroy ==
    /\ up
    /\ up' = FALSE
    /\ UNCHANGED <<docs, created, call>>

\* set() was applied.  Whether the caller learns the id or the answer is lost, the deposit
\* is there; a set() that was not applied changes nothing.
CreateDeposit(i) ==
    /\ up
    /\ Store!Create(i)
    /\ UNCHANGED <<call, up>>

\* What a caller is shown of a deposit: all that updates set, save the reason of a failure
\* (which markAsFailed puts into the message, too).
Shown == Store!Fields \ {"failureReason"}

\* Broken variant: the message is left out, too.
toResponseDtoUnexplained(d) == [d EXCEPT !.set = @ \cap (Shown \ {"statusMessage"})]

toResponseDto(d) == [d EXCEPT !.set = @ \cap Shown]

\* What the first read of a call leads to.
AfterRead(i, kind) ==
    {"rejected"} \cup
    IF ~up THEN {}
    ELSE IF docs[i] = NoDoc THEN {"notFound"}
    ELSE IF kind.op = "get" THEN {"answered"}
    ELSE {"checked"}

\* The one read of a get and the first of update and of delete, on an id that was given out.
Check(c, i, kind) ==
    /\ call[c] = Idle
    /\ i \in created
    /\ \E step \in AfterRead(i, kind) :
        call' = [call EXCEPT ![c] =
            [step |-> step, kind |-> kind, id |-> i,
             seen |-> IF step = "answered" THEN toResponseDto(docs[i]) ELSE docs[i]]]
    /\ UNCHANGED <<docs, created, up>>

IsAt(c, step) == call[c].step = step

\* A call moves on to one of these steps.
MovesTo(c, steps) == \E step \in steps : call' = [call EXCEPT ![c].step = step]

Writes(c) == IsAt(c, "checked") /\ call[c].kind.op # "delete"

\* The steps a call may be at once its write is applied: the answer may be lost.
Sent(step) == {"rejected"} \cup IF up THEN {step} ELSE {}

\* Broken variants: the whole document is written back as it was read, as the repository
\* on local storage does; a COMPLETED status is written without its time.
WriteUpdateWhole(c) ==
    /\ Writes(c)
    /\ docs' = [docs EXCEPT ![call[c].id] = Store!Updated(call[c].seen, call[c].kind)]
    /\ MovesTo(c, Sent("written"))
    /\ UNCHANGED <<created, up>>
WriteUpdateUndated(c) ==
    /\ Writes(c)
    /\ docs[call[c].id] # NoDoc
    /\ docs' = [docs EXCEPT ![call[c].id].status = call[c].kind.status]
    /\ MovesTo(c, Sent("written"))
    /\ UNCHANGED <<created, up>>

\* docRef.update: the fields of the update are merged into the document of this moment.
WriteUpdate(c) ==
    /\ Writes(c)
    /\ docs[call[c].id] # NoDoc
    /\ docs' = [docs EXCEPT ![call[c].id] = Store!Updated(docs[call[c].id], call[c].kind)]
    /\ MovesTo(c, Sent("written"))
    /\ UNCHANGED <<created, up>>

\* A write that is not applied, because the document went away after the check or the
\* request failed: the caller gets a 500.
WriteRejected(c) ==
    /\ IsAt(c, "checked")
    /\ MovesTo(c, {"rejected"})
    /\ UNCHANGED <<docs, created, up>>

\* Broken variant: the document is marked and stays.
WriteDeleteSoftly(c) ==
    /\ IsAt(c, "checked")
    /\ call[c].kind.op = "delete"
    /\ docs[call[c].id] # NoDoc
    /\ docs' = [docs EXCEPT ![call[c].id].status = "DELETED"]
    /\ MovesTo(c, Sent("answered"))
    /\ UNCHANGED <<created, up>>

\* docRef.delete, which does not mind if the document is gone by now.
WriteDelete(c) ==
    /\ IsAt(c, "checked")
    /\ call[c].kind.op = "delete"
    /\ docs' = [docs EXCEPT ![call[c].id] = NoDoc]
    /\ MovesTo(c, Sent("answered"))
    /\ UNCHANGED <<created, up>>

\* Broken variant: the answer is what the call read before it wrote.
AnswerUpdateEarlier(c) ==
    /\ IsAt(c, "written")
    /\ MovesTo(c, Sent(IF docs[call[c].id] = NoDoc THEN "notFound" ELSE "answered"))
    /\ UNCHANGED <<docs, created, up>>

\* The second read: what is there now is shown, and a 404 answered if nothing is.
AnswerUpdate(c) ==
    /\ IsAt(c, "written")
    /\ LET now == docs[call[c].id]
       IN  \E step \in Sent(IF now = NoDoc THEN "notFound" ELSE "answered") :
             call' = [call EXCEPT ![c].step = step,
                        ![c].seen = IF step = "answered" THEN toResponseDto(now) ELSE now]
    /\ UNCHANGED <<docs, created, up>>

Next ==
    \/ OnModuleDestroy
    \/ \E i \in Ids : CreateDeposit(i)
    \/ \E c \in Calls :
        \/ \E i \in Ids, kind \in Kinds : Check(c, i, kind)
        \/ WriteUpdate(c) \/ WriteRejected(c) \/ WriteDelete(c) \/ AnswerUpdate(c)

Spec == Init /\ [][Next]_vars
-----------------------------------------------------------------------------
(* Properties *)

TypeOK ==
    /\ docs \in [Ids -> Store!Doc \cup {NoDoc}]
    /\ created \subseteq Ids
    /\ call \in [Calls ->
        {Idle} \cup [step : Steps, kind : Kinds, id : Ids, seen : Store!Doc \cup {NoDoc}]]
    /\ up \in BOOLEAN

\* The three unguarded requests of an update add up to one update or to none, wherever one
\* of them fails: no call undoes what another wrote to other fields meanwhile, or brings a
\* deleted deposit back.
StorePromise == Store!Spec

\* "Status updated to COMPLETED with completedAt timestamp": also when updates of the same
\* deposit overlap, it is never COMPLETED without its time.
CompletedIsDated ==
    \A i \in Ids : docs[i] # NoDoc /\ docs[i].status = "COMPLETED" => "completedAt" \in docs[i].set

\* A 404 on a deposit that had been created is never contradicted, whichever other calls
\* were between their check and their write when it was given: the deposit is gone.
NotFoundLasts ==
    \A c \in Calls : IsAt(c, "notFound") => docs[call[c].id] = NoDoc

\* An update answers with a document read after its write, which other calls may have
\* changed again: the status shown, and the text of a message, may be theirs, but none of
\* what the update recorded is missing (the reference; the time of the completion; a
\* message, or the reason of a failure in its place).  Only the field failureReason itself
\* is shown to nobody.
AnswerShowsOwnWrite ==
    \A c \in Calls : IsAt(c, "answered") /\ call[c].kind.op = "update" =>
        call[c].kind.sets \ {"failureReason"} \subseteq call[c].seen.set
=============================================================================
