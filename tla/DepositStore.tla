---------------------------- MODULE DepositStore ----------------------------
(***************************************************************************)
(* What the deposits repository promises its callers: a deposit appears    *)
(* once, PENDING; it changes only by one whole documented update of what   *)
(* it then is; and once deleted it stays deleted.                          *)
(***************************************************************************)
CONSTANTS
    Ids,                \* ids of deposits
    NoDoc               \* no document under an id

VARIABLES
    docs,               \* id -> its document, or NoDoc
    created             \* the ids that were given out

vars == <<docs, created>>

Statuses == {"PENDING", "PROCESSING", "COMPLETED", "FAILED", "CANCELLED"}

\* The optional fields that some update sets; nothing sets metadata after the creation.
Fields == {"externalReferenceId", "statusMessage", "failureReason", "completedAt"}

\* The status, and the optional fields that are set.
Doc == [status : Statuses, set : SUBSET Fields]

Fresh == [status |-> "PENDING", set |-> {}]

\* The updates of the service, as the status and the fields they write.  The message of
\* updateDepositStatus (and so of markAsCompleted) may be missing.
markAsProcessing == [op |-> "update", status |-> "PROCESSING", sets |-> {"externalReferenceId"}]

markAsFailed ==
    [op |-> "update", status |-> "FAILED", sets |-> {"failureReason", "statusMessage"}]

updateDepositStatus(status, message) ==
    [op |-> "update", status |-> status,
     sets |-> message \cup IF status = "COMPLETED" THEN {"completedAt"} ELSE {}]

Updates ==
    {markAsProcessing, markAsFailed}
        \cup {updateDepositStatus(s, m) : s \in Statuses, m \in {{}, {"statusMessage"}}}

\* The document d after an update: the fields it names are written, the others stay.
Updated(d, u) == [status |-> u.status, set |-> d.set \cup u.sets]

Init ==
    /\ docs = [i \in Ids |-> NoDoc]
    /\ created = {}

Create(i) ==
    /\ i \notin created
    /\ docs' = [docs EXCEPT ![i] = Fresh]
    /\ created' = created \cup {i}

Update(i) ==
    /\ docs[i] # NoDoc
    /\ \E u \in Updates : docs' = [docs EXCEPT ![i] = Updated(docs[i], u)]
    /\ UNCHANGED created

Delete(i) ==
    /\ docs[i] # NoDoc
    /\ docs' = [docs EXCEPT ![i] = NoDoc]
    /\ UNCHANGED created

Next == \E i \in Ids : Create(i) \/ Update(i) \/ Delete(i)

Spec == Init /\ [][Next]_vars
=============================================================================
