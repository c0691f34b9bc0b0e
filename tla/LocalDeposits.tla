---------------------------- MODULE LocalDeposits ----------------------------
(***************************************************************************)
(* DepositLocalRepository, which stands in for the repository on Firestore *)
(* in tests.  An update reads the deposit, writes the whole deposit back   *)
(* with its changes, and reads it again, with awaits in between.  Other    *)
(* users of the storage open, drop and save it meanwhile, and the process  *)
(* may end.  What calls answer is the subject of Deposits.                 *)
(***************************************************************************)
EXTENDS LocalStorage

CONSTANTS
    Calls,              \* callers; each makes one call after the other
    Kinds               \* what their calls do: some of the updates, a deletion

VARIABLES
    created,            \* the ids that were given out
    call                \* what each caller's call does, to which deposit, and how far it is

vars == <<process, data, file, saveTimeout, autoSaveInterval, lapse, created, call>>

Store == INSTANCE DepositStore WITH docs <- data.documents

ASSUME LocalDepositsAssumption ==
    /\ Document = Store!Doc
    /\ Kinds \subseteq Store!Updates \cup {[op |-> "delete"]}

Idle == [step |-> "idle"]

Init ==
    /\ StorageInit
    /\ created = {}
    /\ call = [c \in Calls |-> Idle]

Create(i) ==
    /\ Running
    /\ i \notin created
    /\ created' = created \cup {i}
    /\ _setDocument(i, Store!Fresh)
    /\ UNCHANGED <<process, autoSaveInterval, call>>

\* The first read of update and of delete; a deposit that is not there ends the call.
Check(c, i, kind) ==
    /\ Running
    /\ call[c] = Idle
    /\ data.documents[i] # NoDoc
    /\ call' = [call EXCEPT ![c] =
        [step |-> "checked", kind |-> kind, id |-> i, seen |-> data.documents[i]]]
    /\ UNCHANGED <<storage, created>>

IsAt(c, step) == call[c].step = step

\* Broken variants: only the fields of the update are written back; a COMPLETED status is
\* written without its time.
WriteUpdatePatch(c) ==
    /\ Running
    /\ IsAt(c, "checked")
    /\ call[c].kind.op # "delete"
    /\ _setDocument(call[c].id, [status |-> call[c].kind.status])
    /\ call' = [call EXCEPT ![c] = [step |-> "written"]]
    /\ UNCHANGED <<process, autoSaveInterval, created>>

WriteUpdateUndated(c) ==
    /\ Running
    /\ IsAt(c, "checked")
    /\ call[c].kind.op # "delete"
    /\ _setDocument(call[c].id, [call[c].seen EXCEPT !.status = call[c].kind.status])
    /\ call' = [call EXCEPT ![c] = [step |-> "written"]]
    /\ UNCHANGED <<process, autoSaveInterval, created>>

\* The deposit that was read goes back whole, whatever became of it meanwhile.
WriteUpdate(c) ==
    /\ Running
    /\ IsAt(c, "checked")
    /\ call[c].kind.op # "delete"
    /\ _setDocument(call[c].id, Store!Updated(call[c].seen, call[c].kind))
    /\ call' = [call EXCEPT ![c] = [step |-> "written"]]
    /\ UNCHANGED <<process, autoSaveInterval, created>>

WriteDelete(c) ==
    /\ Running
    /\ IsAt(c, "checked")
    /\ call[c].kind.op = "delete"
    /\ _deleteDocument(call[c].id)
    /\ call' = [call EXCEPT ![c] = Idle]
    /\ UNCHANGED <<process, autoSaveInterval, created>>

\* The second read, for the answer.
AnswerUpdate(c) ==
    /\ Running
    /\ IsAt(c, "written")
    /\ call' = [call EXCEPT ![c] = Idle]
    /\ UNCHANGED <<storage, created>>

ClearAll ==
    /\ Running
    /\ clear
    /\ UNCHANGED <<process, autoSaveInterval, created, call>>

\* The calls that were under way die with the process.
End ==
    /\ Exit
    /\ call' = [c \in Calls |-> Idle]
    /\ UNCHANGED created

OfStorage ==
    /\ AutoSave \/ ForceSave \/ Open \/ Drop \/ Start \/ Destroy
    /\ UNCHANGED <<created, call>>

Next ==
    \/ \E i \in Ids : Create(i)
    \/ \E c \in Calls :
        \/ \E i \in Ids, kind \in Kinds : Check(c, i, kind)
        \/ WriteUpdate(c) \/ WriteDelete(c) \/ AnswerUpdate(c)
    \/ ClearAll \/ End \/ OfStorage

Spec == Init /\ [][Next]_vars
-----------------------------------------------------------------------------
(* Properties *)

TypeOK ==
    /\ process \in {"up", "closing", "down"}
    /\ data \in Storage
    /\ file \in SUBSET Storage /\ \A d, e \in file : d = e
    /\ saveTimeout \in {"null", "armed", "stale"}
    /\ autoSaveInterval \in {0, 1000}
    /\ lapse \in BOOLEAN
    /\ created \subseteq Ids
    /\ call \in [Calls -> {Idle, [step |-> "written"]}
                    \cup [step : {"checked"}, kind : Kinds, id : Ids, seen : Document]]

\* count() answers with the number that is kept beside the documents: it is the number of
\* documents, in memory and in every file a later process may load, and a collection that
\* is not there has none.
CountIsExact ==
    \A d \in {data} \cup file :
        /\ d.documentCount = Count(d.documents)
        /\ ~d.collection => d.documentCount = 0

\* A change is on disk or a timer is armed that will write it, whatever calls and saves
\* came in which order ("0 = immediate save", local-storage.interface.ts:11).  The three
\* exceptions the code makes: a failed save is not repeated, clear() saves nothing, and
\* once onModuleDestroy has run nothing is sure any more.
SaveIsComing ==
    process = "up" /\ ~lapse => file = {data} \/ saveTimeout = "armed"

\* "should persist deposits across service restarts": a process that ends with no timer
\* pending, and whose last save was good, is followed by one that starts with exactly its
\* deposits, also if it ended without notice or wrote after onModuleDestroy.
RestartRestores ==
    [][process = "down" /\ process' = "up" /\ ~lapse /\ saveTimeout = "null"
        => data'.documents = data.documents]_vars

\* A deposit is never COMPLETED without its completedAt: not after updates that wrote each
\* other's deposits over, and not after a restart.
CompletedIsDated ==
    \A d \in {data} \cup file : \A i \in Ids :
        d.documents[i] # NoDoc /\ d.documents[i].status = "COMPLETED"
            => "completedAt" \in d.documents[i].set
=============================================================================
