---------------------------- MODULE LocalStorage ----------------------------
(***************************************************************************)
(* LocalStorageService and LocalCollection: documents in memory, written   *)
(* as a whole to one JSON file.  With autoSaveInterval 0 every change is   *)
(* saved at once, otherwise the first unsaved change arms a timer.  The    *)
(* process may end at any moment, also in the middle of a save, and starts *)
(* again from what can be read of the file.                                *)
(*                                                                         *)
(* One collection is modelled; the operations of different collections     *)
(* meet only in the file, which holds them all.  The code runs on one      *)
(* thread: an action is what a call does between two awaits.               *)
(***************************************************************************)
EXTENDS Integers, FiniteSets

CONSTANTS
    Ids,                \* ids of documents
    Document,           \* what a document may hold
    NoDoc               \* no document under an id

ASSUME LocalStorageAssumption ==
    /\ IsFiniteSet(Ids)
    /\ NoDoc \notin Document

VARIABLES
    process,            \* "up", "closing" once onModuleDestroy has run, or "down"
    data,               \* the collection in memory; while down, as the process left it
    file,               \* what can be read of the file: the one storage in it, or nothing
    saveTimeout,        \* no timer, an armed one, or one that was cleared but is still held
    autoSaveInterval,   \* 0, or the interval
    lapse               \* history: the last save failed or was torn, or clear() came after it

storage == <<process, data, file, saveTimeout, autoSaveInterval, lapse>>

Documents == [Ids -> Document \cup {NoDoc}]
Storage == [collection : BOOLEAN, documents : Documents, documentCount : Nat]

createEmptyStorage ==
    [collection |-> FALSE, documents |-> [i \in Ids |-> NoDoc], documentCount |-> 0]

createEmptyCollection == [createEmptyStorage EXCEPT !.collection = TRUE]

Count(documents) == Cardinality({i \in Ids : documents[i] # NoDoc})

StorageInit ==
    /\ process = "down"
    /\ data = createEmptyStorage
    /\ file = {}
    /\ saveTimeout = "null"
    /\ autoSaveInterval \in {0, 1000}
    /\ lapse = FALSE

Running == process \in {"up", "closing"}

-----------------------------------------------------------------------------
(* Saving *)

\* The file is rewritten in place: a save that fails leaves it as it was or unreadable.
save(storageToSave) ==
    \/ file' = {storageToSave} /\ lapse' = FALSE
    \/ file' \in {file, {}} /\ lapse' = TRUE

\* A failed save is logged and not repeated.
scheduleSave(changed) ==
    IF autoSaveInterval = 0 THEN save(changed) /\ UNCHANGED saveTimeout
    ELSE /\ saveTimeout' = IF saveTimeout = "null" THEN "armed" ELSE saveTimeout
         /\ UNCHANGED <<file, lapse>>

Change(changed) == data' = changed /\ scheduleSave(changed)

\* Broken variant: the callback does not forget the timer it ran from.
AutoSaveKept ==
    /\ Running
    /\ saveTimeout = "armed"
    /\ saveTimeout' = "stale"
    /\ save(data)
    /\ UNCHANGED <<process, data, autoSaveInterval>>

\* The timer fires.
AutoSave ==
    /\ Running
    /\ saveTimeout = "armed"
    /\ saveTimeout' = "null"
    /\ save(data)
    /\ UNCHANGED <<process, data, autoSaveInterval>>

\* save() and healthCheck().
ForceSave ==
    /\ Running
    /\ save(data)
    /\ UNCHANGED <<process, data, saveTimeout, autoSaveInterval>>

-----------------------------------------------------------------------------
(* The collection *)

Stored(documents) ==
    [collection |-> TRUE, documents |-> documents, documentCount |-> Count(documents)]

\* A document for a collection that is not there any more is dropped without a word.
_setDocument(i, document) ==
    IF data.collection THEN Change(Stored([data.documents EXCEPT ![i] = document]))
    ELSE UNCHANGED <<data, file, saveTimeout, lapse>>

\* Broken variant: the number of documents is not brought up to date.
_deleteDocumentUncounted(i) ==
    IF data.documents[i] # NoDoc
    THEN Change([data EXCEPT !.documents[i] = NoDoc])
    ELSE UNCHANGED <<data, file, saveTimeout, lapse>>

_deleteDocument(i) ==
    IF data.documents[i] # NoDoc
    THEN Change(Stored([data.documents EXCEPT ![i] = NoDoc]))
    ELSE UNCHANGED <<data, file, saveTimeout, lapse>>

\* LocalCollection.clear, which schedules no save.
clear ==
    /\ data' = [data EXCEPT !.documents = createEmptyStorage.documents, !.documentCount = 0]
    /\ lapse' = (lapse \/ data' # data)
    /\ UNCHANGED <<file, saveTimeout>>

\* collection(), for whoever asks for it by name.
Open ==
    /\ Running
    /\ ~data.collection
    /\ Change(createEmptyCollection)
    /\ UNCHANGED <<process, autoSaveInterval>>

\* clearAll and deleteCollection: the wrappers that callers hold stay behind.
Drop ==
    /\ Running
    /\ Change(createEmptyStorage)
    /\ UNCHANGED <<process, autoSaveInterval>>

-----------------------------------------------------------------------------
(* The life of the process *)

\* loadOrCreateStorage: a file that cannot be read counts as none.
Loadable == IF file = {} THEN {createEmptyStorage} ELSE file

\* Broken variant: the collection is made anew whether it was loaded or not.
StartOver ==
    /\ process = "down"
    /\ process' = "up"
    /\ data' = createEmptyCollection
    /\ IF autoSaveInterval = 0
       THEN save(createEmptyCollection) /\ saveTimeout' = "null"
       ELSE saveTimeout' = "armed" /\ lapse' = FALSE /\ UNCHANGED file
    /\ UNCHANGED autoSaveInterval

\* The constructor, and collection() for the repository that is then built on it.
Start ==
    /\ process = "down"
    /\ process' = "up"
    /\ \E loaded \in Loadable :
        IF loaded.collection
        THEN data' = loaded /\ saveTimeout' = "null" /\ lapse' = FALSE /\ UNCHANGED file
        ELSE /\ data' = createEmptyCollection
             /\ IF autoSaveInterval = 0
                THEN save(createEmptyCollection) /\ saveTimeout' = "null"
                ELSE saveTimeout' = "armed" /\ lapse' = FALSE /\ UNCHANGED file
    /\ UNCHANGED autoSaveInterval

\* onModuleDestroy: the timer is cleared but not forgotten.  Requests that are under way
\* go on.
Destroy ==
    /\ process = "up"
    /\ process' = "closing"
    /\ saveTimeout' = IF saveTimeout = "armed" THEN "stale" ELSE saveTimeout
    /\ save(data)
    /\ UNCHANGED <<data, autoSaveInterval>>

\* The process ends: between two steps, or in the middle of a save, which tears the file.
Exit ==
    /\ Running
    /\ process' = "down"
    /\ \/ UNCHANGED <<file, lapse>>
       \/ file' = {} /\ lapse' = TRUE
    /\ UNCHANGED <<data, saveTimeout, autoSaveInterval>>
=============================================================================
