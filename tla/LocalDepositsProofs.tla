------------------------- MODULE LocalDepositsProofs -------------------------
(***************************************************************************)
(* The local storage keeps its counts exact, saves what it should, gives   *)
(* it back after a restart, and holds no COMPLETED deposit without its     *)
(* time, for any number of deposits and callers.                           *)
(* The argument rests on Settled: with no timer pending and no lapse, the  *)
(* file holds exactly what is in memory.  Every action either saves, or    *)
(* arms a timer, or counts as a lapse, or leaves memory and file alone.    *)
(***************************************************************************)
EXTENDS LocalDeposits, FiniteSetTheorems, TLAPS

\* Storages in which the number that is kept is the number of documents.
Exact ==
    {d \in Storage : /\ d.documentCount = Count(d.documents)
                     /\ ~d.collection => d.documentCount = 0}

Settled ==
    ~lapse /\ saveTimeout = "null" =>
        \/ file = {data}
        \/ process = "down" /\ file = {} /\ data = createEmptyStorage

\* The part of the invariant that is about the storage.
StorageInv ==
    /\ process \in {"up", "closing", "down"}
    /\ data \in Exact
    /\ file \in SUBSET Exact
    /\ \A d, e \in file : d = e
    /\ saveTimeout \in {"null", "armed", "stale"}
    /\ process = "up" => saveTimeout # "stale"
    /\ autoSaveInterval \in {0, 1000}
    /\ lapse \in BOOLEAN
    /\ Settled

\* The part that is about the calls.
CallsInv ==
    /\ created \subseteq Ids
    /\ call \in [Calls -> {Idle, [step |-> "written"]}
                    \cup [step : {"checked"}, kind : Kinds, id : Ids, seen : Document]]

Inv == StorageInv /\ CallsInv

-----------------------------------------------------------------------------
(* Storages *)

\* A number of documents is a number.
LEMMA CountIsNat ==
    ASSUME NEW documents
    PROVE  Count(documents) \in Nat
<1>1. {i \in Ids : documents[i] # NoDoc} \subseteq Ids /\ IsFiniteSet(Ids)
  BY LocalStorageAssumption
<1> QED
  BY <1>1, FS_Subset, FS_CardinalityType DEF Count

\* The empty storage and the empty collection are exact.
LEMMA EmptyIsExact ==
    createEmptyStorage \in Exact /\ createEmptyCollection \in Exact
<1>1. Count([i \in Ids |-> NoDoc]) = 0
  <2>1. {i \in Ids : [j \in Ids |-> NoDoc][i] # NoDoc} = {}
    OBVIOUS
  <2> QED
    BY <2>1, FS_EmptySet DEF Count
<1>2. [i \in Ids |-> NoDoc] \in Documents
  BY DEF Documents
<1> QED
  BY <1>1, <1>2 DEF createEmptyStorage, createEmptyCollection, Exact, Storage

\* Whatever is stored in an open collection is counted.
LEMMA StoredIsExact ==
    ASSUME NEW documents \in Documents
    PROVE  Stored(documents) \in Exact
BY CountIsNat DEF Stored, Exact, Storage

\* A change to an exact storage, saved or not, keeps the invariant of the storage.
LEMMA ChangeKeeps ==
    ASSUME StorageInv, Running, NEW d \in Exact, Change(d),
           UNCHANGED <<process, autoSaveInterval>>
    PROVE  StorageInv'
<1>1. data' = d
  BY DEF Change
<1>2. CASE autoSaveInterval = 0
  <2>1. save(d) /\ saveTimeout' = saveTimeout
    BY <1>2 DEF Change, scheduleSave
  <2>2. CASE file' = {d} /\ lapse' = FALSE
    <3>1. file' \in SUBSET Exact /\ \A e, f \in file' : e = f
      BY <2>2
    <3>2. Settled' /\ lapse' \in BOOLEAN
      BY <1>1, <2>2 DEF Settled
    <3> QED
      BY <1>1, <2>1, <3>1, <3>2 DEF StorageInv
  <2>3. CASE file' \in {file, {}} /\ lapse' = TRUE
    <3>1. file' \in SUBSET Exact /\ \A e, f \in file' : e = f
      BY <2>3 DEF StorageInv
    <3> QED
      BY <1>1, <2>1, <2>3, <3>1 DEF StorageInv, Settled
  <2> QED
    BY <2>1, <2>2, <2>3 DEF save
<1>3. CASE autoSaveInterval # 0
  <2>1. /\ file' = file /\ lapse' = lapse
        /\ saveTimeout' \in {"armed", "stale"}
        /\ saveTimeout' = "stale" => saveTimeout = "stale"
    BY <1>3 DEF Change, scheduleSave, StorageInv
  <2> QED
    BY <1>1, <2>1 DEF StorageInv, Settled
<1> QED
  BY <1>2, <1>3

\* So do the two operations on documents, with or without the collection.
LEMMA SetKeeps ==
    ASSUME StorageInv, Running, NEW i \in Ids, NEW document \in Document,
           _setDocument(i, document), UNCHANGED <<process, autoSaveInterval>>
    PROVE  StorageInv'
<1>1. CASE data.collection
  <2>1. [data.documents EXCEPT ![i] = document] \in Documents
    BY DEF StorageInv, Exact, Storage, Documents
  <2>2. Change(Stored([data.documents EXCEPT ![i] = document]))
    BY <1>1 DEF _setDocument
  <2> QED
    BY <2>1, <2>2, StoredIsExact, ChangeKeeps
<1>2. CASE ~data.collection
  BY <1>2 DEF _setDocument, StorageInv, Settled
<1> QED
  BY <1>1, <1>2

LEMMA DeleteKeeps ==
    ASSUME StorageInv, Running, NEW i \in Ids,
           _deleteDocument(i), UNCHANGED <<process, autoSaveInterval>>
    PROVE  StorageInv'
<1>1. CASE data.documents[i] # NoDoc
  <2>1. [data.documents EXCEPT ![i] = NoDoc] \in Documents
    BY DEF StorageInv, Exact, Storage, Documents
  <2>2. Change(Stored([data.documents EXCEPT ![i] = NoDoc]))
    BY <1>1 DEF _deleteDocument
  <2> QED
    BY <2>1, <2>2, StoredIsExact, ChangeKeeps
<1>2. CASE data.documents[i] = NoDoc
  BY <1>2 DEF _deleteDocument, StorageInv, Settled
<1> QED
  BY <1>1, <1>2

-----------------------------------------------------------------------------
(* The invariant *)

LEMMA InvInit ==
    Init => Inv
<1> SUFFICES ASSUME Init PROVE Inv
  OBVIOUS
<1>1. StorageInv
  BY EmptyIsExact DEF Init, StorageInit, StorageInv, Settled
<1>2. CallsInv
  BY DEF Init, CallsInv
<1> QED
  BY <1>1, <1>2 DEF Inv

\* An update writes a status and some fields, and one that completes sets the time.
LEMMA UpdateTypes ==
    ASSUME NEW u \in Store!Updates
    PROVE  /\ u.op = "update" /\ u.status \in Store!Statuses /\ u.sets \subseteq Store!Fields
           /\ u.status = "COMPLETED" => "completedAt" \in u.sets
<1>1. CASE u \in {Store!markAsProcessing, Store!markAsFailed}
  BY <1>1 DEF Store!markAsProcessing, Store!markAsFailed, Store!Statuses, Store!Fields
<1>2. ASSUME NEW s \in Store!Statuses, NEW m \in {{}, {"statusMessage"}},
             u = Store!updateDepositStatus(s, m)
      PROVE  /\ u.op = "update" /\ u.status = s /\ u.sets \subseteq Store!Fields
             /\ u.status = "COMPLETED" => "completedAt" \in u.sets
  BY <1>2 DEF Store!updateDepositStatus, Store!Fields
<1> QED
  BY <1>1, <1>2 DEF Store!Updates

\* A call that is no deletion is an update.
LEMMA KindsOfCalls ==
    ASSUME NEW k \in Kinds, k.op # "delete"
    PROVE  k \in Store!Updates
BY LocalDepositsAssumption

\* What an update writes is a deposit.
LEMMA UpdatedIsDocument ==
    ASSUME NEW d \in Document, NEW u \in Store!Updates
    PROVE  Store!Updated(d, u) \in Document
<1>1. d \in Store!Doc /\ Document = Store!Doc
  BY LocalDepositsAssumption
<1> QED
  BY <1>1, UpdateTypes DEF Store!Updated, Store!Doc

\* A step that leaves the variables of the storage alone keeps their part.
LEMMA StorageStays ==
    StorageInv /\ UNCHANGED storage => StorageInv'
BY DEF storage, StorageInv, Settled

\* A save of what is in memory, now or by the timer.
LEMMA SaveKeeps ==
    ASSUME StorageInv, Running, save(data), UNCHANGED <<data, autoSaveInterval>>,
           process' = process \/ process' = "closing",
           saveTimeout' \in {"null", "armed", "stale"},
           process' = "up" => saveTimeout' # "stale"
    PROVE  StorageInv'
<1>1. file' \in SUBSET Exact /\ \A e, f \in file' : e = f
  BY DEF save, StorageInv
<1>2. Settled' /\ lapse' \in BOOLEAN
  <2>1. CASE file' = {data} /\ lapse' = FALSE
    BY <2>1 DEF Settled
  <2>2. CASE lapse' = TRUE
    BY <2>2 DEF Settled
  <2> QED
    BY <2>1, <2>2 DEF save
<1> QED
  BY <1>1, <1>2 DEF StorageInv, Running

LEMMA StartKeeps ==
    StorageInv /\ Start => StorageInv'
<1> SUFFICES ASSUME StorageInv, Start PROVE StorageInv'
  OBVIOUS
<1>1. PICK loaded \in Loadable :
        IF loaded.collection
        THEN data' = loaded /\ saveTimeout' = "null" /\ lapse' = FALSE /\ UNCHANGED file
        ELSE /\ data' = createEmptyCollection
             /\ IF autoSaveInterval = 0
                THEN save(createEmptyCollection) /\ saveTimeout' = "null"
                ELSE saveTimeout' = "armed" /\ lapse' = FALSE /\ UNCHANGED file
  BY DEF Start
<1>2. loaded \in Exact
  BY EmptyIsExact DEF Loadable, StorageInv
<1>3. process' = "up" /\ autoSaveInterval' = autoSaveInterval
  BY DEF Start
<1>4. CASE loaded.collection
  <2>1. loaded # createEmptyStorage
    BY <1>4 DEF createEmptyStorage
  <2>2. file = {loaded}
    BY <2>1 DEF Loadable, StorageInv
  <2>3. Settled'
    BY <1>1, <1>4, <2>2 DEF Settled
  <2> QED
    BY <1>1, <1>2, <1>3, <1>4, <2>3 DEF StorageInv
<1>5. CASE ~loaded.collection /\ autoSaveInterval = 0
  <2>1. /\ data' = createEmptyCollection /\ save(createEmptyCollection)
        /\ saveTimeout' = "null"
    BY <1>1, <1>5
  <2>2. file' \in SUBSET Exact /\ \A e, f \in file' : e = f
    BY <2>1, EmptyIsExact DEF save, StorageInv
  <2>3. Settled' /\ lapse' \in BOOLEAN
    <3>1. CASE file' = {createEmptyCollection} /\ lapse' = FALSE
      BY <2>1, <3>1 DEF Settled
    <3>2. CASE lapse' = TRUE
      BY <3>2 DEF Settled
    <3> QED
      BY <2>1, <3>1, <3>2 DEF save
  <2> QED
    BY <1>3, <2>1, <2>2, <2>3, EmptyIsExact DEF StorageInv
<1>6. CASE ~loaded.collection /\ autoSaveInterval # 0
  <2>1. /\ data' = createEmptyCollection /\ saveTimeout' = "armed" /\ lapse' = FALSE
        /\ file' = file
    BY <1>1, <1>6
  <2> QED
    BY <1>3, <2>1, EmptyIsExact DEF StorageInv, Settled
<1> QED
  BY <1>4, <1>5, <1>6

LEMMA InvStep ==
    Inv /\ [Next]_vars => Inv'
<1> SUFFICES ASSUME Inv, [Next]_vars PROVE Inv'
  OBVIOUS
<1>0. StorageInv /\ CallsInv
  BY DEF Inv
<1> DEFINE Checked == [step : {"checked"}, kind : Kinds, id : Ids, seen : Document]
<1>1. ASSUME NEW i \in Ids, Create(i) PROVE Inv'
  <2>1. Store!Fresh \in Document
    BY LocalDepositsAssumption DEF Store!Fresh, Store!Doc, Store!Statuses
  <2>2. StorageInv'
    BY <1>0, <1>1, <2>1, SetKeeps DEF Create
  <2>3. CallsInv'
    BY <1>0, <1>1 DEF Create, CallsInv
  <2> QED
    BY <2>2, <2>3 DEF Inv
<1>2. ASSUME NEW c \in Calls, NEW i \in Ids, NEW kind \in Kinds, Check(c, i, kind)
      PROVE  Inv'
  <2>1. data.documents[i] \in Document
    BY <1>0, <1>2 DEF Check, StorageInv, Exact, Storage, Documents
  <2>2. CallsInv'
    BY <1>0, <1>2, <2>1 DEF Check, CallsInv
  <2> QED
    BY <1>0, <1>2, <2>2, StorageStays DEF Check, Inv
<1>3. ASSUME NEW c \in Calls, IsAt(c, "checked") PROVE call[c] \in Checked
  BY <1>0, <1>3 DEF IsAt, Idle, CallsInv
<1>4. ASSUME NEW c \in Calls, WriteUpdate(c) PROVE Inv'
  <2>1. call[c] \in Checked /\ call[c].kind.op # "delete"
    BY <1>3, <1>4 DEF WriteUpdate
  <2>2. Store!Updated(call[c].seen, call[c].kind) \in Document
    BY <2>1, KindsOfCalls, UpdatedIsDocument
  <2>3. StorageInv'
    BY <1>0, <1>4, <2>1, <2>2, SetKeeps DEF WriteUpdate
  <2>4. CallsInv'
    BY <1>0, <1>4 DEF WriteUpdate, CallsInv
  <2> QED
    BY <2>3, <2>4 DEF Inv
<1>5. ASSUME NEW c \in Calls, WriteDelete(c) PROVE Inv'
  <2>1. call[c] \in Checked
    BY <1>3, <1>5 DEF WriteDelete
  <2>2. StorageInv'
    BY <1>0, <1>5, <2>1, DeleteKeeps DEF WriteDelete
  <2>3. CallsInv'
    BY <1>0, <1>5 DEF WriteDelete, CallsInv
  <2> QED
    BY <2>2, <2>3 DEF Inv
<1>6. ASSUME NEW c \in Calls, AnswerUpdate(c) PROVE Inv'
  <2>1. CallsInv'
    BY <1>0, <1>6 DEF AnswerUpdate, CallsInv
  <2> QED
    BY <1>0, <1>6, <2>1, StorageStays DEF AnswerUpdate, Inv
<1>7. CASE ClearAll
  <2>1. data' \in Exact
    <3>1. /\ createEmptyStorage.documents \in Documents
          /\ Count(createEmptyStorage.documents) = 0
      BY EmptyIsExact DEF Exact, Storage, createEmptyStorage
    <3>2. data' = [data EXCEPT !.documents = createEmptyStorage.documents,
                               !.documentCount = 0]
      BY <1>7 DEF ClearAll, clear
    <3>3. data \in Storage
      BY <1>0 DEF StorageInv, Exact
    <3>4. /\ data' \in Storage
          /\ data'.documentCount = 0
          /\ data'.documents = createEmptyStorage.documents
      BY <3>1, <3>2, <3>3 DEF Storage
    <3> QED
      BY <3>1, <3>4 DEF Exact
  <2>2. Settled' /\ lapse' \in BOOLEAN
    <3>1. CASE data' = data
      BY <1>0, <1>7, <3>1 DEF ClearAll, clear, Settled, StorageInv
    <3>2. CASE data' # data
      BY <1>7, <3>2 DEF ClearAll, clear, Settled
    <3> QED
      BY <3>1, <3>2
  <2>3. StorageInv'
    BY <1>0, <1>7, <2>1, <2>2 DEF ClearAll, clear, StorageInv
  <2> QED
    BY <1>0, <1>7, <2>3 DEF ClearAll, CallsInv, Inv
<1>8. CASE End
  <2>1. /\ process' = "down"
        /\ UNCHANGED <<data, saveTimeout, autoSaveInterval>>
        /\ UNCHANGED <<file, lapse>> \/ (file' = {} /\ lapse' = TRUE)
        /\ process # "down"
    BY <1>8 DEF End, Exit, Running
  <2>2. file' \in SUBSET Exact /\ \A d, e \in file' : d = e
    BY <1>0, <2>1 DEF StorageInv
  <2>3. Settled' /\ lapse' \in BOOLEAN
    <3>1. CASE UNCHANGED <<file, lapse>>
      BY <1>0, <2>1, <3>1 DEF StorageInv, Settled
    <3>2. CASE lapse' = TRUE
      BY <3>2 DEF Settled
    <3> QED
      BY <2>1, <3>1, <3>2
  <2>4. StorageInv'
    BY <1>0, <2>1, <2>2, <2>3 DEF StorageInv
  <2>5. CallsInv'
    BY <1>0, <1>8 DEF End, CallsInv
  <2> QED
    BY <2>4, <2>5 DEF Inv
<1>9. CASE OfStorage
  <2>1. CallsInv'
    BY <1>0, <1>9 DEF OfStorage, CallsInv
  <2>2. ASSUME AutoSave \/ ForceSave \/ Destroy PROVE StorageInv'
    <3>1. /\ Running /\ save(data) /\ UNCHANGED <<data, autoSaveInterval>>
          /\ process' = process \/ process' = "closing"
      BY <2>2 DEF AutoSave, ForceSave, Destroy, Running
    <3>2. /\ saveTimeout' \in {"null", "armed", "stale"}
          /\ process' = "up" => saveTimeout' # "stale"
      BY <1>0, <2>2 DEF AutoSave, ForceSave, Destroy, StorageInv
    <3> QED
      BY <1>0, <3>1, <3>2, SaveKeeps
  <2>3. ASSUME Open \/ Drop PROVE StorageInv'
    BY <1>0, <2>3, EmptyIsExact, ChangeKeeps DEF Open, Drop
  <2> QED
    BY <1>0, <1>9, <2>1, <2>2, <2>3, StartKeeps DEF OfStorage, Inv
<1>10. CASE UNCHANGED vars
  BY <1>0, <1>10, StorageStays DEF vars, storage, CallsInv, Inv
<1> QED
  BY <1>1, <1>2, <1>4, <1>5, <1>6, <1>7, <1>8, <1>9, <1>10 DEF Next

\* Inv is an invariant.
THEOREM Invariance ==
    Spec => []Inv
BY InvInit, InvStep, PTL DEF Spec

-----------------------------------------------------------------------------
(* What the invariant gives *)

\* Types.
THEOREM Types ==
    Spec => []TypeOK
<1>1. Inv => TypeOK
  <2>1. Exact \subseteq Storage
    BY DEF Exact
  <2> QED
    BY <2>1 DEF Inv, StorageInv, CallsInv, TypeOK
<1> QED
  BY <1>1, Invariance, PTL

\* The kept number of documents is their number, in memory and in every file.
THEOREM CountsAreExact ==
    Spec => []CountIsExact
<1>1. Inv => CountIsExact
  BY DEF Inv, StorageInv, Exact, CountIsExact
<1> QED
  BY <1>1, Invariance, PTL

\* While the module is up and there was no lapse, a change is on disk or will be.
THEOREM SavesAreComing ==
    Spec => []SaveIsComing
<1>1. Inv => SaveIsComing
  BY DEF Inv, StorageInv, Settled, SaveIsComing
<1> QED
  BY <1>1, Invariance, PTL

\* A process whose predecessor left in the file what it had in memory, or nothing, with no
\* timer pending and no lapse, starts with the same documents.
LEMMA StartRestores ==
    ASSUME StorageInv, Start, file = {data} \/ (~lapse /\ saveTimeout = "null")
    PROVE  data'.documents = data.documents /\ data'.collection
<1>1. CASE file = {data}
  <2>1. Loadable = {data}
    BY <1>1 DEF Loadable
  <2>2. CASE data.collection
    BY <2>1, <2>2 DEF Start
  <2>3. CASE ~data.collection
    <3>1. data.documents = createEmptyStorage.documents
      <4>1. data \in Exact /\ data.documentCount = 0
        BY <2>3 DEF StorageInv, Exact
      <4>2. IsFiniteSet({i \in Ids : data.documents[i] # NoDoc})
        BY LocalStorageAssumption, FS_Subset
      <4>3. {i \in Ids : data.documents[i] # NoDoc} = {}
        BY <4>1, <4>2, FS_EmptySet DEF Exact, Count
      <4> QED
        BY <4>1, <4>3 DEF Exact, Storage, Documents, createEmptyStorage
    <3>2. data' = createEmptyCollection
      BY <2>1, <2>3 DEF Start
    <3> QED
      BY <3>1, <3>2 DEF createEmptyCollection, createEmptyStorage
  <2> QED
    BY <2>2, <2>3
<1>2. CASE file = {} /\ data = createEmptyStorage
  <2>1. data' = createEmptyCollection
    BY <1>2 DEF Start, Loadable, createEmptyStorage
  <2> QED
    BY <1>2, <2>1 DEF createEmptyCollection, createEmptyStorage
<1> QED
  BY <1>1, <1>2 DEF StorageInv, Settled

\* Only Start brings a process up.
LEMMA OnlyStartStarts ==
    ASSUME [Next]_vars, process = "down", process' = "up"
    PROVE  Start
BY DEF Next, Create, Check, WriteUpdate, WriteDelete, AnswerUpdate, ClearAll, End, Exit,
       OfStorage, AutoSave, ForceSave, Open, Drop, Destroy, Running, vars

\* A restart with no timer pending and no lapse brings back exactly the deposits.
THEOREM RestartsRestore ==
    Spec => RestartRestores
<1>1. Inv /\ [Next]_vars =>
        [process = "down" /\ process' = "up" /\ ~lapse /\ saveTimeout = "null"
            => data'.documents = data.documents]_vars
  BY StartRestores, OnlyStartStarts DEF Inv
<1> QED
  BY <1>1, Invariance, PTL DEF Spec, RestartRestores

-----------------------------------------------------------------------------
(* Completed deposits are dated *)

DatedDoc(d) == d # NoDoc /\ d.status = "COMPLETED" => "completedAt" \in d.set

Dated == {d \in Storage : \A i \in Ids : DatedDoc(d.documents[i])}

\* Beside the deposits in memory and on disk, those that updates hold while they await.
DatedInv ==
    /\ data \in Dated
    /\ file \subseteq Dated
    /\ \A c \in Calls : IsAt(c, "checked") => DatedDoc(call[c].seen)

\* An update writes a time together with COMPLETED.
LEMMA UpdatedIsDated ==
    ASSUME NEW d \in Document, NEW u \in Store!Updates
    PROVE  DatedDoc(Store!Updated(d, u))
BY UpdateTypes DEF Store!Updated, DatedDoc

LEMMA EmptyIsDated ==
    createEmptyStorage \in Dated /\ createEmptyCollection \in Dated
BY EmptyIsExact DEF createEmptyStorage, createEmptyCollection, Exact, Dated, DatedDoc

\* A dated document keeps dated what it is stored in, and so does its removal.
LEMMA StoredIsDated ==
    ASSUME data \in Dated, NEW i \in Ids, NEW document \in Document \cup {NoDoc},
           DatedDoc(document)
    PROVE  Stored([data.documents EXCEPT ![i] = document]) \in Dated
<1> DEFINE documents == [data.documents EXCEPT ![i] = document]
<1>1. documents \in Documents /\ \A j \in Ids : DatedDoc(documents[j])
  BY DEF Dated, Storage, Documents
<1>2. Stored(documents) \in Storage
  BY <1>1, StoredIsExact DEF Exact
<1>3. Stored(documents).documents = documents
  BY DEF Stored
<1> QED
  BY <1>1, <1>2, <1>3 DEF Dated

LEMMA ChangeKeepsDates ==
    ASSUME file \subseteq Dated, NEW d \in Dated, Change(d)
    PROVE  data' \in Dated /\ file' \subseteq Dated
BY DEF Change, scheduleSave, save

LEMMA StartKeepsDates ==
    ASSUME DatedInv, Start
    PROVE  data' \in Dated /\ file' \subseteq Dated
<1>1. PICK loaded \in Loadable :
        IF loaded.collection
        THEN data' = loaded /\ UNCHANGED file
        ELSE data' = createEmptyCollection /\ (save(createEmptyCollection) \/ UNCHANGED file)
  BY DEF Start
<1>2. loaded \in Dated
  BY EmptyIsDated DEF Loadable, DatedInv
<1> QED
  BY <1>1, <1>2, EmptyIsDated DEF DatedInv, save

LEMMA DatedInit ==
    Init => DatedInv
BY EmptyIsDated DEF Init, StorageInit, DatedInv, IsAt, Idle

LEMMA DatedStep ==
    Inv /\ DatedInv /\ [Next]_vars => DatedInv'
<1> SUFFICES ASSUME Inv, DatedInv, [Next]_vars PROVE DatedInv'
  OBVIOUS
<1>0. /\ data \in Dated
      /\ file \subseteq Dated
      /\ \A c \in Calls : IsAt(c, "checked") => DatedDoc(call[c].seen)
      /\ DOMAIN call = Calls
  BY DEF DatedInv, Inv, CallsInv
<1> DEFINE StorageDated == data \in Dated /\ file \subseteq Dated
           CallsDated == \A c \in Calls : IsAt(c, "checked") => DatedDoc(call[c].seen)
<1>a. StorageDated' /\ CallsDated' => DatedInv'
  BY DEF DatedInv
<1>b. UNCHANGED call => CallsDated'
  BY <1>0 DEF IsAt
<1>c. ASSUME NEW i \in Ids, NEW document \in Document, DatedDoc(document),
             _setDocument(i, document)
      PROVE  StorageDated'
  <2>1. CASE data.collection
    BY <1>0, <1>c, <2>1, StoredIsDated, ChangeKeepsDates DEF _setDocument
  <2>2. CASE ~data.collection
    BY <1>0, <1>c, <2>2 DEF _setDocument
  <2> QED
    BY <2>1, <2>2
<1>1. ASSUME NEW i \in Ids, Create(i) PROVE DatedInv'
  <2>1. Store!Fresh \in Document /\ DatedDoc(Store!Fresh)
    BY LocalDepositsAssumption DEF Store!Fresh, Store!Doc, Store!Statuses, DatedDoc
  <2>2. StorageDated'
    BY <1>1, <1>c, <2>1 DEF Create
  <2> QED
    BY <1>1, <1>a, <1>b, <2>2 DEF Create
<1>2. ASSUME NEW c \in Calls, NEW i \in Ids, NEW kind \in Kinds, Check(c, i, kind)
      PROVE  DatedInv'
  <2>1. DatedDoc(data.documents[i])
    BY <1>0 DEF Dated
  <2>2. CallsDated'
    BY <1>0, <1>2, <2>1 DEF Check, IsAt
  <2>3. StorageDated'
    BY <1>0, <1>2 DEF Check, storage
  <2> QED
    BY <1>a, <2>2, <2>3
<1>3. ASSUME NEW c \in Calls, call'[c].step # "checked", call' = [call EXCEPT ![c] = call'[c]]
      PROVE  CallsDated'
  BY <1>0, <1>3 DEF IsAt
<1>4. ASSUME NEW c \in Calls, WriteUpdate(c) PROVE DatedInv'
  <2>1. /\ call[c].seen \in Document
        /\ call[c].kind \in Store!Updates
        /\ call[c].id \in Ids
    BY <1>4, KindsOfCalls DEF WriteUpdate, IsAt, Inv, CallsInv, Idle
  <2>2. /\ Store!Updated(call[c].seen, call[c].kind) \in Document
        /\ DatedDoc(Store!Updated(call[c].seen, call[c].kind))
    BY <2>1, UpdatedIsDocument, UpdatedIsDated
  <2>3. StorageDated'
    BY <1>4, <1>c, <2>1, <2>2 DEF WriteUpdate
  <2>4. CallsDated'
    BY <1>0, <1>3, <1>4 DEF WriteUpdate
  <2> QED
    BY <1>a, <2>3, <2>4
<1>5. ASSUME NEW c \in Calls, WriteDelete(c) PROVE DatedInv'
  <2>1. call[c].id \in Ids
    BY <1>5 DEF WriteDelete, IsAt, Inv, CallsInv, Idle
  <2>2. StorageDated'
    <3>1. CASE data.documents[call[c].id] # NoDoc
      <4>1. Change(Stored([data.documents EXCEPT ![call[c].id] = NoDoc]))
        BY <1>5, <3>1 DEF WriteDelete, _deleteDocument
      <4> QED
        BY <1>0, <2>1, <4>1, StoredIsDated, ChangeKeepsDates DEF DatedDoc
    <3>2. CASE data.documents[call[c].id] = NoDoc
      BY <1>0, <1>5, <3>2 DEF WriteDelete, _deleteDocument
    <3> QED
      BY <3>1, <3>2
  <2>3. CallsDated'
    BY <1>0, <1>3, <1>5 DEF WriteDelete, Idle
  <2> QED
    BY <1>a, <2>2, <2>3
<1>6. ASSUME NEW c \in Calls, AnswerUpdate(c) PROVE DatedInv'
  <2>1. CallsDated'
    BY <1>0, <1>3, <1>6 DEF AnswerUpdate, Idle
  <2>2. StorageDated'
    BY <1>0, <1>6 DEF AnswerUpdate, storage
  <2> QED
    BY <1>a, <2>1, <2>2
<1>7. CASE ClearAll
  <2>1. /\ data' = [data EXCEPT !.documents = createEmptyStorage.documents,
                                !.documentCount = 0]
        /\ file' = file /\ call' = call
    BY <1>7 DEF ClearAll, clear
  <2>2. /\ createEmptyStorage.documents \in Documents
        /\ \A i \in Ids : createEmptyStorage.documents[i] = NoDoc
    BY DEF createEmptyStorage, Documents
  <2>3. data' \in Storage /\ data'.documents = createEmptyStorage.documents
    BY <1>0, <2>1, <2>2 DEF Dated, Storage
  <2>4. data' \in Dated
    BY <2>2, <2>3 DEF Dated, DatedDoc
  <2> QED
    BY <1>0, <1>a, <1>b, <2>1, <2>4
<1>8. CASE End
  <2>1. StorageDated'
    BY <1>0, <1>8 DEF End, Exit
  <2>2. CallsDated'
    BY <1>8 DEF End, Idle, IsAt
  <2> QED
    BY <1>a, <2>1, <2>2
<1>9. CASE OfStorage
  <2>1. ASSUME AutoSave \/ ForceSave \/ Destroy PROVE StorageDated'
    <3>1. data' = data /\ save(data)
      BY <2>1 DEF AutoSave, ForceSave, Destroy
    <3> QED
      BY <1>0, <3>1 DEF save
  <2>2. ASSUME Open \/ Drop PROVE StorageDated'
    BY <1>0, <2>2, EmptyIsDated, ChangeKeepsDates DEF Open, Drop
  <2>3. StorageDated'
    BY <1>9, <2>1, <2>2, StartKeepsDates DEF OfStorage
  <2> QED
    BY <1>9, <1>a, <1>b, <2>3 DEF OfStorage
<1>10. CASE UNCHANGED vars
  BY <1>0, <1>10, <1>a, <1>b DEF vars
<1> QED
  BY <1>1, <1>2, <1>4, <1>5, <1>6, <1>7, <1>8, <1>9, <1>10 DEF Next

\* No deposit is COMPLETED without its time, in memory or on disk.
THEOREM CompletionIsDated ==
    Spec => []CompletedIsDated
<1>1. DatedInv => CompletedIsDated
  BY DEF DatedInv, Dated, DatedDoc, CompletedIsDated
<1> QED
  BY <1>1, DatedInit, DatedStep, Invariance, PTL DEF Spec

-----------------------------------------------------------------------------
(* The stand-in keeps the promise of the repository *)

\* No two calls are between their read and their write of one deposit.
Serial ==
    \A c, d \in Calls :
        c # d /\ IsAt(c, "checked") /\ IsAt(d, "checked") => call[c].id # call[d].id

\* The use under which a test may take the stand-in for the repository: nobody clears or
\* drops the collection, a process starts over only from what its predecessor had in
\* memory, and updates of one deposit do not overlap.
Orderly ==
    /\ ~ClearAll
    /\ ~Drop
    /\ process = "down" /\ process' = "up" =>
        file = {data} \/ (~lapse /\ saveTimeout = "null")
    /\ Serial'

\* What a call has read is still what is stored.
Current ==
    \A c \in Calls :
        IsAt(c, "checked") => Running /\ data.documents[call[c].id] = call[c].seen

OrderlyInv ==
    /\ Running => data.collection
    /\ \A i \in Ids : data.documents[i] # NoDoc => i \in created
    /\ Serial
    /\ Current

\* An open collection takes what is stored, and forgets what is deleted.
LEMMA SetStores ==
    ASSUME data.collection, NEW i \in Ids, NEW document, _setDocument(i, document)
    PROVE  /\ data'.documents = [data.documents EXCEPT ![i] = document]
           /\ data'.collection
BY DEF _setDocument, Change, Stored

LEMMA DeleteForgets ==
    ASSUME data.collection, NEW i \in Ids, data.documents[i] # NoDoc, _deleteDocument(i)
    PROVE  /\ data'.documents = [data.documents EXCEPT ![i] = NoDoc]
           /\ data'.collection
BY DEF _deleteDocument, Change, Stored

\* What a call that has read holds: an id, a deposit that is there, and a kind.
LEMMA ReadDeposit ==
    ASSUME Inv, Current, NEW c \in Calls, IsAt(c, "checked")
    PROVE  /\ call[c].id \in Ids
           /\ call[c].kind \in Kinds
           /\ call[c].seen = data.documents[call[c].id]
           /\ call[c].seen # NoDoc
           /\ Running
<1>1. call[c] \in [step : {"checked"}, kind : Kinds, id : Ids, seen : Document]
  BY DEF Inv, CallsInv, IsAt, Idle
<1> QED
  BY <1>1, LocalStorageAssumption DEF Current

\* A change to one deposit leaves current what was read of the others.
LEMMA OthersStayCurrent ==
    ASSUME Inv, Current, NEW k \in Ids, NEW document,
           data'.documents = [data.documents EXCEPT ![k] = document],
           UNCHANGED process,
           \A c \in Calls : IsAt(c, "checked")' =>
                IsAt(c, "checked") /\ call'[c] = call[c] /\ call[c].id # k
    PROVE  Current'
<1>1. ASSUME NEW c \in Calls, IsAt(c, "checked")'
      PROVE  Running' /\ data'.documents[call'[c].id] = call'[c].seen
  <2>1. IsAt(c, "checked") /\ call'[c] = call[c] /\ call[c].id # k
    BY <1>1
  <2>2. call[c].id \in Ids /\ call[c].seen = data.documents[call[c].id] /\ Running
    BY <2>1, ReadDeposit
  <2>3. DOMAIN data.documents = Ids
    BY DEF Inv, StorageInv, Exact, Storage, Documents
  <2> QED
    BY <2>1, <2>2, <2>3 DEF Running
<1> QED
  BY <1>1 DEF Current

\* A step that leaves documents and calls alone, or ends calls, is none of the repository.
LEMMA Stutters ==
    ASSUME OrderlyInv, Serial', data'.documents = data.documents, UNCHANGED created,
           Running' => data'.collection,
           \A c \in Calls : IsAt(c, "checked")' =>
                IsAt(c, "checked") /\ call'[c] = call[c] /\ Running'
    PROVE  OrderlyInv' /\ UNCHANGED Store!vars
<1>1. Current'
  BY DEF OrderlyInv, Current
<1> QED
  BY <1>1 DEF OrderlyInv, Store!vars

LEMMA OrderlyInit ==
    Init => OrderlyInv /\ Store!Init
BY DEF Init, StorageInit, createEmptyStorage, OrderlyInv, Serial, Current, IsAt, Idle, Running,
       Store!Init

\* Under orderly use every step is one of the repository, or none.
LEMMA OrderlyStep ==
    ASSUME Inv, OrderlyInv, Next, Orderly
    PROVE  OrderlyInv' /\ [Store!Next]_(Store!vars)
<1> DEFINE Goal == OrderlyInv' /\ [Store!Next]_(Store!vars)
<1>0. /\ Running => data.collection
      /\ \A i \in Ids : data.documents[i] # NoDoc => i \in created
      /\ Serial /\ Serial' /\ Current
      /\ DOMAIN call = Calls /\ DOMAIN data.documents = Ids
  BY DEF OrderlyInv, Orderly, Inv, CallsInv, StorageInv, Exact, Storage, Documents
<1>1. ASSUME NEW i \in Ids, Create(i) PROVE Goal
  <2>1. data.documents[i] = NoDoc /\ i \notin created
    BY <1>0, <1>1 DEF Create
  <2>2. /\ data'.documents = [data.documents EXCEPT ![i] = Store!Fresh]
        /\ data'.collection
        /\ created' = created \cup {i} /\ call' = call /\ process' = process
    BY <1>0, <1>1, SetStores DEF Create
  <2>3. \A c \in Calls : IsAt(c, "checked")' =>
            IsAt(c, "checked") /\ call'[c] = call[c] /\ call[c].id # i
    BY <1>0, <2>1, <2>2, ReadDeposit DEF IsAt
  <2>4. Current'
    BY <1>0, <2>2, <2>3, OthersStayCurrent
  <2>5. \A j \in Ids : data'.documents[j] # NoDoc => j \in created'
    BY <1>0, <2>2
  <2>6. Store!Create(i)
    BY <2>1, <2>2 DEF Store!Create
  <2> QED
    BY <1>0, <2>2, <2>4, <2>5, <2>6 DEF OrderlyInv, Store!Next
<1>2. ASSUME NEW c \in Calls, NEW i \in Ids, NEW kind \in Kinds, Check(c, i, kind)
      PROVE  Goal
  <2>1. /\ call' = [call EXCEPT ![c] = [step |-> "checked", kind |-> kind, id |-> i,
                                        seen |-> data.documents[i]]]
        /\ UNCHANGED <<data, process, created>> /\ Running
    BY <1>2 DEF Check, storage
  <2>2. Current'
    BY <1>0, <2>1 DEF Current, IsAt, Running
  <2> QED
    BY <1>0, <2>1, <2>2 DEF OrderlyInv, Running, Store!vars
<1>3. ASSUME NEW c \in Calls, IsAt(c, "checked"), call'[c].step # "checked",
             call' = [call EXCEPT ![c] = call'[c]]
      PROVE  \A d \in Calls : IsAt(d, "checked")' =>
                /\ IsAt(d, "checked") /\ call'[d] = call[d] /\ call[d].id # call[c].id
  BY <1>0, <1>3 DEF IsAt, Serial
<1>4. ASSUME NEW c \in Calls, WriteUpdate(c) PROVE Goal
  <2> DEFINE k == call[c].id
             document == Store!Updated(call[c].seen, call[c].kind)
  <2>1. /\ k \in Ids /\ call[c].seen = data.documents[k] /\ data.documents[k] # NoDoc
        /\ call[c].kind \in Store!Updates
    BY <1>0, <1>4, ReadDeposit, KindsOfCalls DEF WriteUpdate
  <2>2. /\ data'.documents = [data.documents EXCEPT ![k] = document]
        /\ data'.collection
        /\ UNCHANGED <<process, created>>
    BY <1>0, <1>4, <2>1, SetStores DEF WriteUpdate
  <2>3. \A d \in Calls : IsAt(d, "checked")' =>
            IsAt(d, "checked") /\ call'[d] = call[d] /\ call[d].id # k
    BY <1>0, <1>3, <1>4 DEF WriteUpdate
  <2>4. Current'
    BY <1>0, <2>1, <2>2, <2>3, OthersStayCurrent
  <2>5. \A j \in Ids : data'.documents[j] # NoDoc => j \in created'
    BY <1>0, <2>1, <2>2
  <2>6. Store!Update(k)
    BY <2>1, <2>2 DEF Store!Update
  <2> QED
    BY <1>0, <2>1, <2>2, <2>4, <2>5, <2>6 DEF OrderlyInv, Store!Next
<1>5. ASSUME NEW c \in Calls, WriteDelete(c) PROVE Goal
  <2> DEFINE k == call[c].id
  <2>1. k \in Ids /\ data.documents[k] # NoDoc
    BY <1>0, <1>5, ReadDeposit DEF WriteDelete
  <2>2. /\ data'.documents = [data.documents EXCEPT ![k] = NoDoc]
        /\ data'.collection
        /\ UNCHANGED <<process, created>>
    BY <1>0, <1>5, <2>1, DeleteForgets DEF WriteDelete
  <2>3. \A d \in Calls : IsAt(d, "checked")' =>
            IsAt(d, "checked") /\ call'[d] = call[d] /\ call[d].id # k
    BY <1>0, <1>3, <1>5 DEF WriteDelete, Idle
  <2>4. Current'
    BY <1>0, <2>1, <2>2, <2>3, OthersStayCurrent
  <2>5. \A j \in Ids : data'.documents[j] # NoDoc => j \in created'
    BY <1>0, <2>1, <2>2
  <2>6. Store!Delete(k)
    BY <2>1, <2>2 DEF Store!Delete
  <2> QED
    BY <1>0, <2>1, <2>2, <2>4, <2>5, <2>6 DEF OrderlyInv, Store!Next
<1>6. ASSUME NEW c \in Calls, AnswerUpdate(c) PROVE Goal
  <2>1. /\ call' = [call EXCEPT ![c] = Idle]
        /\ UNCHANGED <<data, process, created>> /\ Running
    BY <1>6 DEF AnswerUpdate, storage
  <2> QED
    BY <1>0, <2>1, Stutters DEF IsAt, Idle, Running
<1>7. CASE End
  <2>1. /\ UNCHANGED <<data, created>> /\ process' = "down"
        /\ call' = [c \in Calls |-> Idle]
    BY <1>7 DEF End, Exit
  <2> QED
    BY <1>0, <2>1, Stutters DEF IsAt, Idle, Running
<1>8. CASE OfStorage
  <2>1. data'.documents = data.documents /\ (Running' => data'.collection)
    <3>1. CASE AutoSave \/ ForceSave \/ Destroy
      BY <1>0, <3>1 DEF AutoSave, ForceSave, Destroy, Running
    <3>2. CASE Start
      <4>1. process = "down" /\ process' = "up"
        BY <3>2 DEF Start
      <4> QED
        BY <3>2, <4>1, StartRestores DEF Orderly, Inv
    <3>3. ~Open
      BY <1>0 DEF Open
    <3> QED
      BY <1>8, <3>1, <3>2, <3>3 DEF OfStorage, Orderly
  <2>2. UNCHANGED <<call, created>>
    BY <1>8 DEF OfStorage
  <2>3. Running => Running'
    BY <1>8 DEF OfStorage, AutoSave, ForceSave, Open, Drop, Start, Destroy, Running
  <2>4. \A c \in Calls : IsAt(c, "checked")' =>
            IsAt(c, "checked") /\ call'[c] = call[c] /\ Running'
    BY <1>0, <2>2, <2>3 DEF IsAt, Current
  <2> QED
    BY <1>0, <2>1, <2>2, <2>4, Stutters
<1> QED
  BY <1>1, <1>2, <1>4, <1>5, <1>6, <1>7, <1>8 DEF Next, Orderly

\* Under orderly use the stand-in implements the repository, through saves, ends and
\* restarts: a deposit appears once, PENDING, changes only by one whole update of what it
\* then is, and once deleted stays deleted.
THEOREM OrderlyUseImplements ==
    Init /\ [][Next /\ Orderly]_vars => Store!Spec
<1>1. Inv /\ OrderlyInv /\ [Next /\ Orderly]_vars =>
        Inv' /\ OrderlyInv' /\ [Store!Next]_(Store!vars)
  <2> SUFFICES ASSUME Inv, OrderlyInv, [Next /\ Orderly]_vars
               PROVE  Inv' /\ OrderlyInv' /\ [Store!Next]_(Store!vars)
    OBVIOUS
  <2>1. Inv'
    BY InvStep
  <2>2. CASE Next /\ Orderly
    BY <2>1, <2>2, OrderlyStep
  <2>3. CASE UNCHANGED vars
    <3>1. OrderlyInv'
      BY <2>3 DEF vars, OrderlyInv, Serial, Current, IsAt, Running
    <3> QED
      BY <2>1, <2>3, <3>1 DEF vars, Store!vars
  <2> QED
    BY <2>2, <2>3
<1>2. Init => Inv /\ OrderlyInv /\ Store!Init
  BY InvInit, OrderlyInit
<1> QED
  BY <1>1, <1>2, PTL DEF Store!Spec
=============================================================================
