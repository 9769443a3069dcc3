------------------------- MODULE StoredVersionsProofs -------------------------
(***************************************************************************)
(* Proofs about the version rows of StoredDocuments and the objects they   *)
(* point at, for every value of the constants.  StoredDocumentsProofs      *)
(* supplies the shape of the state (Shape) and the isolation of the saves  *)
(* in progress (Isolated).                                                 *)
(***************************************************************************)
EXTENDS StoredDocumentsProofs

-----------------------------------------------------------------------------
(***************************************************************************)
(* What a step may do to the rows.                                         *)
(***************************************************************************)

\* A request whose object is stored and whose rows may still be committed.
Saving(q) == q.pc \in {"uploaded", "stored", "unsure", "dead"}

KeepRows == UNCHANGED <<status, size, current, versions>>

DrawId(d) ==
    /\ status[d] = "none"
    /\ status' = [status EXCEPT ![d] = "drawn"]
    /\ UNCHANGED <<size, current, versions, objects>>

SaveFirst(q) ==
    /\ Saving(q) /\ q.doc \in Doc /\ q.n = 1 /\ q.size \in 0..FileSizeLimit
    /\ status[q.doc] = "drawn"
    /\ status' = [status EXCEPT ![q.doc] = "active"]
    /\ size' = [size EXCEPT ![q.doc] = q.size]
    /\ current' = [current EXCEPT ![q.doc] = 1]
    /\ versions' = versions \cup {<<q.doc, 1>>}
    /\ UNCHANGED objects

SaveNext(q) ==
    /\ Saving(q) /\ q.doc \in Doc /\ q.n = current[q.doc] + 1 /\ q.n > 1 /\ q.n \in Version
    /\ q.size \in 0..FileSizeLimit
    /\ status[q.doc] = "active"
    /\ size' = [size EXCEPT ![q.doc] = q.size]
    /\ current' = [current EXCEPT ![q.doc] = q.n]
    /\ versions' = versions \cup {<<q.doc, q.n>>}
    /\ UNCHANGED <<status, objects>>

Trash(S) ==
    /\ S \subseteq Active
    /\ status' = [d \in Doc |-> IF d \in S THEN "trashed" ELSE status[d]]
    /\ UNCHANGED <<size, current, versions, objects>>

Untrash(d) ==
    /\ status[d] = "trashed"
    /\ status' = [status EXCEPT ![d] = "active"]
    /\ UNCHANGED <<size, current, versions, objects>>

Drop(S) ==
    /\ \A d \in S : HasRow(d)
    /\ DropRows(S)
    /\ UNCHANGED objects

RowsStep ==
    \/ KeepRows
    \/ \E d \in Doc : DrawId(d) \/ Untrash(d)
    \/ \E r \in Request : SaveFirst(req[r]) \/ SaveNext(req[r])
    \/ \E S \in SUBSET Doc : Trash(S) \/ Drop(S)

\* A committed save adds the first version of its document or the next one.
LEMMA WriteRows ==
    ASSUME Shape, Isolated, NEW r \in Request, ReadyToCommit(r) \/ Unresolved(req[r]),
           Write(req[r]), UNCHANGED objects
    PROVE  RowsStep
  <1>. DEFINE q == req[r]
  <1>1. q \in RequestState /\ WellFormed(q) /\ Saving(q) /\ SavesIsolated
    BY DEF Shape, RequestsOK, ReadyToCommit, Unresolved, Saving, Isolated
  <1>2. /\ q.doc \in Doc /\ q.size \in 0..FileSizeLimit
        /\ q.n \in Version
        /\ q.n = 1 => AddsDocument(q)
        /\ q.n # 1 => q.n > 1 /\ AddsVersion(q)
    BY <1>1, ConstantsAssumption
    DEF RequestState, WellFormed, AddsVersion, AddsDocument, Unresolved, Saving, Version
  <1>3. CASE q.n = 1
    <2>1. status[q.doc] = "drawn"
      BY <1>1, <1>2, <1>3 DEF SavesIsolated
    <2>2. WriteNewDocument(q)
      BY <1>3 DEF Write
    <2>. HIDE DEF q
    <2>3. SaveFirst(q)
      BY <1>1, <1>2, <1>3, <2>1, <2>2 DEF WriteNewDocument, SaveFirst
    <2>. QED  BY <2>3 DEF RowsStep, q
  <1>4. CASE q.n # 1
    <2>1. status[q.doc] = "active" /\ q.n = current[q.doc] + 1
      BY <1>1, <1>2, <1>4 DEF SavesIsolated
    <2>2. WriteNewVersion(q)
      BY <1>4 DEF Write
    <2>. HIDE DEF q
    <2>3. SaveNext(q)
      BY <1>1, <1>2, <1>4, <2>1, <2>2 DEF WriteNewVersion, SaveNext, _resize_stored_document
    <2>. QED  BY <2>3 DEF RowsStep, q
  <1>. QED  BY <1>3, <1>4

\* Every step is one of the kinds above.
LEMMA NextRows ==
    ASSUME Shape, Isolated, [Next]_vars
    PROVE  RowsStep
  <1>1. ASSUME NEW r \in Request, Start(r)
        PROVE  RowsStep
    <2>1. ASSUME NEW d \in Doc, NEW s, NEW c, SaveStart(r, d, s, c)
          PROVE  RowsStep
      BY <2>1 DEF SaveStart, RowsStep, DrawId
    <2>2. ASSUME NEW d \in Doc, NEW source, NEW c, DuplicateStart(r, d, source, c)
          PROVE  RowsStep
      BY <2>2 DEF DuplicateStart, RowsStep, DrawId
    <2>3. ASSUME NEW d \in Doc, HardDelete(r, d)
          PROVE  RowsStep
      <3>1. Drop({d})
        BY <2>3 DEF HardDelete, Drop
      <3>. QED  BY <3>1 DEF RowsStep
    <2>4. CASE UNCHANGED rows
      BY <2>4 DEF RowsStep, KeepRows, rows
    <2>. QED
      BY <1>1, <2>1, <2>2, <2>3, <2>4
      DEF Start, VersionStart, LockForVersion, RevertStart, RestoreStart
  <1>2. ASSUME NEW r \in Request, Continue(r)
        PROVE  RowsStep
    <2>1. CASE CommitRows(r)
      BY <2>1, WriteRows DEF CommitRows
    <2>2. CASE RestoreCommit(r)
      <3>1. req[r].doc \in Doc
        BY <2>2 DEF RestoreCommit, Shape, RequestsOK, WellFormed
      <3>2. Untrash(req[r].doc)
        BY <2>2 DEF RestoreCommit, Recharge, Untrash
      <3>. QED  BY <3>1, <3>2 DEF RowsStep
    <2>3. CASE PurgeDelete(r)
      <3>. DEFINE S == {d \in req[r].batch : HasRow(d)}
      <3>1. S \in SUBSET Doc
        BY DEF Shape, RequestsOK, RequestState
      <3>2. Drop(S)
        BY <2>3 DEF PurgeDelete, Drop
      <3>. HIDE DEF S
      <3>. QED  BY <3>1, <3>2 DEF RowsStep
    <2>4. CASE UNCHANGED rows
      BY <2>4 DEF RowsStep, KeepRows, rows
    <2>. QED
      BY <1>2, <2>1, <2>2, <2>3, <2>4
      DEF Continue, StoreNewObject, CopyFails, RevertLock, LockForVersion, RevertNotFound,
          StoreVersionObject, KeepObject, DeleteObject, RestoreNotFound, CleanUp
  <1>3. ASSUME NEW r \in Request, Resolve(r)
        PROVE  RowsStep
    <2>1. CASE ServerCommits(r)
      BY <2>1, WriteRows DEF ServerCommits
    <2>2. CASE ServerAborts(r)
      BY <2>2 DEF ServerAborts, RowsStep, KeepRows, rows
    <2>. QED  BY <1>3, <2>1, <2>2 DEF Resolve
  <1>4. ASSUME NEW r \in Request, Break(r)
        PROVE  RowsStep
    <2>1. UNCHANGED rows
      BY <1>4 DEF Break, RowsFail, CommitBreaks, CheckFails, UploadFails, Crash, CleanUp
    <2>. QED  BY <2>1 DEF RowsStep, KeepRows, rows
  <1>5. ASSUME NEW d \in Doc, SoftDelete(d)
        PROVE  RowsStep
    <2>1. Trash({d})
      BY <1>5 DEF SoftDelete, Trash, Active, Shape, TypeOK
    <2>. QED  BY <2>1 DEF RowsStep
  <1>6. ASSUME NEW S \in SUBSET Doc, TrashFolder(S)
        PROVE  RowsStep
    <2>1. Trash(S)
      BY <1>6 DEF TrashFolder, Trash
    <2>. QED  BY <2>1 DEF RowsStep
  <1>7. CASE Purge
    BY <1>7 DEF Purge, PurgeSelect, RowsStep, KeepRows, rows
  <1>8. CASE Administer
    <2>1. ASSUME NEW d \in Doc, NEW c \in Counter, AdminRestore(d, c)
          PROVE  RowsStep
      <3>1. Untrash(d)
        BY <2>1 DEF AdminRestore, Recharge, Untrash
      <3>. QED  BY <3>1 DEF RowsStep
    <2>2. CASE UNCHANGED rows
      BY <2>2 DEF RowsStep, KeepRows, rows
    <2>. QED
      BY <1>8, <2>1, <2>2
      DEF Administer, add_member, remove_member, delete_tenant, update_tenant, Reconcile
  <1>9. CASE UNCHANGED vars
    BY <1>9 DEF vars, rows, RowsStep, KeepRows
  <1>. QED
    BY <1>1, <1>2, <1>3, <1>4, <1>5, <1>6, <1>7, <1>8, <1>9 DEF Next

-----------------------------------------------------------------------------
(***************************************************************************)
(* Version numbers.                                                        *)
(***************************************************************************)

\* VersionsNumbered, row by row.
Numbered ==
    \A d \in Doc, n \in Version :
        <<d, n>> \in versions <=> HasRow(d) /\ n <= current[d]

\* It says the same.
LEMMA NumberedVersions ==
    ASSUME Shape, Numbered
    PROVE  VersionsNumbered
  <1>. SUFFICES ASSUME NEW d \in Doc
                PROVE  {v[2] : v \in {w \in versions : w[1] = d}} =
                           IF HasRow(d) THEN 1..current[d] ELSE {}
    BY DEF VersionsNumbered
  <1>1. versions \subseteq Doc \X Version /\ current[d] \in 0..MaxVersion
    BY DEF Shape, TypeOK
  <1>. DEFINE N == {v[2] : v \in {w \in versions : w[1] = d}}
  <1>2. \A n : n \in N <=> n \in Version /\ <<d, n>> \in versions
    <2>1. ASSUME NEW v \in versions, v[1] = d
          PROVE  v[2] \in Version /\ <<d, v[2]>> \in versions
      BY <1>1, <2>1
    <2>2. ASSUME NEW n, <<d, n>> \in versions
          PROVE  n \in N
      BY <2>2
    <2>. QED  BY <2>1, <2>2
  <1>. HIDE DEF N
  <1>3. \A n : n \in N <=> HasRow(d) /\ n \in 1..current[d]
    <2>1. \A n : n \in Version /\ n <= current[d] <=> n \in 1..current[d]
      BY <1>1, ConstantsAssumption DEF Version
    <2>. QED  BY <1>2, <2>1 DEF Numbered
  <1>4. N = IF HasRow(d) THEN 1..current[d] ELSE {}
    BY <1>3
  <1>. QED  BY <1>4 DEF N

\* A step on the rows keeps the numbers consecutive.
LEMMA RowsNumber ==
    ASSUME Shape, Numbered, RowsStep
    PROVE  Numbered'
  <1>. SUFFICES ASSUME NEW d \in Doc, NEW n \in Version
                PROVE  <<d, n>> \in versions' <=> HasRow(d)' /\ n <= current'[d]
    BY DEF Numbered
  <1>1. /\ <<d, n>> \in versions <=> HasRow(d) /\ n <= current[d]
        /\ current[d] \in Nat /\ n \in Nat /\ n > 0
    BY ConstantsAssumption DEF Numbered, Shape, TypeOK, Version
  <1>2. /\ status \in [Doc -> {"none", "drawn", "active", "trashed", "gone"}]
        /\ current \in [Doc -> 0..MaxVersion]
        /\ versions \subseteq Doc \X Version
    BY DEF Shape, TypeOK
  <1>3. CASE KeepRows
    BY <1>1, <1>3 DEF KeepRows, HasRow
  <1>4. ASSUME NEW e \in Doc, DrawId(e) \/ Untrash(e)
        PROVE  <<d, n>> \in versions' <=> HasRow(d)' /\ n <= current'[d]
    BY <1>1, <1>2, <1>4 DEF DrawId, Untrash, HasRow
  <1>5. ASSUME NEW r \in Request, SaveFirst(req[r])
        PROVE  <<d, n>> \in versions' <=> HasRow(d)' /\ n <= current'[d]
    <2>. DEFINE e == req[r].doc
    <2>1. /\ status'[e] = "active" /\ current'[e] = 1 /\ status[e] = "drawn" /\ e \in Doc
          /\ \A x \in Doc \ {e} : status'[x] = status[x] /\ current'[x] = current[x]
          /\ versions' = versions \cup {<<e, 1>>}
      BY <1>2, <1>5 DEF SaveFirst
    <2>. HIDE DEF e
    <2>2. CASE d = e
      BY <1>1, <2>1, <2>2 DEF HasRow
    <2>3. CASE d # e
      BY <1>1, <2>1, <2>3 DEF HasRow
    <2>. QED  BY <2>2, <2>3
  <1>6. ASSUME NEW r \in Request, SaveNext(req[r])
        PROVE  <<d, n>> \in versions' <=> HasRow(d)' /\ n <= current'[d]
    <2>. DEFINE e == req[r].doc
    <2>1. /\ current'[e] = current[e] + 1 /\ status[e] = "active" /\ e \in Doc
          /\ \A x \in Doc \ {e} : current'[x] = current[x]
          /\ status' = status
          /\ versions' = versions \cup {<<e, current[e] + 1>>}
      BY <1>2, <1>6 DEF SaveNext
    <2>. HIDE DEF e
    <2>2. CASE d = e
      BY <1>1, <2>1, <2>2 DEF HasRow
    <2>3. CASE d # e
      BY <1>1, <2>1, <2>3 DEF HasRow
    <2>. QED  BY <2>2, <2>3
  <1>7. ASSUME NEW S \in SUBSET Doc, Trash(S)
        PROVE  <<d, n>> \in versions' <=> HasRow(d)' /\ n <= current'[d]
    BY <1>1, <1>7 DEF Trash, HasRow, Active
  <1>8. ASSUME NEW S \in SUBSET Doc, Drop(S)
        PROVE  <<d, n>> \in versions' <=> HasRow(d)' /\ n <= current'[d]
    BY <1>1, <1>8 DEF Drop, DropRows, HasRow
  <1>. QED  BY <1>3, <1>4, <1>5, <1>6, <1>7, <1>8 DEF RowsStep

\* What StoredDocumentsProofs shows of every state.
Base == Shape /\ Isolated /\ CountersAccount

LEMMA InitBase == Init => Base
  BY InitShape, InitIsolated, InitAccount DEF Base

LEMMA NextBase == Base /\ [Next]_vars => Base'
  BY NextShape, NextIsolated, NextAccount DEF Base

\* Whatever saves, failures, deletes and purges interleave, the version rows
\* of a document are numbered 1..current_version without a gap or a repetition
\* (create_version, restore_original), and are deleted with their document.
THEOREM VersionNumbersCorrect == Spec => []VersionsNumbered
  <1>. DEFINE I == Base /\ Numbered
  <1>1. Init => I
    BY InitBase DEF Init, Numbered, HasRow
  <1>2. I /\ [Next]_vars => I'
    BY NextBase, NextRows, RowsNumber DEF Base
  <1>3. I => VersionsNumbered
    BY NumberedVersions DEF Base
  <1>. HIDE DEF I
  <1>. QED  BY <1>1, <1>2, <1>3, PTL DEF Spec

-----------------------------------------------------------------------------
(***************************************************************************)
(* What requests rely on in the object store.                              *)
(***************************************************************************)

Past(d) == status[d] \in {"active", "trashed", "gone"}

\* Version numbers whose object no late COMMIT can lose.
Trusted(n) == CommitMayLag => n > 1

\* An upload to come has a size.
Sized(q) ==
    q.pc \in {"reverting", "locked"} \/ (q.pc = "checked" /\ q.src = None) => q.size # 0

\* The object of a save that may commit is there, with the size it charges.
InStore(q) ==
    Saving(q) /\ Trusted(q.n) => /\ q.size # 0
                                 /\ objects[FilePath(q.doc, q.n)] = q.size

\* A duplicate reads a version that is never written again: it finds the
\* object with the size it has read, or no object at all.
Copying(q) ==
    q.pc = "checked" /\ q.src # None =>
        /\ Past(q.src[1]) /\ q.src[2] <= current[q.src[1]]
        /\ ~CommitMayLag => objects[q.src] \in {0, q.size}

\* The objects that a delete or a purge is about to remove belong to documents
\* that are gone when it does.
Purging(q) ==
    /\ q.pc = "selected" => /\ \A d \in q.batch : Past(d)
                            /\ \A k \in q.keys : k[1] \in q.batch
    /\ q.pc = "cleanup" => \A k \in q.keys : status[k[1]] = "gone"

RequestStored(q) == Sized(q) /\ InStore(q) /\ Copying(q) /\ Purging(q)

RequestsStored == \A r \in Request : RequestStored(req[r])

\* The request that drew the id of a document, until it forgets it.
HasId(q) == AddsDocument(q) \/ (q.pc = "settled" /\ q.n = 1)

OwnIds ==
    \A r \in Request : HasId(req[r]) =>
        /\ status[req[r].doc] # "none"
        /\ \A p \in Request \ {r} : HasId(req[p]) => req[p].doc # req[r].doc

\* A key names its document and its version.
LEMMA KeyParts ==
    ASSUME NEW d \in Doc, NEW n \in Version
    PROVE  FilePath(d, n) \in Key /\ FilePath(d, n)[1] = d /\ FilePath(d, n)[2] = n
  BY KeyTypes DEF FilePath, get_document_key, _original_document_key

\* What a request that saves works on.
LEMMA SavingParts ==
    ASSUME Shape, NEW r \in Request, Saving(req[r])
    PROVE  /\ req[r].doc \in Doc /\ req[r].n \in Version
           /\ FilePath(req[r].doc, req[r].n) \in Key
           /\ req[r].n = 1 => AddsDocument(req[r]) /\ HasId(req[r])
           /\ req[r].n # 1 => AddsVersion(req[r]) /\ req[r].n > 1
  <1>1. req[r] \in RequestState /\ WellFormed(req[r])
    BY DEF Shape, RequestsOK
  <1>2. req[r].doc \in Doc /\ req[r].n \in Version
    BY <1>1, ConstantsAssumption DEF RequestState, WellFormed, Saving, Version
  <1>3. /\ req[r].n = 1 => AddsDocument(req[r]) /\ HasId(req[r])
        /\ req[r].n # 1 => AddsVersion(req[r]) /\ req[r].n > 1
    BY <1>1, <1>2, ConstantsAssumption
    DEF WellFormed, Saving, AddsVersion, AddsDocument, HasId, Unresolved, Version
  <1>. QED  BY <1>2, <1>3, KeyParts

\* Rows only move forward.
LEMMA Progress ==
    ASSUME Shape, RowsStep, NEW d \in Doc
    PROVE  /\ status[d] # "none" => status'[d] # "none"
           /\ Past(d) => Past(d)' /\ current[d] <= current'[d]
           /\ status[d] = "gone" => status'[d] = "gone"
  <1>1. /\ status \in [Doc -> {"none", "drawn", "active", "trashed", "gone"}]
        /\ current \in [Doc -> 0..MaxVersion]
    BY DEF Shape, TypeOK
  <1>2. CASE KeepRows
    BY <1>1, <1>2, ConstantsAssumption DEF KeepRows, Past
  <1>3. ASSUME NEW e \in Doc, DrawId(e) \/ Untrash(e)
        PROVE  /\ status[d] # "none" => status'[d] # "none"
               /\ Past(d) => Past(d)' /\ current[d] <= current'[d]
               /\ status[d] = "gone" => status'[d] = "gone"
    BY <1>1, <1>3, ConstantsAssumption DEF DrawId, Untrash, Past
  <1>4. ASSUME NEW r \in Request, SaveFirst(req[r])
        PROVE  /\ status[d] # "none" => status'[d] # "none"
               /\ Past(d) => Past(d)' /\ current[d] <= current'[d]
               /\ status[d] = "gone" => status'[d] = "gone"
    BY <1>1, <1>4, ConstantsAssumption DEF SaveFirst, Past
  <1>5. ASSUME NEW r \in Request, SaveNext(req[r])
        PROVE  /\ status[d] # "none" => status'[d] # "none"
               /\ Past(d) => Past(d)' /\ current[d] <= current'[d]
               /\ status[d] = "gone" => status'[d] = "gone"
    BY <1>1, <1>5, ConstantsAssumption DEF SaveNext, Past
  <1>6. ASSUME NEW S \in SUBSET Doc, Trash(S) \/ Drop(S)
        PROVE  /\ status[d] # "none" => status'[d] # "none"
               /\ Past(d) => Past(d)' /\ current[d] <= current'[d]
               /\ status[d] = "gone" => status'[d] = "gone"
    BY <1>1, <1>6, ConstantsAssumption DEF Trash, Drop, DropRows, Past, Active, HasRow
  <1>. QED  BY <1>2, <1>3, <1>4, <1>5, <1>6 DEF RowsStep

\* Neither a version row nor a save of another request needs the object k.
Loose(k, r) ==
    /\ <<k[1], k[2]>> \notin versions
    /\ \A p \in Request \ {r} :
           Saving(req[p]) /\ Trusted(req[p].n) => FilePath(req[p].doc, req[p].n) # k

\* No version row loses its object or sees it replaced.
ObjectsKept == \A v \in versions : objects'[FilePath(v[1], v[2])] = objects[FilePath(v[1], v[2])]

\* A step of r, or of an actor that is no request, that writes or deletes only
\* objects that the others do not need.
LEMMA StoreFrame ==
    ASSUME Shape, RequestsStored, RowsStep, NEW r, NEW K,
           \A p \in Request \ {r} : req'[p] = req[p],
           \A k \in Key \ K : objects'[k] = objects[k],
           \A k \in K : Loose(k, r),
           \A k \in K : \/ objects'[k] = 0
                        \/ \A p \in Request \ {r} : req[p].pc = "checked" => req[p].src # k,
           r \in Request => RequestStored(req[r])'
    PROVE  RequestsStored' /\ ObjectsKept
  <1>1. ObjectsKept
    <2>. SUFFICES ASSUME NEW v \in versions
                  PROVE  objects'[FilePath(v[1], v[2])] = objects[FilePath(v[1], v[2])]
      BY DEF ObjectsKept
    <2>1. v[1] \in Doc /\ v[2] \in Version /\ v = <<v[1], v[2]>>
      BY DEF Shape, TypeOK
    <2>2. FilePath(v[1], v[2]) \notin K
      BY <2>1, KeyParts DEF Loose
    <2>. QED  BY <2>1, <2>2, KeyParts
  <1>2. ASSUME NEW p \in Request \ {r}
        PROVE  RequestStored(req[p])'
    <2>0. req'[p] = req[p] /\ RequestStored(req[p]) /\ req[p] \in RequestState
      BY DEF RequestsStored, Shape, RequestsOK
    <2>1. Sized(req[p])'
      BY <2>0 DEF RequestStored, Sized
    <2>2. InStore(req[p])'
      <3>1. CASE Saving(req[p]) /\ Trusted(req[p].n)
        <4>1. FilePath(req[p].doc, req[p].n) \in Key \ K
          BY <3>1, SavingParts DEF Loose
        <4>. QED  BY <2>0, <3>1, <4>1 DEF RequestStored, InStore, Saving, Trusted
      <3>2. CASE ~(Saving(req[p]) /\ Trusted(req[p].n))
        BY <2>0, <3>2 DEF InStore, Saving, Trusted
      <3>. QED  BY <3>1, <3>2
    <2>3. Copying(req[p])'
      <3>. SUFFICES ASSUME req[p].pc = "checked", req[p].src # None
                    PROVE  /\ Past(req[p].src[1])' /\ req[p].src[2] <= current'[req[p].src[1]]
                           /\ ~CommitMayLag => objects'[req[p].src] \in {0, req[p].size}
        BY <2>0 DEF Copying
      <3>1. req[p].src \in Key
        BY <2>0 DEF RequestState
      <3>2. req[p].src[1] \in Doc /\ req[p].src[2] \in Version
        BY <3>1 DEF Key
      <3>3. /\ Past(req[p].src[1]) /\ req[p].src[2] <= current[req[p].src[1]]
            /\ ~CommitMayLag => objects[req[p].src] \in {0, req[p].size}
        BY <2>0 DEF RequestStored, Copying
      <3>4. objects'[req[p].src] \in {0, objects[req[p].src]}
        BY <3>1
      <3>5. Past(req[p].src[1])' /\ current[req[p].src[1]] <= current'[req[p].src[1]]
        BY <3>2, <3>3, Progress
      <3>6. /\ current[req[p].src[1]] \in Nat /\ req[p].src[2] \in Nat
            /\ current'[req[p].src[1]] \in Nat
        <4>1. RowsStep => current' \in [Doc -> Nat]
          BY ConstantsAssumption DEF RowsStep, KeepRows, DrawId, Untrash, SaveFirst, SaveNext,
               Trash, Drop, DropRows, Shape, TypeOK, Version
        <4>. QED  BY <3>2, <4>1, ConstantsAssumption DEF Shape, TypeOK, Version
      <3>. QED  BY <3>3, <3>4, <3>5, <3>6
    <2>4. Purging(req[p])'
      <3>1. /\ req[p].batch \subseteq Doc
            /\ \A k \in req[p].keys : k[1] \in Doc
        BY <2>0 DEF RequestState, Key
      <3>2. /\ \A d \in Doc : Past(d) => Past(d)'
            /\ \A d \in Doc : status[d] = "gone" => status'[d] = "gone"
        BY Progress
      <3>. QED  BY <2>0, <3>1, <3>2 DEF RequestStored, Purging
    <2>. QED  BY <2>1, <2>2, <2>3, <2>4 DEF RequestStored
  <1>. QED  BY <1>1, <1>2 DEF RequestsStored

\* A request that ends, is settled or restores relies on no object.
LEMMA FreeStored ==
    ASSUME NEW r \in Request, req'[r].pc \in {"idle", "settled", "restoring"}
    PROVE  RequestStored(req[r])'
  BY DEF RequestStored, Sized, InStore, Copying, Purging, Saving

\* The object of a new document is needed by its own request only.
LEMMA LooseNew ==
    ASSUME Shape, Numbered, OwnIds, NEW r \in Request, HasId(req[r]),
           req[r].doc \in Doc, ~HasRow(req[r].doc)
    PROVE  Loose(FilePath(req[r].doc, 1), r)
  <1>0. 1 \in Version
    BY ConstantsAssumption DEF Version
  <1>. DEFINE k == FilePath(req[r].doc, 1)
  <1>1. k[1] = req[r].doc /\ k[2] = 1
    BY <1>0, KeyParts
  <1>. HIDE DEF k
  <1>2. <<k[1], k[2]>> \notin versions
    BY <1>0, <1>1 DEF Numbered
  <1>3. ASSUME NEW p \in Request \ {r}, Saving(req[p]), FilePath(req[p].doc, req[p].n) = k
        PROVE  FALSE
    <2>1. req[p].doc = req[r].doc /\ req[p].n = 1
      BY <1>1, <1>3, SavingParts, KeyParts
    <2>2. HasId(req[p])
      BY <1>3, <2>1, SavingParts
    <2>. QED  BY <2>1, <2>2 DEF OwnIds
  <1>. QED  BY <1>2, <1>3 DEF Loose, k

\* The object of a version that is being added is needed by its own request
\* only: the request holds the row lock, or nobody does.
LEMMA LooseNext ==
    ASSUME Shape, Isolated, NEW r \in Request, req[r].doc \in Doc, req[r].n \in Version,
           req[r].n # 1, <<req[r].doc, req[r].n>> \notin versions,
           lock[req[r].doc] \in {r, None}
    PROVE  Loose(FilePath(req[r].doc, req[r].n), r)
  <1>. DEFINE k == FilePath(req[r].doc, req[r].n)
  <1>1. k[1] = req[r].doc /\ k[2] = req[r].n
    BY KeyParts
  <1>. HIDE DEF k
  <1>2. ASSUME NEW p \in Request \ {r}, Saving(req[p]), FilePath(req[p].doc, req[p].n) = k
        PROVE  FALSE
    <2>1. req[p].doc = req[r].doc /\ req[p].n = req[r].n
      BY <1>1, <1>2, SavingParts, KeyParts
    <2>2. AddsVersion(req[p])
      BY <1>2, <2>1, SavingParts
    <2>. QED  BY <2>1, <2>2, ConstantsAssumption DEF Isolated, SavesIsolated
  <1>. QED  BY <1>1, <1>2 DEF Loose, k

\* A request that adds a version may write or delete its object.
LEMMA LooseAdded ==
    ASSUME Shape, Isolated, Numbered, NEW r \in Request, AddsVersion(req[r])
    PROVE  /\ req[r].doc \in Doc /\ req[r].n \in Version /\ req[r].n > 1
           /\ req[r].n = current[req[r].doc] + 1
           /\ Loose(FilePath(req[r].doc, req[r].n), r)
  <1>1. req[r] \in RequestState /\ WellFormed(req[r])
    BY DEF Shape, RequestsOK
  <1>2. req[r].doc \in Doc /\ req[r].n \in Version /\ req[r].n > 1
    BY <1>1, ConstantsAssumption DEF RequestState, WellFormed, AddsVersion, Unresolved, Version
  <1>3. lock[req[r].doc] = r /\ req[r].n = current[req[r].doc] + 1
    BY DEF Isolated, SavesIsolated
  <1>4. <<req[r].doc, req[r].n>> \notin versions
    BY <1>2, <1>3, ConstantsAssumption DEF Numbered, Shape, TypeOK
  <1>. QED  BY <1>2, <1>3, <1>4, LooseNext

\* Nobody needs the objects of a document that is gone.
LEMMA LooseGone ==
    ASSUME Shape, Isolated, Numbered, NEW k \in Key, status[k[1]] = "gone", NEW r
    PROVE  Loose(k, r)
  <1>1. k[1] \in Doc /\ k[2] \in Version
    BY DEF Key
  <1>2. <<k[1], k[2]>> \notin versions
    BY <1>1 DEF Numbered, HasRow
  <1>3. ASSUME NEW p \in Request \ {r}, Saving(req[p]), FilePath(req[p].doc, req[p].n) = k
        PROVE  FALSE
    <2>1. req[p].doc = k[1] /\ (AddsDocument(req[p]) \/ AddsVersion(req[p]))
      BY <1>3, SavingParts, KeyParts
    <2>. QED  BY <2>1 DEF Isolated, SavesIsolated
  <1>. QED  BY <1>2, <1>3 DEF Loose

\* The invariant behind VersionsHaveObjects and ChargedSizeIsStored.
Stored ==
    /\ Base
    /\ Numbered
    /\ OwnIds
    /\ RequestsStored
    /\ VersionsHaveObjects
    /\ ChargedSizeIsStored

\* A step of r that leaves the objects alone.
LEMMA NoObject ==
    ASSUME Stored, RowsStep, NEW r \in Request, NEW q, Goto(r, q), UNCHANGED objects,
           RequestStored(req[r])'
    PROVE  RequestsStored' /\ ObjectsKept
  <1>1. \A p \in Request \ {r} : req'[p] = req[p]
    BY GotoEffect DEF Stored, Base
  <1>. DEFINE K == {}
  <1>2. /\ \A k \in Key \ K : objects'[k] = objects[k]
        /\ \A k \in K : Loose(k, r) /\ objects'[k] = 0
    OBVIOUS
  <1>. HIDE DEF K
  <1>. QED  BY <1>1, <1>2, StoreFrame DEF Stored, Base

\* An actor that is no request leaves the objects alone.
LEMMA OutsiderStored ==
    ASSUME Stored, RowsStep, UNCHANGED <<req, objects>>
    PROVE  RequestsStored' /\ ObjectsKept
  <1>1. None \notin Request /\ \A p \in Request \ {None} : req'[p] = req[p]
    BY ConstantsAssumption
  <1>. DEFINE K == {}
  <1>2. /\ \A k \in Key \ K : objects'[k] = objects[k]
        /\ \A k \in K : Loose(k, None) /\ objects'[k] = 0
    OBVIOUS
  <1>. HIDE DEF K
  <1>. QED  BY <1>1, <1>2, StoreFrame DEF Stored, Base

\* A request that deletes objects (all but those in left) and ends.
LEMMA DeleteStored ==
    ASSUME Stored, RowsStep, NEW r \in Request, NEW q, Goto(r, q), NEW K, NEW left,
           objects' = Without(K, left), \A k \in K : Loose(k, r),
           RequestStored(req[r])'
    PROVE  RequestsStored' /\ ObjectsKept
  <1>1. \A p \in Request \ {r} : req'[p] = req[p]
    BY GotoEffect DEF Stored, Base
  <1>. DEFINE M == {k \in K \cap Key : k \notin left}
  <1>2. /\ \A k \in Key \ M : objects'[k] = objects[k]
        /\ \A k \in M : Loose(k, r) /\ objects'[k] = 0
    BY DEF Without
  <1>. HIDE DEF M
  <1>. QED  BY <1>1, <1>2, StoreFrame DEF Stored, Base

\* A request that stores one object.
LEMMA OneStored ==
    ASSUME Stored, RowsStep, NEW r \in Request, NEW q, Goto(r, q), NEW k, Loose(k, r),
           \A j \in Key \ {k} : objects'[j] = objects[j],
           \A p \in Request \ {r} : req[p].pc = "checked" => req[p].src # k,
           RequestStored(req[r])'
    PROVE  RequestsStored' /\ ObjectsKept
  <1>1. \A p \in Request \ {r} : req'[p] = req[p]
    BY GotoEffect DEF Stored, Base
  <1>. DEFINE K == {k}
  <1>2. /\ \A j \in Key \ K : objects'[j] = objects[j]
        /\ \A j \in K : Loose(j, r)
        /\ \A j \in K : \A p \in Request \ {r} : req[p].pc = "checked" => req[p].src # j
    OBVIOUS
  <1>. HIDE DEF K
  <1>. QED  BY <1>1, <1>2, StoreFrame DEF Stored, Base

\* A request that is finished relies on what its transaction relied on.
LEMMA FinishStored ==
    ASSUME Stored, NEW r \in Request, Finish(r),
           ~Unresolved(req[r]) \/ UNCHANGED objects \/ ~Trusted(req[r].n)
    PROVE  RequestStored(req[r])'
  <1>0. req[r] \in RequestState /\ RequestStored(req[r])
    BY DEF Stored, Base, Shape, RequestsOK, RequestsStored
  <1>1. CASE Unresolved(req[r])
    <2>. DEFINE q == [req[r] EXCEPT !.pc = "dead"]
    <2>1. q.doc = req[r].doc /\ q.n = req[r].n /\ q.pc = "dead" /\ q.size = req[r].size
      BY <1>0 DEF RequestState
    <2>2. Goto(r, q)
      BY <1>1 DEF Finish
    <2>. HIDE DEF q
    <2>3. req'[r] = q
      BY <2>2, GotoEffect DEF Stored, Base
    <2>4. Saving(req[r])
      BY <1>1 DEF Unresolved, Saving
    <2>5. (UNCHANGED objects \/ ~Trusted(q.n)) => InStore(req[r])'
      BY <1>0, <2>1, <2>3, <2>4 DEF RequestStored, InStore, Trusted
    <2>. QED  BY <1>1, <2>1, <2>3, <2>5 DEF RequestStored, Sized, Copying, Purging
  <1>2. CASE ~Unresolved(req[r])
    <2>1. req'[r].pc = "idle"
      BY <1>2, GotoEffect DEF Finish, Idle, OnBatch, Stored, Base
    <2>. QED  BY <2>1, FreeStored
  <1>. QED  BY <1>1, <1>2

-----------------------------------------------------------------------------
(***************************************************************************)
(* Every step keeps what the requests rely on, and the objects of the      *)
(* version rows.                                                           *)
(***************************************************************************)

\* Taking the row lock of a document for its next version.
LEMMA LockStored ==
    ASSUME Stored, RowsStep, NEW r \in Request, NEW d, NEW s, s # 0, LockForVersion(r, d, s)
    PROVE  RequestsStored' /\ ObjectsKept
  <1>. DEFINE q == OnDocument("locked", d, current[d] + 1, s, None, None)
  <1>1. Goto(r, q) /\ UNCHANGED objects
    BY DEF LockForVersion
  <1>2. q.pc = "locked" /\ q.size # 0
    BY DEF OnDocument
  <1>. HIDE DEF q
  <1>3. req'[r] = q
    BY <1>1, GotoEffect DEF Stored, Base
  <1>4. RequestStored(req[r])'
    BY <1>2, <1>3 DEF RequestStored, Sized, InStore, Copying, Purging, Saving
  <1>. QED  BY <1>1, <1>4, NoObject

\* The first step of a request.
LEMMA StartStored ==
    ASSUME Stored, RowsStep, NEW r \in Request, Start(r)
    PROVE  RequestsStored' /\ ObjectsKept
  <1>0. Shape /\ Numbered /\ TypeOK
    BY DEF Stored, Base, Shape
  <1>1. ASSUME NEW d \in Doc, NEW s \in 1..FileSizeLimit, NEW c \in Counter,
               SaveStart(r, d, s, c)
        PROVE  RequestsStored' /\ ObjectsKept
    <2>. DEFINE q == OnDocument("checked", d, 1, s, c, None)
    <2>1. Goto(r, q) /\ UNCHANGED objects
      BY <1>1 DEF SaveStart
    <2>2. q.pc = "checked" /\ q.src = None /\ q.size # 0
      BY ConstantsAssumption DEF OnDocument
    <2>. HIDE DEF q
    <2>3. req'[r] = q
      BY <1>0, <2>1, GotoEffect
    <2>4. RequestStored(req[r])'
      BY <2>2, <2>3 DEF RequestStored, Sized, InStore, Copying, Purging, Saving
    <2>. QED  BY <2>1, <2>4, NoObject
  <1>2. ASSUME NEW d \in Doc, NEW source \in Doc, NEW c \in Counter,
               DuplicateStart(r, d, source, c)
        PROVE  RequestsStored' /\ ObjectsKept
    <2>. DEFINE k == FilePath(source, current[source])
                q == OnDocument("checked", d, 1, size[source], c, k)
    <2>1. Goto(r, q) /\ UNCHANGED <<objects, current>>
      BY <1>2 DEF DuplicateStart
    <2>2. k \in Key /\ k[1] = source /\ k[2] = current[source]
      BY <1>0, <1>2, KeyParts DEF DuplicateStart, TypeOK
    <2>3. status[source] = "active" /\ status'[source] = "active" /\ HasRow(source)
      BY <1>0, <1>2 DEF DuplicateStart, TypeOK, HasRow
    <2>4. ~CommitMayLag => objects[k] = size[source]
      BY <2>3 DEF Stored, ChargedSizeIsStored
    <2>. HIDE DEF k
    <2>5. q.pc = "checked" /\ q.src = k /\ q.size = size[source]
      BY DEF OnDocument
    <2>6. k # None
      BY <2>2, ConstantsAssumption
    <2>. HIDE DEF q
    <2>7. req'[r] = q
      BY <1>0, <2>1, GotoEffect
    <2>8. Copying(req[r])'
      <3>1. k[2] <= current'[k[1]]
        BY <1>0, <2>1, <2>2, ConstantsAssumption DEF TypeOK
      <3>. QED  BY <2>1, <2>2, <2>3, <2>4, <2>5, <2>7, <3>1 DEF Copying, Past
    <2>9. RequestStored(req[r])'
      BY <2>5, <2>6, <2>7, <2>8 DEF RequestStored, Sized, InStore, Purging, Saving
    <2>. QED  BY <2>1, <2>9, NoObject
  <1>3. ASSUME NEW d \in Doc, NEW s \in 1..FileSizeLimit, VersionStart(r, d, s)
        PROVE  RequestsStored' /\ ObjectsKept
    BY <1>3, LockStored, ConstantsAssumption DEF VersionStart
  <1>4. ASSUME NEW d \in Doc, RevertStart(r, d)
        PROVE  RequestsStored' /\ ObjectsKept
    <2>. DEFINE q == OnDocument("reverting", d, 0, objects[get_document_key(d, 1)], None, None)
    <2>1. Goto(r, q) /\ UNCHANGED objects
      BY <1>4 DEF RevertStart
    <2>2. q.pc = "reverting" /\ q.size # 0
      BY <1>4 DEF RevertStart, OnDocument
    <2>. HIDE DEF q
    <2>3. req'[r] = q
      BY <1>0, <2>1, GotoEffect
    <2>4. RequestStored(req[r])'
      BY <2>2, <2>3 DEF RequestStored, Sized, InStore, Copying, Purging, Saving
    <2>. QED  BY <2>1, <2>4, NoObject
  <1>5. ASSUME NEW d \in Doc, HardDelete(r, d)
        PROVE  RequestsStored' /\ ObjectsKept
    <2>. DEFINE K == collect_document_object_keys({d})
                q == OnBatch("cleanup", {}, K)
    <2>1. Goto(r, q) /\ UNCHANGED objects /\ status'[d] = "gone"
      BY <1>5 DEF HardDelete, DropRows
    <2>2. \A k \in K : k[1] = d
      <3>1. \A v \in versions : v[1] \in Doc /\ v[2] \in Version
        BY <1>0 DEF TypeOK
      <3>. QED  BY <3>1, KeyParts DEF collect_document_object_keys
    <2>. HIDE DEF K
    <2>3. q.pc = "cleanup" /\ q.keys = K
      BY DEF OnBatch
    <2>. HIDE DEF q
    <2>4. req'[r] = q
      BY <1>0, <2>1, GotoEffect
    <2>5. RequestStored(req[r])'
      BY <2>1, <2>2, <2>3, <2>4 DEF RequestStored, Sized, InStore, Copying, Purging, Saving
    <2>. QED  BY <2>1, <2>5, NoObject
  <1>6. ASSUME NEW d \in Doc, NEW c \in Counter, RestoreStart(r, d, c)
        PROVE  RequestsStored' /\ ObjectsKept
    <2>. DEFINE q == OnDocument("restoring", d, 0, 0, c, None)
    <2>1. Goto(r, q) /\ UNCHANGED objects
      BY <1>6 DEF RestoreStart
    <2>2. q.pc = "restoring"
      BY DEF OnDocument
    <2>. HIDE DEF q
    <2>3. RequestStored(req[r])'
      BY <1>0, <2>1, <2>2, GotoEffect, FreeStored
    <2>. QED  BY <2>1, <2>3, NoObject
  <1>. QED
    BY <1>1, <1>2, <1>3, <1>4, <1>5, <1>6 DEF Start

\* Deleting the objects of documents that are gone.
LEMMA CleanUpStored ==
    ASSUME Stored, RowsStep, NEW r \in Request, NEW left, CleanUp(r, left)
    PROVE  RequestsStored' /\ ObjectsKept
  <1>0. Shape /\ Isolated /\ Numbered /\ RequestStored(req[r]) /\ req[r] \in RequestState
    BY DEF Stored, Base, Shape, RequestsOK, RequestsStored
  <1>1. Goto(r, Idle) /\ objects' = Without(req[r].keys, left)
    BY DEF CleanUp
  <1>2. \A k \in req[r].keys : k \in Key /\ status[k[1]] = "gone"
    BY <1>0 DEF CleanUp, RequestStored, Purging, RequestState
  <1>3. \A k \in req[r].keys : Loose(k, r)
    BY <1>0, <1>2, LooseGone
  <1>4. req'[r].pc = "idle"
    BY <1>0, <1>1, GotoEffect DEF Idle, OnBatch
  <1>. QED  BY <1>1, <1>3, <1>4, FreeStored, DeleteStored

\* A request deletes the object of its own version, which no row has.
LEMMA OwnLoose ==
    ASSUME Stored, NEW r \in Request, HasId(req[r]) \/ AddsVersion(req[r]), req[r].n > 0,
           HasId(req[r]) => req[r].doc \in Doc /\ req[r].n = 1 /\ ~HasRow(req[r].doc)
    PROVE  \A k \in {FilePath(req[r].doc, req[r].n)} : Loose(k, r)
  BY LooseNew, LooseAdded DEF Stored, Base

\* The later steps of a request.
LEMMA ContinueStored ==
    ASSUME Stored, RowsStep, NEW r \in Request, Continue(r)
    PROVE  RequestsStored' /\ ObjectsKept
  <1>. DEFINE q == req[r]
  <1>0. /\ Shape /\ Isolated /\ Numbered /\ TypeOK /\ SavesIsolated /\ OwnIds /\ RequestsStored
        /\ q \in RequestState /\ WellFormed(q) /\ RequestStored(q)
    BY DEF Stored, Base, Shape, Isolated, RequestsOK, RequestsStored
  <1>1. CASE StoreNewObject(r)
    <2>. DEFINE content == IF q.src = None THEN q.size ELSE objects[q.src]
                next == OnDocument("uploaded", q.doc, 1, q.size, q.ctr, None)
                k == FilePath(q.doc, 1)
    <2>1. /\ q.doc \in Doc /\ q.pc = "checked" /\ content # 0
          /\ objects' = [objects EXCEPT ![k] = content]
          /\ Goto(r, next)
      BY <1>0, <1>1 DEF StoreNewObject, WellFormed, FilePath
    <2>2. k \in Key /\ k[1] = q.doc
      BY <2>1, KeyParts, ConstantsAssumption DEF Version
    <2>3. HasId(q) /\ status[q.doc] = "drawn" /\ ~HasRow(q.doc)
      BY <1>0, <2>1 DEF HasId, AddsDocument, SavesIsolated, HasRow
    <2>4. Loose(k, r)
      BY <1>0, <2>1, <2>3, LooseNew
    <2>5. ~CommitMayLag => content = q.size
      <3>. SUFFICES ASSUME ~CommitMayLag, q.src # None
                    PROVE  objects[q.src] \in {0, q.size}
        BY <2>1
      <3>. QED  BY <1>0, <2>1 DEF RequestStored, Copying
    <2>6. next.pc = "uploaded" /\ next.doc = q.doc /\ next.n = 1 /\ next.size = q.size
      BY DEF OnDocument
    <2>. HIDE DEF next, content, k
    <2>7. req'[r] = next /\ \A p \in Request \ {r} : req'[p] = req[p]
      BY <1>0, <2>1, GotoEffect
    <2>8. objects'[k] = content /\ \A j \in Key \ {k} : objects'[j] = objects[j]
      BY <1>0, <2>1, <2>2 DEF TypeOK
    <2>9. InStore(req[r])'
      BY <2>1, <2>5, <2>6, <2>7, <2>8 DEF InStore, Trusted, k
    <2>10. RequestStored(req[r])'
      BY <2>6, <2>7, <2>9 DEF RequestStored, Sized, Copying, Purging
    <2>11. ASSUME NEW p \in Request \ {r}, req[p].pc = "checked"
           PROVE  req[p].src # k
      <3>. SUFFICES ASSUME req[p].src = k PROVE FALSE
        OBVIOUS
      <3>1. k # None
        BY <2>2, ConstantsAssumption
      <3>2. Past(q.doc)
        BY <1>0, <2>2, <2>11, <3>1 DEF RequestsStored, RequestStored, Copying
      <3>. QED  BY <2>3, <3>2 DEF Past
    <2>. QED
      BY <2>1, <2>4, <2>8, <2>10, <2>11, OneStored
  <1>2. CASE CopyFails(r) \/ RevertNotFound(r) \/ RestoreNotFound(r)
    <2>1. Goto(r, Idle) /\ UNCHANGED objects
      BY <1>2 DEF CopyFails, RevertNotFound, RestoreNotFound
    <2>2. req'[r].pc = "idle"
      BY <1>0, <2>1, GotoEffect DEF Idle, OnBatch
    <2>. QED  BY <2>1, <2>2, FreeStored, NoObject
  <1>3. CASE RevertLock(r)
    <2>1. q.size # 0
      BY <1>0, <1>3 DEF RevertLock, RequestStored, Sized
    <2>. QED  BY <1>3, <2>1, LockStored DEF RevertLock
  <1>4. CASE StoreVersionObject(r)
    <2>. DEFINE next == [q EXCEPT !.pc = "stored"]
                k == FilePath(q.doc, q.n)
    <2>1. AddsVersion(q) /\ q.size # 0
      BY <1>0, <1>4 DEF StoreVersionObject, AddsVersion, RequestStored, Sized
    <2>2. /\ q.doc \in Doc /\ q.n \in Version /\ q.n > 1 /\ q.n = current[q.doc] + 1
          /\ Loose(k, r)
      BY <1>0, <2>1, LooseAdded
    <2>3. k \in Key /\ k[1] = q.doc /\ k[2] = q.n
      BY <2>2, KeyParts
    <2>4. /\ objects' = [objects EXCEPT ![k] = q.size]
          /\ Goto(r, next)
      <3>1. q.n # 1
        BY <2>2
      <3>. QED  BY <1>4, <3>1 DEF StoreVersionObject, FilePath
    <2>5. next.pc = "stored" /\ next.doc = q.doc /\ next.n = q.n /\ next.size = q.size
      BY <1>0 DEF RequestState
    <2>. HIDE DEF next, k
    <2>6. req'[r] = next /\ \A p \in Request \ {r} : req'[p] = req[p]
      BY <1>0, <2>4, GotoEffect
    <2>7. objects'[k] = q.size /\ \A j \in Key \ {k} : objects'[j] = objects[j]
      BY <1>0, <2>3, <2>4 DEF TypeOK
    <2>8. InStore(req[r])'
      BY <2>1, <2>5, <2>6, <2>7 DEF InStore, k
    <2>9. RequestStored(req[r])'
      BY <2>5, <2>6, <2>8 DEF RequestStored, Sized, Copying, Purging
    <2>10. ASSUME NEW p \in Request \ {r}, req[p].pc = "checked"
           PROVE  req[p].src # k
      <3>. SUFFICES ASSUME req[p].src = k PROVE FALSE
        OBVIOUS
      <3>1. k # None
        BY <2>3, ConstantsAssumption
      <3>2. q.n <= current[q.doc]
        BY <1>0, <2>3, <2>10, <3>1 DEF RequestsStored, RequestStored, Copying
      <3>3. current[q.doc] \in Nat
        BY <1>0, <2>2, ConstantsAssumption DEF TypeOK
      <3>. QED  BY <2>2, <3>2, <3>3
    <2>. QED
      BY <2>2, <2>4, <2>7, <2>9, <2>10, OneStored DEF k
  <1>5. CASE CommitRows(r) \/ RestoreCommit(r)
    <2>1. Goto(r, Idle) /\ UNCHANGED objects
      BY <1>5 DEF CommitRows, RestoreCommit, Recharge
    <2>2. req'[r].pc = "idle"
      BY <1>0, <2>1, GotoEffect DEF Idle, OnBatch
    <2>. QED  BY <2>1, <2>2, FreeStored, NoObject
  <1>6. CASE KeepObject(r)
    BY <1>6, FinishStored, NoObject DEF KeepObject, Finish
  <1>7. CASE DeleteObject(r)
    <2>. DEFINE K == {FilePath(q.doc, q.n)}
    <2>0. Finish(r) /\ objects' = Without(K, {})
      BY <1>7 DEF DeleteObject
    <2>1. q.doc \in Doc /\ q.n \in Version
      BY <1>0, <1>7, ConstantsAssumption DEF DeleteObject, WellFormed, RequestState, Version
    <2>2. CASE q.n = 1
      <3>1. HasId(q) /\ ~HasRow(q.doc)
        BY <1>7, <2>2
        DEF DeleteObject, HasId, AddsDocument, Unresolved, Committed, _new_document_committed
      <3>2. \A k \in K : Loose(k, r)
        BY <1>0, <2>1, <2>2, <3>1, LooseNew
      <3>3. ~Unresolved(q) \/ ~Trusted(q.n)
        BY <1>7, <2>2 DEF DeleteObject, CheckMayRun, NewDocumentCheckMayRun, Trusted
      <3>4. RequestStored(req[r])'
        BY <2>0, <3>3, FinishStored
      <3>. HIDE DEF K
      <3>. QED  BY <2>0, <3>2, <3>4, DeleteStored DEF Finish
    <2>3. CASE q.n # 1
      <3>1. lock[q.doc] = None /\ <<q.doc, q.n>> \notin versions
        BY <1>7, <2>3
        DEF DeleteObject, CheckMayRun, VersionCheckMayRun, Committed, _version_committed
      <3>2. \A k \in K : Loose(k, r)
        BY <1>0, <2>1, <2>3, <3>1, LooseNext
      <3>3. ~Unresolved(q)
        <4>1. ASSUME Unresolved(q)
              PROVE  AddsVersion(q)
          <5>1. Saving(q)
            BY <4>1 DEF Unresolved, Saving
          <5>. QED  BY <1>0, <2>3, <5>1, SavingParts
        <4>. QED  BY <1>0, <3>1, <4>1, ConstantsAssumption DEF SavesIsolated
      <3>4. RequestStored(req[r])'
        BY <2>0, <3>3, FinishStored
      <3>. HIDE DEF K
      <3>. QED  BY <2>0, <3>2, <3>4, DeleteStored DEF Finish
    <2>. QED  BY <2>2, <2>3
  <1>8. CASE PurgeDelete(r)
    <2>. DEFINE next == OnBatch("cleanup", {}, q.keys)
    <2>1. Goto(r, next) /\ UNCHANGED objects
      BY <1>8 DEF PurgeDelete
    <2>2. \A k \in q.keys : status'[k[1]] = "gone"
      <3>1. \A k \in q.keys : k[1] \in q.batch /\ k[1] \in Doc /\ Past(k[1])
        BY <1>0, <1>8 DEF PurgeDelete, RequestStored, Purging, RequestState
      <3>. QED  BY <1>8, <3>1 DEF PurgeDelete, DropRows, HasRow, Past
    <2>3. next.pc = "cleanup" /\ next.keys = q.keys
      BY DEF OnBatch
    <2>. HIDE DEF next
    <2>4. req'[r] = next
      BY <1>0, <2>1, GotoEffect
    <2>5. RequestStored(req[r])'
      BY <2>2, <2>3, <2>4 DEF RequestStored, Sized, InStore, Copying, Purging, Saving
    <2>. QED  BY <2>1, <2>5, NoObject
  <1>9. CASE CleanUp(r, {})
    BY <1>9, CleanUpStored
  <1>. QED
    BY <1>1, <1>2, <1>3, <1>4, <1>5, <1>6, <1>7, <1>8, <1>9 DEF Continue

\* The server ends a transaction whose client saw COMMIT fail.
LEMMA ResolveStored ==
    ASSUME Stored, RowsStep, NEW r \in Request, Resolve(r)
    PROVE  RequestsStored' /\ ObjectsKept
  <1>0. Shape /\ req[r] \in RequestState
    BY DEF Stored, Base, Shape, RequestsOK
  <1>1. Goto(r, Resolved(req[r])) /\ UNCHANGED objects
    BY DEF Resolve, ServerCommits, ServerAborts
  <1>2. Resolved(req[r]).pc \in {"idle", "settled"}
    BY <1>0 DEF Resolved, Idle, OnBatch, RequestState
  <1>3. req'[r].pc \in {"idle", "settled"}
    BY <1>0, <1>1, <1>2, GotoEffect
  <1>. QED  BY <1>1, <1>3, FreeStored, NoObject

\* A failure.
LEMMA BreakStored ==
    ASSUME Stored, RowsStep, NEW r \in Request, Break(r)
    PROVE  RequestsStored' /\ ObjectsKept
  <1>. DEFINE q == req[r]
  <1>0. /\ Shape /\ Isolated /\ Numbered /\ SavesIsolated /\ OwnIds
        /\ q \in RequestState /\ WellFormed(q) /\ RequestStored(q)
    BY DEF Stored, Base, Shape, Isolated, RequestsOK, RequestsStored
  <1>1. CASE RowsFail(r)
    <2>1. PICK kept \in SUBSET {FilePath(q.doc, q.n)} :
              objects' = Without({FilePath(q.doc, q.n)}, kept)
      BY <1>1 DEF RowsFail
    <2>2. Goto(r, Idle) /\ q.pc \in {"uploaded", "stored"}
      BY <1>1 DEF RowsFail, ReadyToCommit
    <2>3. Loose(FilePath(q.doc, q.n), r)
      <3>1. CASE q.pc = "uploaded"
        <4>1. q.n = 1 /\ q.doc \in Doc /\ AddsDocument(q) /\ HasId(q)
          BY <1>0, <3>1 DEF WellFormed, AddsDocument, HasId
        <4>2. ~HasRow(q.doc)
          BY <1>0, <4>1 DEF SavesIsolated, HasRow
        <4>. QED  BY <1>0, <4>1, <4>2, LooseNew
      <3>2. CASE q.pc = "stored"
        <4>1. AddsVersion(q)
          BY <3>2 DEF AddsVersion
        <4>. QED  BY <1>0, <4>1, LooseAdded
      <3>. QED  BY <2>2, <3>1, <3>2
    <2>4. req'[r].pc = "idle"
      BY <1>0, <2>2, GotoEffect DEF Idle, OnBatch
    <2>. DEFINE K == {FilePath(q.doc, q.n)}
    <2>5. objects' = Without(K, kept) /\ \A k \in K : Loose(k, r)
      BY <2>1, <2>3
    <2>. HIDE DEF K
    <2>. QED  BY <2>2, <2>4, <2>5, FreeStored, DeleteStored
  <1>2. CASE CommitBreaks(r)
    <2>. DEFINE next == [q EXCEPT !.pc = "unsure"]
    <2>1. next.pc = "unsure" /\ next.doc = q.doc /\ next.n = q.n /\ next.size = q.size
      BY <1>0 DEF RequestState
    <2>2. Goto(r, next) /\ UNCHANGED objects /\ Saving(q)
      BY <1>2 DEF CommitBreaks, ReadyToCommit, Saving
    <2>. HIDE DEF next
    <2>3. req'[r] = next
      BY <1>0, <2>2, GotoEffect
    <2>4. InStore(req[r])'
      BY <1>0, <2>1, <2>2, <2>3 DEF RequestStored, InStore, Trusted
    <2>5. RequestStored(req[r])'
      BY <2>1, <2>3, <2>4 DEF RequestStored, Sized, Copying, Purging
    <2>. QED  BY <2>2, <2>5, NoObject
  <1>3. CASE CheckFails(r) \/ Crash(r)
    BY <1>3, FinishStored, NoObject DEF CheckFails, Crash, Finish
  <1>4. CASE UploadFails(r)
    <2>1. Goto(r, Idle) /\ UNCHANGED objects
      BY <1>4 DEF UploadFails
    <2>2. req'[r].pc = "idle"
      BY <1>0, <2>1, GotoEffect DEF Idle, OnBatch
    <2>. QED  BY <2>1, <2>2, FreeStored, NoObject
  <1>5. ASSUME NEW left, CleanUp(r, left)
        PROVE  RequestsStored' /\ ObjectsKept
    BY <1>5, CleanUpStored
  <1>. QED
    BY <1>1, <1>2, <1>3, <1>4, <1>5 DEF Break

\* The purge's read.
LEMMA PurgeStored ==
    ASSUME Stored, RowsStep, Purge
    PROVE  RequestsStored' /\ ObjectsKept
  <1>. PICK r \in Request, S \in SUBSET Doc : PurgeSelect(r, S)
    BY DEF Purge
  <1>. DEFINE K == collect_document_object_keys(S)
              q == OnBatch("selected", S, K)
  <1>0. Shape /\ TypeOK
    BY DEF Stored, Base, Shape
  <1>1. Goto(r, q) /\ UNCHANGED <<objects, status>> /\ \A d \in S : status[d] = "trashed"
    BY DEF PurgeSelect, rows
  <1>2. \A k \in K : k[1] \in S
    <2>1. \A v \in versions : v[1] \in Doc /\ v[2] \in Version
      BY <1>0 DEF TypeOK
    <2>. QED  BY <2>1, KeyParts DEF collect_document_object_keys
  <1>. HIDE DEF K
  <1>3. q.pc = "selected" /\ q.keys = K /\ q.batch = S
    BY DEF OnBatch
  <1>. HIDE DEF q
  <1>4. req'[r] = q
    BY <1>0, <1>1, GotoEffect
  <1>5. RequestStored(req[r])'
    BY <1>1, <1>2, <1>3, <1>4
    DEF RequestStored, Sized, InStore, Copying, Purging, Saving, Past
  <1>. QED  BY <1>1, <1>5, NoObject

\* Every step.
LEMMA NextObjects ==
    ASSUME Stored, [Next]_vars
    PROVE  RequestsStored' /\ ObjectsKept
  <1>1. RowsStep
    BY NextRows DEF Stored, Base
  <1>2. CASE UNCHANGED <<req, objects>>
    BY <1>1, <1>2, OutsiderStored
  <1>3. ASSUME ~UNCHANGED <<req, objects>>
        PROVE  \/ \E r \in Request : Start(r) \/ Continue(r) \/ Resolve(r) \/ Break(r)
               \/ Purge
    BY <1>3
    DEF Next, vars, SoftDelete, TrashFolder, Administer, AdminRestore, Recharge, Reconcile,
        add_member, remove_member, delete_tenant, update_tenant
  <1>. QED
    BY <1>1, <1>2, <1>3, StartStored, ContinueStored, ResolveStored, BreakStored, PurgeStored

-----------------------------------------------------------------------------
(***************************************************************************)
(* The ids of new documents.                                               *)
(***************************************************************************)

\* A request that goes on with the id it has drawn, or forgets it.
LEMMA IdsFrame ==
    ASSUME Shape, OwnIds, RowsStep, NEW r \in Request, NEW q, Goto(r, q),
           HasId(q) => HasId(req[r]) /\ q.doc = req[r].doc
    PROVE  OwnIds'
  <1>1. req'[r] = q /\ \A p \in Request \ {r} : req'[p] = req[p]
    BY GotoEffect
  <1>2. \A p \in Request : HasId(req[p]) => req[p].doc \in Doc
    BY DEF Shape, RequestsOK, WellFormed, HasId, AddsDocument, Unresolved
  <1>3. \A d \in Doc : status[d] # "none" => status'[d] # "none"
    BY Progress
  <1>4. \A p \in Request : HasId(req'[p]) => HasId(req[p]) /\ req'[p].doc = req[p].doc
    BY <1>1
  <1>5. \A p \in Request : HasId(req[p])' <=> HasId(req'[p])
    BY DEF HasId, AddsDocument, Unresolved
  <1>. QED  BY <1>2, <1>3, <1>4, <1>5 DEF OwnIds

\* A request that draws an id that nobody has drawn.
LEMMA IdsDraw ==
    ASSUME Shape, OwnIds, RowsStep, NEW r \in Request, NEW q, Goto(r, q), q.doc \in Doc,
           status[q.doc] = "none", status'[q.doc] = "drawn"
    PROVE  OwnIds'
  <1>1. req'[r] = q /\ \A p \in Request \ {r} : req'[p] = req[p]
    BY GotoEffect
  <1>2. \A p \in Request : HasId(req[p]) => req[p].doc \in Doc
    BY DEF Shape, RequestsOK, WellFormed, HasId, AddsDocument, Unresolved
  <1>3. \A d \in Doc : status[d] # "none" => status'[d] # "none"
    BY Progress
  <1>4. \A p \in Request : HasId(req[p])' <=> HasId(req'[p])
    BY DEF HasId, AddsDocument, Unresolved
  <1>5. \A p \in Request \ {r} : HasId(req[p]) => req[p].doc # q.doc
    BY DEF OwnIds
  <1>. QED  BY <1>1, <1>2, <1>3, <1>4, <1>5 DEF OwnIds

\* Every step keeps the ids apart.
LEMMA NextIds ==
    ASSUME Shape, OwnIds, RowsStep, [Next]_vars
    PROVE  OwnIds'
  <1>1. CASE UNCHANGED req
    <2>1. \A p \in Request : HasId(req[p]) => req[p].doc \in Doc
      BY DEF Shape, RequestsOK, WellFormed, HasId, AddsDocument, Unresolved
    <2>2. \A d \in Doc : status[d] # "none" => status'[d] # "none"
      BY Progress
    <2>3. \A p \in Request : HasId(req[p])' <=> HasId(req[p])
      BY <1>1 DEF HasId, AddsDocument, Unresolved
    <2>. QED  BY <1>1, <2>1, <2>2, <2>3 DEF OwnIds
  <1>2. ASSUME NEW r \in Request, Goto(r, Idle)
        PROVE  OwnIds'
    <2>1. ~HasId(Idle)
      BY DEF Idle, OnBatch, HasId, AddsDocument, Unresolved
    <2>. QED  BY <1>2, <2>1, IdsFrame
  <1>3. ASSUME NEW r \in Request, NEW q, Goto(r, q),
               q.pc \in {"reverting", "restoring", "locked", "cleanup", "selected"}
        PROVE  OwnIds'
    <2>1. ~HasId(q)
      BY <1>3 DEF HasId, AddsDocument, Unresolved
    <2>. QED  BY <1>3, <2>1, IdsFrame
  <1>4. ASSUME NEW r \in Request, NEW pc, Goto(r, [req[r] EXCEPT !.pc = pc]),
               \/ pc = "stored"
               \/ pc = "unsure" /\ ReadyToCommit(r)
               \/ pc \in {"dead", "settled"} /\ Unresolved(req[r])
        PROVE  OwnIds'
    <2>. DEFINE q == [req[r] EXCEPT !.pc = pc]
    <2>0. req[r] \in RequestState /\ WellFormed(req[r])
      BY DEF Shape, RequestsOK
    <2>1. q.doc = req[r].doc /\ q.n = req[r].n /\ q.pc = pc
      BY <2>0 DEF RequestState
    <2>. HIDE DEF q
    <2>2. HasId(q) => HasId(req[r])
      BY <1>4, <2>0, <2>1 DEF HasId, AddsDocument, Unresolved, ReadyToCommit, WellFormed
    <2>. QED  BY <1>4, <2>1, <2>2, IdsFrame DEF q
  <1>5. ASSUME NEW r \in Request, Finish(r)
        PROVE  OwnIds'
    BY <1>2, <1>4, <1>5 DEF Finish
  <1>6. ASSUME NEW r \in Request, Start(r)
        PROVE  OwnIds'
    <2>1. ASSUME NEW d \in Doc, NEW s, NEW c, NEW k, Goto(r, OnDocument("checked", d, 1, s, c, k)),
                 status[d] = "none", status' = [status EXCEPT ![d] = "drawn"]
          PROVE  OwnIds'
      <3>. DEFINE q == OnDocument("checked", d, 1, s, c, k)
      <3>1. q.doc = d /\ Goto(r, q) /\ status'[d] = "drawn"
        BY <2>1 DEF OnDocument, Shape, TypeOK
      <3>. HIDE DEF q
      <3>. QED  BY <2>1, <3>1, IdsDraw
    <2>2. ASSUME NEW d \in Doc, NEW s, NEW c, SaveStart(r, d, s, c)
          PROVE  OwnIds'
      BY <2>1, <2>2 DEF SaveStart
    <2>3. ASSUME NEW d \in Doc, NEW source, NEW c, DuplicateStart(r, d, source, c)
          PROVE  OwnIds'
      BY <2>1, <2>3 DEF DuplicateStart
    <2>4. ASSUME NEW q, Goto(r, q), q.pc \in {"reverting", "restoring", "locked", "cleanup"}
          PROVE  OwnIds'
      BY <1>3, <2>4
    <2>5. ASSUME NEW d \in Doc, NEW s, VersionStart(r, d, s)
          PROVE  OwnIds'
      BY <2>4, <2>5 DEF VersionStart, LockForVersion, OnDocument
    <2>6. ASSUME NEW d \in Doc, RevertStart(r, d)
          PROVE  OwnIds'
      BY <2>4, <2>6 DEF RevertStart, OnDocument
    <2>7. ASSUME NEW d \in Doc, HardDelete(r, d)
          PROVE  OwnIds'
      BY <2>4, <2>7 DEF HardDelete, OnBatch
    <2>8. ASSUME NEW d \in Doc, NEW c, RestoreStart(r, d, c)
          PROVE  OwnIds'
      BY <2>4, <2>8 DEF RestoreStart, OnDocument
    <2>. QED  BY <1>6, <2>2, <2>3, <2>5, <2>6, <2>7, <2>8 DEF Start
  <1>7. ASSUME NEW r \in Request, Continue(r)
        PROVE  OwnIds'
    <2>1. CASE StoreNewObject(r)
      <3>. DEFINE q == OnDocument("uploaded", req[r].doc, 1, req[r].size, req[r].ctr, None)
      <3>1. Goto(r, q) /\ q.doc = req[r].doc
        BY <2>1 DEF StoreNewObject, OnDocument
      <3>2. HasId(req[r])
        BY <2>1 DEF StoreNewObject, HasId, AddsDocument
      <3>. HIDE DEF q
      <3>. QED  BY <3>1, <3>2, IdsFrame
    <2>2. CASE RevertLock(r)
      BY <1>3, <2>2 DEF RevertLock, LockForVersion, OnDocument
    <2>3. CASE StoreVersionObject(r)
      BY <1>4, <2>3 DEF StoreVersionObject
    <2>4. CASE PurgeDelete(r)
      BY <1>3, <2>4 DEF PurgeDelete, OnBatch
    <2>5. CASE KeepObject(r) \/ DeleteObject(r)
      BY <1>5, <2>5 DEF KeepObject, DeleteObject
    <2>. QED
      BY <1>2, <1>7, <2>1, <2>2, <2>3, <2>4, <2>5
      DEF Continue, CopyFails, RevertNotFound, CommitRows, RestoreCommit, RestoreNotFound, CleanUp
  <1>8. ASSUME NEW r \in Request, Resolve(r)
        PROVE  OwnIds'
    BY <1>2, <1>4, <1>8 DEF Resolve, ServerCommits, ServerAborts, Resolved
  <1>9. ASSUME NEW r \in Request, Break(r)
        PROVE  OwnIds'
    BY <1>2, <1>4, <1>5, <1>9
    DEF Break, RowsFail, CommitBreaks, CheckFails, UploadFails, Crash, CleanUp
  <1>10. ASSUME NEW r \in Request, NEW S, PurgeSelect(r, S)
         PROVE  OwnIds'
    BY <1>3, <1>10 DEF PurgeSelect, OnBatch
  <1>. QED
    BY <1>1, <1>6, <1>7, <1>8, <1>9, <1>10
    DEF Next, vars, SoftDelete, TrashFolder, Purge, Administer, AdminRestore, Reconcile,
        add_member, remove_member, delete_tenant, update_tenant

-----------------------------------------------------------------------------
(***************************************************************************)
(* The version rows and their objects.                                     *)
(***************************************************************************)

\* A step on the rows that keeps their objects keeps every version's object.
LEMMA RowsHaveObjects ==
    ASSUME Stored, RowsStep, ObjectsKept
    PROVE  VersionsHaveObjects'
  <1>. SUFFICES ASSUME NEW v \in versions', CommitMayLag => v[2] > 1
                PROVE  objects'[FilePath(v[1], v[2])] # 0
    BY DEF VersionsHaveObjects
  <1>1. CASE v \in versions
    BY <1>1 DEF Stored, VersionsHaveObjects, ObjectsKept
  <1>2. CASE v \notin versions
    <2>1. PICK r \in Request : /\ Saving(req[r]) /\ UNCHANGED objects
                               /\ v = <<req[r].doc, req[r].n>>
      BY <1>2 DEF RowsStep, KeepRows, DrawId, Untrash, Trash, Drop, DropRows, SaveFirst, SaveNext
    <2>2. InStore(req[r])
      BY DEF Stored, RequestsStored, RequestStored
    <2>. QED  BY <2>1, <2>2 DEF InStore, Trusted
  <1>. QED  BY <1>1, <1>2

\* It also keeps every size equal to what is stored.
LEMMA RowsSized ==
    ASSUME Stored, RowsStep, ObjectsKept
    PROVE  ChargedSizeIsStored'
  <1>. SUFFICES ASSUME NEW d \in Doc, HasRow(d)', CommitMayLag => current'[d] > 1
                PROVE  objects'[FilePath(d, current'[d])] = size'[d]
    BY DEF ChargedSizeIsStored
  <1>0. /\ status \in [Doc -> {"none", "drawn", "active", "trashed", "gone"}]
        /\ current \in [Doc -> 0..MaxVersion] /\ size \in [Doc -> 0..FileSizeLimit]
        /\ RowsNumbered /\ Numbered
    BY DEF Stored, Base, Shape, TypeOK
  <1>1. ASSUME HasRow(d), current'[d] = current[d], size'[d] = size[d]
        PROVE  objects'[FilePath(d, current'[d])] = size'[d]
    <2>1. current[d] \in Version /\ <<d, current[d]>> \in versions
      BY <1>0, <1>1, ConstantsAssumption DEF RowsNumbered, Numbered, Version
    <2>2. objects'[FilePath(d, current[d])] = objects[FilePath(d, current[d])]
      BY <2>1 DEF ObjectsKept
    <2>. QED  BY <1>1, <2>2 DEF Stored, ChargedSizeIsStored
  <1>2. ASSUME NEW r \in Request, SaveFirst(req[r]) \/ SaveNext(req[r])
        PROVE  objects'[FilePath(d, current'[d])] = size'[d]
    <2>. DEFINE q == req[r]
    <2>1. /\ Saving(q) /\ q.doc \in Doc /\ UNCHANGED objects
          /\ current' = [current EXCEPT ![q.doc] = q.n]
          /\ size' = [size EXCEPT ![q.doc] = q.size]
          /\ \A e \in Doc \ {q.doc} : status'[e] = status[e]
      BY <1>0, <1>2 DEF SaveFirst, SaveNext
    <2>2. CASE d = q.doc
      <3>1. current'[d] = q.n /\ size'[d] = q.size
        BY <1>0, <2>1, <2>2
      <3>2. InStore(q)
        BY DEF Stored, RequestsStored, RequestStored
      <3>. QED  BY <2>1, <2>2, <3>1, <3>2 DEF InStore, Trusted
    <2>3. CASE d # q.doc
      <3>1. HasRow(d) /\ current'[d] = current[d] /\ size'[d] = size[d]
        BY <1>0, <2>1, <2>3 DEF HasRow
      <3>. QED  BY <1>1, <3>1
    <2>. QED  BY <2>2, <2>3
  <1>3. CASE KeepRows
    BY <1>1, <1>3 DEF KeepRows, HasRow
  <1>4. ASSUME NEW e \in Doc, DrawId(e) \/ Untrash(e)
        PROVE  objects'[FilePath(d, current'[d])] = size'[d]
    BY <1>0, <1>1, <1>4 DEF DrawId, Untrash, HasRow
  <1>5. ASSUME NEW S \in SUBSET Doc, Trash(S) \/ Drop(S)
        PROVE  objects'[FilePath(d, current'[d])] = size'[d]
    BY <1>1, <1>5 DEF Trash, Drop, DropRows, HasRow, Active
  <1>. QED  BY <1>2, <1>3, <1>4, <1>5 DEF RowsStep

\* Initially there is nothing.
LEMMA InitStored == Init => Stored
  <1>. SUFFICES ASSUME Init PROVE Stored
    OBVIOUS
  <1>1. Base
    BY InitBase
  <1>2. Numbered
    BY DEF Init, Numbered, HasRow
  <1>3. \A r \in Request : RequestStored(req[r]) /\ ~HasId(req[r])
    BY DEF Init, Idle, OnBatch, RequestStored, Sized, InStore, Copying, Purging, Saving,
           HasId, AddsDocument, Unresolved
  <1>. QED
    BY <1>1, <1>2, <1>3
    DEF Stored, OwnIds, RequestsStored, VersionsHaveObjects, ChargedSizeIsStored, Init, HasRow

\* Every step keeps it.
LEMMA NextStored == Stored /\ [Next]_vars => Stored'
  <1>. SUFFICES ASSUME Stored, [Next]_vars PROVE Stored'
    OBVIOUS
  <1>1. Shape /\ Isolated /\ Numbered /\ OwnIds /\ Base
    BY DEF Stored, Base
  <1>2. RowsStep
    BY <1>1, NextRows
  <1>3. Base' /\ Numbered' /\ OwnIds'
    BY <1>1, <1>2, NextBase, RowsNumber, NextIds
  <1>4. RequestsStored' /\ ObjectsKept
    BY NextObjects
  <1>5. VersionsHaveObjects' /\ ChargedSizeIsStored'
    BY <1>2, <1>4, RowsHaveObjects, RowsSized
  <1>. QED  BY <1>3, <1>4, <1>5 DEF Stored

\* The inductive invariant: every version row, every charged size and every save
\* in progress agrees with the object store, whatever interleaves or fails.
THEOREM StoredCorrect == Spec => []Stored
  BY InitStored, NextStored, PTL DEF Spec

\* No version row outlives or precedes its object (rows_for_uploaded_object):
\* failed saves, doubtful COMMITs, purges and deletes only remove objects that
\* no row has and no save in progress is about to commit.  The first version
\* is left out when its COMMIT may outlive the check of its outcome.
THEOREM ObjectsCorrect == Spec => []VersionsHaveObjects
  <1>1. Stored => VersionsHaveObjects
    BY DEF Stored
  <1>. QED  BY <1>1, StoredCorrect, PTL

\* When the server ends a COMMIT before its outcome is checked, no version row
\* at all points at a missing object.
THEOREM NoneDangles == ~CommitMayLag => (Spec => []NoDanglingVersion)
  <1>. SUFFICES ASSUME ~CommitMayLag
                PROVE  Spec => []NoDanglingVersion
    OBVIOUS
  <1>1. VersionsHaveObjects => NoDanglingVersion
    BY DEF VersionsHaveObjects, NoDanglingVersion
  <1>. QED  BY <1>1, ObjectsCorrect, PTL

\* A document is charged for what is stored: the size of a row is the size of
\* the object of its current version, although a duplicate copies, and a
\* restore reads, an object outside the row lock.
THEOREM SizesCorrect == Spec => []ChargedSizeIsStored
  <1>1. Stored => ChargedSizeIsStored
    BY DEF Stored
  <1>. QED  BY <1>1, StoredCorrect, PTL

-----------------------------------------------------------------------------
(***************************************************************************)
(* A purge between its read and its delete.                                *)
(***************************************************************************)

\* A document of a selected batch that is active again was restored since, and
\* only such a document is deleted while a counter holds it.
Revived ==
    /\ stranded \subseteq revived
    /\ \A r \in Request : req[r].pc = "selected" =>
           \A d \in req[r].batch : status[d] = "active" => d \in revived

\* Only the purge's read selects a batch.
LEMMA OnlyPurgeSelects ==
    ASSUME Shape, [Next]_vars, ~Purge, NEW p \in Request, req'[p].pc = "selected"
    PROVE  req'[p] = req[p]
  <1>1. ASSUME NEW r \in Request, NEW q, Goto(r, q), q.pc # "selected"
        PROVE  req'[p] = req[p]
    BY <1>1, GotoEffect
  <1>2. ASSUME NEW r \in Request, Goto(r, Idle)
        PROVE  req'[p] = req[p]
    BY <1>1, <1>2 DEF Idle, OnBatch
  <1>3. ASSUME NEW r \in Request, NEW pc, Goto(r, [req[r] EXCEPT !.pc = pc]), pc # "selected"
        PROVE  req'[p] = req[p]
    <2>. DEFINE q == [req[r] EXCEPT !.pc = pc]
    <2>1. q.pc = pc
      BY DEF Shape, RequestsOK, RequestState
    <2>. HIDE DEF q
    <2>. QED  BY <1>1, <1>3, <2>1 DEF q
  <1>4. ASSUME NEW r \in Request, NEW pc \in PC, NEW d, NEW n, NEW s, NEW c, NEW src,
               Goto(r, OnDocument(pc, d, n, s, c, src)), pc # "selected"
        PROVE  req'[p] = req[p]
    <2>. DEFINE q == OnDocument(pc, d, n, s, c, src)
    <2>1. q.pc = pc
      BY DEF OnDocument
    <2>. HIDE DEF q
    <2>. QED  BY <1>1, <1>4, <2>1 DEF q
  <1>5. ASSUME NEW r \in Request, NEW K, Goto(r, OnBatch("cleanup", {}, K))
        PROVE  req'[p] = req[p]
    BY <1>1, <1>5 DEF OnBatch
  <1>6. ASSUME NEW r \in Request, Finish(r)
        PROVE  req'[p] = req[p]
    BY <1>2, <1>3, <1>6 DEF Finish
  <1>7. ASSUME NEW r \in Request, Start(r)
        PROVE  req'[p] = req[p]
    BY <1>4, <1>5, <1>7
    DEF Start, SaveStart, DuplicateStart, VersionStart, LockForVersion, RevertStart,
        HardDelete, RestoreStart, PC
  <1>8. ASSUME NEW r \in Request, Continue(r)
        PROVE  req'[p] = req[p]
    BY <1>2, <1>3, <1>4, <1>5, <1>6, <1>8
    DEF Continue, StoreNewObject, CopyFails, RevertLock, LockForVersion, RevertNotFound,
        StoreVersionObject, CommitRows, KeepObject, DeleteObject, RestoreCommit,
        RestoreNotFound, PurgeDelete, CleanUp, PC
  <1>9. ASSUME NEW r \in Request, Resolve(r)
        PROVE  req'[p] = req[p]
    BY <1>2, <1>3, <1>9 DEF Resolve, ServerCommits, ServerAborts, Resolved
  <1>10. ASSUME NEW r \in Request, Break(r)
         PROVE  req'[p] = req[p]
    BY <1>2, <1>3, <1>6, <1>10
    DEF Break, RowsFail, CommitBreaks, CheckFails, UploadFails, Crash, CleanUp
  <1>11. CASE UNCHANGED req
    BY <1>11
  <1>. QED
    BY <1>7, <1>8, <1>9, <1>10, <1>11
    DEF Next, vars, SoftDelete, TrashFolder, Administer, AdminRestore, Reconcile,
        add_member, remove_member, delete_tenant, update_tenant

\* What a step does to the history: only restores add to revived, only a
\* purge's delete adds to stranded.
LEMMA HistorySteps ==
    ASSUME Shape, [Next]_vars
    PROVE  /\ revived \subseteq revived'
           /\ \/ stranded' \subseteq stranded
              \/ \E r \in Request : /\ req[r].pc = "selected"
                                    /\ stranded' \subseteq stranded \cup (req[r].batch \cap Active)
           /\ \/ revived' = revived
              \/ \E d \in Doc : Untrash(d)
  <1>1. CASE UNCHANGED history
    BY <1>1 DEF history
  <1>2. ASSUME NEW d \in Doc, NEW c, Recharge(d, c)
        PROVE  revived \subseteq revived' /\ stranded' = stranded /\ Untrash(d)
    BY <1>2 DEF Recharge, Untrash
  <1>3. ASSUME NEW r \in Request, RestoreCommit(r)
        PROVE  \E d \in Doc : Untrash(d) /\ revived \subseteq revived' /\ stranded' = stranded
    BY <1>2, <1>3 DEF RestoreCommit, Shape, RequestsOK, WellFormed
  <1>4. ASSUME NEW r \in Request, PurgeDelete(r)
        PROVE  /\ req[r].pc = "selected" /\ revived' = revived
               /\ stranded' \subseteq stranded \cup (req[r].batch \cap Active)
    BY <1>4 DEF PurgeDelete
  <1>5. CASE Reconcile
    BY <1>5 DEF Reconcile
  <1>6. ASSUME NEW r \in Request, Start(r)
        PROVE  UNCHANGED history
    BY <1>6
    DEF Start, SaveStart, DuplicateStart, VersionStart, LockForVersion, RevertStart,
        HardDelete, RestoreStart
  <1>7. ASSUME NEW r \in Request, Continue(r), ~RestoreCommit(r), ~PurgeDelete(r)
        PROVE  UNCHANGED history
    BY <1>7
    DEF Continue, StoreNewObject, CopyFails, RevertLock, LockForVersion, RevertNotFound,
        StoreVersionObject, CommitRows, KeepObject, DeleteObject, RestoreNotFound, CleanUp
  <1>8. ASSUME NEW r \in Request, Resolve(r) \/ Break(r)
        PROVE  UNCHANGED history
    BY <1>8
    DEF Resolve, ServerCommits, ServerAborts, Break, RowsFail, CommitBreaks, CheckFails,
        UploadFails, Crash, CleanUp
  <1>. QED
    BY <1>1, <1>2, <1>3, <1>4, <1>5, <1>6, <1>7, <1>8
    DEF Next, vars, SoftDelete, TrashFolder, Purge, PurgeSelect, Administer, AdminRestore,
        add_member, remove_member, delete_tenant, update_tenant

\* A restore of a document that a batch contains is recorded.
LEMMA RestoreRecorded ==
    ASSUME Shape, Isolated, [Next]_vars, NEW d \in Doc, status[d] = "trashed",
           status'[d] = "active", NEW p \in Request, d \in req[p].batch
    PROVE  d \in revived'
  <1>0. status \in [Doc -> {"none", "drawn", "active", "trashed", "gone"}]
    BY DEF Shape, TypeOK
  <1>1. ASSUME NEW e \in Doc, NEW c, Recharge(e, c)
        PROVE  d \in revived'
    <2>1. d = e
      BY <1>0, <1>1 DEF Recharge
    <2>. QED  BY <1>1, <2>1 DEF Recharge
  <1>2. ASSUME NEW r \in Request, ReadyToCommit(r) \/ Unresolved(req[r]), Write(req[r]),
               UNCHANGED objects
        PROVE  FALSE
    <2>1. RowsStep
      BY <1>2, WriteRows
    <2>2. ASSUME req[r].n = 1
          PROVE  status[req[r].doc] = "drawn"
      <3>1. Saving(req[r])
        BY <1>2 DEF ReadyToCommit, Unresolved, Saving
      <3>. QED  BY <2>2, <3>1, SavingParts DEF Isolated, SavesIsolated
    <2>3. status'[d] = status[d]
      BY <1>0, <1>2, <2>2 DEF Write, WriteNewDocument, WriteNewVersion
    <2>. QED  BY <2>3
  <1>3. ASSUME NEW r \in Request, Start(r)
        PROVE  FALSE
    BY <1>0, <1>3
    DEF Start, SaveStart, DuplicateStart, VersionStart, LockForVersion, RevertStart,
        HardDelete, DropRows, RestoreStart, rows
  <1>4. ASSUME NEW r \in Request, Continue(r)
        PROVE  d \in revived'
    <2>1. CASE RestoreCommit(r)
      BY <1>1, <2>1 DEF RestoreCommit, Shape, RequestsOK, WellFormed
    <2>2. CASE CommitRows(r)
      BY <1>2, <2>2 DEF CommitRows
    <2>3. CASE PurgeDelete(r)
      BY <1>0, <2>3 DEF PurgeDelete, DropRows
    <2>. QED
      BY <1>4, <2>1, <2>2, <2>3
      DEF Continue, StoreNewObject, CopyFails, RevertLock, LockForVersion, RevertNotFound,
          StoreVersionObject, KeepObject, DeleteObject, RestoreNotFound, CleanUp, rows
  <1>5. ASSUME NEW r \in Request, Resolve(r)
        PROVE  FALSE
    BY <1>2, <1>5 DEF Resolve, ServerCommits, ServerAborts, rows
  <1>6. ASSUME NEW r \in Request, Break(r)
        PROVE  FALSE
    BY <1>6
    DEF Break, RowsFail, CommitBreaks, CheckFails, UploadFails, Crash, CleanUp, rows
  <1>. QED
    BY <1>0, <1>1, <1>3, <1>4, <1>5, <1>6
    DEF Next, vars, SoftDelete, TrashFolder, Purge, PurgeSelect, Administer, AdminRestore,
        Reconcile, add_member, remove_member, delete_tenant, update_tenant, rows

\* Every step keeps the batches as described.
LEMMA NextRevived ==
    ASSUME Stored, Revived, [Next]_vars
    PROVE  Revived'
  <1>0. Shape /\ Isolated /\ RequestsStored /\ RowsStep
    BY NextRows DEF Stored, Base
  <1>1. stranded' \subseteq revived'
    BY <1>0, HistorySteps DEF Revived, Active
  <1>2. ASSUME NEW p \in Request, req'[p].pc = "selected", NEW d \in req'[p].batch,
               status'[d] = "active"
        PROVE  d \in revived'
    <2>1. CASE Purge
      <3>1. PICK r \in Request, S \in SUBSET Doc : PurgeSelect(r, S)
        BY <2>1 DEF Purge
      <3>2. p = r => req'[p].batch = S
        BY <1>0, <3>1, GotoEffect DEF PurgeSelect, OnBatch
      <3>3. p # r => req'[p] = req[p]
        BY <1>0, <3>1, GotoEffect DEF PurgeSelect
      <3>4. status' = status /\ revived' = revived /\ \A e \in S : status[e] = "trashed"
        BY <3>1 DEF PurgeSelect, rows, history
      <3>. QED  BY <1>2, <3>2, <3>3, <3>4 DEF Revived
    <2>2. CASE ~Purge
      <3>1. req'[p] = req[p]
        BY <1>0, <1>2, <2>2, OnlyPurgeSelects
      <3>2. d \in Doc /\ Past(d)
        BY <1>0, <1>2, <3>1
        DEF RequestsStored, RequestStored, Purging, Shape, RequestsOK, RequestState
      <3>3. CASE status[d] = "active"
        BY <1>0, <1>2, <3>1, <3>3, HistorySteps DEF Revived
      <3>4. CASE status[d] = "trashed"
        BY <1>0, <1>2, <3>1, <3>2, <3>4, RestoreRecorded
      <3>5. status[d] # "gone"
        BY <1>0, <1>2, <3>2, Progress
      <3>. QED  BY <3>2, <3>3, <3>4, <3>5 DEF Past
    <2>. QED  BY <2>1, <2>2
  <1>. QED  BY <1>1, <1>2 DEF Revived

\* The counters drift from the active documents only by a restore between a
\* purge's read and its delete (purge_trashed_documents deletes by id): as long
\* as none has happened, every counter equals its active documents, as
\* reconcile_storage_counters recounts them.
THEOREM CountersMatchCorrect == Spec => []CountersMatchUnlessRevived
  <1>. DEFINE I == Stored /\ Revived
  <1>1. Init => I
    BY InitStored DEF Init, Revived, Idle, OnBatch
  <1>2. I /\ [Next]_vars => I'
    BY NextStored, NextRevived
  <1>3. I => CountersMatchUnlessRevived
    <2>. SUFFICES ASSUME Stored, Revived, revived = {}, NEW c \in Counter
                  PROVE  LET S == {d \in Active : charged[d] = c}
                         IN  storageUsed[c] = Bytes(S) /\ documentCount[c] = Cardinality(S)
      BY DEF CountersMatchUnlessRevived, CountersMatch
    <2>1. Held(c) = {d \in Active : charged[d] = c}
      BY DEF Revived, Held
    <2>. QED  BY <2>1 DEF Stored, Base, CountersAccount
  <1>. HIDE DEF I
  <1>. QED  BY <1>1, <1>2, <1>3, PTL DEF Spec

-----------------------------------------------------------------------------
(***************************************************************************)
(* Objects that no row references.                                         *)
(***************************************************************************)

\* Request q is about to commit or to delete the object k.
Answers(q, k) ==
    \/ q.pc \in {"uploaded", "stored"} /\ q.doc = k[1] /\ q.n = k[2]
    \/ q.pc = "cleanup" /\ k \in q.keys

Explained(k) ==
    /\ k = FilePath(k[1], k[2])
    /\ \/ <<k[1], k[2]>> \in versions
       \/ k[1] \in revived
       \/ \E r \in Request : Answers(req[r], k)

\* A selected batch has the keys of all its documents that were not restored.
Collected(q) ==
    q.pc = "selected" =>
        \A d \in q.batch : \/ d \in revived
                           \/ \A n \in Version :
                                  <<d, n>> \in versions => FilePath(d, n) \in q.keys

\* Without failures no COMMIT is in doubt, and every object is explained.
Orderly ==
    /\ \A r \in Request : req[r].pc \notin {"unsure", "settled", "dead"}
    /\ \A k \in Key : objects[k] # 0 => Explained(k)
    /\ \A r \in Request : Collected(req[r])

\* Failures are counted: a step that ends without one had none before.
LEMMA FaultsGrow ==
    ASSUME Shape, [Next]_vars, faults' = 0
    PROVE  faults = 0 /\ \A r \in Request : ~Break(r)
  <1>1. faults \in Nat
    BY ConstantsAssumption DEF Shape, TypeOK
  <1>2. ASSUME NEW r \in Request, Break(r)
        PROVE  faults' > 0
    <2>1. ASSUME NEW left \in (SUBSET req[r].keys) \ {{}}, CleanUp(r, left)
          PROVE  Fault
      <3>1. left # {}
        BY <2>1
      <3>. QED  BY <2>1, <3>1 DEF CleanUp, Fault, NoFault
    <2>2. RowsFail(r) \/ CommitBreaks(r) \/ CheckFails(r) \/ UploadFails(r) \/ Crash(r) => Fault
      BY DEF RowsFail, CommitBreaks, CheckFails, UploadFails, Crash
    <2>3. Fault
      BY <1>2, <2>1, <2>2 DEF Break
    <2>. QED  BY <1>1, <2>3 DEF Fault
  <1>3. ASSUME NEW r \in Request, Start(r)
        PROVE  faults' = faults
    BY <1>3
    DEF Start, SaveStart, DuplicateStart, VersionStart, LockForVersion, RevertStart,
        HardDelete, RestoreStart, NoFault
  <1>4. ASSUME NEW r \in Request, Continue(r)
        PROVE  faults' = faults
    BY <1>4
    DEF Continue, StoreNewObject, CopyFails, RevertLock, LockForVersion, RevertNotFound,
        StoreVersionObject, CommitRows, KeepObject, DeleteObject, RestoreCommit, Recharge,
        RestoreNotFound, PurgeDelete, CleanUp, NoFault
  <1>5. ASSUME NEW r \in Request, Resolve(r)
        PROVE  faults' = faults
    BY <1>5 DEF Resolve, ServerCommits, ServerAborts, NoFault
  <1>6. \A r \in Request : ~Break(r)
    BY <1>2
  <1>. QED
    BY <1>3, <1>4, <1>5, <1>6
    DEF Next, vars, SoftDelete, TrashFolder, Purge, PurgeSelect, Administer, AdminRestore,
        Recharge, Reconcile, add_member, remove_member, delete_tenant, update_tenant, NoFault

\* A step whose requests go on explaining what they explained, and that only
\* deletes the version rows of documents whose objects it explains.
LEMMA ExplainFrame ==
    ASSUME revived \subseteq revived', NEW r,
           \A p \in Request \ {r} : req'[p] = req[p],
           \A k \in Key : \/ objects'[k] = 0
                          \/ objects[k] # 0
                          \/ k = FilePath(k[1], k[2]) /\ Answers(req'[r], k) /\ r \in Request,
           \A k \in Key : objects'[k] # 0 /\ r \in Request /\ Answers(req[r], k) =>
                          <<k[1], k[2]>> \in versions' \/ Answers(req'[r], k),
           \A k \in Key : k = FilePath(k[1], k[2]) /\ <<k[1], k[2]>> \in versions =>
                          \/ <<k[1], k[2]>> \in versions'
                          \/ k[1] \in revived'
                          \/ r \in Request /\ Answers(req'[r], k),
           \A k \in Key : objects[k] # 0 => Explained(k)
    PROVE  \A k \in Key : objects'[k] # 0 => Explained(k)'
  <1>. SUFFICES ASSUME NEW k \in Key, objects'[k] # 0
                PROVE  Explained(k)'
    OBVIOUS
  <1>0. ASSUME NEW p \in Request, Answers(req'[p], k), k = FilePath(k[1], k[2])
        PROVE  Explained(k)'
    BY <1>0 DEF Explained, Answers, FilePath, get_document_key, _original_document_key
  <1>1. CASE objects[k] = 0
    BY <1>0, <1>1
  <1>2. CASE objects[k] # 0
    <2>1. Explained(k) /\ k = FilePath(k[1], k[2])
      BY <1>2 DEF Explained
    <2>2. (<<k[1], k[2]>> \in versions' \/ k[1] \in revived') => Explained(k)'
      BY <2>1 DEF Explained, FilePath, get_document_key, _original_document_key
    <2>3. CASE <<k[1], k[2]>> \in versions \/ k[1] \in revived
      BY <1>0, <2>1, <2>2, <2>3
    <2>4. ASSUME NEW p \in Request, Answers(req[p], k)
          PROVE  Explained(k)'
      <3>1. CASE p = r
        BY <1>0, <2>1, <2>2, <2>4, <3>1
      <3>2. CASE p # r
        BY <1>0, <2>1, <2>4, <3>2
      <3>. QED  BY <3>1, <3>2
    <2>. QED  BY <2>1, <2>3, <2>4 DEF Explained
  <1>. QED  BY <1>1, <1>2

\* An actor that deletes no row and stores no object.
LEMMA ExplainStill ==
    ASSUME Orderly, revived \subseteq revived', versions \subseteq versions',
           UNCHANGED <<req, objects>>
    PROVE  \A k \in Key : objects'[k] # 0 => Explained(k)'
  <1>1. None \notin Request
    BY ConstantsAssumption
  <1>. QED  BY <1>1, ExplainFrame DEF Orderly

\* A request that explained nothing, stores nothing and deletes no row.
LEMMA ExplainIdle ==
    ASSUME Shape, Orderly, revived \subseteq revived', versions \subseteq versions',
           NEW r \in Request, NEW q, Goto(r, q), UNCHANGED objects,
           req[r].pc \notin {"uploaded", "stored", "cleanup"}
    PROVE  \A k \in Key : objects'[k] # 0 => Explained(k)'
  <1>1. \A p \in Request \ {r} : req'[p] = req[p]
    BY GotoEffect
  <1>2. \A k \in Key : ~Answers(req[r], k)
    BY DEF Answers
  <1>. QED  BY <1>1, <1>2, ExplainFrame DEF Orderly

\* The first step of a request.
LEMMA StartExplained ==
    ASSUME Shape, Orderly, NEW r \in Request, Start(r), revived \subseteq revived'
    PROVE  \A k \in Key : objects'[k] # 0 => Explained(k)'
  <1>1. req[r].pc = "idle" /\ UNCHANGED objects /\ \E q : Goto(r, q)
    BY DEF Start, SaveStart, DuplicateStart, VersionStart, LockForVersion, RevertStart,
           HardDelete, RestoreStart
  <1>2. CASE versions' = versions
    BY <1>1, <1>2, ExplainIdle
  <1>3. ASSUME NEW d \in Doc, HardDelete(r, d)
        PROVE  \A k \in Key : objects'[k] # 0 => Explained(k)'
    <2>. DEFINE K == collect_document_object_keys({d})
                q == OnBatch("cleanup", {}, K)
    <2>1. req'[r] = q /\ \A p \in Request \ {r} : req'[p] = req[p]
      BY <1>3, GotoEffect DEF HardDelete
    <2>2. \A k : ~Answers(req[r], k)
      BY <1>1 DEF Answers
    <2>3. \A k \in K : Answers(q, k)
      BY DEF Answers, OnBatch
    <2>4. ASSUME NEW k \in Key, k = FilePath(k[1], k[2]), <<k[1], k[2]>> \in versions
          PROVE  <<k[1], k[2]>> \in versions' \/ k \in K
      <3>1. CASE k[1] = d
        <4>. DEFINE v == <<k[1], k[2]>>
        <4>1. v \in {w \in versions : w[1] \in {d}} /\ k = FilePath(v[1], v[2])
          BY <2>4, <3>1
        <4>. QED  BY <4>1 DEF collect_document_object_keys
      <3>2. CASE k[1] # d
        BY <1>3, <2>4, <3>2 DEF HardDelete, DropRows
      <3>. QED  BY <3>1, <3>2
    <2>. HIDE DEF q, K
    <2>. QED  BY <1>1, <2>1, <2>2, <2>3, <2>4, ExplainFrame DEF Orderly
  <1>. QED
    BY <1>2, <1>3
    DEF Start, SaveStart, DuplicateStart, VersionStart, LockForVersion, RevertStart,
        RestoreStart, rows

\* The later steps of a request.
LEMMA ContinueExplained ==
    ASSUME Stored, Revived, Orderly, NEW r \in Request, Continue(r), revived \subseteq revived'
    PROVE  \A k \in Key : objects'[k] # 0 => Explained(k)'
  <1>. DEFINE q == req[r]
  <1>0. /\ Shape /\ TypeOK /\ q \in RequestState /\ WellFormed(q) /\ RequestStored(q)
        /\ q.pc \notin {"unsure", "settled", "dead"}
    BY DEF Stored, Base, Shape, RequestsOK, RequestsStored, Orderly
  <1>1. CASE \/ CopyFails(r) \/ RevertLock(r) \/ RevertNotFound(r)
             \/ RestoreCommit(r) \/ RestoreNotFound(r)
    <2>1. /\ q.pc \notin {"uploaded", "stored", "cleanup"} /\ UNCHANGED <<versions, objects>>
          /\ \E next : Goto(r, next)
      BY <1>1
      DEF CopyFails, RevertLock, LockForVersion, RevertNotFound, RestoreCommit, Recharge,
          RestoreNotFound, rows
    <2>. QED  BY <1>0, <2>1, ExplainIdle
  <1>2. CASE StoreNewObject(r) \/ StoreVersionObject(r)
    <2>. DEFINE k == FilePath(q.doc, q.n)
    <2>1. /\ q.doc \in Doc /\ q.n \in Version
          /\ q.n = 1 <=> q.pc = "checked"
      BY <1>0, <1>2, ConstantsAssumption
      DEF StoreNewObject, StoreVersionObject, WellFormed, RequestState, Version
    <2>2. \E content : objects' = [objects EXCEPT ![k] = content]
      BY <1>2, <2>1 DEF StoreNewObject, StoreVersionObject, FilePath
    <2>3. /\ req'[r].pc \in {"uploaded", "stored"} /\ req'[r].doc = q.doc /\ req'[r].n = q.n
          /\ \A p \in Request \ {r} : req'[p] = req[p]
      <3>1. CASE StoreNewObject(r)
        BY <1>0, <2>1, <3>1, GotoEffect DEF StoreNewObject, OnDocument
      <3>2. CASE StoreVersionObject(r)
        BY <1>0, <3>2, GotoEffect DEF StoreVersionObject, RequestState
      <3>. QED  BY <1>2, <3>1, <3>2
    <2>4. k[1] = q.doc /\ k[2] = q.n /\ k \in Key
      BY <2>1, KeyParts
    <2>5. Answers(req'[r], k) /\ k = FilePath(k[1], k[2])
      BY <2>3, <2>4 DEF Answers
    <2>6. \A j : ~Answers(q, j)
      BY <1>2 DEF Answers, StoreNewObject, StoreVersionObject
    <2>7. UNCHANGED versions
      BY <1>2 DEF StoreNewObject, StoreVersionObject, rows
    <2>8. \A j \in Key \ {k} : objects'[j] = objects[j]
      BY <1>0, <2>2 DEF TypeOK
    <2>. HIDE DEF k
    <2>. QED  BY <2>3, <2>5, <2>6, <2>7, <2>8, ExplainFrame DEF Orderly
  <1>3. CASE CommitRows(r)
    <2>1. /\ \A p \in Request \ {r} : req'[p] = req[p]
          /\ UNCHANGED objects
      BY <1>0, <1>3, GotoEffect DEF CommitRows
    <2>2. versions' = versions \cup {<<q.doc, q.n>>}
      BY <1>3 DEF CommitRows, Write, WriteNewDocument, WriteNewVersion
    <2>3. \A k : Answers(q, k) => <<k[1], k[2]>> = <<q.doc, q.n>>
      BY <1>3 DEF CommitRows, ReadyToCommit, Answers
    <2>. QED  BY <2>1, <2>2, <2>3, ExplainFrame DEF Orderly
  <1>4. CASE KeepObject(r) \/ DeleteObject(r)
    BY <1>0, <1>4 DEF KeepObject, DeleteObject
  <1>5. CASE PurgeDelete(r)
    <2>. DEFINE next == OnBatch("cleanup", {}, q.keys)
    <2>1. req'[r] = next /\ \A p \in Request \ {r} : req'[p] = req[p]
      BY <1>0, <1>5, GotoEffect DEF PurgeDelete
    <2>2. \A k : ~Answers(q, k)
      BY <1>5 DEF PurgeDelete, Answers
    <2>3. \A k \in q.keys : Answers(next, k)
      BY DEF Answers, OnBatch
    <2>4. ASSUME NEW k \in Key, k = FilePath(k[1], k[2]), <<k[1], k[2]>> \in versions
          PROVE  <<k[1], k[2]>> \in versions' \/ k[1] \in revived' \/ k \in q.keys
      <3>1. CASE k[1] \in q.batch
        <4>1. Collected(q) /\ k[2] \in Version
          BY DEF Orderly, Key
        <4>. QED  BY <1>5, <2>4, <3>1, <4>1 DEF PurgeDelete, Collected
      <3>2. CASE k[1] \notin q.batch
        BY <1>5, <2>4, <3>2 DEF PurgeDelete, DropRows
      <3>. QED  BY <3>1, <3>2
    <2>5. UNCHANGED objects
      BY <1>5 DEF PurgeDelete
    <2>. HIDE DEF next
    <2>. QED  BY <2>1, <2>2, <2>3, <2>4, <2>5, ExplainFrame DEF Orderly
  <1>6. CASE CleanUp(r, {})
    <2>1. /\ \A p \in Request \ {r} : req'[p] = req[p]
          /\ objects' = Without(q.keys, {}) /\ UNCHANGED versions
      BY <1>0, <1>6, GotoEffect DEF CleanUp, rows
    <2>2. \A k \in Key : Answers(q, k) => objects'[k] = 0
      BY <1>6, <2>1 DEF CleanUp, Answers, Without
    <2>3. \A k \in Key : objects'[k] = 0 \/ objects[k] # 0
      BY <2>1 DEF Without
    <2>. QED  BY <2>1, <2>2, <2>3, ExplainFrame DEF Orderly
  <1>. QED
    BY <1>1, <1>2, <1>3, <1>4, <1>5, <1>6 DEF Continue

\* No request's outcome comes into doubt without a failure.
LEMMA NextCertain ==
    ASSUME Shape, [Next]_vars, faults' = 0, NEW p \in Request,
           req[p].pc \notin {"unsure", "settled", "dead"},
           \A r \in Request : req[r].pc \notin {"unsure", "settled", "dead"}
    PROVE  req'[p].pc \notin {"unsure", "settled", "dead"}
  <1>1. ASSUME NEW r \in Request, NEW q, Goto(r, q), q.pc \notin {"unsure", "settled", "dead"}
        PROVE  req'[p].pc \notin {"unsure", "settled", "dead"}
    BY <1>1, GotoEffect
  <1>2. ASSUME NEW r \in Request, Goto(r, Idle)
        PROVE  req'[p].pc \notin {"unsure", "settled", "dead"}
    BY <1>1, <1>2 DEF Idle, OnBatch
  <1>3. ASSUME NEW r \in Request, Goto(r, [req[r] EXCEPT !.pc = "stored"])
        PROVE  req'[p].pc \notin {"unsure", "settled", "dead"}
    <2>. DEFINE q == [req[r] EXCEPT !.pc = "stored"]
    <2>1. q.pc = "stored"
      BY DEF Shape, RequestsOK, RequestState
    <2>. HIDE DEF q
    <2>. QED  BY <1>1, <1>3, <2>1 DEF q
  <1>4. ASSUME NEW r \in Request, NEW pc \in PC, NEW d, NEW n, NEW s, NEW c, NEW src,
               Goto(r, OnDocument(pc, d, n, s, c, src)),
               pc \notin {"unsure", "settled", "dead"}
        PROVE  req'[p].pc \notin {"unsure", "settled", "dead"}
    <2>. DEFINE q == OnDocument(pc, d, n, s, c, src)
    <2>1. q.pc = pc
      BY DEF OnDocument
    <2>. HIDE DEF q
    <2>. QED  BY <1>1, <1>4, <2>1 DEF q
  <1>5. ASSUME NEW r \in Request, NEW pc \in {"selected", "cleanup"}, NEW S, NEW K,
               Goto(r, OnBatch(pc, S, K))
        PROVE  req'[p].pc \notin {"unsure", "settled", "dead"}
    <2>. DEFINE q == OnBatch(pc, S, K)
    <2>1. q.pc = pc
      BY DEF OnBatch
    <2>. HIDE DEF q
    <2>. QED  BY <1>1, <1>5, <2>1 DEF q
  <1>6. ASSUME NEW r \in Request, Start(r)
        PROVE  req'[p].pc \notin {"unsure", "settled", "dead"}
    BY <1>4, <1>5, <1>6
    DEF Start, SaveStart, DuplicateStart, VersionStart, LockForVersion, RevertStart,
        HardDelete, RestoreStart, PC
  <1>7. ASSUME NEW r \in Request, Continue(r)
        PROVE  req'[p].pc \notin {"unsure", "settled", "dead"}
    BY <1>2, <1>3, <1>4, <1>5, <1>7
    DEF Continue, StoreNewObject, CopyFails, RevertLock, LockForVersion, RevertNotFound,
        StoreVersionObject, CommitRows, KeepObject, DeleteObject, RestoreCommit,
        RestoreNotFound, PurgeDelete, CleanUp, PC
  <1>8. ASSUME NEW r \in Request, Resolve(r)
        PROVE  FALSE
    BY <1>8 DEF Resolve, ServerCommits, ServerAborts, Unresolved
  <1>9. \A r \in Request : ~Break(r)
    BY FaultsGrow
  <1>10. CASE Purge
    BY <1>5, <1>10 DEF Purge, PurgeSelect
  <1>11. CASE UNCHANGED req
    BY <1>11
  <1>. QED
    BY <1>6, <1>7, <1>8, <1>9, <1>10, <1>11
    DEF Next, vars, SoftDelete, TrashFolder, Administer, AdminRestore, Reconcile,
        add_member, remove_member, delete_tenant, update_tenant

\* The batch of a purge stays collected: only restored documents get versions.
LEMMA NextCollected ==
    ASSUME Stored, Revived, [Next]_vars, NEW p \in Request, Collected(req[p])
    PROVE  Collected(req[p])'
  <1>0. Shape /\ RequestsStored /\ RowsStep /\ revived \subseteq revived'
    BY NextRows, HistorySteps DEF Stored, Base
  <1>. SUFFICES ASSUME req'[p].pc = "selected", NEW d \in req'[p].batch, d \notin revived',
                       NEW n \in Version, <<d, n>> \in versions'
                PROVE  FilePath(d, n) \in req'[p].keys
    BY DEF Collected, FilePath, get_document_key, _original_document_key
  <1>1. CASE Purge /\ req'[p] # req[p]
    <2>1. PICK r \in Request, S \in SUBSET Doc : PurgeSelect(r, S)
      BY <1>1 DEF Purge
    <2>2. req'[p] = OnBatch("selected", S, collect_document_object_keys(S))
      BY <1>0, <1>1, <2>1, GotoEffect DEF PurgeSelect
    <2>3. <<d, n>> \in versions /\ d \in S
      BY <2>1, <2>2 DEF PurgeSelect, rows, OnBatch
    <2>4. FilePath(d, n) \in collect_document_object_keys(S)
      <3>. DEFINE v == <<d, n>>
      <3>1. v \in {w \in versions : w[1] \in S} /\ FilePath(d, n) = FilePath(v[1], v[2])
        BY <2>3
      <3>. QED  BY <3>1 DEF collect_document_object_keys
    <2>. QED  BY <2>2, <2>4 DEF OnBatch
  <1>2. CASE req'[p] = req[p]
    <2>1. d \in Doc /\ Past(d)
      BY <1>0, <1>2
      DEF RequestsStored, RequestStored, Purging, Shape, RequestsOK, RequestState
    <2>2. status[d] # "active" /\ d \notin revived
      BY <1>0, <1>2 DEF Revived
    <2>3. <<d, n>> \in versions
      BY <1>0, <2>1, <2>2
      DEF RowsStep, KeepRows, DrawId, Untrash, SaveFirst, SaveNext, Trash, Drop, DropRows, Past
    <2>. QED  BY <1>2, <2>2, <2>3 DEF Collected
  <1>. QED
    BY <1>0, <1>1, <1>2, OnlyPurgeSelects

\* Without failures every step leaves every object explained.
LEMMA NextOrderly ==
    ASSUME Stored, Revived, faults = 0 => Orderly, [Next]_vars, faults' = 0
    PROVE  Orderly'
  <1>0. Shape /\ Orderly /\ revived \subseteq revived' /\ \A r \in Request : ~Break(r)
    BY FaultsGrow, HistorySteps DEF Stored, Base
  <1>1. \A r \in Request : req'[r].pc \notin {"unsure", "settled", "dead"}
    BY <1>0, NextCertain DEF Orderly
  <1>2. \A r \in Request : Collected(req[r])'
    BY <1>0, NextCollected DEF Orderly
  <1>3. \A k \in Key : objects'[k] # 0 => Explained(k)'
    <2>1. ASSUME NEW r \in Request, Start(r)
          PROVE  \A k \in Key : objects'[k] # 0 => Explained(k)'
      BY <1>0, <2>1, StartExplained
    <2>2. ASSUME NEW r \in Request, Continue(r)
          PROVE  \A k \in Key : objects'[k] # 0 => Explained(k)'
      BY <1>0, <2>2, ContinueExplained
    <2>3. ASSUME NEW r \in Request, Resolve(r)
          PROVE  FALSE
      BY <1>0, <2>3 DEF Orderly, Resolve, ServerCommits, ServerAborts, Unresolved
    <2>4. CASE Purge
      <3>1. PICK r \in Request, S \in SUBSET Doc : PurgeSelect(r, S)
        BY <2>4 DEF Purge
      <3>2. req[r].pc = "idle" /\ UNCHANGED <<objects, versions>> /\ \E q : Goto(r, q)
        BY <3>1 DEF PurgeSelect, rows
      <3>. QED  BY <1>0, <3>2, ExplainIdle
    <2>5. CASE UNCHANGED <<req, objects, versions>>
      BY <1>0, <2>5, ExplainStill
    <2>. QED
      BY <1>0, <2>1, <2>2, <2>3, <2>4, <2>5
      DEF Next, vars, rows, SoftDelete, TrashFolder, Administer, AdminRestore, Recharge,
          Reconcile, add_member, remove_member, delete_tenant, update_tenant
  <1>. QED  BY <1>1, <1>2, <1>3 DEF Orderly

\* Without failures no handler leaves an object behind in the object store: an
\* object without a version row belongs to a request that is about to commit or
\* delete it, except for the documents restored after a purge had read their
\* versions (their later versions are never collected).
THEOREM OrphansCorrect == Spec => []OrphansExplained
  <1>. DEFINE I == Stored /\ Revived /\ (faults = 0 => Orderly)
  <1>1. Init => I
    BY InitStored DEF Init, Revived, Orderly, Collected, Idle, OnBatch
  <1>2. I /\ [Next]_vars => I'
    BY NextStored, NextRevived, NextOrderly
  <1>3. I => OrphansExplained
    <2>. SUFFICES ASSUME Orderly, NEW k \in Key, objects[k] # 0
                  PROVE  <<k[1], k[2]>> \in versions \/ InProgress(k[1]) \/ k[1] \in revived
      BY DEF OrphansExplained
    <2>. QED  BY DEF Orderly, Explained, Answers, InProgress
  <1>. HIDE DEF I
  <1>. QED  BY <1>1, <1>2, <1>3, PTL DEF Spec

=============================================================================
