--------------------------- MODULE StoredDocuments ---------------------------
(***************************************************************************)
(* Stored documents of the GigaPDF API: the rows of stored_documents and   *)
(* document_versions, the objects that the version rows point at, and the  *)
(* storage counters of user_quotas and tenants                             *)
(* (app/api/v1/storage.py, app/services/quota_service.py,                  *)
(* app/tasks/storage_tasks.py, app/services/quota_reconciliation.py).      *)
(*                                                                         *)
(* Several API requests and Celery tasks run at once.  A request is a      *)
(* member of Request; req[r] says where in its handler it stands.  The     *)
(* steps of a handler are cut where another request can get in between:    *)
(* after a read that is not under the row lock, after each object-store    *)
(* call, and at COMMIT.  What a transaction writes takes effect at COMMIT; *)
(* the increments of a counter are SQL expressions evaluated on the locked *)
(* counter row, hence part of that same step.                              *)
(***************************************************************************)
EXTENDS Integers, FiniteSets

CONSTANTS
    User,           \* owners of documents
    Tenant,         \* organizations
    Doc,            \* document ids (generate_uuid never returns one twice)
    Owner,          \* the user whose requests draw the id d
    Format,         \* original_format of the document with id d
    Request,        \* API requests and task runs that can be in progress
    FileSizeLimit,  \* _FILE_SIZE_LIMIT
    StorageLimit,   \* storage_limit_bytes of a counter, -1 when unlimited
    DocumentLimit,  \* document_limit of a counter, -1 when unlimited
    MaxVersion,     \* bound on version numbers
    MaxFaults,      \* bound on injected failures and crashes
    CommitMayLag,   \* may a COMMIT whose connection dropped still be running
                    \* on the server when its outcome is checked?
    None

Counter == User \cup Tenant

Formats == {"pdf", "docx"}

Version == 1..MaxVersion

\* An object key: documents/{owner}/{document}/v{n}.{extension}.
Key == Doc \X Version \X Formats

ASSUME ConstantsAssumption ==
    /\ User \cap Tenant = {}
    /\ IsFiniteSet(Doc) /\ IsFiniteSet(User) /\ IsFiniteSet(Tenant)
    /\ Owner \in [Doc -> User]
    /\ Format \in [Doc -> Formats]
    /\ FileSizeLimit \in Nat \ {0}
    /\ StorageLimit \in [Counter -> Int]
    /\ DocumentLimit \in [Counter -> Int]
    /\ MaxVersion \in Nat \ {0}
    /\ MaxFaults \in Nat
    /\ CommitMayLag \in BOOLEAN
    /\ None \notin Doc /\ None \notin Counter /\ None \notin Request
    /\ None \notin Key

VARIABLES
    status,     \* of each document id: does a row exist, is it in the trash?
    size,       \* file_size_bytes
    current,    \* current_version
    charged,    \* counter recorded on the row (quota_tenant_id, or the owner)
    versions,   \* rows of document_versions, as <<document, number>>
    storageUsed, documentCount,     \* the two columns of every counter
    objects,    \* object store: size of the content under a key, 0 if none
    members,    \* active rows of tenant_members, as <<user, tenant>>
    cancelled,  \* organizations whose status is not active
    lock,       \* holder of the FOR UPDATE lock on a document row
    req,        \* where each request stands
    faults,     \* failures injected so far
    stranded,   \* history: documents deleted while a counter still held them
    revived     \* history: documents restored after a purge had selected them

rows == <<status, size, current, charged, versions>>
counters == <<storageUsed, documentCount>>
tenancy == <<members, cancelled>>
history == <<stranded, revived>>
vars == <<rows, counters, objects, tenancy, lock, req, faults, history>>

-----------------------------------------------------------------------------
(***************************************************************************)
(* Keys.                                                                   *)
(***************************************************************************)

get_document_key(d, n) == <<d, n, "pdf">>

_original_document_key(d, n) == <<d, n, Format[d]>>

\* file_path of version n of d: the first one is stored in the original
\* format, the later ones by create_version and restore_original.
FilePath(d, n) == IF n = 1 THEN _original_document_key(d, n)
                           ELSE get_document_key(d, n)

HasRow(d) == status[d] \in {"active", "trashed"}

Active == {d \in Doc : status[d] = "active"}

\* Mutant: only the file of the current version is collected.
CollectCurrentOnly(S) == {FilePath(d, current[d]) : d \in S}

collect_document_object_keys(S) ==
    {FilePath(v[1], v[2]) : v \in {w \in versions : w[1] \in S}}

Without(S, k) == [j \in Key |-> IF j \in S /\ j \notin k THEN 0 ELSE objects[j]]

-----------------------------------------------------------------------------
(***************************************************************************)
(* Counters.  The bytes of a set of documents are counted as the number of *)
(* pairs <<document, i>> with i in 1..size: the same number as the sum of  *)
(* their sizes, in a form that set theory alone can reason about.          *)
(***************************************************************************)

Units(S) == {u \in Doc \X (1..FileSizeLimit) : u[1] \in S /\ u[2] <= size[u[1]]}

Bytes(S) == Cardinality(Units(S))

\* GREATEST(0, column + delta)
_clamped_increment(x, delta) == IF x + delta < 0 THEN 0 ELSE x + delta

_move_counter(c, deltaBytes, deltaDocuments) ==
    /\ storageUsed' = [storageUsed EXCEPT ![c] = _clamped_increment(@, deltaBytes)]
    /\ documentCount' = [documentCount EXCEPT ![c] = _clamped_increment(@, deltaDocuments)]

\* One increment per counter for all the documents of S.
release_documents(S) ==
    LET Of(c) == {d \in S : charged[d] = c}
    IN  /\ storageUsed' = [c \in Counter |->
               _clamped_increment(storageUsed[c], -Bytes(Of(c)))]
        /\ documentCount' = [c \in Counter |->
               _clamped_increment(documentCount[c], -Cardinality(Of(c)))]

\* The counters that may be chosen for a user: an active membership of an
\* active organization when there is one, the personal quota otherwise.
CountingCounters(u) ==
    LET T == {t \in Tenant \ cancelled : <<u, t>> \in members}
    IN  IF T = {} THEN {u} ELSE T

HasCapacity(c, s) ==
    /\ StorageLimit[c] = -1 \/ storageUsed[c] + s <= StorageLimit[c]
    /\ DocumentLimit[c] = -1 \/ documentCount[c] < DocumentLimit[c]

-----------------------------------------------------------------------------
(***************************************************************************)
(* Requests.  pc is                                                        *)
(*   idle       not started                                                *)
(*   checked    save, duplicate: id drawn and quota checked                *)
(*   uploaded   save, duplicate: object stored, rows not written           *)
(*   reverting  restore_original: v1 downloaded                            *)
(*   locked     new version: row lock held                                 *)
(*   stored     new version: row lock held, object stored                  *)
(*   unsure     COMMIT raised an error, the server has not ended it yet    *)
(*   settled    COMMIT raised an error, the server has ended it            *)
(*   dead       the client is gone, the server has not ended its COMMIT    *)
(*   restoring  restore from the trash: limits read                        *)
(*   selected   purge: batch read                                          *)
(*   cleanup    rows deleted, objects to be deleted                        *)
(***************************************************************************)

PC == {"idle", "checked", "uploaded", "reverting", "locked", "stored",
       "unsure", "settled", "dead", "restoring", "selected", "cleanup"}

RequestState ==
    [pc : PC, doc : Doc \cup {None}, n : 0..MaxVersion, size : 0..FileSizeLimit,
     ctr : Counter \cup {None}, src : Key \cup {None}, batch : SUBSET Doc,
     keys : SUBSET Key]

\* A request at pc that works on document d, on a batch of documents.
OnDocument(pc, d, n, s, c, src) ==
    [pc |-> pc, doc |-> d, n |-> n, size |-> s, ctr |-> c, src |-> src,
     batch |-> {}, keys |-> {}]

OnBatch(pc, S, keys) ==
    [pc |-> pc, doc |-> None, n |-> 0, size |-> 0, ctr |-> None, src |-> None,
     batch |-> S, keys |-> keys]

Idle == OnBatch("idle", {}, {})

Goto(r, state) == req' = [req EXCEPT ![r] = state]

Init ==
    /\ status = [d \in Doc |-> "none"]
    /\ size = [d \in Doc |-> 0]
    /\ current = [d \in Doc |-> 0]
    /\ charged = [d \in Doc |-> Owner[d]]
    /\ versions = {}
    /\ storageUsed = [c \in Counter |-> 0]
    /\ documentCount = [c \in Counter |-> 0]
    /\ objects = [k \in Key |-> 0]
    /\ members = {}
    /\ cancelled = {}
    /\ lock = [d \in Doc |-> None]
    /\ req = [r \in Request |-> Idle]
    /\ faults = 0
    /\ stranded = {}
    /\ revived = {}

\* A failure the environment may inject, at most MaxFaults times.
Fault == faults < MaxFaults /\ faults' = faults + 1

NoFault == UNCHANGED faults

-----------------------------------------------------------------------------
(***************************************************************************)
(* A new document: save_document and duplicate_stored_document.            *)
(***************************************************************************)

\* save_document up to the upload: quota check, then the id is drawn.
SaveStart(r, d, s, c) ==
    /\ req[r].pc = "idle"
    /\ status[d] = "none"
    /\ c \in CountingCounters(Owner[d])
    /\ HasCapacity(c, s)
    /\ status' = [status EXCEPT ![d] = "drawn"]
    /\ Goto(r, OnDocument("checked", d, 1, s, c, None))
    /\ UNCHANGED <<size, current, charged, versions, counters, objects,
                   tenancy, lock, history>>
    /\ NoFault

\* duplicate_stored_document up to the copy: the source row, its current
\* version and the limits are read without a lock.
DuplicateStart(r, d, source, c) ==
    /\ req[r].pc = "idle"
    /\ status[d] = "none"
    /\ status[source] = "active"
    /\ Owner[source] = Owner[d] /\ Format[source] = Format[d]
    /\ <<source, current[source]>> \in versions
    /\ c \in CountingCounters(Owner[d])
    /\ HasCapacity(c, size[source])
    /\ status' = [status EXCEPT ![d] = "drawn"]
    /\ Goto(r, OnDocument("checked", d, 1, size[source], c,
                           FilePath(source, current[source])))
    /\ UNCHANGED <<size, current, charged, versions, counters, objects,
                   tenancy, lock, history>>
    /\ NoFault

\* The object goes first: upload_file for a save, copy_file for a copy.
StoreNewObject(r) ==
    LET q == req[r]
        content == IF q.src = None THEN q.size ELSE objects[q.src]
    IN  /\ q.pc = "checked"
        /\ content # 0
        /\ objects' = [objects EXCEPT ![_original_document_key(q.doc, 1)] = content]
        /\ Goto(r, OnDocument("uploaded", q.doc, 1, q.size, q.ctr, None))
        /\ UNCHANGED <<rows, counters, tenancy, lock, history>>
        /\ NoFault

\* The source of the copy has been deleted meanwhile.
CopyFails(r) ==
    /\ req[r].pc = "checked"
    /\ req[r].src # None
    /\ objects[req[r].src] = 0
    /\ Goto(r, Idle)
    /\ UNCHANGED <<rows, counters, objects, tenancy, lock, history>>
    /\ NoFault

\* What the transaction of a new document writes: the two rows, and the
\* charge to the counter that was read with the limits.
WriteNewDocument(q) ==
    /\ status' = [status EXCEPT ![q.doc] = "active"]
    /\ size' = [size EXCEPT ![q.doc] = q.size]
    /\ current' = [current EXCEPT ![q.doc] = 1]
    /\ charged' = [charged EXCEPT ![q.doc] = q.ctr]
    /\ versions' = versions \cup {<<q.doc, 1>>}
    /\ _move_counter(q.ctr, q.size, 1)
    /\ UNCHANGED lock

-----------------------------------------------------------------------------
(***************************************************************************)
(* A new version: create_version and restore_original, under the row lock. *)
(***************************************************************************)

\* restore_original reads the row and downloads v1 before it takes the lock.
RevertStart(r, d) ==
    /\ req[r].pc = "idle"
    /\ status[d] = "active"
    /\ current[d] # 1
    /\ objects[get_document_key(d, 1)] # 0
    /\ Goto(r, OnDocument("reverting", d, 0, objects[get_document_key(d, 1)],
                           None, None))
    /\ UNCHANGED <<rows, counters, objects, tenancy, lock, history>>
    /\ NoFault

\* Mutant: the row is read without FOR UPDATE.
LockWithoutWaiting(r, d, s) ==
    /\ status[d] = "active"
    /\ current[d] < MaxVersion
    /\ lock' = [lock EXCEPT ![d] = r]
    /\ Goto(r, OnDocument("locked", d, current[d] + 1, s, None, None))
    /\ UNCHANGED <<rows, counters, objects, tenancy, history>>
    /\ NoFault

\* SELECT ... FOR UPDATE, and the number of the new version.
LockForVersion(r, d, s) ==
    /\ lock[d] = None
    /\ status[d] = "active"
    /\ current[d] < MaxVersion
    /\ lock' = [lock EXCEPT ![d] = r]
    /\ Goto(r, OnDocument("locked", d, current[d] + 1, s, None, None))
    /\ UNCHANGED <<rows, counters, objects, tenancy, history>>
    /\ NoFault

VersionStart(r, d, s) ==
    /\ req[r].pc = "idle"
    /\ LockForVersion(r, d, s)

RevertLock(r) ==
    /\ req[r].pc = "reverting"
    /\ LockForVersion(r, req[r].doc, req[r].size)

\* Trashed or deleted since it was read (or the bound on versions is reached).
RevertNotFound(r) ==
    /\ req[r].pc = "reverting"
    /\ lock[req[r].doc] = None
    /\ status[req[r].doc] # "active" \/ current[req[r].doc] = MaxVersion
    /\ Goto(r, Idle)
    /\ UNCHANGED <<rows, counters, objects, tenancy, lock, history>>
    /\ NoFault

StoreVersionObject(r) ==
    LET q == req[r]
    IN  /\ q.pc = "locked"
        /\ objects' = [objects EXCEPT ![get_document_key(q.doc, q.n)] = q.size]
        /\ Goto(r, [q EXCEPT !.pc = "stored"])
        /\ UNCHANGED <<rows, counters, tenancy, lock, history>>
        /\ NoFault

\* Mutant: the difference is taken after the new size has been assigned.
ResizeThenDiff(d, s) ==
    /\ size' = [size EXCEPT ![d] = s]
    /\ UNCHANGED counters

\* Set a document's size and move its counter by the difference, unless it
\* is in the trash (then the counter was freed already).
_resize_stored_document(d, s) ==
    /\ size' = [size EXCEPT ![d] = s]
    /\ IF status[d] = "active"
       THEN _move_counter(charged[d], s - size[d], 0)
       ELSE UNCHANGED counters

\* What the transaction of a new version writes; its end frees the row lock.
WriteNewVersion(q) ==
    /\ versions' = versions \cup {<<q.doc, q.n>>}
    /\ current' = [current EXCEPT ![q.doc] = q.n]
    /\ _resize_stored_document(q.doc, q.size)
    /\ lock' = [lock EXCEPT ![q.doc] = None]
    /\ UNCHANGED <<status, charged>>

-----------------------------------------------------------------------------
(***************************************************************************)
(* rows_for_uploaded_object: commit the rows of an object stored before.   *)
(***************************************************************************)

Write(q) == IF q.n = 1 THEN WriteNewDocument(q) ELSE WriteNewVersion(q)

\* Mutant: the session of a failed request is never closed.
KeepLock(q) == UNCHANGED lock

\* The lock q holds is released when its transaction ends without a commit.
Unlock(q) == lock' = IF q.n > 1 THEN [lock EXCEPT ![q.doc] = None] ELSE lock

ReadyToCommit(r) == req[r].pc \in {"uploaded", "stored"}

CommitRows(r) ==
    /\ ReadyToCommit(r)
    /\ Write(req[r])
    /\ Goto(r, Idle)
    /\ UNCHANGED <<objects, tenancy, history>>
    /\ NoFault

\* The body or the flush fails: the object is deleted (or its deletion fails
\* too) while the row lock is still held, then the transaction rolls back.
RowsFail(r) ==
    LET q == req[r]
    IN  /\ ReadyToCommit(r)
        /\ \E kept \in SUBSET {FilePath(q.doc, q.n)} :
               objects' = Without({FilePath(q.doc, q.n)}, kept)
        /\ Unlock(q)
        /\ Goto(r, Idle)
        /\ UNCHANGED <<rows, counters, tenancy, history>>
        /\ Fault

Unresolved(q) == q.pc \in {"unsure", "dead"}

\* COMMIT raises an error: the server may or may not apply it.
CommitBreaks(r) ==
    /\ ReadyToCommit(r)
    /\ Goto(r, [req[r] EXCEPT !.pc = "unsure"])
    /\ UNCHANGED <<rows, counters, objects, tenancy, lock, history>>
    /\ Fault

\* The request is over; a transaction still running on the server outlives it.
Finish(r) == Goto(r, IF Unresolved(req[r]) THEN [req[r] EXCEPT !.pc = "dead"] ELSE Idle)

Resolved(q) == IF q.pc = "dead" THEN Idle ELSE [q EXCEPT !.pc = "settled"]

\* The server ends a transaction whose client saw COMMIT fail.
ServerCommits(r) ==
    /\ Unresolved(req[r])
    /\ Write(req[r])
    /\ Goto(r, Resolved(req[r]))
    /\ UNCHANGED <<objects, tenancy, history>>
    /\ NoFault

ServerAborts(r) ==
    /\ Unresolved(req[r])
    /\ Unlock(req[r])
    /\ Goto(r, Resolved(req[r]))
    /\ UNCHANGED <<rows, counters, objects, tenancy, history>>
    /\ NoFault

\* CommittedCheck of a new document: a plain SELECT, which does not wait for
\* a transaction that is still running.
_new_document_committed(q) == HasRow(q.doc)

NewDocumentCheckMayRun(q) == CommitMayLag \/ ~Unresolved(q)

\* Mutant: a COMMIT that raised an error is taken to have failed.
AssumeNotCommitted(q) == FALSE

\* Mutant: the check of a new version does not lock the document row.
CheckWithoutLock(q) == TRUE

\* CommittedCheck of a new version: under the row lock, so it waits for the
\* transaction (and for every other save) that holds it.
_version_committed(q) == <<q.doc, q.n>> \in versions

VersionCheckMayRun(q) == lock[q.doc] = None

CheckMayRun(q) == IF q.n = 1 THEN NewDocumentCheckMayRun(q) ELSE VersionCheckMayRun(q)

Committed(q) == IF q.n = 1 THEN _new_document_committed(q) ELSE _version_committed(q)

\* The rows are there: the object is kept.
KeepObject(r) ==
    /\ req[r].pc \in {"unsure", "settled"}
    /\ CheckMayRun(req[r])
    /\ Committed(req[r])
    /\ Finish(r)
    /\ UNCHANGED <<rows, counters, objects, tenancy, lock, history>>
    /\ NoFault

\* The rows are absent: the object is deleted.
DeleteObject(r) ==
    /\ req[r].pc \in {"unsure", "settled"}
    /\ CheckMayRun(req[r])
    /\ ~Committed(req[r])
    /\ objects' = Without({FilePath(req[r].doc, req[r].n)}, {})
    /\ Finish(r)
    /\ UNCHANGED <<rows, counters, tenancy, lock, history>>
    /\ NoFault

\* The check, or the deletion it decides on, fails: the object is kept.
CheckFails(r) ==
    /\ req[r].pc \in {"unsure", "settled"}
    /\ Finish(r)
    /\ UNCHANGED <<rows, counters, objects, tenancy, lock, history>>
    /\ Fault

\* upload_file raises: nothing is written.
UploadFails(r) ==
    /\ req[r].pc \in {"checked", "locked"}
    /\ Unlock(req[r])
    /\ Goto(r, Idle)
    /\ UNCHANGED <<rows, counters, objects, tenancy, history>>
    /\ Fault

-----------------------------------------------------------------------------
(***************************************************************************)
(* Trash: soft and permanent delete, restore, folder cascade, purge.       *)
(***************************************************************************)

\* Mutant: the document is freed from the counter its owner has today.
SoftDeleteFreesToday(d) ==
    /\ lock[d] = None
    /\ status[d] = "active"
    /\ \E c \in CountingCounters(Owner[d]) : _move_counter(c, -size[d], -1)
    /\ status' = [status EXCEPT ![d] = "trashed"]
    /\ UNCHANGED <<size, current, charged, versions, objects, tenancy, lock,
                   req, history>>
    /\ NoFault

\* delete_stored_document without permanent.  The row lock is held from the
\* read to the commit, so the handler is one step once it has the lock.
SoftDelete(d) ==
    /\ lock[d] = None
    /\ status[d] = "active"
    /\ _move_counter(charged[d], -size[d], -1)
    /\ status' = [status EXCEPT ![d] = "trashed"]
    /\ UNCHANGED <<size, current, charged, versions, objects, tenancy, lock,
                   req, history>>
    /\ NoFault

\* Mutant: the version rows do not cascade.
DropDocumentRows(S) ==
    /\ status' = [d \in Doc |-> IF d \in S THEN "gone" ELSE status[d]]
    /\ UNCHANGED <<size, current, charged, versions>>

DropRows(S) ==
    /\ status' = [d \in Doc |-> IF d \in S THEN "gone" ELSE status[d]]
    /\ versions' = {v \in versions : v[1] \notin S}
    /\ UNCHANGED <<size, current, charged>>

\* Mutant: the counter is freed again for a document in the trash.
HardDeleteFreesTwice(r, d) ==
    /\ req[r].pc = "idle"
    /\ lock[d] = None
    /\ HasRow(d)
    /\ _move_counter(charged[d], -size[d], -1)
    /\ DropRows({d})
    /\ Goto(r, OnBatch("cleanup", {}, collect_document_object_keys({d})))
    /\ UNCHANGED <<objects, tenancy, lock, history>>
    /\ NoFault

\* delete_stored_document with permanent: rows first, objects after COMMIT.
HardDelete(r, d) ==
    /\ req[r].pc = "idle"
    /\ lock[d] = None
    /\ HasRow(d)
    /\ IF status[d] = "active" THEN _move_counter(charged[d], -size[d], -1)
                               ELSE UNCHANGED counters
    /\ DropRows({d})
    /\ Goto(r, OnBatch("cleanup", {}, collect_document_object_keys({d})))
    /\ UNCHANGED <<objects, tenancy, lock, history>>
    /\ NoFault

\* delete_objects_best_effort: the keys in left could not be deleted.
CleanUp(r, left) ==
    /\ req[r].pc = "cleanup"
    /\ left \subseteq req[r].keys
    /\ objects' = Without(req[r].keys, left)
    /\ Goto(r, Idle)
    /\ UNCHANGED <<rows, counters, tenancy, lock, history>>
    /\ IF left = {} THEN NoFault ELSE Fault

\* Mutant: the documents of the sub-tree are not locked.
TrashFolderUnlocked(S) ==
    /\ S # {} /\ S \subseteq Active
    /\ \A d, e \in S : Owner[d] = Owner[e]
    /\ release_documents(S)
    /\ status' = [d \in Doc |-> IF d \in S THEN "trashed" ELSE status[d]]
    /\ UNCHANGED <<size, current, charged, versions, objects, tenancy, lock,
                   req, history>>
    /\ NoFault

\* delete_folder with cascade, for the active documents S of a sub-tree.
TrashFolder(S) ==
    /\ S # {} /\ S \subseteq Active
    /\ \A d, e \in S : Owner[d] = Owner[e]
    /\ \A d \in S : lock[d] = None
    /\ release_documents(S)
    /\ status' = [d \in Doc |-> IF d \in S THEN "trashed" ELSE status[d]]
    /\ UNCHANGED <<size, current, charged, versions, objects, tenancy, lock,
                   req, history>>
    /\ NoFault

\* restore_stored_document reads the limits before it locks the row ...
RestoreStart(r, d, c) ==
    /\ req[r].pc = "idle"
    /\ HasRow(d)
    /\ c \in CountingCounters(Owner[d])
    /\ Goto(r, OnDocument("restoring", d, 0, 0, c, None))
    /\ UNCHANGED <<rows, counters, objects, tenancy, lock, history>>
    /\ NoFault

\* Mutant: the row is not filtered on is_deleted.
RechargeAgain(d, c) ==
    /\ lock[d] = None
    /\ HasRow(d)
    /\ status' = [status EXCEPT ![d] = "active"]
    /\ charged' = [charged EXCEPT ![d] = c]
    /\ _move_counter(c, size[d], 1)
    /\ UNCHANGED <<size, current, versions, objects, tenancy, lock, history>>
    /\ NoFault

\* Back in the active set, charged to counter c, in one transaction.
Recharge(d, c) ==
    /\ lock[d] = None
    /\ status[d] = "trashed"
    /\ status' = [status EXCEPT ![d] = "active"]
    /\ charged' = [charged EXCEPT ![d] = c]
    /\ _move_counter(c, size[d], 1)
    /\ revived' = IF \E r \in Request : d \in req[r].batch
                  THEN revived \cup {d} ELSE revived
    /\ UNCHANGED <<size, current, versions, objects, tenancy, lock, stranded>>
    /\ NoFault

\* ... and charges the counter read then.
RestoreCommit(r) ==
    /\ req[r].pc = "restoring"
    /\ Recharge(req[r].doc, req[r].ctr)
    /\ Goto(r, Idle)

RestoreNotFound(r) ==
    /\ req[r].pc = "restoring"
    /\ lock[req[r].doc] = None
    /\ status[req[r].doc] # "trashed"
    /\ Goto(r, Idle)
    /\ UNCHANGED <<rows, counters, objects, tenancy, lock, history>>
    /\ NoFault

\* The administrator's restore resolves the counter under the row lock.
AdminRestore(d, c) ==
    /\ c \in CountingCounters(Owner[d])
    /\ Recharge(d, c)
    /\ UNCHANGED req

\* purge_trashed_documents reads a batch of expired trash without a lock ...
PurgeSelect(r, S) ==
    /\ req[r].pc = "idle"
    /\ S # {} /\ \A d \in S : status[d] = "trashed"
    /\ Goto(r, OnBatch("selected", S, collect_document_object_keys(S)))
    /\ UNCHANGED <<rows, counters, objects, tenancy, lock, history>>
    /\ NoFault

\* Mutant: the purge ends without COMMIT.
PurgeRollsBack(r) ==
    /\ req[r].pc = "selected"
    /\ Goto(r, OnBatch("cleanup", {}, req[r].keys))
    /\ UNCHANGED <<rows, counters, objects, tenancy, lock, history>>
    /\ NoFault

\* ... and deletes those rows by id, without touching the counters.
PurgeDelete(r) ==
    LET S == {d \in req[r].batch : HasRow(d)}
    IN  /\ req[r].pc = "selected"
        /\ \A d \in S : lock[d] = None
        /\ DropRows(S)
        /\ stranded' = stranded \cup (S \cap Active)
        /\ Goto(r, OnBatch("cleanup", {}, req[r].keys))
        /\ UNCHANGED <<counters, objects, tenancy, lock, revived>>
        /\ NoFault

-----------------------------------------------------------------------------
(***************************************************************************)
(* Reconciliation, memberships, crashes.                                   *)
(***************************************************************************)

\* reconcile_storage_counters(apply=True): the SHARE lock on the table waits
\* for every transaction with uncommitted writes.
Reconcile ==
    /\ \A r \in Request : ~Unresolved(req[r])
    /\ storageUsed' = [c \in Counter |-> Bytes({d \in Active : charged[d] = c})]
    /\ documentCount' = [c \in Counter |->
                            Cardinality({d \in Active : charged[d] = c})]
    /\ stranded' = {}
    /\ UNCHANGED <<rows, objects, tenancy, lock, req, revived>>
    /\ NoFault

\* add_member, and update_member with is_active (max_members is not modelled:
\* a full organization is one that nobody is added to).
add_member(u, t) ==
    /\ <<u, t>> \notin members
    /\ members' = members \cup {<<u, t>>}
    /\ UNCHANGED <<rows, counters, objects, cancelled, lock, req, faults, history>>

\* remove_member, and update_member without is_active: the latter does not
\* spare the last owner, so every member can go.
remove_member(u, t) ==
    /\ <<u, t>> \in members
    /\ members' = members \ {<<u, t>>}
    /\ UNCHANGED <<rows, counters, objects, cancelled, lock, req, faults, history>>

\* A soft delete: the organization keeps its rows and its counters.
delete_tenant(t) ==
    /\ cancelled' = cancelled \cup {t}
    /\ UNCHANGED <<rows, counters, objects, members, lock, req, faults, history>>

\* The administrator sets the status back to active.
update_tenant(t) ==
    /\ cancelled' = cancelled \ {t}
    /\ UNCHANGED <<rows, counters, objects, members, lock, req, faults, history>>

\* The worker dies.  Its connection drops: an open transaction rolls back and
\* its row lock is freed, unless COMMIT was already sent.
Crash(r) ==
    /\ req[r].pc \notin {"idle", "dead"}
    /\ IF req[r].pc \in {"locked", "stored"} THEN Unlock(req[r]) ELSE UNCHANGED lock
    /\ Finish(r)
    /\ UNCHANGED <<rows, counters, objects, tenancy, history>>
    /\ Fault

-----------------------------------------------------------------------------
\* The steps of request r that follow its first one.
Continue(r) ==
    \/ StoreNewObject(r) \/ CopyFails(r)
    \/ RevertLock(r) \/ RevertNotFound(r) \/ StoreVersionObject(r)
    \/ CommitRows(r) \/ KeepObject(r) \/ DeleteObject(r)
    \/ RestoreCommit(r) \/ RestoreNotFound(r)
    \/ PurgeDelete(r) \/ CleanUp(r, {})

Resolve(r) == ServerCommits(r) \/ ServerAborts(r)

Break(r) ==
    \/ RowsFail(r) \/ CommitBreaks(r) \/ CheckFails(r) \/ UploadFails(r)
    \/ Crash(r)
    \/ \E left \in (SUBSET req[r].keys) \ {{}} : CleanUp(r, left)

Start(r) ==
    \/ \E d \in Doc, s \in 1..FileSizeLimit, c \in Counter : SaveStart(r, d, s, c)
    \/ \E d, source \in Doc, c \in Counter : DuplicateStart(r, d, source, c)
    \/ \E d \in Doc, s \in 1..FileSizeLimit : VersionStart(r, d, s)
    \/ \E d \in Doc : RevertStart(r, d)
    \/ \E d \in Doc : HardDelete(r, d)
    \/ \E d \in Doc, c \in Counter : RestoreStart(r, d, c)

Purge == \E r \in Request, S \in SUBSET Doc : PurgeSelect(r, S)

Administer ==
    \/ \E d \in Doc, c \in Counter : AdminRestore(d, c)
    \/ \E u \in User, t \in Tenant : add_member(u, t) \/ remove_member(u, t)
    \/ \E t \in Tenant : delete_tenant(t) \/ update_tenant(t)
    \/ Reconcile

Next ==
    \/ \E r \in Request : Start(r) \/ Continue(r) \/ Resolve(r) \/ Break(r)
    \/ \E d \in Doc : SoftDelete(d)
    \/ \E S \in SUBSET Doc : TrashFolder(S)
    \/ Purge
    \/ Administer

Spec == Init /\ [][Next]_vars

\* A handler that has started runs on (users decide whether one starts, the
\* environment whether one fails), PostgreSQL ends every transaction it was
\* asked to commit, and Celery Beat runs the purge however busy the API is.
Fairness ==
    /\ \A r \in Request : WF_vars(Continue(r)) /\ WF_vars(Resolve(r))
    /\ \A d \in Doc : SF_vars(\E r \in Request, S \in SUBSET Doc :
                                   d \in S /\ PurgeSelect(r, S))

FairSpec == Spec /\ Fairness

-----------------------------------------------------------------------------
(***************************************************************************)
(* Properties.                                                             *)
(***************************************************************************)

\* Type invariant: every column, object and request state stays in its domain.
TypeOK ==
    /\ status \in [Doc -> {"none", "drawn", "active", "trashed", "gone"}]
    /\ size \in [Doc -> 0..FileSizeLimit]
    /\ current \in [Doc -> 0..MaxVersion]
    /\ charged \in [Doc -> Counter]
    /\ versions \subseteq Doc \X Version
    /\ storageUsed \in [Counter -> Nat]
    /\ documentCount \in [Counter -> Nat]
    /\ objects \in [Key -> 0..FileSizeLimit]
    /\ members \subseteq User \X Tenant
    /\ cancelled \subseteq Tenant
    /\ lock \in [Doc -> Request \cup {None}]
    /\ req \in [Request -> RequestState]
    /\ faults \in 0..MaxFaults
    /\ stranded \subseteq Doc
    /\ revived \subseteq Doc

\* What a counter still holds: the active documents charged to it, and those
\* that a purge deleted after they had been restored.
Held(c) == {d \in Active \cup stranded : charged[d] = c}

\* Every counter equals the recount of what it holds: no interleaving of
\* uploads, versions, deletes, restores and membership changes, and no failed
\* or doubtful COMMIT, moves a counter without its document or the reverse
\* (adjust_document_storage: "both land or neither does").
CountersAccount ==
    \A c \in Counter : /\ storageUsed[c] = Bytes(Held(c))
                        /\ documentCount[c] = Cardinality(Held(c))

\* A counter equals its ACTIVE documents, as reconcile_storage_counters
\* defines it; purge_trashed_documents assumes its batch was freed already.
CountersMatch ==
    \A c \in Counter :
        LET S == {d \in Active : charged[d] = c}
        IN  storageUsed[c] = Bytes(S) /\ documentCount[c] = Cardinality(S)

\* A counter differs from its active documents only after that race: a
\* restore that commits between a purge's read and its delete.
CountersMatchUnlessRevived == revived = {} => CountersMatch

\* No committed version row points at a missing object
\* (rows_for_uploaded_object: "no committed row can point at a missing file").
NoDanglingVersion == \A v \in versions : objects[FilePath(v[1], v[2])] # 0

\* The same, leaving out the first version when a COMMIT may outlive the
\* unlocked check of _new_document_committed.
VersionsHaveObjects ==
    \A v \in versions :
        (CommitMayLag => v[2] > 1) => objects[FilePath(v[1], v[2])] # 0

\* A document is charged for what is stored: its size is the size of the
\* object of its current version, although failed saves write to the same
\* v{n} key and restore_original reads v1 before it takes the lock.
ChargedSizeIsStored ==
    \A d \in Doc :
        HasRow(d) /\ (CommitMayLag => current[d] > 1)
            => objects[FilePath(d, current[d])] = size[d]

\* Concurrent saves get consecutive numbers: the version rows of a document
\* are numbered 1..current_version, and go with their document.
VersionsNumbered ==
    \A d \in Doc : {v[2] : v \in {w \in versions : w[1] = d}} =
                        IF HasRow(d) THEN 1..current[d] ELSE {}

\* A request with an uncommitted transaction that adds a version / a document.
AddsVersion(q) == q.pc \in {"locked", "stored"} \/ (Unresolved(q) /\ q.n > 1)

AddsDocument(q) == q.pc \in {"checked", "uploaded"} \/ (Unresolved(q) /\ q.n = 1)

\* The fields that each point of a handler relies on are set.
WellFormed(q) ==
    /\ q.pc \in {"checked", "uploaded"} => q.n = 1
    /\ q.pc \in {"locked", "stored"} => q.n > 1
    /\ q.pc \in {"unsure", "settled", "dead"} => q.n > 0
    /\ q.pc \notin {"idle", "selected", "cleanup"} => q.doc \in Doc
    /\ AddsDocument(q) \/ q.pc = "restoring" => q.ctr \in Counter

\* A save in progress keeps what it has read true until it commits, although
\* other requests, the purge and a dropped connection interleave: a new
\* version still has the row lock of an active document whose next number is
\* its own, and nobody else has or references the id of a new document.
SavesIsolated ==
    \A r \in Request :
        LET q == req[r]
        IN  /\ AddsVersion(q) => /\ lock[q.doc] = r
                                 /\ status[q.doc] = "active"
                                 /\ q.n = current[q.doc] + 1
            /\ AddsDocument(q) =>
                   /\ status[q.doc] = "drawn"
                   /\ \A p \in Request \ {r} :
                          AddsDocument(req[p]) => req[p].doc # q.doc

\* A counter that was not freed belongs to a document that is gone for good.
StrandedGone == \A d \in stranded : status[d] = "gone"

\* A document with a row has a first version.
RowsNumbered == \A d \in Doc : HasRow(d) => current[d] > 0

\* The inductive invariant behind CountersAccount: a counter moves with its
\* document only because a save still finds the document as it read it.
CountersInductive ==
    /\ TypeOK
    /\ \A r \in Request : WellFormed(req[r])
    /\ RowsNumbered
    /\ SavesIsolated
    /\ StrandedGone
    /\ CountersAccount

InProgress(d) == \E r \in Request : req[r].doc = d
                    \/ \E k \in req[r].keys : k[1] = d

\* Without failures nothing is left behind in the object store: an object
\* that no row references belongs to a request in progress, unless the document
\* was restored after a purge had read its versions.
OrphansExplained ==
    faults = 0 =>
        \A k \in Key : objects[k] # 0 =>
            \/ <<k[1], k[2]>> \in versions
            \/ InProgress(k[1])
            \/ k[1] \in revived

\* StorageLedger with the documents that a counter still holds.
Ledger == INSTANCE StorageLedger WITH
    MaxBytes <- FileSizeLimit,
    holder <- [d \in Doc |-> IF d \in Active \cup stranded THEN charged[d] ELSE None],
    bytes <- size, used <- storageUsed, count <- documentCount

\* The handlers implement the ledger: every step charges one document, resizes
\* one, frees some, or moves no counter; no document is charged twice or moved
\* from one counter to another without being freed.
ImplementsLedger == Ledger!Spec

\* Every request ends: no handler waits for ever for a row lock, for the
\* outcome of a COMMIT that failed, or for the lock of a client that died.
EveryRequestEnds == \A r \in Request : req[r].pc # "idle" ~> req[r].pc = "idle"

\* The trash does not fill up: a trashed document is restored or deleted, even
\* when a purge run dies between its read and its delete.
TrashIsEmptied == \A d \in Doc : status[d] = "trashed" ~> status[d] # "trashed"

=============================================================================
