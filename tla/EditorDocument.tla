---------------------------- MODULE EditorDocument ----------------------------
(***************************************************************************)
(* The working copy of one open document in the web editor: the queue of   *)
(* element operations and the binary they are baked into                    *)
(* (apps/web/.../editor/[id]/page.tsx, packages/editor operations-store),   *)
(* the content-edit layer, the save hook (use-document-save.ts) with its    *)
(* debounce, auto-save and offline replay, and the reload that a            *)
(* collaborator's new version causes.                                       *)
(*                                                                          *)
(* A binary is the set of the user's edits it contains.  A handler is cut   *)
(* where it awaits an answer, and the page's JavaScript runs whatever is    *)
(* ready in between: several bakes, one save, a reload and a replay may be  *)
(* in flight at once.                                                       *)
(***************************************************************************)
EXTENDS Naturals, FiniteSets

CONSTANTS
    Queued,      \* edits that go through the operations store
    Content,     \* edits of the content-edit layer
    Baked,       \* edits the engine applies to the whole binary
    Element,     \* elements of the page
    ElementOf,   \* the element a queued or a content edit changes
    Saver,       \* the save hook
    NoFile,      \* currentPdfFileRef before the binary has arrived
    MaxFaults    \* bound on failed requests, lost connections and peers' versions

ASSUME EditAssumption ==
    /\ Queued \cap Content = {} /\ Queued \cap Baked = {}
    /\ Content \cap Baked = {}
    /\ Saver \notin Baked /\ NoFile \notin Baked \cup {Saver}
    /\ ElementOf \in [Queued \cup Content -> Element]
    /\ \A s \in SUBSET (Queued \cup Content \cup Baked) : s # NoFile
    /\ MaxFaults \in Nat

Edit == Queued \cup Content \cup Baked
Job == {Saver} \cup Baked

VARIABLES
    operations,   \* the operations store
    zone,         \* the modifications map of the content-edit layer
    mods,         \* contentModifications, what the layer last handed to the page
    active,       \* content-edit mode is on
    file,         \* currentPdfFile
    session,      \* what the editing session holds: the version it was opened on
    stored,       \* the latest stored version
    dirty, pending, timer,  \* isDirty, pendingChanges > 0, the debounce timer
    job,          \* the save and the bakes in flight
    awaiting,     \* element requests to the backend without an answer
    flushIds,     \* pendingFlushIdsRef
    flushing,     \* how often the removal of a batch of ids is in flight
    load,         \* the load of the document: idle, open, fetch
    banner, reloadTimer,    \* a peer saved: the banner, the 800 ms timer
    offline,
    outbox,       \* save_document operations of the offline queue, by session
    replay,       \* flushOfflineQueue: idle, empty (nothing synced yet), synced
    faults,       \* failures and disturbances so far
    made,         \* edits the user has made
    exposed,      \* edits that were unsaved while two operations overlapped
    skipped       \* edits still queued when a save went ahead without them

saveVars == <<dirty, pending, timer>>
flushVars == <<flushIds, flushing>>
peerVars == <<banner, reloadTimer>>
netVars == <<offline, outbox, replay>>
zoneVars == <<zone, active>>
vars == <<operations, zone, mods, active, file, session, stored, dirty, pending,
          timer, job, awaiting, flushIds, flushing, load, banner, reloadTimer,
          offline, outbox, replay, faults, made, exposed, skipped>>

Op == [action : {"add", "update", "delete", "reorder", "content"},
       element : Element, edits : SUBSET Edit]

EditsOf(ops) == UNION {o.edits : o \in ops}

Idle == [at |-> "idle", kind |-> "none", base |-> {}, taken |-> {}]

TypeOK ==
    /\ operations \in SUBSET Op
    /\ zone \in SUBSET Op /\ mods \in SUBSET Op
    /\ active \in BOOLEAN
    /\ file = NoFile \/ file \in SUBSET Edit
    /\ session \in SUBSET Edit /\ stored \in SUBSET Edit
    /\ dirty \in BOOLEAN /\ pending \in BOOLEAN /\ timer \in BOOLEAN
    /\ job \in [Job -> [at : {"idle", "apply", "engine", "upload"},
                        kind : {"none", "save", "bake", "reread", "table"},
                        base : SUBSET Edit, taken : SUBSET Op]]
    /\ awaiting \in SUBSET Queued
    /\ flushIds \in SUBSET Element
    /\ flushing \in [SUBSET Element -> Nat]
    /\ load \in {"idle", "open", "fetch"}
    /\ banner \in BOOLEAN /\ reloadTimer \in BOOLEAN
    /\ offline \in BOOLEAN
    /\ outbox \in SUBSET SUBSET Edit
    /\ replay \in {"idle", "empty", "synced"}
    /\ faults \in 0..MaxFaults
    /\ made \in SUBSET Edit /\ exposed \in SUBSET Edit /\ skipped \in SUBSET Edit

\* The page is mounted, its session is open and the binary is on its way.
Init ==
    /\ operations = {} /\ zone = {} /\ mods = {} /\ active = FALSE
    /\ file = NoFile /\ session = {} /\ stored = {}
    /\ dirty = FALSE /\ pending = FALSE /\ timer = FALSE
    /\ job = [j \in Job |-> Idle]
    /\ awaiting = {} /\ flushIds = {} /\ flushing = [ids \in SUBSET Element |-> 0]
    /\ load = "fetch" /\ banner = FALSE /\ reloadTimer = FALSE
    /\ offline = FALSE /\ outbox = {} /\ replay = "idle"
    /\ faults = 0 /\ made = {} /\ exposed = {} /\ skipped = {}

-----------------------------------------------------------------------------
(* Overlap.  Something is in flight when a job, a load or a replay waits    *)
(* for an answer.  Every edit not yet safe is exposed by an operation that  *)
(* starts then, and by an edit made then.                                   *)

BusyBut(b) ==
    \/ \E j \in Job \ {b} : job[j].at # "idle"
    \/ load # "idle"
    \/ replay # "idle"

Busy == BusyBut(NoFile)

Expose(overlap, new) == exposed' = IF overlap THEN exposed \cup made \cup new ELSE exposed

Fault == faults < MaxFaults /\ faults' = faults + 1

-----------------------------------------------------------------------------
(* The operations store.                                                    *)

NewOp(action, e, edits) == [action |-> action, element |-> ElementOf[e], edits |-> edits]

queueAdd(e) == operations \cup {NewOp("add", e, {e})}

queueDelete(e) == operations \cup {NewOp("delete", e, {e})}

\* A second update, or a second reorder, of an element takes the place of the first.
Coalesce(action, e) ==
    LET same == {o \in operations : o.action = action /\ o.element = ElementOf[e]}
    IN  (operations \ same) \cup {NewOp(action, e, {e} \cup EditsOf(same))}

queueUpdate(e) == Coalesce("update", e)

queueReorder(e) == Coalesce("reorder", e)

-----------------------------------------------------------------------------
(* The save hook.                                                           *)

\* With the prepared blob, the save uploads and a bake calls the engine.
WithBlob(kind, blob) ==
    [at |-> IF kind = "save" THEN "upload" ELSE "engine",
     kind |-> IF kind = "reread" THEN "bake" ELSE kind, base |-> blob, taken |-> {}]

\* Mutant: the binary is uploaded without the operations.
getPreparedBlobUnpatched(kind, f, ops) == WithBlob(kind, f)

\* Mutant: with nothing to bake, the session's bytes are fetched.
getPreparedBlobFetched(kind, f, ops) ==
    IF ops \cup mods = {}
    THEN WithBlob(kind, session)
    ELSE [at |-> "apply", kind |-> kind, base |-> f, taken |-> ops \cup mods]

\* getPreparedBlob on the binary f with the operations ops: with nothing to bake it
\* answers f, else it peeks at the operations and awaits apply-elements.
getPreparedBlob(kind, f, ops) ==
    IF ops \cup mods = {}
    THEN WithBlob(kind, f)
    ELSE [at |-> "apply", kind |-> kind, base |-> f, taken |-> ops \cup mods]

\* performSave returns at once while a save is in flight, and queues the save when offline.
Starts == job[Saver].at = "idle" /\ ~offline

SaverAfter(f, ops) ==
    CASE ~Starts -> job[Saver]
      [] Starts /\ f = NoFile ->      \* fetchPdfBlobForSave: the session's bytes
            WithBlob("save", session)
      [] OTHER -> getPreparedBlob("save", f, ops)

\* j: the other jobs after this step.
performSave(j, f, ops) ==
    /\ job' = [j EXCEPT ![Saver] = SaverAfter(f, ops)]
    /\ outbox' = IF offline /\ job[Saver].at = "idle" THEN outbox \cup {session} ELSE outbox
    /\ skipped' = IF Starts /\ f = NoFile THEN skipped \cup EditsOf(ops) ELSE skipped

\* save(): the debounce is cancelled, then the document is saved.
save ==
    /\ timer' = FALSE
    /\ performSave(job, file, operations)
    /\ Expose(Starts /\ Busy, {})
    /\ UNCHANGED <<operations, mods, zoneVars, file, session, stored, awaiting, flushVars,
                   load, peerVars, offline, replay, faults, made>>

\* The save button and the exports, which save a dirty document first.
UserSaves == save /\ UNCHANGED <<dirty, pending>>

handleConfirmRename == save /\ dirty' = TRUE /\ pending' = TRUE

DebounceFires == timer /\ save /\ UNCHANGED <<dirty, pending>>

\* Mutant: the interval sees the flag inverted.
AutoSaveWhenClean ==
    /\ ~dirty /\ job[Saver].at = "idle" /\ ~timer
    /\ save
    /\ UNCHANGED <<dirty, pending>>

AutoSave ==
    /\ dirty /\ job[Saver].at = "idle" /\ ~timer
    /\ save
    /\ UNCHANGED <<dirty, pending>>

\* saveWithPriority("debounced")
Debounce == pending' = TRUE /\ timer' = TRUE

-----------------------------------------------------------------------------
(* getPreparedBlob after its await, in the save or in a bake.               *)

\* Mutant: what was baked stays in the store.
KeepBaked == operations

\* drain() empties the store.
drain == {}

\* Mutant: the store is drained before the outcome is known.
DrainOnFailure == {}

\* Without a drain the operations are kept for the next save.
KeptOnFailure == operations

ApplySucceeds(j) ==
    LET blob == job[j].base \cup EditsOf(job[j].taken)
        ids == {o.element : o \in {p \in job[j].taken : p.action # "content"}}
    IN  /\ job[j].at = "apply"
        /\ operations' = drain
        /\ mods' = {}
        /\ file' = blob
        /\ flushIds' = flushIds \cup ids
        /\ job' = [job EXCEPT ![j] = WithBlob(@.kind, blob)]
        /\ UNCHANGED <<zoneVars, session, stored, saveVars, awaiting, flushing, load,
                       peerVars, netVars, faults, made, exposed, skipped>>

\* The binary that was peeked at is used as it is; replace-image and ink read the
\* binary again.
ApplyFails(j) ==
    /\ job[j].at = "apply"
    /\ Fault
    /\ job' = [job EXCEPT ![j] = WithBlob(@.kind, IF @.kind = "reread" THEN file ELSE @.base)]
    /\ skipped' = IF j = Saver THEN skipped \cup EditsOf(operations) ELSE skipped
    /\ operations' = KeptOnFailure
    /\ UNCHANGED <<mods, zoneVars, file, session, stored, saveVars, awaiting, flushVars,
                   load, peerVars, netVars, made, exposed>>

-----------------------------------------------------------------------------
(* The end of a save.                                                       *)

\* onSaved empties pendingFlushIdsRef and sends the ids it held.
SendFlush ==
    /\ flushIds' = {}
    /\ flushing' = [flushing EXCEPT ![flushIds] = IF flushIds = {} THEN @ ELSE @ + 1]

\* The version is stored.  onSaved is not awaited: the next save may start at once.
UploadSucceeds ==
    /\ job[Saver].at = "upload"
    /\ stored' = job[Saver].base
    /\ dirty' = FALSE /\ pending' = FALSE
    /\ job' = [job EXCEPT ![Saver] = Idle]
    /\ SendFlush
    /\ UNCHANGED <<operations, mods, zoneVars, file, session, timer, awaiting, load,
                   peerVars, netVars, faults, made, exposed, skipped>>

\* The backend has removed the elements of a batch.
FlushSucceeds(ids) ==
    /\ flushing[ids] > 0
    /\ flushing' = [flushing EXCEPT ![ids] = @ - 1]
    /\ UNCHANGED <<operations, mods, zoneVars, file, session, stored, saveVars, job, awaiting,
                   flushIds, load, peerVars, netVars, faults, made, exposed, skipped>>

\* A failed batch is pushed back, for a later save.
FlushFails(ids) ==
    /\ flushing[ids] > 0
    /\ Fault
    /\ flushing' = [flushing EXCEPT ![ids] = @ - 1]
    /\ flushIds' = flushIds \cup ids
    /\ UNCHANGED <<operations, mods, zoneVars, file, session, stored, saveVars, job, awaiting,
                   load, peerVars, netVars, made, exposed, skipped>>

\* The request fails, before or after the server stored the version.
UploadFails(applied) ==
    /\ job[Saver].at = "upload"
    /\ Fault
    /\ stored' = IF applied THEN job[Saver].base ELSE stored
    /\ job' = [job EXCEPT ![Saver] = Idle]
    /\ outbox' = outbox \cup {session}
    /\ UNCHANGED <<operations, mods, zoneVars, file, session, saveVars, awaiting, flushVars,
                   load, peerVars, offline, replay, made, exposed, skipped>>

-----------------------------------------------------------------------------
(* Edits of elements: the operation is queued at once, the backend is told, *)
(* and its answer schedules the save.                                       *)

Edited(e, ops) ==
    /\ e \notin made
    /\ made' = made \cup {e}
    /\ operations' = ops
    /\ dirty' = TRUE
    /\ UNCHANGED <<mods, zoneVars, file, session, stored, flushVars,
                   load, peerVars, offline, replay, faults>>

\* Mutant: the request is remembered by its element.
TellElement(e) == awaiting' = awaiting \cup {ElementOf[e]}

Tell(e) == awaiting' = awaiting \cup {e}

handleElementAdded(e) ==
    /\ Edited(e, queueAdd(e)) /\ Tell(e) /\ Expose(Busy, {e})
    /\ UNCHANGED <<pending, timer, job, outbox, skipped>>

handleElementModified(e) ==
    /\ Edited(e, queueUpdate(e)) /\ Tell(e) /\ Expose(Busy, {e})
    /\ UNCHANGED <<pending, timer, job, outbox, skipped>>

\* The same edit from the properties panel.
handleElementUpdate(e) == handleElementModified(e)

handleElementRemoved(e) ==
    /\ Edited(e, queueDelete(e)) /\ Tell(e) /\ Expose(Busy, {e})
    /\ UNCHANGED <<pending, timer, job, outbox, skipped>>

\* The delete key: the canvas reports the removal, then the page saves at once.
handleDelete(e) ==
    /\ Edited(e, queueDelete(e)) /\ Tell(e) /\ Expose(Busy, {e})
    /\ pending' = TRUE /\ timer' = FALSE
    /\ performSave(job, file, queueDelete(e))

handleElementReordered(e) ==
    /\ Edited(e, queueReorder(e)) /\ Debounce /\ Expose(Busy, {e})
    /\ UNCHANGED <<awaiting, job, outbox, skipped>>

\* The answer, or the failure after the retries.
BackendAnswers(e) ==
    /\ e \in awaiting
    /\ awaiting' = awaiting \ {e}
    /\ Debounce
    /\ UNCHANGED <<operations, mods, zoneVars, file, session, stored, dirty, job,
                   flushVars, load, peerVars, netVars, faults, made, exposed, skipped>>

-----------------------------------------------------------------------------
(* Bakes: an engine call on the whole binary, whose answer is adopted.      *)

StartBake(b, j) ==
    /\ b \notin made /\ job[b].at = "idle" /\ file # NoFile
    /\ job' = [job EXCEPT ![b] = j]
    /\ Expose(Busy, {b})
    /\ UNCHANGED <<operations, mods, zoneVars, file, session, stored, pending, timer,
                   awaiting, flushVars, load, peerVars, netVars, faults, made,
                   skipped>>

\* On the binary as it is when the user acts.
DirectBake(b) ==
    /\ StartBake(b, WithBlob("bake", file))
    /\ UNCHANGED dirty

runPageOperation(b) == DirectBake(b)
handleMarginsCommit(b) == DirectBake(b)
handleHeaderFooterApply(b) == DirectBake(b)
handleHeaderFooterRemove(b) == DirectBake(b)
handleToggleHeadersFooters(b) == DirectBake(b)
scheduleHfBake(b) == DirectBake(b)
handleRedactApply(b) == DirectBake(b)
handleApplyOutline(b) == DirectBake(b)
handleAddAnnotation(b) == DirectBake(b)
handleApplyTextStyle(b) == DirectBake(b)
handleRemoveAnnotation(b) == DirectBake(b)
handleRedactPiiAuto(b) == DirectBake(b)
runOcgOperation(b) == DirectBake(b)

\* The dialogs call the engine themselves and hand over its answer.
handleWatermarkApplied(b) == DirectBake(b)
handleCompressApplied(b) == DirectBake(b)
handleOcrApplied(b) == DirectBake(b)
handleSignApplied(b) == DirectBake(b)

\* On the binary with the queued operations baked in first.
PreparedBake(b, kind) == StartBake(b, getPreparedBlob(kind, file, operations))

bakeParagraphStyle(b) == PreparedBake(b, "bake") /\ dirty' = TRUE
handleInsertLink(b) == PreparedBake(b, "bake") /\ UNCHANGED dirty
handleInsertSvg(b) == PreparedBake(b, "bake") /\ UNCHANGED dirty
handleAddAttachments(b) == PreparedBake(b, "bake") /\ UNCHANGED dirty
handleRemoveAttachment(b) == PreparedBake(b, "bake") /\ UNCHANGED dirty
handleReplaceImage(b) == PreparedBake(b, "reread") /\ UNCHANGED dirty
handleAddInk(b) == PreparedBake(b, "reread") /\ UNCHANGED dirty

\* tableEditBusy
NoTableBake == \A b \in Baked : job[b].kind # "table"

handleTableEditAction(b) == NoTableBake /\ PreparedBake(b, "table") /\ UNCHANGED dirty
handleTableStyleAction(b) == NoTableBake /\ PreparedBake(b, "table") /\ UNCHANGED dirty

\* The engine answers: the new binary replaces the current one and is saved at once.
adoptModifiedPdf(b) ==
    LET blob == job[b].base \cup {b}
    IN  /\ job[b].at = "engine"
        /\ file' = blob
        /\ made' = made \cup {b}
        /\ dirty' = TRUE /\ pending' = TRUE /\ timer' = FALSE
        /\ performSave([job EXCEPT ![b] = Idle], blob, operations)
        /\ Expose(BusyBut(b), {b})
        /\ UNCHANGED <<operations, mods, zoneVars, session, stored, awaiting,
                       flushVars, load, peerVars, offline, replay, faults>>

EngineFails(b) ==
    /\ job[b].at = "engine"
    /\ Fault
    /\ job' = [job EXCEPT ![b] = Idle]
    /\ exposed' = exposed \ {b}
    /\ UNCHANGED <<operations, mods, zoneVars, file, session, stored, saveVars, awaiting, flushVars, load, peerVars, netVars, made, skipped>>

-----------------------------------------------------------------------------
(* The content-edit layer hands its whole map to the page at every change.  *)

ZoneChange(z) ==
    /\ active
    /\ zone' = z /\ mods' = z
    /\ UNCHANGED <<active, operations, file, session, stored, saveVars, job, awaiting, flushVars, load, peerVars, netVars, faults, exposed, skipped>>

\* A confirmed text, annotation or field, a replaced image, a deleted zone.
pushModification(c) ==
    /\ c \notin made
    /\ made' = made \cup {c}
    /\ ZoneChange({o \in zone : o.element # ElementOf[c]}
                    \cup {NewOp("content", c, {c})})

\* Undo and restore.
removeModification(o) == o \in zone /\ ZoneChange(zone \ {o}) /\ UNCHANGED made

handleClearAll == ZoneChange({}) /\ UNCHANGED made

\* Leaving the mode empties the page's list and leaves the layer's map.
handleToggleContentEdit ==
    /\ active' = ~active
    /\ mods' = IF active THEN {} ELSE mods
    /\ UNCHANGED <<operations, zone, file, session, stored, saveVars, job, awaiting, flushVars, load, peerVars, netVars, faults, made, exposed,
                   skipped>>

-----------------------------------------------------------------------------
(* A collaborator stores a version.                                         *)

isActivelyEditing == dirty \/ job[Saver].at # "idle" \/ pending

handleDocumentBinaryUpdate ==
    /\ Fault
    /\ banner' = (banner \/ isActivelyEditing)
    /\ reloadTimer' = (reloadTimer \/ ~isActivelyEditing)
    /\ UNCHANGED <<operations, mods, zoneVars, file, session, stored, saveVars, job,
                   awaiting, flushVars, load, netVars, made, exposed, skipped>>

\* reload(): the document is loaded again, in a new session.
reload(discards) ==
    /\ load' = "open"
    /\ reloadTimer' = FALSE
    /\ Expose(discards \/ Busy, {})
    /\ UNCHANGED <<operations, mods, zoneVars, file, session, stored, saveVars, job,
                   awaiting, flushVars, netVars, faults, made, skipped>>

ReloadTimerFires ==
    /\ reloadTimer
    /\ \/ ~isActivelyEditing /\ reload(FALSE) /\ UNCHANGED banner
       \/ /\ isActivelyEditing
          /\ banner' = TRUE /\ reloadTimer' = FALSE
          /\ UNCHANGED <<operations, mods, zoneVars, file, session, stored, saveVars, job,
                         awaiting, flushVars, load, netVars, faults, made, exposed,
                         skipped>>

\* The user accepts the banner, and with it the loss of what is not saved.
performRemoteReload == banner /\ banner' = FALSE /\ reload(TRUE)

Loaded(f, s, next) ==
    /\ file' = f /\ session' = s /\ load' = next
    /\ UNCHANGED <<operations, mods, zoneVars, stored, saveVars, job, awaiting, flushVars,
                   peerVars, netVars, made, exposed, skipped>>

\* The new session is open; a flattened binary comes with the parsed pages.
loadDocument(flattened) ==
    /\ load = "open"
    /\ IF flattened THEN Loaded(stored, stored, "idle") ELSE Loaded(file, stored, "fetch")
    /\ UNCHANGED faults

loadPdfBinary == load = "fetch" /\ Loaded(session, session, "idle") /\ UNCHANGED faults

LoadFails == load # "idle" /\ Fault /\ Loaded(file, session, "idle")

-----------------------------------------------------------------------------
(* The connection.                                                          *)

NetChange ==
    UNCHANGED <<operations, mods, zoneVars, file, session, timer, job, awaiting,
                flushVars, load, peerVars, made, skipped>>

handleOffline ==
    /\ ~offline /\ Fault /\ offline' = TRUE
    /\ NetChange /\ UNCHANGED <<stored, dirty, pending, outbox, replay, exposed>>

\* Back online: what the queue holds is replayed.
handleOnline ==
    /\ offline /\ offline' = FALSE
    /\ replay' = IF outbox # {} /\ replay = "idle" THEN "empty" ELSE replay
    /\ Expose(outbox # {} /\ Busy, {})
    /\ NetChange /\ UNCHANGED <<stored, dirty, pending, outbox, faults>>

\* The session's bytes, not the working copy, become the new version.
replayOperation(s) ==
    /\ replay # "idle" /\ s \in outbox
    /\ stored' = s
    /\ outbox' = outbox \ {s}
    /\ replay' = "synced"
    /\ Expose(TRUE, {})
    /\ NetChange /\ UNCHANGED <<dirty, pending, offline, faults>>

\* The queue is empty, or a replay failed and is left for the next time.
flushOfflineQueueEnds ==
    /\ replay # "idle"
    /\ \/ outbox = {} /\ UNCHANGED faults
       \/ outbox # {} /\ Fault
    /\ replay' = "idle"
    /\ dirty' = (dirty /\ replay # "synced")
    /\ pending' = (pending /\ replay # "synced")
    /\ NetChange /\ UNCHANGED <<stored, offline, outbox, exposed>>

-----------------------------------------------------------------------------
EditElement(e) ==
    \/ handleElementAdded(e) \/ handleElementModified(e) \/ handleElementUpdate(e)
    \/ handleElementRemoved(e) \/ handleDelete(e) \/ handleElementReordered(e)

Bake(b) ==
    \/ runPageOperation(b) \/ handleMarginsCommit(b) \/ handleHeaderFooterApply(b)
    \/ handleHeaderFooterRemove(b) \/ handleToggleHeadersFooters(b) \/ scheduleHfBake(b)
    \/ handleRedactApply(b) \/ handleApplyOutline(b) \/ handleAddAnnotation(b)
    \/ handleApplyTextStyle(b) \/ handleRemoveAnnotation(b) \/ handleRedactPiiAuto(b)
    \/ handleWatermarkApplied(b) \/ handleCompressApplied(b) \/ handleOcrApplied(b)
    \/ handleSignApplied(b)
    \/ runOcgOperation(b) \/ bakeParagraphStyle(b) \/ handleInsertLink(b)
    \/ handleInsertSvg(b) \/ handleAddAttachments(b) \/ handleRemoveAttachment(b)
    \/ handleReplaceImage(b) \/ handleAddInk(b) \/ handleTableEditAction(b)
    \/ handleTableStyleAction(b)

ContentEdit ==
    \/ \E c \in Content : pushModification(c)
    \/ \E o \in zone : removeModification(o)
    \/ handleClearAll
    \/ handleToggleContentEdit

ApplyEnds(j) == ApplySucceeds(j) \/ ApplyFails(j)
EngineEnds(b) == adoptModifiedPdf(b) \/ EngineFails(b)
UploadEnds == UploadSucceeds \/ \E applied \in BOOLEAN : UploadFails(applied)
FlushEnds == \E ids \in SUBSET Element : FlushSucceeds(ids) \/ FlushFails(ids)
BackendEnds == \E e \in awaiting : BackendAnswers(e)
LoadEnds == (\E fl \in BOOLEAN : loadDocument(fl)) \/ loadPdfBinary \/ LoadFails
ReplayEnds == (\E s \in outbox : replayOperation(s)) \/ flushOfflineQueueEnds

Next ==
    \/ \E e \in Queued : EditElement(e)
    \/ \E b \in Baked : Bake(b) \/ EngineEnds(b)
    \/ \E j \in Job : ApplyEnds(j)
    \/ ContentEdit
    \/ UserSaves \/ handleConfirmRename \/ DebounceFires \/ AutoSave
    \/ UploadEnds \/ FlushEnds \/ BackendEnds \/ LoadEnds
    \/ handleDocumentBinaryUpdate \/ ReloadTimerFires \/ performRemoteReload
    \/ handleOffline \/ handleOnline \/ ReplayEnds

Spec == Init /\ [][Next]_vars

\* Requests are answered (fetch settles), timers fire, the connection comes back.
Fairness ==
    /\ \A j \in Job : WF_vars(ApplyEnds(j))
    /\ \A b \in Baked : WF_vars(EngineEnds(b))
    /\ WF_vars(UploadEnds) /\ WF_vars(BackendEnds) /\ WF_vars(LoadEnds)
    /\ WF_vars(DebounceFires) /\ WF_vars(AutoSave) /\ WF_vars(ReloadTimerFires)
    /\ WF_vars(handleOnline) /\ WF_vars(ReplayEnds)

FairSpec == Spec /\ Fairness

-----------------------------------------------------------------------------
(* Properties.                                                              *)

\* An operation is never applied to a binary that already has it: what the store
\* holds is in no binary, and what an apply-elements call in flight took is not in
\* the binary it took, however saves, bakes and reloads overlap.
NoDoubleBake ==
    /\ file # NoFile => EditsOf(operations) \cap file = {}
    /\ \A j \in Job : job[j].at = "apply" =>
          EditsOf({o \in job[j].taken : o.action # "content"}) \cap job[j].base = {}

Work == (Queued \cup Baked) \cap made

\* Whatever else fails, an edit is in the store, in the working binary or in the latest
\* version, unless it was unsaved while two operations overlapped or a save went ahead
\* without it.
SequentialEditsSurvive ==
    \A e \in Work \ (exposed \cup skipped) :
        e \in EditsOf(operations) \cup stored \/ (file # NoFile /\ e \in file)

Quiet ==
    /\ ~dirty /\ ~pending /\ ~timer /\ awaiting = {} /\ ~Busy

\* A document the page shows as saved, with nothing scheduled, is saved: every edit is
\* in the latest version, unless operations overlapped or a save went ahead without it.
QuietMeansSaved == Quiet => Work \subseteq stored \cup exposed \cup skipped

\* A new version keeps the edits of the version before it, unless operations
\* overlapped or a queued save was replayed.
VersionsKeepEdits == [][stored \ stored' \subseteq exposed']_vars

\* An edit reaches a stored version, unless operations overlapped or a save went ahead
\* without it.
EditsGetStored ==
    \A e \in Queued \cup Baked : (e \in made) ~> (e \in stored \cup exposed \cup skipped)

\* page.tsx: "Anything queued AFTER our peek stays for the next save tick."
LateOperationsStay ==
    [][\A j \in Job : job[j].at = "apply" /\ job'[j].at # "apply" =>
          operations \ job[j].taken \subseteq operations']_vars

=============================================================================
