------------------------- MODULE EditorDocumentProofs -------------------------
(***************************************************************************)
(* Proofs about EditorDocument, for any number of edits, bakes, elements   *)
(* and failures.                                                           *)
(***************************************************************************)
EXTENDS EditorDocument, TLAPS

JobState == [at : {"idle", "apply", "engine", "upload"},
             kind : {"none", "save", "bake", "reread", "table"},
             base : SUBSET Edit, taken : SUBSET Op]

Kind == {"save", "bake", "reread", "table"}

USE DEF flushVars

-----------------------------------------------------------------------------
(***************************************************************************)
(* Operations and the edits they carry.                                    *)
(***************************************************************************)

LEMMA EditsEmpty == EditsOf({}) = {}
  BY DEF EditsOf

LEMMA EditsUnion ==
    ASSUME NEW A, NEW B
    PROVE  EditsOf(A \cup B) = EditsOf(A) \cup EditsOf(B)
  BY DEF EditsOf

LEMMA EditsUnions ==
    \A A, B, C : EditsOf(A \cup B \cup C) = EditsOf(A) \cup EditsOf(B) \cup EditsOf(C)
  <1>. SUFFICES ASSUME NEW A, NEW B, NEW C
                PROVE  EditsOf(A \cup B \cup C) = EditsOf(A) \cup EditsOf(B) \cup EditsOf(C)
    OBVIOUS
  <1>. DEFINE D == A \cup B
  <1>1. EditsOf(D \cup C) = EditsOf(D) \cup EditsOf(C)
    <2>. HIDE DEF D
    <2>. QED  BY EditsUnion
  <1>2. EditsOf(D) = EditsOf(A) \cup EditsOf(B)
    BY EditsUnion
  <1>. HIDE DEF D
  <1>3. EditsOf(D \cup C) = EditsOf(A) \cup EditsOf(B) \cup EditsOf(C)
    BY <1>1, <1>2
  <1>. QED  BY <1>3 DEF D

LEMMA EditsMonotone ==
    ASSUME NEW A, NEW B, A \subseteq B
    PROVE  EditsOf(A) \subseteq EditsOf(B)
  BY DEF EditsOf

LEMMA EditsTyped ==
    ASSUME NEW A \in SUBSET Op
    PROVE  EditsOf(A) \subseteq Edit
  BY DEF EditsOf, Op

LEMMA EditsNewOp ==
    ASSUME NEW action, NEW e, NEW edits
    PROVE  /\ NewOp(action, e, edits).action = action
           /\ NewOp(action, e, edits).edits = edits
           /\ NewOp(action, e, edits).element = ElementOf[e]
           /\ EditsOf({NewOp(action, e, edits)}) = edits
  BY DEF NewOp, EditsOf

LEMMA NewOpTyped ==
    ASSUME NEW action \in {"add", "update", "delete", "reorder", "content"},
           NEW e \in Queued \cup Content, NEW edits \in SUBSET Edit
    PROVE  NewOp(action, e, edits) \in Op
  BY EditAssumption DEF NewOp, Op

\* A queued edit, coalesced or not, adds itself to what the store carries.
Queues(e, ops) ==
    /\ ops \in SUBSET Op
    /\ EditsOf(ops) = EditsOf(operations) \cup {e}
    /\ (\A o \in operations : o.action # "content") => \A o \in ops : o.action # "content"

LEMMA AppendQueues ==
    ASSUME operations \in SUBSET Op, NEW e \in Queued,
           NEW action \in {"add", "delete"}
    PROVE  Queues(e, operations \cup {NewOp(action, e, {e})})
  <1>. DEFINE new == NewOp(action, e, {e})
  <1>1. new \in Op
    BY NewOpTyped DEF Edit
  <1>2. new.action # "content" /\ EditsOf({new}) = {e}
    BY EditsNewOp
  <1>. HIDE DEF new
  <1>3. EditsOf(operations \cup {new}) = EditsOf(operations) \cup {e}
    BY <1>2, EditsUnion
  <1>4. Queues(e, operations \cup {new})
    BY <1>1, <1>2, <1>3 DEF Queues
  <1>. QED  BY <1>4 DEF new

LEMMA CoalesceQueues ==
    ASSUME operations \in SUBSET Op, NEW e \in Queued,
           NEW action \in {"update", "reorder"}
    PROVE  Queues(e, Coalesce(action, e))
  <1>. DEFINE same == {o \in operations : o.action = action /\ o.element = ElementOf[e]}
              all == {e} \cup EditsOf(same)
              new == NewOp(action, e, all)
  <1>0. same \in SUBSET Op
    OBVIOUS
  <1>1. new \in Op
    <2>1. all \in SUBSET Edit
      BY <1>0, EditsTyped DEF Edit
    <2>. HIDE DEF all
    <2>. QED  BY <2>1, NewOpTyped
  <1>2. Coalesce(action, e) = (operations \ same) \cup {new}
    BY DEF Coalesce
  <1>3. EditsOf(operations) = EditsOf(operations \ same) \cup EditsOf(same)
    <2>1. operations = (operations \ same) \cup same
      OBVIOUS
    <2>. QED  BY <2>1, EditsUnion
  <1>4. EditsOf({new}) = all /\ new.action # "content"
    <2>. HIDE DEF all
    <2>. QED  BY EditsNewOp
  <1>. HIDE DEF new
  <1>5. EditsOf((operations \ same) \cup {new}) = EditsOf(operations \ same) \cup EditsOf({new})
    BY EditsUnion
  <1>. QED  BY <1>1, <1>2, <1>3, <1>4, <1>5 DEF Queues

-----------------------------------------------------------------------------
(***************************************************************************)
(* Binaries on their way.                                                  *)
(***************************************************************************)

LEMMA BlobFields ==
    ASSUME NEW kind, NEW blob
    PROVE  /\ WithBlob(kind, blob).at = IF kind = "save" THEN "upload" ELSE "engine"
           /\ WithBlob(kind, blob).kind = IF kind = "reread" THEN "bake" ELSE kind
           /\ WithBlob(kind, blob).base = blob
           /\ WithBlob(kind, blob).taken = {}
  BY DEF WithBlob

LEMMA BlobTyped ==
    ASSUME NEW kind \in Kind, NEW blob \in SUBSET Edit
    PROVE  WithBlob(kind, blob) \in JobState
  BY DEF WithBlob, JobState, Kind

\* What getPreparedBlob leaves in a job's slot.
Prepared(q, kind, f, ops) ==
    /\ q.base = f
    /\ \/ ops \cup mods = {} /\ q = WithBlob(kind, f)
       \/ q.at = "apply" /\ q.kind = kind /\ q.taken = ops \cup mods

LEMMA PreparedFields ==
    ASSUME NEW kind, NEW f, NEW ops
    PROVE  Prepared(getPreparedBlob(kind, f, ops), kind, f, ops)
  BY BlobFields DEF getPreparedBlob, Prepared

LEMMA PreparedTyped ==
    ASSUME NEW kind \in Kind, NEW f \in SUBSET Edit, NEW ops \in SUBSET Op,
           mods \in SUBSET Op
    PROVE  getPreparedBlob(kind, f, ops) \in JobState
  BY BlobTyped DEF getPreparedBlob, JobState, Kind

LEMMA IdleFields ==
    Idle \in JobState /\ Idle.at = "idle" /\ Idle.base = {} /\ Idle.taken = {}
      /\ Idle.kind = "none"
  BY DEF Idle, JobState

\* A save that starts takes the working binary with the store, or without a working
\* binary what the session holds; else nothing but the offline queue changes.
SaveStep(f, ops) ==
    /\ outbox' = outbox \/ outbox' = outbox \cup {session}
    /\ \/ ~Starts /\ job'[Saver] = job[Saver] /\ skipped' = skipped
       \/ /\ Starts /\ f = NoFile
          /\ job'[Saver] = WithBlob("save", session)
          /\ skipped' = skipped \cup EditsOf(ops)
       \/ /\ Starts /\ f # NoFile
          /\ Prepared(job'[Saver], "save", f, ops)
          /\ skipped' = skipped

LEMMA SaveSteps ==
    ASSUME NEW j \in [Job -> JobState], j[Saver] = job[Saver], NEW f, NEW ops,
           performSave(j, f, ops)
    PROVE  /\ SaveStep(f, ops)
           /\ \A i \in Job \ {Saver} : job'[i] = j[i]
  <1>0. Saver \in Job
    BY DEF Job
  <1>1. /\ job'[Saver] = SaverAfter(f, ops)
        /\ \A i \in Job \ {Saver} : job'[i] = j[i]
    BY <1>0 DEF performSave
  <1>2. outbox' = outbox \/ outbox' = outbox \cup {session}
    BY DEF performSave
  <1>3. CASE ~Starts
    <2>1. SaverAfter(f, ops) = job[Saver]
      BY <1>3 DEF SaverAfter
    <2>. QED  BY <1>1, <1>2, <1>3, <2>1 DEF SaveStep, performSave
  <1>4. CASE Starts /\ f = NoFile
    <2>1. SaverAfter(f, ops) = WithBlob("save", session)
      BY <1>4 DEF SaverAfter
    <2>. QED  BY <1>1, <1>2, <1>4, <2>1 DEF SaveStep, performSave
  <1>5. CASE Starts /\ f # NoFile
    <2>1. SaverAfter(f, ops) = getPreparedBlob("save", f, ops)
      BY <1>5 DEF SaverAfter
    <2>. QED  BY <1>1, <1>2, <1>5, <2>1, PreparedFields DEF SaveStep, performSave
  <1>. QED  BY <1>3, <1>4, <1>5

LEMMA SaveTyped ==
    ASSUME NEW j \in [Job -> JobState], job \in [Job -> JobState],
           NEW f, f = NoFile \/ f \in SUBSET Edit, NEW ops \in SUBSET Op,
           mods \in SUBSET Op, session \in SUBSET Edit, outbox \in SUBSET SUBSET Edit,
           skipped \in SUBSET Edit, performSave(j, f, ops)
    PROVE  /\ job' \in [Job -> JobState]
           /\ outbox' \in SUBSET SUBSET Edit
           /\ skipped' \in SUBSET Edit
  <1>1. SaverAfter(f, ops) \in JobState
    <2>1. CASE ~Starts
      BY <2>1 DEF SaverAfter, Job
    <2>2. CASE Starts /\ f = NoFile
      <3>1. SaverAfter(f, ops) = WithBlob("save", session)
        BY <2>2 DEF SaverAfter
      <3>. QED  BY <3>1, BlobTyped DEF Kind
    <2>3. CASE Starts /\ f # NoFile
      <3>1. SaverAfter(f, ops) = getPreparedBlob("save", f, ops)
        BY <2>3 DEF SaverAfter
      <3>. QED  BY <2>3, <3>1, PreparedTyped DEF Kind
    <2>. QED  BY <2>1, <2>2, <2>3
  <1>. QED  BY <1>1, EditsTyped DEF performSave

-----------------------------------------------------------------------------
(***************************************************************************)
(* The handlers by what they do: an edit of an element, with or without a  *)
(* save, and a bake.                                                       *)
(***************************************************************************)

EditMove(e, ops) ==
    /\ e \notin made
    /\ Queues(e, ops)
    /\ operations' = ops
    /\ made' = made \cup {e}
    /\ dirty' = TRUE
    /\ Expose(Busy, {e})
    /\ awaiting' \in {awaiting, awaiting \cup {e}}
    /\ pending' \in {pending, TRUE} /\ timer' \in {timer, TRUE, FALSE}
    /\ UNCHANGED <<mods, zoneVars, file, session, stored, flushVars, load, peerVars,
                   offline, replay, faults>>
    /\ \/ UNCHANGED <<job, outbox, skipped>>
       \/ performSave(job, file, ops)

LEMMA EditMoves ==
    ASSUME operations \in SUBSET Op, NEW e \in Queued, EditElement(e)
    PROVE  \E ops : EditMove(e, ops)
  <1>1. Queues(e, queueAdd(e)) /\ Queues(e, queueDelete(e))
    BY AppendQueues DEF queueAdd, queueDelete
  <1>2. Queues(e, queueUpdate(e)) /\ Queues(e, queueReorder(e))
    BY CoalesceQueues DEF queueUpdate, queueReorder
  <1>3. CASE handleElementAdded(e)
    <2>1. EditMove(e, queueAdd(e))
      BY <1>1, <1>3 DEF handleElementAdded, EditMove, Edited, Tell
    <2>. QED  BY <2>1
  <1>4. CASE handleElementModified(e)
    <2>1. EditMove(e, queueUpdate(e))
      BY <1>2, <1>4 DEF handleElementModified, EditMove, Edited, Tell
    <2>. QED  BY <2>1
  <1>5. CASE handleElementRemoved(e)
    <2>1. EditMove(e, queueDelete(e))
      BY <1>1, <1>5 DEF handleElementRemoved, EditMove, Edited, Tell
    <2>. QED  BY <2>1
  <1>6. CASE handleDelete(e)
    <2>1. EditMove(e, queueDelete(e))
      BY <1>1, <1>6 DEF handleDelete, EditMove, Edited, Tell
    <2>. QED  BY <2>1
  <1>7. CASE handleElementReordered(e)
    <2>1. EditMove(e, queueReorder(e))
      BY <1>2, <1>7 DEF handleElementReordered, EditMove, Edited, Debounce
    <2>. QED  BY <2>1
  <1>. QED  BY <1>3, <1>4, <1>5, <1>6, <1>7 DEF EditElement, handleElementUpdate

\* The slot of a bake that starts.
BakeSlot(q) ==
    \/ q = WithBlob("bake", file)
    \/ \E kind \in {"bake", "reread", "table"} :
           /\ Prepared(q, kind, file, operations)
           /\ q = getPreparedBlob(kind, file, operations)

LEMMA BakeMoves ==
    ASSUME NEW b \in Baked, Bake(b)
    PROVE  /\ \E q : StartBake(b, q) /\ BakeSlot(q)
           /\ dirty' \in {dirty, TRUE}
  <1>1. CASE DirectBake(b)
    BY <1>1 DEF DirectBake, BakeSlot
  <1>2. ASSUME NEW kind \in {"bake", "reread", "table"}, PreparedBake(b, kind),
               dirty' = TRUE \/ UNCHANGED dirty
        PROVE  /\ \E q : StartBake(b, q) /\ BakeSlot(q)
               /\ dirty' \in {dirty, TRUE}
    <2>1. BakeSlot(getPreparedBlob(kind, file, operations))
      BY PreparedFields DEF BakeSlot
    <2>. QED  BY <1>2, <2>1 DEF PreparedBake
  <1>. QED
    BY <1>1, <1>2
    DEF Bake, runPageOperation, handleMarginsCommit, handleHeaderFooterApply,
        handleHeaderFooterRemove, handleToggleHeadersFooters, scheduleHfBake,
        handleRedactApply, handleApplyOutline, handleAddAnnotation, handleApplyTextStyle,
        handleRemoveAnnotation, handleRedactPiiAuto, handleWatermarkApplied,
        handleCompressApplied, handleOcrApplied, handleSignApplied, runOcgOperation,
        bakeParagraphStyle, handleInsertLink, handleInsertSvg, handleAddAttachments,
        handleRemoveAttachment, handleReplaceImage, handleAddInk, handleTableEditAction,
        handleTableStyleAction

\* save() by any of its callers.
SaveMove ==
    /\ save
    /\ dirty' \in {dirty, TRUE} /\ pending' \in {pending, TRUE}

LEMMA SaveMoves ==
    ASSUME UserSaves \/ handleConfirmRename \/ DebounceFires \/ AutoSave
    PROVE  SaveMove
  BY DEF UserSaves, handleConfirmRename, DebounceFires, AutoSave, SaveMove

\* A change of the content-edit layer or of its mode.
ContentMove ==
    /\ \/ made' = made
       \/ \E c \in Content : /\ c \notin made /\ made' = made \cup {c}
                             /\ EditsOf(zone' \cup mods') \subseteq EditsOf(zone \cup mods) \cup {c}
    /\ made' = made => EditsOf(zone' \cup mods') \subseteq EditsOf(zone \cup mods)
    /\ zone' \in SUBSET Op /\ mods' \in SUBSET Op /\ active' \in BOOLEAN
    /\ (\A o \in zone \cup mods : o.action = "content")
           => \A o \in zone' \cup mods' : o.action = "content"
    /\ UNCHANGED <<operations, file, session, stored, saveVars, job, awaiting, flushVars,
                   load, peerVars, netVars, faults, exposed, skipped>>

LEMMA ContentMoves ==
    ASSUME zone \in SUBSET Op, mods \in SUBSET Op, active \in BOOLEAN, ContentEdit
    PROVE  ContentMove
  <1>1. ASSUME NEW c \in Content, pushModification(c) PROVE ContentMove
    <2>. DEFINE new == NewOp("content", c, {c})
                kept == {o \in zone : o.element # ElementOf[c]}
    <2>1. new \in Op /\ new.action = "content" /\ EditsOf({new}) = {c}
      <3>1. {c} \in SUBSET Edit
        BY DEF Edit
      <3>2. new \in Op
        BY <3>1, NewOpTyped
      <3>. QED  BY <3>2, EditsNewOp
    <2>2. zone' = kept \cup {new} /\ mods' = kept \cup {new} /\ active' = active
      BY <1>1 DEF pushModification, ZoneChange
    <2>3. c \notin made /\ made' = made \cup {c}
      BY <1>1 DEF pushModification
    <2>. HIDE DEF new
    <2>4. EditsOf(kept \cup {new}) \subseteq EditsOf(zone \cup mods) \cup {c}
      <3>1. EditsOf(kept) \subseteq EditsOf(zone \cup mods)
        BY EditsMonotone
      <3>2. EditsOf(kept \cup {new}) = EditsOf(kept) \cup EditsOf({new})
        BY EditsUnion
      <3>. QED  BY <2>1, <3>1, <3>2
    <2>. QED
      BY <1>1, <2>1, <2>2, <2>3, <2>4 DEF ContentMove, pushModification, ZoneChange
  <1>2. ASSUME NEW z, z \subseteq zone, ZoneChange(z), UNCHANGED made PROVE ContentMove
    <2>1. EditsOf(z \cup z) \subseteq EditsOf(zone \cup mods)
      BY <1>2, EditsMonotone
    <2>. QED  BY <1>2, <2>1 DEF ContentMove, ZoneChange
  <1>3. CASE handleToggleContentEdit
    <2>1. zone' \cup mods' \subseteq zone \cup mods
      BY <1>3 DEF handleToggleContentEdit
    <2>2. EditsOf(zone' \cup mods') \subseteq EditsOf(zone \cup mods)
      BY <2>1, EditsMonotone
    <2>. QED  BY <1>3, <2>1, <2>2 DEF ContentMove, handleToggleContentEdit
  <1>4. ASSUME NEW o \in zone, removeModification(o) PROVE ContentMove
    <2>1. ZoneChange(zone \ {o}) /\ UNCHANGED made
      BY <1>4 DEF removeModification
    <2>. QED  BY <1>2, <2>1
  <1>5. CASE handleClearAll
    <2>1. ZoneChange({}) /\ UNCHANGED made
      BY <1>5 DEF handleClearAll
    <2>. QED  BY <1>2, <2>1
  <1>. QED  BY <1>1, <1>3, <1>4, <1>5 DEF ContentEdit

-----------------------------------------------------------------------------
(***************************************************************************)
(* The inductive invariant, in parts.                                      *)
(***************************************************************************)

\* A bake or a save in flight.
InFlight(j) == job[j].at # "idle"

\* The working binary, or what a save uploads before it has arrived.
Working == IF file = NoFile THEN session ELSE file

\* The binaries that are somewhere, and the edits that are on their way to one.
Held == Working \cup session \cup stored \cup (UNION outbox)
          \cup (UNION {job[j].base : j \in Job})

Cargo == UNION {EditsOf(job[j].taken) : j \in Job}

\* Two operations are in flight.
Overlapping ==
    \/ \E j \in Job : InFlight(j) /\ BusyBut(j)
    \/ load # "idle" /\ replay # "idle"

\* The edits that must be found somewhere.
Owed == Work \ (exposed \cup skipped)

\* A job in flight is what its slot says, and a bake of the working binary has one.
JobsShaped ==
    \A j \in Job :
        /\ InFlight(j) => (job[j].kind = "save" <=> j = Saver)
        /\ job[j].at = "upload" => j = Saver
        /\ job[j].kind = "reread" => file # NoFile
        /\ ~InFlight(j) => job[j].base = {} /\ job[j].taken = {}

\* The layer's modifications alone are of the content kind.
OpsSorted ==
    /\ \A o \in operations : o.action # "content"
    /\ \A o \in zone \cup mods : o.action = "content"

\* Whatever is queued or baked somewhere has been made by the user; the edit of a bake
\* in flight has not.
OnlyMade ==
    /\ EditsOf(operations \cup zone \cup mods) \subseteq made
    /\ Held \cup Cargo \subseteq made
    /\ \A b \in Baked : InFlight(b) => b \notin made

\* What the store holds is in no binary, and what an apply-elements call in flight
\* took of it is not in the binary that it took.
QueuedNowhere ==
    /\ EditsOf(operations) \cap Held = {}
    /\ \A j \in Job : job[j].at = "apply" =>
          EditsOf({o \in job[j].taken : o.action # "content"}) \cap job[j].base = {}

\* Whatever exists while two operations overlap is exposed.
Covered == Work \cup Held \cup Cargo \subseteq exposed

\* What is stored is in the binary that may be stored next, and each edit is where
\* whoever replaces the store, the working binary or the stored version finds it.
Kept ==
    /\ stored \subseteq Working \cup exposed
    /\ Owed \subseteq EditsOf(operations) \cup (IF file = NoFile THEN {} ELSE file)
    /\ load = "open" => Owed \subseteq stored
    /\ load = "fetch" => stored \subseteq session \cup exposed /\ Owed \subseteq session
    /\ replay = "synced" => Owed = {}
    /\ ~dirty => Owed \subseteq stored

SafeSlot(j) ==
    /\ InFlight(j) => /\ stored \subseteq job[j].base \cup exposed
                      /\ job[j].base \subseteq Working \cup exposed
    /\ job[j].at = "apply" => Owed \subseteq job[j].base \cup EditsOf(job[j].taken)
    /\ job[j].at \in {"apply", "engine"} => Owed \subseteq job[j].base \cup EditsOf(operations)
    /\ job[j].at = "upload" => Owed \subseteq job[j].base

\* While one operation at most is in flight nothing is lost, and while several are,
\* whatever could be is exposed.
Calm == ~Overlapping /\ Kept /\ \A j \in Job : SafeSlot(j)

Safe == Covered \/ Calm

-----------------------------------------------------------------------------
(***************************************************************************)
(* Types.                                                                  *)
(***************************************************************************)

\* The working binary that a bake reads again is there.
Rereads == \A j \in Job : job[j].kind = "reread" => file # NoFile

LEMMA JobTyped == TypeOK <=> TypeOK /\ job \in [Job -> JobState]
  BY DEF TypeOK, JobState

\* A slot that changes to a good state keeps all the slots good.
LEMMA SlotTyped ==
    ASSUME job \in [Job -> JobState], NEW j \in Job, NEW q \in JobState,
           job' = [job EXCEPT ![j] = q]
    PROVE  job' \in [Job -> JobState]
  OBVIOUS

LEMMA InitTypes == Init => TypeOK /\ JobsShaped /\ OpsSorted
  <1>. SUFFICES ASSUME Init PROVE TypeOK /\ JobsShaped /\ OpsSorted
    OBVIOUS
  <1>1. job \in [Job -> JobState]
    BY IdleFields DEF Init
  <1>2. TypeOK
    <2>1. 0 \in 0..MaxFaults
      BY EditAssumption
    <2>2. file = NoFile \/ file \in SUBSET Edit
      BY DEF Init
    <2>. QED  BY <1>1, <2>1, <2>2 DEF Init, TypeOK, JobState
  <1>3. JobsShaped
    BY IdleFields DEF Init, JobsShaped, InFlight
  <1>. QED  BY <1>2, <1>3 DEF Init, OpsSorted

LEMMA EditTypes ==
    ASSUME TypeOK, NEW e \in Queued, NEW ops, EditMove(e, ops)
    PROVE  TypeOK'
  <1>0. job \in [Job -> JobState]
    BY JobTyped
  <1>1. operations' \in SUBSET Op /\ e \in Edit
    BY DEF EditMove, Queues, Edit
  <1>2. /\ job' \in [Job -> JobState] /\ outbox' \in SUBSET SUBSET Edit
        /\ skipped' \in SUBSET Edit
    <2>1. CASE performSave(job, file, ops)
      BY <1>0, <1>1, <2>1, SaveTyped DEF TypeOK, EditMove
    <2>. QED  BY <1>0, <2>1 DEF EditMove, TypeOK
  <1>3. exposed' \in SUBSET Edit
    BY <1>1 DEF EditMove, Expose, TypeOK
  <1>4. made' \in SUBSET Edit /\ awaiting' \in SUBSET Queued
    BY <1>1 DEF EditMove, TypeOK
  <1>5. dirty' \in BOOLEAN /\ pending' \in BOOLEAN /\ timer' \in BOOLEAN
    BY DEF EditMove, TypeOK
  <1>. QED
    BY <1>1, <1>2, <1>3, <1>4, <1>5
    DEF EditMove, TypeOK, JobState, zoneVars, peerVars

LEMMA SaveTypes ==
    ASSUME TypeOK, SaveMove
    PROVE  TypeOK'
  <1>0. job \in [Job -> JobState]
    BY JobTyped
  <1>1. /\ job' \in [Job -> JobState] /\ outbox' \in SUBSET SUBSET Edit
        /\ skipped' \in SUBSET Edit
    BY <1>0, SaveTyped DEF TypeOK, SaveMove, save
  <1>2. exposed' \in SUBSET Edit
    BY DEF SaveMove, save, Expose, TypeOK
  <1>3. dirty' \in BOOLEAN /\ pending' \in BOOLEAN /\ timer' \in BOOLEAN
    BY DEF SaveMove, save, TypeOK
  <1>. QED
    BY <1>1, <1>2, <1>3 DEF SaveMove, save, TypeOK, JobState, zoneVars, peerVars

LEMMA BakeTypes ==
    ASSUME TypeOK, NEW b \in Baked, NEW q, StartBake(b, q), BakeSlot(q),
           dirty' \in {dirty, TRUE}
    PROVE  TypeOK'
  <1>0. job \in [Job -> JobState] /\ b \in Job /\ b \in Edit
    BY JobTyped DEF Job, Edit
  <1>1. file \in SUBSET Edit
    BY DEF TypeOK, StartBake
  <1>2. q \in JobState
    BY <1>1, BlobTyped, PreparedTyped DEF BakeSlot, Kind, TypeOK
  <1>3. job' \in [Job -> JobState]
    BY <1>0, <1>2 DEF StartBake
  <1>4. exposed' \in SUBSET Edit
    BY <1>0 DEF StartBake, Expose, TypeOK
  <1>5. dirty' \in BOOLEAN
    BY DEF TypeOK
  <1>. QED
    BY <1>3, <1>4, <1>5 DEF StartBake, TypeOK, JobState, zoneVars, peerVars, netVars

LEMMA AdoptTypes ==
    ASSUME TypeOK, NEW b \in Baked, adoptModifiedPdf(b)
    PROVE  TypeOK'
  <1>. DEFINE blob == job[b].base \cup {b}
  <1>0. job \in [Job -> JobState] /\ b \in Job /\ b \in Edit
    BY JobTyped DEF Job, Edit
  <1>1. blob \in SUBSET Edit
    BY <1>0 DEF JobState
  <1>2. [job EXCEPT ![b] = Idle] \in [Job -> JobState]
    BY <1>0, IdleFields
  <1>3. performSave([job EXCEPT ![b] = Idle], blob, operations) /\ file' = blob
    BY DEF adoptModifiedPdf
  <1>. HIDE DEF blob
  <1>4. /\ job' \in [Job -> JobState] /\ outbox' \in SUBSET SUBSET Edit
        /\ skipped' \in SUBSET Edit
    BY <1>0, <1>1, <1>2, <1>3, SaveTyped DEF TypeOK
  <1>5. exposed' \in SUBSET Edit /\ made' \in SUBSET Edit
    BY <1>0 DEF adoptModifiedPdf, Expose, TypeOK
  <1>6. dirty' \in BOOLEAN /\ pending' \in BOOLEAN /\ timer' \in BOOLEAN
    BY DEF adoptModifiedPdf
  <1>. QED
    BY <1>1, <1>3, <1>4, <1>5, <1>6
    DEF adoptModifiedPdf, TypeOK, JobState, zoneVars, peerVars

LEMMA EngineFailsTypes ==
    ASSUME TypeOK, NEW b \in Baked, EngineFails(b)
    PROVE  TypeOK'
  <1>0. job \in [Job -> JobState] /\ b \in Job
    BY JobTyped DEF Job
  <1>1. job' \in [Job -> JobState]
    BY <1>0, IdleFields DEF EngineFails
  <1>2. faults' \in 0..MaxFaults
    BY EditAssumption DEF EngineFails, Fault, TypeOK
  <1>. QED
    BY <1>1, <1>2
    DEF EngineFails, TypeOK, JobState, zoneVars, saveVars, peerVars, netVars

LEMMA ApplyTypes ==
    ASSUME TypeOK, Rereads, NEW j \in Job, ApplyEnds(j)
    PROVE  TypeOK'
  <1>0. job \in [Job -> JobState] /\ job[j] \in JobState
    BY JobTyped
  <1>1. CASE ApplySucceeds(j)
    <2>. DEFINE blob == job[j].base \cup EditsOf(job[j].taken)
                ids == {o.element : o \in {p \in job[j].taken : p.action # "content"}}
    <2>0. job[j].taken \in SUBSET Op /\ job[j].base \in SUBSET Edit
          /\ job[j].at = "apply" /\ job[j].kind \in {"none"} \cup Kind
      BY <1>0, <1>1 DEF JobState, ApplySucceeds, Kind
    <2>1. blob \in SUBSET Edit
      BY <2>0, EditsTyped
    <2>2. ids \in SUBSET Element
      BY <2>0 DEF Op
    <2>3. /\ operations' = {} /\ mods' = {} /\ file' = blob
          /\ flushIds' = flushIds \cup ids
          /\ job' = [job EXCEPT ![j] = WithBlob(job[j].kind, blob)]
      BY <1>0, <1>1 DEF ApplySucceeds, drain
    <2>. HIDE DEF blob, ids
    <2>4. WithBlob(job[j].kind, blob) \in JobState
      BY <2>0, <2>1 DEF WithBlob, JobState, Kind
    <2>5. job' \in [Job -> JobState]
      BY <1>0, <2>3, <2>4
    <2>. QED
      BY <1>1, <2>1, <2>2, <2>3, <2>5
      DEF ApplySucceeds, TypeOK, JobState, zoneVars, saveVars, peerVars, netVars
  <1>2. CASE ApplyFails(j)
    <2>. DEFINE blob == IF job[j].kind = "reread" THEN file ELSE job[j].base
    <2>0. job[j].base \in SUBSET Edit /\ job[j].kind \in {"none"} \cup Kind
      BY <1>0 DEF JobState, Kind
    <2>1. blob \in SUBSET Edit
      BY <2>0 DEF Rereads, TypeOK
    <2>2. job' = [job EXCEPT ![j] = WithBlob(job[j].kind, blob)]
      BY <1>0, <1>2 DEF ApplyFails
    <2>. HIDE DEF blob
    <2>3. WithBlob(job[j].kind, blob) \in JobState
      BY <2>0, <2>1 DEF WithBlob, JobState, Kind
    <2>4. job' \in [Job -> JobState]
      BY <1>0, <2>2, <2>3
    <2>5. faults' \in 0..MaxFaults
      BY <1>2, EditAssumption DEF ApplyFails, Fault, TypeOK
    <2>6. skipped' \in SUBSET Edit /\ operations' = operations
      BY <1>2, EditsTyped DEF ApplyFails, KeptOnFailure, TypeOK
    <2>. QED
      BY <1>2, <2>4, <2>5, <2>6
      DEF ApplyFails, TypeOK, JobState, zoneVars, saveVars, peerVars, netVars
  <1>. QED  BY <1>1, <1>2 DEF ApplyEnds

LEMMA UploadTypes ==
    ASSUME TypeOK, UploadEnds
    PROVE  TypeOK'
  <1>0. job \in [Job -> JobState] /\ Saver \in Job
    BY JobTyped DEF Job
  <1>1. job[Saver].base \in SUBSET Edit
    BY <1>0 DEF JobState
  <1>2. [job EXCEPT ![Saver] = Idle] \in [Job -> JobState]
    BY <1>0, IdleFields
  <1>3. Fault => faults' \in 0..MaxFaults
    BY EditAssumption DEF Fault, TypeOK
  <1>4. CASE UploadSucceeds
    <2>1. flushIds' \in SUBSET Element /\ flushing' \in [SUBSET Element -> Nat]
      BY <1>4 DEF UploadSucceeds, SendFlush, TypeOK
    <2>. QED
      BY <1>1, <1>2, <1>4, <2>1
      DEF UploadSucceeds, TypeOK, JobState, zoneVars, peerVars, netVars
  <1>5. ASSUME NEW x \in BOOLEAN, UploadFails(x) PROVE TypeOK'
    <2>1. stored' \in SUBSET Edit /\ outbox' \in SUBSET SUBSET Edit
      BY <1>1, <1>5 DEF UploadFails, TypeOK
    <2>. QED
      BY <1>2, <1>3, <1>5, <2>1
      DEF UploadFails, TypeOK, JobState, zoneVars, saveVars, peerVars
  <1>. QED  BY <1>4, <1>5 DEF UploadEnds

\* The answer to the removal of a batch of elements concerns only the batches.
LEMMA FlushQuiet ==
    ASSUME FlushEnds
    PROVE  UNCHANGED <<operations, mods, zoneVars, file, session, stored, saveVars, job,
                       awaiting, load, peerVars, netVars, made, exposed, skipped>>
  BY DEF FlushEnds, FlushSucceeds, FlushFails

\* The steps that belong to no job.
LEMMA OtherTypes ==
    ASSUME TypeOK,
           \/ BackendEnds \/ FlushEnds \/ LoadEnds \/ handleDocumentBinaryUpdate
           \/ ReloadTimerFires \/ performRemoteReload \/ handleOffline
           \/ handleOnline \/ ReplayEnds \/ UNCHANGED vars
    PROVE  TypeOK'
  <1>. USE DEF TypeOK, zoneVars, saveVars, peerVars, netVars
  <1>0. Fault => faults' \in 0..MaxFaults
    BY EditAssumption DEF Fault
  <1>1. CASE BackendEnds
    BY <1>1 DEF BackendEnds, BackendAnswers, Debounce
  <1>2. CASE LoadEnds
    <2>1. ASSUME NEW fl \in BOOLEAN, loadDocument(fl) PROVE TypeOK'
      BY <2>1 DEF loadDocument, Loaded
    <2>2. CASE loadPdfBinary
      BY <2>2 DEF loadPdfBinary, Loaded
    <2>3. CASE LoadFails
      BY <1>0, <2>3 DEF LoadFails, Loaded
    <2>. QED  BY <1>2, <2>1, <2>2, <2>3 DEF LoadEnds
  <1>3. CASE handleDocumentBinaryUpdate
    <2>1. banner' \in BOOLEAN /\ reloadTimer' \in BOOLEAN
      BY <1>3 DEF handleDocumentBinaryUpdate
    <2>. QED  BY <1>0, <1>3, <2>1 DEF handleDocumentBinaryUpdate
  <1>4. ASSUME NEW d, reload(d), banner' \in BOOLEAN PROVE TypeOK'
    BY <1>4 DEF reload, Expose
  <1>5. CASE performRemoteReload
    BY <1>4, <1>5 DEF performRemoteReload
  <1>6. CASE ReloadTimerFires
    BY <1>4, <1>6 DEF ReloadTimerFires
  <1>7. CASE handleOffline
    BY <1>0, <1>7 DEF handleOffline, NetChange
  <1>8. CASE handleOnline
    BY <1>8 DEF handleOnline, NetChange, Expose
  <1>9. CASE ReplayEnds
    <2>1. ASSUME NEW x \in outbox, replayOperation(x) PROVE TypeOK'
      BY <2>1 DEF replayOperation, NetChange, Expose
    <2>2. CASE flushOfflineQueueEnds
      <3>1. dirty' \in BOOLEAN /\ pending' \in BOOLEAN /\ faults' \in 0..MaxFaults
        BY <1>0, <2>2 DEF flushOfflineQueueEnds
      <3>. QED  BY <2>2, <3>1 DEF flushOfflineQueueEnds, NetChange
    <2>. QED  BY <1>9, <2>1, <2>2 DEF ReplayEnds
  <1>10. CASE FlushEnds
    <2>1. PICK ids \in SUBSET Element : FlushSucceeds(ids) \/ FlushFails(ids)
      BY <1>10 DEF FlushEnds
    <2>2. flushing[ids] \in Nat /\ flushing[ids] - 1 \in Nat
      BY <2>1 DEF FlushSucceeds, FlushFails
    <2>3. flushing' \in [SUBSET Element -> Nat] /\ flushIds' \in SUBSET Element
      BY <2>1, <2>2 DEF FlushSucceeds, FlushFails
    <2>. QED  BY <1>0, <2>1, <2>3, FlushQuiet, <1>10 DEF FlushSucceeds, FlushFails
  <1>11. CASE UNCHANGED vars
    BY <1>11 DEF vars
  <1>. QED
    BY <1>1, <1>2, <1>3, <1>5, <1>6, <1>7, <1>8, <1>9, <1>10, <1>11

\* Every step is of one of these kinds.
LEMMA Steps ==
    ASSUME TypeOK, [Next]_vars
    PROVE  \/ \E e \in Queued : \E ops : EditMove(e, ops)
           \/ \E b \in Baked : \E q : /\ StartBake(b, q) /\ BakeSlot(q)
                                       /\ dirty' \in {dirty, TRUE}
           \/ \E b \in Baked : adoptModifiedPdf(b) \/ EngineFails(b)
           \/ \E j \in Job : ApplyEnds(j)
           \/ ContentMove
           \/ SaveMove
           \/ UploadEnds
           \/ \/ BackendEnds \/ FlushEnds \/ LoadEnds \/ handleDocumentBinaryUpdate
              \/ ReloadTimerFires \/ performRemoteReload \/ handleOffline
              \/ handleOnline \/ ReplayEnds \/ UNCHANGED vars
  <1>1. operations \in SUBSET Op /\ zone \in SUBSET Op /\ mods \in SUBSET Op
        /\ active \in BOOLEAN
    BY DEF TypeOK
  <1>2. ASSUME NEW b \in Baked, Bake(b) PROVE \E q : StartBake(b, q) /\ BakeSlot(q)
                                                      /\ dirty' \in {dirty, TRUE}
    BY <1>2, BakeMoves
  <1>. QED
    BY <1>1, <1>2, EditMoves, ContentMoves, SaveMoves DEF Next, EngineEnds

LEMMA NextTypes ==
    ASSUME TypeOK, Rereads, [Next]_vars
    PROVE  TypeOK'
  <1>1. ContentMove => TypeOK'
    BY DEF ContentMove, TypeOK, saveVars, peerVars, netVars, Edit
  <1>. QED
    BY <1>1, Steps, EditTypes, BakeTypes, AdoptTypes, EngineFailsTypes, ApplyTypes, SaveTypes,
       UploadTypes, OtherTypes

-----------------------------------------------------------------------------
(***************************************************************************)
(* The shape of the jobs and of the store.                                 *)
(***************************************************************************)

GoodSlot(j, q) ==
    /\ q.at # "idle" => (q.kind = "save" <=> j = Saver)
    /\ q.at = "upload" => j = Saver
    /\ q.kind = "reread" => file' # NoFile
    /\ q.at = "idle" => q.base = {} /\ q.taken = {}

LEMMA ShapedFrame ==
    ASSUME JobsShaped, file # NoFile => file' # NoFile,
           \A j \in Job : job'[j] = job[j] \/ GoodSlot(j, job'[j])
    PROVE  JobsShaped'
  <1>. SUFFICES ASSUME NEW j \in Job
                PROVE  /\ job'[j].at # "idle" => (job'[j].kind = "save" <=> j = Saver)
                       /\ job'[j].at = "upload" => j = Saver
                       /\ job'[j].kind = "reread" => file' # NoFile
                       /\ job'[j].at = "idle" => job'[j].base = {} /\ job'[j].taken = {}
    BY DEF JobsShaped, InFlight
  <1>1. CASE job'[j] = job[j]
    BY <1>1 DEF JobsShaped, InFlight
  <1>2. CASE GoodSlot(j, job'[j])
    BY <1>2 DEF GoodSlot
  <1>. QED  BY <1>1, <1>2

\* A job that is the saver's saves, and the others bake.
KindOf(j, kind) == kind = "save" <=> j = Saver

LEMMA GoodBlob ==
    ASSUME NEW j, NEW kind, KindOf(j, kind), NEW blob
    PROVE  GoodSlot(j, WithBlob(kind, blob))
  BY BlobFields DEF GoodSlot, KindOf

LEMMA GoodPrepared ==
    ASSUME NEW j, NEW kind, KindOf(j, kind), NEW f, NEW ops, NEW q,
           Prepared(q, kind, f, ops), file' # NoFile
    PROVE  GoodSlot(j, q)
  <1>1. CASE q = WithBlob(kind, f)
    BY <1>1, GoodBlob
  <1>2. CASE q.at = "apply" /\ q.kind = kind
    BY <1>2 DEF GoodSlot, KindOf
  <1>. QED  BY <1>1, <1>2 DEF Prepared

LEMMA GoodSave ==
    ASSUME NEW f, NEW ops, SaveStep(f, ops), f # NoFile => file' # NoFile
    PROVE  job'[Saver] = job[Saver] \/ GoodSlot(Saver, job'[Saver])
  <1>1. KindOf(Saver, "save")
    BY DEF KindOf
  <1>. QED  BY <1>1, GoodBlob, GoodPrepared DEF SaveStep

LEMMA BakeKind == \A b \in Baked : \A kind \in {"bake", "reread", "table"} : KindOf(b, kind)
  BY EditAssumption DEF KindOf

LEMMA FileStays ==
    ASSUME NEW f, f \in SUBSET Edit
    PROVE  f # NoFile
  BY EditAssumption DEF Edit

LEMMA EditShapes ==
    ASSUME TypeOK, JobsShaped, OpsSorted, NEW e \in Queued, NEW ops, EditMove(e, ops)
    PROVE  JobsShaped' /\ OpsSorted'
  <1>0. job \in [Job -> JobState]
    BY JobTyped
  <1>1. \A j \in Job : job'[j] = job[j] \/ GoodSlot(j, job'[j])
    <2>1. CASE performSave(job, file, ops)
      <3>1. SaveStep(file, ops) /\ \A i \in Job \ {Saver} : job'[i] = job[i]
        BY <1>0, <2>1, SaveSteps
      <3>2. job'[Saver] = job[Saver] \/ GoodSlot(Saver, job'[Saver])
        BY <3>1, GoodSave DEF EditMove
      <3>. QED  BY <3>1, <3>2
    <2>. QED  BY <2>1 DEF EditMove
  <1>2. OpsSorted'
    BY DEF EditMove, OpsSorted, Queues, zoneVars
  <1>. QED  BY <1>1, <1>2, ShapedFrame DEF EditMove

LEMMA SaveShapes ==
    ASSUME TypeOK, JobsShaped, OpsSorted, SaveMove
    PROVE  JobsShaped' /\ OpsSorted'
  <1>0. job \in [Job -> JobState]
    BY JobTyped
  <1>1. SaveStep(file, operations) /\ \A i \in Job \ {Saver} : job'[i] = job[i]
    BY <1>0, SaveSteps DEF SaveMove, save
  <1>2. UNCHANGED <<operations, mods, zone, file>>
    BY DEF SaveMove, save, zoneVars
  <1>3. job'[Saver] = job[Saver] \/ GoodSlot(Saver, job'[Saver])
    BY <1>1, <1>2, GoodSave
  <1>. QED  BY <1>1, <1>2, <1>3, ShapedFrame DEF OpsSorted

LEMMA BakeShapes ==
    ASSUME TypeOK, JobsShaped, OpsSorted, NEW b \in Baked, NEW q, StartBake(b, q), BakeSlot(q)
    PROVE  JobsShaped' /\ OpsSorted'
  <1>0. job \in [Job -> JobState] /\ b \in Job
    BY JobTyped DEF Job
  <1>1. job' = [job EXCEPT ![b] = q] /\ file' # NoFile
        /\ UNCHANGED <<operations, mods, zone, file>>
    BY DEF StartBake, zoneVars
  <1>2. GoodSlot(b, q)
    BY <1>1, BakeKind, GoodBlob, GoodPrepared DEF BakeSlot
  <1>. QED  BY <1>0, <1>1, <1>2, ShapedFrame DEF OpsSorted

LEMMA AdoptShapes ==
    ASSUME TypeOK, JobsShaped, OpsSorted, NEW b \in Baked, adoptModifiedPdf(b)
    PROVE  JobsShaped' /\ OpsSorted'
  <1>. DEFINE blob == job[b].base \cup {b}
              others == [job EXCEPT ![b] = Idle]
  <1>0. job \in [Job -> JobState] /\ b \in Job /\ b # Saver
    BY JobTyped, EditAssumption DEF Job
  <1>1. performSave(others, blob, operations) /\ file' = blob
        /\ UNCHANGED <<operations, mods, zone>>
    BY DEF adoptModifiedPdf, zoneVars
  <1>2. blob # NoFile
    <2>1. blob \in SUBSET Edit
      BY <1>0 DEF JobState, Edit
    <2>. QED  BY <2>1, FileStays
  <1>3. /\ others \in [Job -> JobState] /\ others[Saver] = job[Saver] /\ others[b] = Idle
        /\ \A i \in Job \ {b} : others[i] = job[i]
    BY <1>0, IdleFields DEF Job
  <1>. HIDE DEF blob, others
  <1>4. SaveStep(blob, operations) /\ \A i \in Job \ {Saver} : job'[i] = others[i]
    BY <1>1, <1>3, SaveSteps
  <1>5. job'[Saver] = job[Saver] \/ GoodSlot(Saver, job'[Saver])
    BY <1>1, <1>2, <1>4, GoodSave
  <1>6. GoodSlot(b, Idle)
    BY IdleFields DEF GoodSlot
  <1>. QED  BY <1>0, <1>1, <1>2, <1>3, <1>4, <1>5, <1>6, ShapedFrame DEF OpsSorted

\* A job that ends.
LEMMA EndShapes ==
    ASSUME TypeOK, JobsShaped, OpsSorted, NEW j \in Job, job' = [job EXCEPT ![j] = Idle],
           UNCHANGED <<operations, mods, zone, file>>
    PROVE  JobsShaped' /\ OpsSorted'
  <1>0. job \in [Job -> JobState]
    BY JobTyped
  <1>1. GoodSlot(j, Idle)
    BY IdleFields DEF GoodSlot
  <1>. QED  BY <1>0, <1>1, ShapedFrame DEF OpsSorted

LEMMA ApplyShapes ==
    ASSUME TypeOK, JobsShaped, OpsSorted, NEW j \in Job, ApplyEnds(j)
    PROVE  JobsShaped' /\ OpsSorted'
  <1>0. job \in [Job -> JobState] /\ job[j] \in JobState /\ job[j].at = "apply"
    BY JobTyped DEF ApplyEnds, ApplySucceeds, ApplyFails
  <1>1. KindOf(j, job[j].kind)
    BY <1>0 DEF JobsShaped, InFlight, KindOf
  <1>2. CASE ApplySucceeds(j)
    <2>. DEFINE blob == job[j].base \cup EditsOf(job[j].taken)
    <2>1. job' = [job EXCEPT ![j] = WithBlob(job[j].kind, blob)] /\ file' = blob
      BY <1>0, <1>2 DEF ApplySucceeds
    <2>2. blob # NoFile
      <3>1. blob \in SUBSET Edit
        BY <1>0, EditsTyped DEF JobState
      <3>. QED  BY <3>1, FileStays
    <2>3. OpsSorted'
      BY <1>2 DEF OpsSorted, ApplySucceeds, drain, zoneVars
    <2>. HIDE DEF blob
    <2>4. GoodSlot(j, WithBlob(job[j].kind, blob))
      BY <1>1, GoodBlob
    <2>. QED  BY <1>0, <2>1, <2>2, <2>3, <2>4, ShapedFrame
  <1>3. CASE ApplyFails(j)
    <2>. DEFINE blob == IF job[j].kind = "reread" THEN file ELSE job[j].base
    <2>1. job' = [job EXCEPT ![j] = WithBlob(job[j].kind, blob)] /\ file' = file
      BY <1>0, <1>3 DEF ApplyFails
    <2>2. OpsSorted'
      BY <1>3 DEF OpsSorted, ApplyFails, KeptOnFailure, zoneVars
    <2>. HIDE DEF blob
    <2>3. GoodSlot(j, WithBlob(job[j].kind, blob))
      BY <1>1, GoodBlob
    <2>. QED  BY <1>0, <2>1, <2>2, <2>3, ShapedFrame
  <1>. QED  BY <1>2, <1>3 DEF ApplyEnds

\* What the steps that belong to no job leave alone.
LEMMA OtherQuiet ==
    ASSUME \/ BackendEnds \/ FlushEnds \/ LoadEnds \/ handleDocumentBinaryUpdate
           \/ ReloadTimerFires \/ performRemoteReload \/ handleOffline
           \/ handleOnline \/ ReplayEnds \/ UNCHANGED vars
    PROVE  UNCHANGED <<operations, mods, zone, job, made, skipped>>
  <1>. USE DEF zoneVars, saveVars, peerVars, netVars
  <1>1. CASE BackendEnds
    BY <1>1 DEF BackendEnds, BackendAnswers
  <1>2. CASE LoadEnds
    BY <1>2 DEF LoadEnds, loadDocument, loadPdfBinary, LoadFails, Loaded
  <1>3. CASE handleDocumentBinaryUpdate \/ ReloadTimerFires \/ performRemoteReload
    BY <1>3 DEF handleDocumentBinaryUpdate, ReloadTimerFires, performRemoteReload, reload
  <1>4. CASE handleOffline \/ handleOnline \/ ReplayEnds
    BY <1>4
    DEF handleOffline, handleOnline, ReplayEnds, replayOperation, flushOfflineQueueEnds,
        NetChange
  <1>5. CASE FlushEnds
    BY <1>5, FlushQuiet
  <1>6. CASE UNCHANGED vars
    BY <1>6 DEF vars
  <1>. QED  BY <1>1, <1>2, <1>3, <1>4, <1>5, <1>6

LEMMA OtherShapes ==
    ASSUME TypeOK, JobsShaped, OpsSorted,
           \/ BackendEnds \/ FlushEnds \/ LoadEnds \/ handleDocumentBinaryUpdate
           \/ ReloadTimerFires \/ performRemoteReload \/ handleOffline
           \/ handleOnline \/ ReplayEnds \/ UNCHANGED vars
    PROVE  JobsShaped' /\ OpsSorted'
  <1>1. UNCHANGED <<operations, mods, zone, job, made, skipped>>
    BY OtherQuiet
  <1>2. file' \in {file, stored, session}
    <2>. USE DEF zoneVars, saveVars, peerVars, netVars
    <2>1. CASE BackendEnds
      BY <2>1 DEF BackendEnds, BackendAnswers
    <2>2. CASE LoadEnds
      BY <2>2 DEF LoadEnds, loadDocument, loadPdfBinary, LoadFails, Loaded
    <2>3. CASE handleDocumentBinaryUpdate \/ ReloadTimerFires \/ performRemoteReload
      BY <2>3 DEF handleDocumentBinaryUpdate, ReloadTimerFires, performRemoteReload, reload
    <2>4. CASE handleOffline \/ handleOnline \/ ReplayEnds
      BY <2>4
      DEF handleOffline, handleOnline, ReplayEnds, replayOperation, flushOfflineQueueEnds,
          NetChange
    <2>5. CASE FlushEnds
      BY <2>5, FlushQuiet
    <2>6. CASE UNCHANGED vars
      BY <2>6 DEF vars
    <2>. QED  BY <2>1, <2>2, <2>3, <2>4, <2>5, <2>6
  <1>3. file # NoFile => file' # NoFile
    BY <1>2, FileStays DEF TypeOK
  <1>. QED  BY <1>1, <1>3, ShapedFrame DEF OpsSorted

LEMMA NextShapes ==
    ASSUME TypeOK, JobsShaped, OpsSorted, [Next]_vars
    PROVE  JobsShaped' /\ OpsSorted'
  <1>1. ASSUME NEW b \in Baked, EngineFails(b) PROVE JobsShaped' /\ OpsSorted'
    BY <1>1, EndShapes DEF EngineFails, zoneVars, Job
  <1>2. CASE UploadEnds
    BY <1>2, EndShapes DEF UploadEnds, UploadSucceeds, UploadFails, zoneVars, Job
  <1>3. CASE ContentMove
    BY <1>3, ShapedFrame DEF ContentMove, OpsSorted
  <1>. QED
    BY <1>1, <1>2, <1>3, Steps, EditShapes, SaveShapes, BakeShapes, AdoptShapes, ApplyShapes,
       OtherShapes

-----------------------------------------------------------------------------
(***************************************************************************)
(* Where edits go in a step.                                               *)
(***************************************************************************)

\* A slot that changes to "apply" takes the store and the working binary as they are
\* after the step.
Applies ==
    \A j \in Job :
        \/ job'[j] = job[j] \/ job'[j].at # "apply"
        \/ job'[j].base = Working' /\ job'[j].taken = operations' \cup mods'

\* A step adds the edits q to the store or to the layer, and the edits h to a
\* binary; what it moves between them was there.
Flow(q, h) ==
    /\ made' = made \cup q \cup h
    /\ (q \cup h) \cap made = {} /\ q \cap h = {}
    /\ EditsOf(operations') \subseteq EditsOf(operations) \cup q
    /\ EditsOf(operations' \cup zone' \cup mods')
           \subseteq EditsOf(operations \cup zone \cup mods) \cup q
    /\ \/ Held' \subseteq Held \cup h
       \/ Held' \subseteq Held \cup Cargo /\ operations' = {}
    /\ Cargo' \subseteq Cargo \cup EditsOf(operations \cup mods) \cup q
    /\ \A b \in Baked : job'[b].at # "idle" => b \notin made'
    /\ Applies

LEMMA FlowKeeps ==
    ASSUME OnlyMade, QueuedNowhere, OpsSorted', NEW q, NEW h, Flow(q, h)
    PROVE  OnlyMade' /\ QueuedNowhere'
  <1>1. EditsOf(operations \cup mods) \subseteq EditsOf(operations \cup zone \cup mods)
    BY EditsMonotone
  <1>2. EditsOf(operations) \subseteq EditsOf(operations \cup zone \cup mods)
    BY EditsMonotone
  <1>3. OnlyMade'
    <2>1. EditsOf(operations' \cup zone' \cup mods') \subseteq made'
      BY DEF Flow, OnlyMade
    <2>2. Held' \subseteq made' /\ Cargo' \subseteq made'
      BY <1>1 DEF Flow, OnlyMade
    <2>. QED  BY <2>1, <2>2 DEF Flow, OnlyMade, InFlight
  <1>4. EditsOf(operations') \cap Held' = {}
    <2>1. CASE Held' \subseteq Held \cup h
      <3>1. EditsOf(operations) \subseteq made /\ Held \subseteq made
        BY <1>2 DEF OnlyMade
      <3>2. EditsOf(operations) \cap Held = {}
        BY DEF QueuedNowhere
      <3>. QED  BY <2>1, <3>1, <3>2 DEF Flow
    <2>2. CASE operations' = {}
      BY <2>2, EditsEmpty
    <2>. QED  BY <2>1, <2>2 DEF Flow
  <1>5. ASSUME NEW j \in Job, job'[j].at = "apply"
        PROVE  EditsOf({o \in job'[j].taken : o.action # "content"}) \cap job'[j].base = {}
    <2>1. CASE job'[j] = job[j]
      BY <1>5, <2>1 DEF QueuedNowhere
    <2>2. CASE job'[j].base = Working' /\ job'[j].taken = operations' \cup mods'
      <3>1. {o \in job'[j].taken : o.action # "content"} \subseteq operations'
        BY <2>2 DEF OpsSorted
      <3>2. EditsOf({o \in job'[j].taken : o.action # "content"}) \subseteq EditsOf(operations')
        BY <3>1, EditsMonotone
      <3>3. Working' \subseteq Held'
        BY DEF Held
      <3>. QED  BY <1>4, <2>2, <3>2, <3>3
    <2>. QED  BY <1>5, <2>1, <2>2 DEF Flow, Applies
  <1>. QED  BY <1>3, <1>4, <1>5 DEF QueuedNowhere

LEMMA HeldParts ==
    /\ Working \subseteq Held /\ session \subseteq Held /\ stored \subseteq Held
    /\ \A s \in outbox : s \subseteq Held
    /\ \A j \in Job : job[j].base \subseteq Held
    /\ \A j \in Job : EditsOf(job[j].taken) \subseteq Cargo
  BY DEF Held, Cargo

LEMMA HeldBounded ==
    ASSUME NEW S, Working' \subseteq S, session' \subseteq S, stored' \subseteq S,
           \A s \in outbox' : s \subseteq S, \A j \in Job : job'[j].base \subseteq S
    PROVE  Held' \subseteq S
  BY DEF Held

LEMMA CargoBounded ==
    ASSUME NEW S, \A j \in Job : EditsOf(job'[j].taken) \subseteq S
    PROVE  Cargo' \subseteq S
  BY DEF Cargo

\* What a save puts into its slot.
LEMMA SaveTakes ==
    ASSUME NEW f, NEW ops, SaveStep(f, ops)
    PROVE  /\ job'[Saver].base \in {job[Saver].base, session, f}
           /\ job'[Saver].taken \in {job[Saver].taken, {}, ops \cup mods}
           /\ outbox' \in {outbox, outbox \cup {session}}
           /\ job'[Saver] # job[Saver] /\ job'[Saver].at = "apply" =>
                  f # NoFile /\ job'[Saver].base = f /\ job'[Saver].taken = ops \cup mods
  <1>1. CASE ~Starts
    BY <1>1 DEF SaveStep
  <1>2. CASE job'[Saver] = WithBlob("save", session)
    BY <1>2, BlobFields DEF SaveStep
  <1>3. CASE Prepared(job'[Saver], "save", f, ops) /\ f # NoFile
    BY <1>3, BlobFields DEF SaveStep, Prepared
  <1>. QED  BY <1>1, <1>2, <1>3 DEF SaveStep


LEMMA EditFlow ==
    ASSUME TypeOK, OnlyMade, NEW e \in Queued, NEW ops, EditMove(e, ops)
    PROVE  Flow({e}, {})
  <1>0. job \in [Job -> JobState] /\ Saver \in Job
    BY JobTyped DEF Job
  <1>1. EditsOf(ops) = EditsOf(operations) \cup {e} /\ operations' = ops
    BY DEF EditMove, Queues
  <1>2. UNCHANGED <<mods, zone, file, session, stored>> /\ Working' = Working
    BY DEF EditMove, zoneVars, Working
  <1>3. \/ job' = job /\ outbox' = outbox
        \/ SaveStep(file, ops) /\ \A i \in Job \ {Saver} : job'[i] = job[i]
    BY <1>0, SaveSteps DEF EditMove
  <1>4. \A j \in Job :
            /\ job'[j].base \in {job[j].base, Working, session}
            /\ job'[j].taken \in {job[j].taken, {}, ops \cup mods}
            /\ \/ job'[j] = job[j] \/ job'[j].at # "apply"
               \/ job'[j].base = Working /\ job'[j].taken = ops \cup mods
    <2>. SUFFICES ASSUME NEW j \in Job
                  PROVE  /\ job'[j].base \in {job[j].base, Working, session}
                         /\ job'[j].taken \in {job[j].taken, {}, ops \cup mods}
                         /\ \/ job'[j] = job[j] \/ job'[j].at # "apply"
                            \/ job'[j].base = Working /\ job'[j].taken = ops \cup mods
      OBVIOUS
    <2>1. CASE job'[j] = job[j]
      BY <2>1
    <2>2. CASE j = Saver /\ SaveStep(file, ops)
      <3>1. file # NoFile => Working = file
        BY DEF Working
      <3>2. job'[Saver].base = file => job'[Saver].base \in {job[Saver].base, Working, session}
        BY <2>2, <3>1, BlobFields DEF SaveStep
      <3>. QED  BY <2>2, <3>1, <3>2, SaveTakes
    <2>. QED  BY <1>3, <2>1, <2>2
  <1>5. outbox' \in {outbox, outbox \cup {session}}
    BY <1>3 DEF SaveStep
  <1>6. Held' \subseteq Held
    <2>1. \A s \in outbox' : s \subseteq Held
      BY <1>5, HeldParts
    <2>2. \A j \in Job : job'[j].base \subseteq Held
      BY <1>4, HeldParts
    <2>3. Working' \subseteq Held /\ session' \subseteq Held /\ stored' \subseteq Held
      BY <1>2, HeldParts
    <2>. QED  BY <2>1, <2>2, <2>3, HeldBounded
  <1>7. Cargo' \subseteq Cargo \cup EditsOf(operations \cup mods) \cup {e}
    <2>1. EditsOf(ops \cup mods) = EditsOf(operations \cup mods) \cup {e}
      BY <1>1, EditsUnion
    <2>. DEFINE S == Cargo \cup EditsOf(operations \cup mods) \cup {e}
    <2>2. /\ EditsOf({}) \subseteq S /\ EditsOf(ops \cup mods) \subseteq S
          /\ \A j \in Job : EditsOf(job[j].taken) \subseteq S
      BY <2>1, HeldParts, EditsEmpty
    <2>. HIDE DEF S
    <2>3. \A j \in Job : EditsOf(job'[j].taken) \subseteq S
      BY <1>4, <2>2
    <2>4. Cargo' \subseteq S
      BY <2>3, CargoBounded
    <2>. QED  BY <2>4 DEF S
  <1>8. EditsOf(operations' \cup zone' \cup mods')
            \subseteq EditsOf(operations \cup zone \cup mods) \cup {e}
    <2>1. operations' \cup zone' \cup mods' = ops \cup zone \cup mods
      BY <1>1, <1>2
    <2>2. EditsOf(ops \cup zone \cup mods) = EditsOf(ops) \cup EditsOf(zone) \cup EditsOf(mods)
      BY EditsUnions
    <2>3. EditsOf(operations \cup zone \cup mods)
              = EditsOf(operations) \cup EditsOf(zone) \cup EditsOf(mods)
      BY EditsUnions
    <2>4. EditsOf(ops \cup zone \cup mods) = EditsOf(operations \cup zone \cup mods) \cup {e}
      BY <1>1, <2>2, <2>3
    <2>. QED  BY <2>1, <2>4
  <1>9. \A b \in Baked : job'[b].at # "idle" => b \notin made'
    <2>1. \A b \in Baked : b # e /\ b \in Job /\ b # Saver
      BY EditAssumption DEF Job
    <2>. QED  BY <1>3, <2>1 DEF OnlyMade, InFlight, EditMove
  <1>10. Applies
    BY <1>1, <1>2, <1>4 DEF Applies
  <1>. QED
    BY <1>1, <1>6, <1>7, <1>8, <1>9, <1>10 DEF Flow, EditMove

LEMMA SaveFlow ==
    ASSUME TypeOK, OnlyMade, SaveMove
    PROVE  Flow({}, {})
  <1>0. job \in [Job -> JobState] /\ Saver \in Job
    BY JobTyped DEF Job
  <1>1. SaveStep(file, operations) /\ \A i \in Job \ {Saver} : job'[i] = job[i]
    BY <1>0, SaveSteps DEF SaveMove, save
  <1>2. UNCHANGED <<operations, mods, zone, file, session, stored, made>> /\ Working' = Working
    BY DEF SaveMove, save, zoneVars, Working
  <1>3. file # NoFile => Working = file
    BY DEF Working
  <1>4. job'[Saver].base \in {job[Saver].base, Working, session}
    BY <1>1, <1>3, BlobFields DEF SaveStep, Prepared
  <1>5. Held' \subseteq Held
    <2>1. \A s \in outbox' : s \subseteq Held
      BY <1>1, HeldParts, SaveTakes
    <2>2. \A j \in Job : job'[j].base \subseteq Held
      BY <1>0, <1>1, <1>4, HeldParts
    <2>3. Working' \subseteq Held /\ session' \subseteq Held /\ stored' \subseteq Held
      BY <1>2, HeldParts
    <2>. QED  BY <2>1, <2>2, <2>3, HeldBounded
  <1>6. Cargo' \subseteq Cargo \cup EditsOf(operations \cup mods)
    <2>1. \A j \in Job : EditsOf(job'[j].taken) \subseteq Cargo \cup EditsOf(operations \cup mods)
      BY <1>0, <1>1, SaveTakes, HeldParts, EditsEmpty
    <2>. QED  BY <2>1, CargoBounded
  <1>7. \A b \in Baked : job'[b].at # "idle" => b \notin made'
    <2>1. \A b \in Baked : b \in Job /\ b # Saver
      BY EditAssumption DEF Job
    <2>. QED  BY <1>1, <1>2, <2>1 DEF OnlyMade, InFlight
  <1>8. Applies
    BY <1>0, <1>1, <1>2, <1>3, SaveTakes DEF Applies
  <1>. QED
    BY <1>2, <1>5, <1>6, <1>7, <1>8 DEF Flow

LEMMA BakeFlow ==
    ASSUME TypeOK, OnlyMade, NEW b \in Baked, NEW q, StartBake(b, q), BakeSlot(q)
    PROVE  Flow({}, {})
  <1>0. job \in [Job -> JobState] /\ b \in Job
    BY JobTyped DEF Job
  <1>1. job' = [job EXCEPT ![b] = q] /\ file # NoFile /\ b \notin made
        /\ UNCHANGED <<operations, mods, zone, file, session, stored, made, outbox>>
    BY DEF StartBake, zoneVars, netVars
  <1>2. Working' = file /\ Working = file
    BY <1>1 DEF Working
  <1>3. q.base = file /\ q.taken \in {{}, operations \cup mods}
        /\ (q.at = "apply" => q.taken = operations \cup mods)
    <2>1. CASE q = WithBlob("bake", file)
      BY <2>1, BlobFields
    <2>2. ASSUME NEW kind \in {"bake", "reread", "table"}, Prepared(q, kind, file, operations)
          PROVE  q.base = file /\ q.taken \in {{}, operations \cup mods}
                 /\ (q.at = "apply" => q.taken = operations \cup mods)
      BY <2>2, BlobFields DEF Prepared
    <2>. QED  BY <2>1, <2>2 DEF BakeSlot
  <1>4. \A j \in Job : job'[j] = IF j = b THEN q ELSE job[j]
    BY <1>0, <1>1
  <1>5. Held' \subseteq Held
    <2>1. \A j \in Job : job'[j].base \subseteq Held
      BY <1>2, <1>3, <1>4, HeldParts
    <2>. QED  BY <1>1, <1>2, <2>1, HeldParts, HeldBounded
  <1>6. Cargo' \subseteq Cargo \cup EditsOf(operations \cup mods)
    <2>1. \A j \in Job : EditsOf(job'[j].taken) \subseteq Cargo \cup EditsOf(operations \cup mods)
      BY <1>3, <1>4, HeldParts, EditsEmpty
    <2>. QED  BY <2>1, CargoBounded
  <1>7. \A i \in Baked : job'[i].at # "idle" => i \notin made'
    BY <1>1, <1>4 DEF OnlyMade, InFlight, Job
  <1>8. Applies
    BY <1>1, <1>2, <1>3, <1>4 DEF Applies
  <1>. QED
    BY <1>1, <1>5, <1>6, <1>7, <1>8 DEF Flow


LEMMA AdoptFlow ==
    ASSUME TypeOK, OnlyMade, NEW b \in Baked, adoptModifiedPdf(b)
    PROVE  Flow({}, {b})
  <1>. DEFINE blob == job[b].base \cup {b}
              others == [job EXCEPT ![b] = Idle]
  <1>0. job \in [Job -> JobState] /\ b \in Job /\ b # Saver /\ Saver \in Job
    BY JobTyped, EditAssumption DEF Job
  <1>1. /\ performSave(others, blob, operations) /\ file' = blob /\ made' = made \cup {b}
        /\ UNCHANGED <<operations, mods, zone, session, stored>> /\ job[b].at = "engine"
    BY DEF adoptModifiedPdf, zoneVars
  <1>2. blob # NoFile
    <2>1. blob \in SUBSET Edit
      BY <1>0 DEF JobState, Edit
    <2>. QED  BY <2>1, FileStays
  <1>3. /\ others \in [Job -> JobState] /\ others[Saver] = job[Saver] /\ others[b] = Idle
        /\ \A i \in Job \ {b} : others[i] = job[i]
    BY <1>0, IdleFields DEF Job
  <1>4. blob \subseteq Held \cup {b}
    BY <1>0, HeldParts
  <1>5. b \notin made
    BY <1>0, <1>1 DEF OnlyMade, InFlight
  <1>. HIDE DEF blob, others
  <1>6. SaveStep(blob, operations) /\ \A i \in Job \ {Saver} : job'[i] = others[i]
    BY <1>1, <1>3, SaveSteps
  <1>7. job'[b] = Idle /\ \A i \in Job \ {Saver, b} : job'[i] = job[i]
    BY <1>0, <1>3, <1>6
  <1>8. Working' = blob
    BY <1>1, <1>2 DEF Working
  <1>9. Held' \subseteq Held \cup {b}
    <2>1. \A s \in outbox' : s \subseteq Held \cup {b}
      BY <1>6, HeldParts, SaveTakes
    <2>2. \A j \in Job : job'[j].base \subseteq Held \cup {b}
      <3>1. job'[Saver].base \subseteq Held \cup {b}
        BY <1>0, <1>4, <1>6, HeldParts, SaveTakes
      <3>. QED  BY <1>7, <3>1, HeldParts, IdleFields
    <2>3. session' \subseteq Held \cup {b} /\ stored' \subseteq Held \cup {b}
          /\ Working' \subseteq Held \cup {b}
      BY <1>1, <1>4, <1>8, HeldParts
    <2>. QED  BY <2>1, <2>2, <2>3, HeldBounded
  <1>10. Cargo' \subseteq Cargo \cup EditsOf(operations \cup mods)
    <2>1. \A j \in Job : EditsOf(job'[j].taken) \subseteq Cargo \cup EditsOf(operations \cup mods)
      <3>1. EditsOf(job'[Saver].taken) \subseteq Cargo \cup EditsOf(operations \cup mods)
        BY <1>0, <1>6, SaveTakes, HeldParts, EditsEmpty
      <3>. QED  BY <1>7, <3>1, HeldParts, IdleFields, EditsEmpty
    <2>. QED  BY <2>1, CargoBounded
  <1>11. \A i \in Baked : job'[i].at # "idle" => i \notin made'
    <2>1. \A i \in Baked : i \in Job /\ i # Saver
      BY EditAssumption DEF Job
    <2>. QED  BY <1>1, <1>7, <2>1, IdleFields DEF OnlyMade, InFlight
  <1>12. Applies
    BY <1>1, <1>6, <1>7, <1>8, SaveTakes, IdleFields DEF Applies
  <1>. QED
    BY <1>1, <1>5, <1>9, <1>10, <1>11, <1>12 DEF Flow

\* Jobs end, and nothing else is replaced but by what is held.
LEMMA EndFlow ==
    ASSUME OnlyMade,
           \A j \in Job : job'[j] = job[j] \/ job'[j] = Idle,
           UNCHANGED <<operations, mods, zone, made>>,
           Working' \subseteq Held, session' \subseteq Held, stored' \subseteq Held,
           \A s \in outbox' : s \subseteq Held
    PROVE  /\ Flow({}, {})
           /\ Held' \subseteq Held /\ Cargo' \subseteq Cargo
  <1>1. Held' \subseteq Held
    <2>1. \A j \in Job : job'[j].base \subseteq Held
      BY HeldParts, IdleFields
    <2>. QED  BY <2>1, HeldBounded
  <1>2. Cargo' \subseteq Cargo
    <2>1. \A j \in Job : EditsOf(job'[j].taken) \subseteq Cargo
      BY HeldParts, IdleFields, EditsEmpty
    <2>. QED  BY <2>1, CargoBounded
  <1>3. \A b \in Baked : job'[b].at # "idle" => b \notin made'
    BY IdleFields DEF OnlyMade, InFlight, Job
  <1>4. Applies
    BY IdleFields DEF Applies
  <1>. QED  BY <1>1, <1>2, <1>3, <1>4 DEF Flow

LEMMA UploadFlow ==
    ASSUME TypeOK, OnlyMade, UploadEnds
    PROVE  /\ Flow({}, {})
           /\ Held' \subseteq Held /\ Cargo' \subseteq Cargo
  <1>0. job \in [Job -> JobState] /\ Saver \in Job
    BY JobTyped DEF Job
  <1>1. /\ job' = [job EXCEPT ![Saver] = Idle]
        /\ UNCHANGED <<operations, mods, zone, file, session, made>>
        /\ stored' \in {stored, job[Saver].base}
        /\ outbox' \in {outbox, outbox \cup {session}}
    BY DEF UploadEnds, UploadSucceeds, UploadFails, zoneVars, netVars
  <1>2. \A j \in Job : job'[j] = job[j] \/ job'[j] = Idle
    BY <1>0, <1>1
  <1>3. Working' = Working
    BY <1>1 DEF Working
  <1>4. /\ Working' \subseteq Held /\ session' \subseteq Held /\ stored' \subseteq Held
        /\ \A s \in outbox' : s \subseteq Held
    BY <1>0, <1>1, <1>3, HeldParts
  <1>. QED  BY <1>1, <1>2, <1>4, EndFlow

LEMMA EngineFailsFlow ==
    ASSUME TypeOK, OnlyMade, NEW b \in Baked, EngineFails(b)
    PROVE  /\ Flow({}, {})
           /\ Held' \subseteq Held /\ Cargo' \subseteq Cargo
  <1>0. job \in [Job -> JobState] /\ b \in Job
    BY JobTyped DEF Job
  <1>1. /\ job' = [job EXCEPT ![b] = Idle]
        /\ UNCHANGED <<operations, mods, zone, file, session, stored, outbox, made>>
    BY DEF EngineFails, zoneVars, netVars
  <1>2. \A j \in Job : job'[j] = job[j] \/ job'[j] = Idle
    BY <1>0, <1>1
  <1>3. Working' = Working
    BY <1>1 DEF Working
  <1>. QED  BY <1>1, <1>2, <1>3, HeldParts, EndFlow

LEMMA OtherFlow ==
    ASSUME OnlyMade,
           \/ BackendEnds \/ FlushEnds \/ LoadEnds \/ handleDocumentBinaryUpdate
           \/ ReloadTimerFires \/ performRemoteReload \/ handleOffline
           \/ handleOnline \/ ReplayEnds \/ UNCHANGED vars
    PROVE  /\ Flow({}, {})
           /\ Held' \subseteq Held /\ Cargo' \subseteq Cargo
  <1>1. UNCHANGED <<operations, mods, zone, job, made, skipped>>
    BY OtherQuiet
  <1>2. /\ \/ file' = file /\ session' = session
           \/ file' \in {stored, file} /\ session' = stored
           \/ file' = session /\ session' = session
        /\ stored' \in {stored} \cup outbox
        /\ outbox' \subseteq outbox
    <2>. USE DEF zoneVars, saveVars, peerVars, netVars
    <2>1. CASE BackendEnds
      BY <2>1 DEF BackendEnds, BackendAnswers
    <2>2. CASE LoadEnds
      BY <2>2 DEF LoadEnds, loadDocument, loadPdfBinary, LoadFails, Loaded
    <2>3. CASE handleDocumentBinaryUpdate \/ ReloadTimerFires \/ performRemoteReload
      BY <2>3 DEF handleDocumentBinaryUpdate, ReloadTimerFires, performRemoteReload, reload
    <2>4. CASE handleOffline \/ handleOnline \/ ReplayEnds
      BY <2>4
      DEF handleOffline, handleOnline, ReplayEnds, replayOperation, flushOfflineQueueEnds,
          NetChange
    <2>5. CASE FlushEnds
      BY <2>5, FlushQuiet
    <2>6. CASE UNCHANGED vars
      BY <2>6 DEF vars
    <2>. QED  BY <2>1, <2>2, <2>3, <2>4, <2>5, <2>6
  <1>3. Working' \in {Working, session, stored}
    BY <1>2 DEF Working
  <1>4. /\ Working' \subseteq Held /\ session' \subseteq Held /\ stored' \subseteq Held
        /\ \A s \in outbox' : s \subseteq Held
    BY <1>2, <1>3, HeldParts
  <1>. QED  BY <1>1, <1>4, EndFlow


LEMMA ApplyFlow ==
    ASSUME TypeOK, JobsShaped, OnlyMade, NEW j \in Job, ApplyEnds(j)
    PROVE  /\ Flow({}, {})
           /\ Held' \subseteq Held \cup Cargo /\ Cargo' \subseteq Cargo
  <1>0. job \in [Job -> JobState] /\ job[j].at = "apply"
    BY JobTyped DEF ApplyEnds, ApplySucceeds, ApplyFails
  <1>1. ASSUME NEW blob, job' = [job EXCEPT ![j] = WithBlob(job[j].kind, blob)],
               blob \subseteq Held \cup Cargo, UNCHANGED <<session, stored, outbox>>,
               Working' \in {Working, blob}
        PROVE  /\ Held' \subseteq Held \cup Cargo
               /\ blob \subseteq Held => Held' \subseteq Held
               /\ Cargo' \subseteq Cargo
               /\ \A b \in Baked : job'[b].at # "idle" => job[b].at # "idle"
               /\ Applies
    <2>. DEFINE q == WithBlob(job[j].kind, blob)
    <2>1. q.base = blob /\ q.taken = {} /\ q.at # "apply"
      BY BlobFields
    <2>2. \A i \in Job : job'[i] = IF i = j THEN q ELSE job[i]
      BY <1>0, <1>1
    <2>. HIDE DEF q
    <2>3. ASSUME NEW S, Held \subseteq S, blob \subseteq S PROVE Held' \subseteq S
      <3>1. \A i \in Job : job'[i].base \subseteq S
        BY <2>1, <2>2, <2>3, HeldParts
      <3>2. /\ Working' \subseteq S /\ session' \subseteq S /\ stored' \subseteq S
            /\ \A s \in outbox' : s \subseteq S
        BY <1>1, <2>3, HeldParts
      <3>. QED  BY <3>1, <3>2, HeldBounded
    <2>4. Held' \subseteq Held \cup Cargo
      <3>. DEFINE S == Held \cup Cargo
      <3>1. Held \subseteq S /\ blob \subseteq S
        BY <1>1
      <3>. HIDE DEF S
      <3>2. Held' \subseteq S
        BY <2>3, <3>1
      <3>. QED  BY <3>2 DEF S
    <2>5. blob \subseteq Held => Held' \subseteq Held
      BY <2>3
    <2>6. Cargo' \subseteq Cargo
      <3>1. \A i \in Job : EditsOf(job'[i].taken) \subseteq Cargo
        BY <2>1, <2>2, HeldParts, EditsEmpty
      <3>. QED  BY <3>1, CargoBounded
    <2>7. Applies
      BY <2>1, <2>2 DEF Applies
    <2>8. \A b \in Baked : job'[b].at # "idle" => job[b].at # "idle"
      BY <1>0, <2>2 DEF Job
    <2>. QED  BY <2>4, <2>5, <2>6, <2>7, <2>8
  <1>2. CASE ApplySucceeds(j)
    <2>. DEFINE blob == job[j].base \cup EditsOf(job[j].taken)
    <2>1. /\ job' = [job EXCEPT ![j] = WithBlob(job[j].kind, blob)] /\ file' = blob
          /\ operations' = {} /\ mods' = {} /\ zone' = zone /\ made' = made
          /\ UNCHANGED <<session, stored, outbox>>
      BY <1>0, <1>2 DEF ApplySucceeds, drain, zoneVars, netVars
    <2>2. blob \subseteq Held \cup Cargo
      BY HeldParts
    <2>3. blob # NoFile
      <3>1. blob \in SUBSET Edit
        BY <1>0, EditsTyped DEF JobState
      <3>. QED  BY <3>1, FileStays
    <2>. HIDE DEF blob
    <2>4. Working' = blob
      BY <2>1, <2>3 DEF Working
    <2>5. /\ Held' \subseteq Held \cup Cargo /\ Cargo' \subseteq Cargo /\ Applies
          /\ \A b \in Baked : job'[b].at # "idle" => job[b].at # "idle"
      BY <1>1, <2>1, <2>2, <2>4
    <2>6. EditsOf(operations' \cup zone' \cup mods') \subseteq EditsOf(operations \cup zone \cup mods)
      BY <2>1, EditsMonotone
    <2>7. EditsOf(operations') \subseteq EditsOf(operations)
      BY <2>1, EditsEmpty
    <2>. QED  BY <2>1, <2>5, <2>6, <2>7 DEF Flow, OnlyMade, InFlight, Job
  <1>3. CASE ApplyFails(j)
    <2>. DEFINE blob == IF job[j].kind = "reread" THEN file ELSE job[j].base
    <2>1. /\ job' = [job EXCEPT ![j] = WithBlob(job[j].kind, blob)]
          /\ UNCHANGED <<operations, mods, zone, file, made, session, stored, outbox>>
      BY <1>0, <1>3 DEF ApplyFails, KeptOnFailure, zoneVars, netVars
    <2>2. blob \subseteq Held
      BY HeldParts DEF JobsShaped, Working
    <2>3. Working' = Working
      BY <2>1 DEF Working
    <2>. HIDE DEF blob
    <2>4. /\ Held' \subseteq Held /\ Cargo' \subseteq Cargo /\ Applies
          /\ \A b \in Baked : job'[b].at # "idle" => job[b].at # "idle"
      BY <1>1, <2>1, <2>2, <2>3
    <2>. QED  BY <2>1, <2>4 DEF Flow, OnlyMade, InFlight, Job
  <1>. QED  BY <1>2, <1>3 DEF ApplyEnds

LEMMA ContentFlow ==
    ASSUME OnlyMade, ContentMove
    PROVE  /\ \E q : Flow(q, {})
           /\ Held' = Held /\ Cargo' = Cargo
  <1>1. /\ UNCHANGED <<operations, file, session, stored, job, outbox>>
    BY DEF ContentMove, netVars
  <1>2. Held' = Held /\ Cargo' = Cargo
    BY <1>1 DEF Held, Cargo, Working
  <1>3. Applies
    BY <1>1 DEF Applies
  <1>4. EditsOf(operations' \cup zone' \cup mods') = EditsOf(operations) \cup EditsOf(zone' \cup mods')
    <2>1. operations' \cup zone' \cup mods' = operations \cup (zone' \cup mods')
      BY <1>1
    <2>. QED  BY <2>1, EditsUnion
  <1>5. EditsOf(operations \cup zone \cup mods) = EditsOf(operations) \cup EditsOf(zone \cup mods)
    <2>1. operations \cup zone \cup mods = operations \cup (zone \cup mods)
      OBVIOUS
    <2>. QED  BY <2>1, EditsUnion
  <1>6. CASE made' = made
    <2>1. Flow({}, {})
      BY <1>1, <1>2, <1>3, <1>4, <1>5, <1>6 DEF Flow, ContentMove, OnlyMade, InFlight, Job
    <2>. QED  BY <1>2, <2>1
  <1>7. ASSUME NEW c \in Content, c \notin made, made' = made \cup {c},
               EditsOf(zone' \cup mods') \subseteq EditsOf(zone \cup mods) \cup {c}
        PROVE  \E q : Flow(q, {})
    <2>1. \A b \in Baked : job'[b].at # "idle" => b \notin made'
      BY <1>1, <1>7, EditAssumption DEF OnlyMade, InFlight, Job
    <2>2. Flow({c}, {})
      BY <1>1, <1>2, <1>3, <1>4, <1>5, <1>7, <2>1 DEF Flow
    <2>. QED  BY <2>2
  <1>. QED  BY <1>2, <1>6, <1>7 DEF ContentMove

LEMMA NextFlow ==
    ASSUME TypeOK, JobsShaped, OnlyMade, [Next]_vars
    PROVE  \E q, h : Flow(q, h)
  <1>1. ASSUME NEW e \in Queued, NEW ops, EditMove(e, ops) PROVE \E q, h : Flow(q, h)
    BY <1>1, EditFlow
  <1>2. ASSUME NEW b \in Baked, NEW q, StartBake(b, q), BakeSlot(q) PROVE \E p, h : Flow(p, h)
    BY <1>2, BakeFlow
  <1>3. ASSUME NEW b \in Baked, adoptModifiedPdf(b) PROVE \E q, h : Flow(q, h)
    BY <1>3, AdoptFlow
  <1>. QED
    BY <1>1, <1>2, <1>3, Steps, ContentFlow, SaveFlow, EngineFailsFlow, ApplyFlow, UploadFlow,
       OtherFlow

LEMMA InitFlow == Init => OnlyMade /\ QueuedNowhere
  <1>. SUFFICES ASSUME Init PROVE OnlyMade /\ QueuedNowhere
    OBVIOUS
  <1>1. \A j \in Job : job[j] = Idle
    BY DEF Init
  <1>2. Held = {}
    BY <1>1, IdleFields DEF Init, Held, Working
  <1>3. Cargo = {}
    BY <1>1, IdleFields, EditsEmpty DEF Cargo
  <1>4. EditsOf(operations) = {} /\ EditsOf(operations \cup zone \cup mods) = {}
    BY EditsEmpty DEF Init
  <1>. QED  BY <1>1, <1>2, <1>3, <1>4, IdleFields DEF OnlyMade, QueuedNowhere, InFlight, Job

-----------------------------------------------------------------------------
(***************************************************************************)
(* Nothing is lost that is not exposed.                                    *)
(***************************************************************************)

\* What is covered is owed to nobody.
LEMMA CoveredCalm == Covered => Kept /\ \A j \in Job : SafeSlot(j)
  <1>. SUFFICES ASSUME Covered PROVE Kept /\ \A j \in Job : SafeSlot(j)
    OBVIOUS
  <1>1. Owed = {}
    BY DEF Covered, Owed
  <1>2. stored \subseteq exposed /\ \A j \in Job : job[j].base \subseteq exposed
    BY HeldParts DEF Covered
  <1>. QED  BY <1>1, <1>2 DEF Kept, SafeSlot

LEMMA ApartIsCalm == Safe /\ ~Overlapping => Calm
  BY CoveredCalm DEF Safe, Calm

LEMMA OverlapIsCovered == Safe /\ Overlapping => Covered
  BY DEF Safe, Calm

\* Everything made is exposed.
LEMMA ExposesAll ==
    ASSUME OnlyMade', made' \subseteq exposed'
    PROVE  Safe'
  BY DEF OnlyMade, Safe, Covered, Work

LEMMA CoveredStays ==
    ASSUME Covered, Work' \subseteq Work, Held' \subseteq Held \cup Cargo, Cargo' \subseteq Cargo,
           exposed \cap made \subseteq exposed', Held \cup Cargo \subseteq made
    PROVE  Safe'
  BY DEF Safe, Covered, Work

LEMMA NobodyBusy ==
    ASSUME ~Busy
    PROVE  /\ \A j \in Job : job[j].at = "idle"
           /\ load = "idle" /\ replay = "idle" /\ ~Overlapping
  <1>1. \A j \in Job : job[j].at = "idle"
    BY EditAssumption DEF Busy, BusyBut, Job
  <1>. QED  BY <1>1 DEF Busy, BusyBut, Overlapping, InFlight

\* One job is in flight alone.
LEMMA Alone ==
    ASSUME NEW j \in Job, InFlight(j), ~Overlapping
    PROVE  ~BusyBut(j)
  BY DEF Overlapping

LEMMA OneInFlight ==
    ASSUME NEW j \in Job, \A i \in Job \ {j} : job[i].at = "idle",
           load = "idle", replay = "idle"
    PROVE  ~Overlapping
  BY DEF Overlapping, BusyBut, InFlight

\* Jobs end, and nothing else is replaced.
Frame ==
    /\ \A j \in Job : job'[j] = job[j] \/ job'[j] = Idle
    /\ UNCHANGED <<operations, file, session, stored>>
    /\ load' \in {load, "idle"} /\ replay' \in {replay, "idle", "empty"}
    /\ Owed' \subseteq Owed
    /\ exposed \cap made \subseteq exposed'
    /\ ~dirty' => Owed \subseteq stored

LEMMA FrameKept ==
    ASSUME OnlyMade, Kept, \A j \in Job : SafeSlot(j), Frame
    PROVE  Kept' /\ \A j \in Job : SafeSlot(j)'
  <1>1. Working' = Working
    BY DEF Frame, Working
  <1>2. stored \subseteq made /\ \A j \in Job : job[j].base \subseteq made
    BY HeldParts DEF OnlyMade
  <1>3. Kept'
    BY <1>1, <1>2 DEF Kept, Frame
  <1>4. ASSUME NEW j \in Job PROVE SafeSlot(j)'
    <2>1. CASE job'[j] = job[j]
      BY <1>1, <1>2, <2>1 DEF SafeSlot, Frame, InFlight
    <2>2. CASE job'[j] = Idle
      BY <2>2, IdleFields DEF SafeSlot, InFlight
    <2>. QED  BY <2>1, <2>2 DEF Frame
  <1>. QED  BY <1>3, <1>4

LEMMA FrameApart ==
    ASSUME Frame, replay' \in {replay, "idle"}, ~Overlapping
    PROVE  ~Overlapping'
  <1>1. \A j \in Job : job'[j].at # "idle" => job[j].at # "idle"
    BY IdleFields DEF Frame
  <1>2. (load' # "idle" => load # "idle") /\ (replay' # "idle" => replay # "idle")
    BY DEF Frame
  <1>. QED  BY <1>1, <1>2 DEF Overlapping, BusyBut, InFlight

\* A save that starts while nothing else is in flight.
LEMMA SaveSlotSafe ==
    ASSUME SaveStep(file', operations'), Starts, mods' = mods, session' = session,
           stored' \subseteq Working' \cup exposed',
           Work' \ (exposed' \cup skipped) \subseteq
               EditsOf(operations') \cup (IF file' = NoFile THEN {} ELSE file')
    PROVE  SafeSlot(Saver)'
  <1>1. CASE file' = NoFile
    <2>1. job'[Saver] = WithBlob("save", session) /\ skipped' = skipped \cup EditsOf(operations')
      BY <1>1 DEF SaveStep
    <2>2. job'[Saver].at = "upload" /\ job'[Saver].base = session
      BY <2>1, BlobFields
    <2>3. Owed' = {}
      BY <1>1, <2>1 DEF Owed
    <2>4. Working' = session
      BY <1>1 DEF Working
    <2>. QED  BY <2>2, <2>3, <2>4 DEF SafeSlot, InFlight
  <1>2. CASE file' # NoFile
    <2>1. Prepared(job'[Saver], "save", file', operations') /\ skipped' = skipped
      BY <1>2 DEF SaveStep
    <2>2. Working' = file' /\ job'[Saver].base = file'
      BY <1>2, <2>1 DEF Working, Prepared
    <2>3. Owed' \subseteq EditsOf(operations') \cup file'
      BY <1>2, <2>1 DEF Owed
    <2>4. CASE operations' \cup mods = {} /\ job'[Saver] = WithBlob("save", file')
      <3>1. EditsOf(operations') = {}
        BY <2>4, EditsEmpty
      <3>2. job'[Saver].at = "upload"
        BY <2>4, BlobFields
      <3>. QED  BY <2>2, <2>3, <3>1, <3>2 DEF SafeSlot, InFlight
    <2>5. CASE job'[Saver].at = "apply" /\ job'[Saver].taken = operations' \cup mods
      <3>1. EditsOf(operations') \subseteq EditsOf(job'[Saver].taken)
        BY <2>5, EditsMonotone
      <3>. QED  BY <2>2, <2>3, <2>5, <3>1 DEF SafeSlot, InFlight
    <2>. QED  BY <2>1, <2>4, <2>5 DEF Prepared
  <1>. QED  BY <1>1, <1>2

\* A step that replaces the store or the working binary while nothing else is in
\* flight, and then starts a save or none.
LEMMA SavedAlone ==
    ASSUME job[Saver].at = "idle",
           \/ job'[Saver] = job[Saver] /\ skipped' = skipped
           \/ SaveStep(file', operations'),
           \A j \in Job \ {Saver} : job'[j].at = "idle",
           load' = "idle", replay' = "idle", mods' = mods, session' = session,
           stored' \subseteq Working' \cup exposed',
           Work' \ (exposed' \cup skipped) \subseteq
               EditsOf(operations') \cup (IF file' = NoFile THEN {} ELSE file'),
           ~dirty' => Work' \ (exposed' \cup skipped) \subseteq stored'
    PROVE  Safe'
  <1>1. Saver \in Job /\ skipped \subseteq skipped'
    BY DEF Job, SaveStep
  <1>2. Owed' \subseteq Work' \ (exposed' \cup skipped)
    BY <1>1 DEF Owed
  <1>3. Kept'
    BY <1>2 DEF Kept
  <1>4. ~Overlapping'
    BY <1>1 DEF Overlapping, BusyBut, InFlight
  <1>5. SafeSlot(Saver)'
    <2>1. CASE SaveStep(file', operations') /\ Starts
      BY <2>1, SaveSlotSafe
    <2>2. CASE job'[Saver] = job[Saver]
      BY <2>2 DEF SafeSlot, InFlight
    <2>. QED  BY <2>1, <2>2 DEF SaveStep
  <1>6. \A j \in Job : SafeSlot(j)'
    <2>1. ASSUME NEW j \in Job \ {Saver} PROVE SafeSlot(j)'
      BY DEF SafeSlot, InFlight
    <2>. QED  BY <1>5, <2>1
  <1>. QED  BY <1>3, <1>4, <1>6 DEF Safe, Calm


LEMMA EditSafe ==
    ASSUME TypeOK, OnlyMade', Safe, NEW e \in Queued, NEW ops, EditMove(e, ops)
    PROVE  Safe'
  <1>0. job \in [Job -> JobState] /\ Saver \in Job
    BY JobTyped DEF Job
  <1>1. CASE Busy
    <2>1. made' \subseteq exposed'
      BY <1>1 DEF EditMove, Expose
    <2>. QED  BY <2>1, ExposesAll
  <1>2. CASE ~Busy
    <2>1. /\ \A j \in Job : job[j].at = "idle"
          /\ load = "idle" /\ replay = "idle" /\ ~Overlapping
      BY <1>2, NobodyBusy
    <2>2. Kept
      BY <2>1, ApartIsCalm DEF Calm
    <2>3. /\ UNCHANGED <<mods, file, session, stored, load, replay, exposed>> /\ dirty'
          /\ Working' = Working /\ made' = made \cup {e} /\ operations' = ops
          /\ EditsOf(ops) = EditsOf(operations) \cup {e}
      BY <1>2 DEF EditMove, Expose, Working, Queues
    <2>4. \/ job' = job /\ skipped' = skipped
          \/ SaveStep(file, ops) /\ \A i \in Job \ {Saver} : job'[i] = job[i]
      BY <1>0, SaveSteps DEF EditMove
    <2>5. Work' \ (exposed' \cup skipped) \subseteq
              EditsOf(operations') \cup (IF file' = NoFile THEN {} ELSE file')
      BY <2>2, <2>3 DEF Kept, Owed, Work
    <2>6. stored' \subseteq Working' \cup exposed'
      BY <2>2, <2>3 DEF Kept
    <2>7. /\ job[Saver].at = "idle"
          /\ \/ job'[Saver] = job[Saver] /\ skipped' = skipped
             \/ SaveStep(file', operations')
          /\ \A j \in Job \ {Saver} : job'[j].at = "idle"
      BY <1>0, <2>1, <2>3, <2>4
    <2>. QED  BY <2>1, <2>3, <2>5, <2>6, <2>7, SavedAlone
  <1>. QED  BY <1>1, <1>2

LEMMA SaveSafe ==
    ASSUME TypeOK, OnlyMade, OnlyMade', Safe, SaveMove
    PROVE  Safe'
  <1>0. job \in [Job -> JobState] /\ Saver \in Job
    BY JobTyped DEF Job
  <1>1. SaveStep(file, operations) /\ \A i \in Job \ {Saver} : job'[i] = job[i]
    BY <1>0, SaveSteps DEF SaveMove, save
  <1>2. /\ UNCHANGED <<operations, mods, file, session, stored, load, replay, made>>
        /\ Working' = Working /\ Work' = Work
        /\ Expose(Starts /\ Busy, {}) /\ (~dirty' => ~dirty)
    <2>1. /\ UNCHANGED <<operations, mods, file, session, stored, load, replay, made>>
          /\ Expose(Starts /\ Busy, {})
      BY DEF SaveMove, save
    <2>2. ~dirty' => ~dirty
      BY Zenon DEF SaveMove
    <2>3. Working' = Working /\ Work' = Work
      BY <2>1 DEF Working, Work
    <2>. QED  BY <2>1, <2>2, <2>3
  <1>3. CASE Starts /\ Busy
    <2>1. made' \subseteq exposed'
      BY <1>2, <1>3 DEF Expose
    <2>. QED  BY <2>1, ExposesAll
  <1>4. CASE Starts /\ ~Busy
    <2>1. /\ \A j \in Job : job[j].at = "idle"
          /\ load = "idle" /\ replay = "idle" /\ ~Overlapping
      BY <1>4, NobodyBusy
    <2>2. Kept /\ exposed' = exposed
      BY <1>2, <1>4, <2>1, ApartIsCalm DEF Calm, Expose
    <2>3. Work' \ (exposed' \cup skipped) = Owed
      BY <1>2, <2>2 DEF Owed
    <2>4. /\ job[Saver].at = "idle" /\ SaveStep(file', operations')
          /\ \A j \in Job \ {Saver} : job'[j].at = "idle"
      BY <1>0, <1>1, <1>2, <2>1
    <2>5. /\ load' = "idle" /\ replay' = "idle" /\ mods' = mods /\ session' = session
          /\ stored' \subseteq Working' \cup exposed'
          /\ Work' \ (exposed' \cup skipped) \subseteq
                 EditsOf(operations') \cup (IF file' = NoFile THEN {} ELSE file')
          /\ ~dirty' => Work' \ (exposed' \cup skipped) \subseteq stored'
      BY <1>2, <2>1, <2>2, <2>3 DEF Kept
    <2>. QED  BY <2>4, <2>5, SavedAlone
  <1>5. CASE ~Starts
    <2>1. /\ \A j \in Job : job'[j] = job[j]
          /\ skipped' = skipped /\ exposed' = exposed
      BY <1>1, <1>2, <1>5 DEF SaveStep, Expose
    <2>2. CASE Overlapping
      <3>1. Held' \subseteq Held
        <4>1. \A s \in outbox' : s \subseteq Held
          BY <1>1, HeldParts DEF SaveStep
        <4>2. \A j \in Job : job'[j].base \subseteq Held
          BY <2>1, HeldParts
        <4>. QED  BY <1>2, <4>1, <4>2, HeldParts, HeldBounded
      <3>2. Cargo' \subseteq Cargo
        BY <2>1, HeldParts, CargoBounded
      <3>. QED  BY <1>2, <2>1, <2>2, <3>1, <3>2, OverlapIsCovered, CoveredStays DEF OnlyMade
    <2>3. CASE ~Overlapping
      <3>1. Kept /\ \A j \in Job : SafeSlot(j)
        BY <2>3, ApartIsCalm DEF Calm
      <3>2. Frame
        BY <1>2, <2>1, <3>1 DEF Frame, Owed, Kept
      <3>. QED  BY <1>2, <2>3, <3>1, <3>2, FrameKept, FrameApart DEF Safe, Calm
    <2>. QED  BY <2>2, <2>3
  <1>. QED  BY <1>3, <1>4, <1>5

LEMMA BakeSafe ==
    ASSUME TypeOK, OnlyMade', Safe, NEW b \in Baked, NEW q, StartBake(b, q), BakeSlot(q),
           dirty' \in {dirty, TRUE}
    PROVE  Safe'
  <1>0. job \in [Job -> JobState] /\ b \in Job
    BY JobTyped DEF Job
  <1>1. /\ job' = [job EXCEPT ![b] = q] /\ file # NoFile
        /\ UNCHANGED <<operations, mods, file, session, stored, load, replay, made, skipped>>
        /\ Expose(Busy, {b}) /\ (~dirty' => ~dirty)
    <2>1. ~dirty' => ~dirty
      BY Zenon
    <2>. QED  BY <2>1 DEF StartBake, netVars
  <1>2. CASE Busy
    <2>1. made' \subseteq exposed'
      BY <1>1, <1>2 DEF Expose
    <2>. QED  BY <2>1, ExposesAll
  <1>3. CASE ~Busy
    <2>1. /\ \A j \in Job : job[j].at = "idle"
          /\ load = "idle" /\ replay = "idle" /\ ~Overlapping
      BY <1>3, NobodyBusy
    <2>2. Kept /\ exposed' = exposed
      BY <1>1, <1>3, <2>1, ApartIsCalm DEF Calm, Expose
    <2>3. Owed' = Owed /\ Working' = file /\ Working = file
      BY <1>1, <2>2 DEF Owed, Work, Working
    <2>4. \A j \in Job : job'[j] = IF j = b THEN q ELSE job[j]
      BY <1>0, <1>1
    <2>5. /\ q.base = file /\ q.at # "upload"
          /\ q.at = "apply" => q.taken = operations \cup mods
      <3>1. CASE q = WithBlob("bake", file)
        BY <3>1, BlobFields
      <3>2. ASSUME NEW kind \in {"bake", "reread", "table"}, Prepared(q, kind, file, operations)
            PROVE  /\ q.base = file /\ q.at # "upload"
                   /\ q.at = "apply" => q.taken = operations \cup mods
        BY <3>2, BlobFields DEF Prepared
      <3>. QED  BY <3>1, <3>2 DEF BakeSlot
    <2>6. Owed \subseteq file \cup EditsOf(operations)
      BY <1>1, <2>2 DEF Kept
    <2>7. EditsOf(operations) \subseteq EditsOf(operations \cup mods)
      BY EditsMonotone
    <2>8. SafeSlot(b)'
      BY <1>0, <1>1, <2>2, <2>3, <2>4, <2>5, <2>6, <2>7 DEF SafeSlot, Kept
    <2>9. \A j \in Job \ {b} : SafeSlot(j)' /\ job'[j].at = "idle"
      BY <2>1, <2>4 DEF SafeSlot, InFlight
    <2>10. ~Overlapping'
      BY <1>0, <1>1, <2>1, <2>9 DEF Overlapping, BusyBut, InFlight
    <2>11. Kept'
      BY <1>1, <2>2, <2>3 DEF Kept
    <2>. QED  BY <2>8, <2>9, <2>10, <2>11 DEF Safe, Calm
  <1>. QED  BY <1>2, <1>3

LEMMA AdoptSafe ==
    ASSUME TypeOK, OnlyMade', Safe, NEW b \in Baked, adoptModifiedPdf(b)
    PROVE  Safe'
  <1>. DEFINE blob == job[b].base \cup {b}
              others == [job EXCEPT ![b] = Idle]
  <1>0. job \in [Job -> JobState] /\ b \in Job /\ b # Saver /\ Saver \in Job
    BY JobTyped, EditAssumption DEF Job
  <1>1. /\ performSave(others, blob, operations) /\ file' = blob /\ made' = made \cup {b}
        /\ UNCHANGED <<operations, mods, session, stored, load, replay>>
        /\ job[b].at = "engine" /\ Expose(BusyBut(b), {b}) /\ dirty'
    BY DEF adoptModifiedPdf
  <1>2. blob # NoFile
    <2>1. blob \in SUBSET Edit
      BY <1>0 DEF JobState, Edit
    <2>. QED  BY <2>1, FileStays
  <1>3. CASE BusyBut(b)
    <2>1. made' \subseteq exposed'
      BY <1>1, <1>3 DEF Expose
    <2>. QED  BY <2>1, ExposesAll
  <1>4. CASE ~BusyBut(b)
    <2>1. /\ \A j \in Job \ {b} : job[j].at = "idle"
          /\ load = "idle" /\ replay = "idle" /\ ~Overlapping
      <3>1. \A j \in Job \ {b} : job[j].at = "idle"
        BY <1>4 DEF BusyBut
      <3>2. load = "idle" /\ replay = "idle"
        BY <1>4 DEF BusyBut
      <3>. QED  BY <1>0, <3>1, <3>2, OneInFlight
    <2>2. Kept /\ SafeSlot(b) /\ exposed' = exposed
      BY <1>0, <1>1, <1>4, <2>1, ApartIsCalm DEF Calm, Expose
    <2>3. /\ Owed \subseteq job[b].base \cup EditsOf(operations)
          /\ stored \subseteq job[b].base \cup exposed
      BY <1>1, <2>2 DEF SafeSlot, InFlight
    <2>4. /\ others \in [Job -> JobState] /\ others[Saver] = job[Saver] /\ others[b] = Idle
          /\ \A i \in Job \ {b} : others[i] = job[i]
      BY <1>0, IdleFields DEF Job
    <2>5. Owed \subseteq blob \cup EditsOf(operations) /\ stored \subseteq blob \cup exposed
          /\ b \in blob
      BY <2>3
    <2>. HIDE DEF blob, others
    <2>6. SaveStep(blob, operations) /\ \A i \in Job \ {Saver} : job'[i] = others[i]
      BY <1>1, <2>4, SaveSteps
    <2>7. \A j \in Job \ {Saver} : job'[j].at = "idle"
      BY <2>1, <2>4, <2>6, IdleFields
    <2>8. Working' = blob
      BY <1>1, <1>2 DEF Working
    <2>9. Work' \ (exposed' \cup skipped) \subseteq
              EditsOf(operations') \cup (IF file' = NoFile THEN {} ELSE file')
      BY <1>1, <1>2, <2>2, <2>5 DEF Owed, Work
    <2>. QED  BY <1>0, <1>1, <2>1, <2>2, <2>5, <2>6, <2>7, <2>8, <2>9, SavedAlone
  <1>. QED  BY <1>3, <1>4


\* What a job that is in flight alone finds.
LEMMA CalmAlone ==
    ASSUME Safe, ~Overlapping, NEW j \in Job, InFlight(j)
    PROVE  /\ \A i \in Job \ {j} : job[i].at = "idle"
           /\ load = "idle" /\ replay = "idle"
           /\ Kept /\ SafeSlot(j)
  <1>1. ~BusyBut(j)
    BY Alone
  <1>2. \A i \in Job \ {j} : job[i].at = "idle"
    BY <1>1 DEF BusyBut
  <1>3. load = "idle" /\ replay = "idle"
    BY <1>1 DEF BusyBut
  <1>. QED  BY <1>2, <1>3, ApartIsCalm DEF Calm

\* A job alone in flight that goes on to a slot.
LEMMA GoesOn ==
    ASSUME NEW j \in Job, \A i \in Job \ {j} : job'[i] = job[i] /\ job[i].at = "idle",
           load' = "idle", replay' = "idle", Kept', SafeSlot(j)'
    PROVE  Safe'
  <1>1. \A i \in Job \ {j} : SafeSlot(i)'
    BY DEF SafeSlot, InFlight
  <1>2. ~Overlapping'
    BY DEF Overlapping, BusyBut, InFlight
  <1>. QED  BY <1>1, <1>2 DEF Safe, Calm

LEMMA ApplySucceedsSafe ==
    ASSUME TypeOK, JobsShaped, OnlyMade, Safe, NEW j \in Job, ApplySucceeds(j)
    PROVE  Safe'
  <1>. DEFINE blob == job[j].base \cup EditsOf(job[j].taken)
  <1>0. job \in [Job -> JobState] /\ job[j].at = "apply"
    BY JobTyped DEF ApplySucceeds
  <1>1. /\ job' = [job EXCEPT ![j] = WithBlob(job[j].kind, blob)] /\ file' = blob
        /\ UNCHANGED <<session, stored, load, replay, dirty, made, exposed, skipped>>
    BY <1>0 DEF ApplySucceeds, saveVars, netVars
  <1>2. blob # NoFile
    <2>1. blob \in SUBSET Edit
      BY <1>0, EditsTyped DEF JobState
    <2>. QED  BY <2>1, FileStays
  <1>3. Work' = Work /\ Owed' = Owed
    BY <1>1 DEF Owed, Work
  <1>4. CASE Overlapping
    <2>1. Held' \subseteq Held \cup Cargo /\ Cargo' \subseteq Cargo
      BY ApplyFlow DEF ApplyEnds
    <2>. HIDE DEF blob
    <2>. QED  BY <1>1, <1>3, <1>4, <2>1, OverlapIsCovered, CoveredStays DEF OnlyMade
  <1>5. CASE ~Overlapping
    <2>1. /\ \A i \in Job \ {j} : job[i].at = "idle"
          /\ load = "idle" /\ replay = "idle"
          /\ Kept /\ SafeSlot(j)
      BY <1>0, <1>5, CalmAlone DEF InFlight
    <2>2. Owed \subseteq blob /\ stored \subseteq blob \cup exposed
      BY <1>0, <2>1 DEF SafeSlot, InFlight
    <2>. HIDE DEF blob
    <2>3. \A i \in Job : job'[i] = IF i = j THEN WithBlob(job[j].kind, blob) ELSE job[i]
      BY <1>0, <1>1
    <2>4. Working' = blob
      BY <1>1, <1>2 DEF Working
    <2>5. Kept'
      BY <1>1, <1>2, <1>3, <2>1, <2>2, <2>4 DEF Kept
    <2>6. job'[j].base = blob /\ job'[j].at # "apply"
      BY <2>3, BlobFields
    <2>7. SafeSlot(j)'
      BY <1>1, <1>3, <2>2, <2>4, <2>6 DEF SafeSlot
    <2>. QED  BY <1>1, <2>1, <2>3, <2>5, <2>7, GoesOn
  <1>. QED  BY <1>4, <1>5

LEMMA ApplyFailsSafe ==
    ASSUME TypeOK, JobsShaped, OnlyMade, Safe, NEW j \in Job, ApplyFails(j)
    PROVE  Safe'
  <1>. DEFINE blob == IF job[j].kind = "reread" THEN file ELSE job[j].base
  <1>0. job \in [Job -> JobState] /\ job[j].at = "apply"
    BY JobTyped DEF ApplyFails
  <1>1. /\ job' = [job EXCEPT ![j] = WithBlob(job[j].kind, blob)]
        /\ UNCHANGED <<operations, file, session, stored, load, replay, dirty, made, exposed>>
        /\ skipped' = IF j = Saver THEN skipped \cup EditsOf(operations) ELSE skipped
    BY <1>0 DEF ApplyFails, saveVars, netVars, KeptOnFailure
  <1>2. Work' = Work /\ Owed' \subseteq Owed /\ Working' = Working
    BY <1>1 DEF Owed, Work, Working
  <1>3. j = Saver => Owed' \cap EditsOf(operations) = {}
    BY <1>1 DEF Owed
  <1>4. CASE Overlapping
    <2>1. Held' \subseteq Held \cup Cargo /\ Cargo' \subseteq Cargo
      BY ApplyFlow DEF ApplyEnds
    <2>. HIDE DEF blob
    <2>. QED  BY <1>1, <1>2, <1>4, <2>1, OverlapIsCovered, CoveredStays DEF OnlyMade
  <1>5. CASE ~Overlapping
    <2>1. /\ \A i \in Job \ {j} : job[i].at = "idle"
          /\ load = "idle" /\ replay = "idle"
          /\ Kept /\ SafeSlot(j)
      BY <1>0, <1>5, CalmAlone DEF InFlight
    <2>2. /\ Owed \subseteq blob \cup EditsOf(operations)
          /\ stored \subseteq blob \cup exposed
          /\ blob \subseteq Working \cup exposed
      <3>1. CASE job[j].kind = "reread"
        <4>1. file # NoFile
          BY <3>1 DEF JobsShaped
        <4>. QED  BY <2>1, <3>1, <4>1 DEF Kept, Working
      <3>2. CASE job[j].kind # "reread"
        BY <1>0, <2>1, <3>2 DEF SafeSlot, InFlight
      <3>. QED  BY <3>1, <3>2
    <2>. HIDE DEF blob
    <2>3. \A i \in Job : job'[i] = IF i = j THEN WithBlob(job[j].kind, blob) ELSE job[i]
      BY <1>0, <1>1
    <2>4. Kept'
      BY <1>1, <1>2, <2>1 DEF Kept
    <2>5. job'[j].base = blob /\ job'[j].at # "apply"
      BY <2>3, BlobFields
    <2>6. job'[j].at = "upload" => j = Saver
      <3>1. KindOf(j, job[j].kind)
        BY <1>0 DEF JobsShaped, InFlight, KindOf
      <3>. QED  BY <2>3, <3>1, BlobFields DEF KindOf
    <2>7. job'[j].at = "upload" => Owed' \subseteq blob
      BY <1>2, <1>3, <2>2, <2>6
    <2>8. SafeSlot(j)'
      BY <1>1, <1>2, <2>2, <2>5, <2>7 DEF SafeSlot
    <2>. QED  BY <1>1, <2>1, <2>3, <2>4, <2>8, GoesOn
  <1>. QED  BY <1>4, <1>5

LEMMA UploadSafe ==
    ASSUME TypeOK, OnlyMade, Safe, UploadEnds
    PROVE  Safe'
  <1>0. job \in [Job -> JobState] /\ Saver \in Job
    BY JobTyped DEF Job
  <1>1. /\ job[Saver].at = "upload" /\ job' = [job EXCEPT ![Saver] = Idle]
        /\ UNCHANGED <<operations, file, session, load, replay, made, exposed, skipped>>
        /\ \/ stored' = job[Saver].base
           \/ stored' = stored /\ dirty' = dirty
    BY DEF UploadEnds, UploadSucceeds, UploadFails, saveVars, netVars
  <1>2. Work' = Work /\ Owed' = Owed /\ Working' = Working
    BY <1>1 DEF Owed, Work, Working
  <1>3. CASE Overlapping
    <2>1. Held' \subseteq Held \cup Cargo /\ Cargo' \subseteq Cargo
      BY UploadFlow
    <2>. QED  BY <1>1, <1>2, <1>3, <2>1, OverlapIsCovered, CoveredStays DEF OnlyMade
  <1>4. CASE ~Overlapping
    <2>1. /\ \A i \in Job \ {Saver} : job[i].at = "idle"
          /\ load = "idle" /\ replay = "idle"
          /\ Kept /\ SafeSlot(Saver)
      BY <1>0, <1>1, <1>4, CalmAlone DEF InFlight
    <2>2. Owed \subseteq job[Saver].base /\ job[Saver].base \subseteq Working \cup exposed
      BY <1>1, <2>1 DEF SafeSlot, InFlight
    <2>3. \A i \in Job : job'[i] = IF i = Saver THEN Idle ELSE job[i]
      BY <1>0, <1>1
    <2>4. Kept'
      BY <1>1, <1>2, <2>1, <2>2 DEF Kept
    <2>5. SafeSlot(Saver)'
      BY <1>0, <2>3, IdleFields DEF SafeSlot, InFlight
    <2>. QED  BY <1>0, <1>1, <2>1, <2>3, <2>4, <2>5, GoesOn
  <1>. QED  BY <1>3, <1>4

\* A step that only ends jobs.
LEMMA EndSafe ==
    ASSUME OnlyMade, Safe, ~Overlapping => ~Overlapping', Work' \subseteq Work,
           Held' \subseteq Held, Cargo' \subseteq Cargo, exposed \cap made \subseteq exposed',
           Calm => Frame
    PROVE  Safe'
  <1>1. CASE Overlapping
    BY <1>1, OverlapIsCovered, CoveredStays DEF OnlyMade
  <1>2. CASE ~Overlapping
    BY <1>2, ApartIsCalm, FrameKept DEF Safe, Calm
  <1>. QED  BY <1>1, <1>2

LEMMA EngineFailsSafe ==
    ASSUME TypeOK, OnlyMade, Safe, NEW b \in Baked, EngineFails(b)
    PROVE  Safe'
  <1>0. job \in [Job -> JobState] /\ b \in Job
    BY JobTyped DEF Job
  <1>1. /\ job' = [job EXCEPT ![b] = Idle] /\ job[b].at = "engine" /\ exposed' = exposed \ {b}
        /\ UNCHANGED <<operations, file, session, stored, load, replay, dirty, made, skipped>>
    BY DEF EngineFails, saveVars, netVars
  <1>2. \A j \in Job : job'[j] = job[j] \/ job'[j] = Idle
    BY <1>0, <1>1
  <1>3. b \notin made
    BY <1>1 DEF OnlyMade, InFlight
  <1>4. Work' = Work /\ Owed' = Owed
    BY <1>1, <1>3 DEF Owed, Work
  <1>5. Calm => Frame
    BY <1>1, <1>2, <1>3, <1>4 DEF Frame, Calm, Kept
  <1>6. ~Overlapping => ~Overlapping'
    BY <1>1, <1>2, IdleFields DEF Overlapping, BusyBut, InFlight
  <1>7. Held' \subseteq Held /\ Cargo' \subseteq Cargo
    BY EngineFailsFlow
  <1>. QED  BY <1>1, <1>3, <1>4, <1>5, <1>6, <1>7, EndSafe

LEMMA ContentSafe ==
    ASSUME TypeOK, OnlyMade, Safe, ContentMove
    PROVE  Safe'
  <1>1. /\ UNCHANGED <<operations, file, session, stored, job, load, replay, dirty, exposed,
                       skipped>>
    BY DEF ContentMove, saveVars, netVars
  <1>2. Work' = Work
    BY EditAssumption DEF ContentMove, Work
  <1>3. Owed' = Owed
    BY <1>1, <1>2 DEF Owed
  <1>4. Calm => Frame
    BY <1>1, <1>3 DEF Frame, Calm, Kept
  <1>5. ~Overlapping => ~Overlapping'
    BY <1>1 DEF Overlapping, BusyBut, InFlight
  <1>6. Held' \subseteq Held /\ Cargo' \subseteq Cargo
    BY ContentFlow
  <1>. QED  BY <1>1, <1>2, <1>4, <1>5, <1>6, EndSafe


\* A step that replaces nothing.
LEMMA StillSafe ==
    ASSUME OnlyMade, Safe, load' \in {load, "idle"}, replay' \in {replay, "idle"},
           UNCHANGED <<operations, file, session, stored, job, made, exposed, skipped>>,
           Kept /\ ~dirty' => Owed \subseteq stored,
           Held' \subseteq Held, Cargo' \subseteq Cargo
    PROVE  Safe'
  <1>1. Work' = Work
    BY DEF Work
  <1>2. Owed' = Owed
    BY <1>1 DEF Owed
  <1>3. Calm => Frame
    BY <1>2 DEF Frame, Calm
  <1>4. ~Overlapping => ~Overlapping'
    BY DEF Overlapping, BusyBut, InFlight
  <1>. QED  BY <1>1, <1>3, <1>4, EndSafe

LEMMA LoadSafe ==
    ASSUME TypeOK, OnlyMade, Safe, LoadEnds, Held' \subseteq Held, Cargo' \subseteq Cargo
    PROVE  Safe'
  <1>1. /\ UNCHANGED <<operations, stored, job, replay, dirty, made, exposed, skipped>>
        /\ load # "idle"
        /\ \/ UNCHANGED <<file, session>> /\ load' = "idle"
           \/ load = "open" /\ file' = stored /\ session' = stored /\ load' = "idle"
           \/ load = "open" /\ file' = file /\ session' = stored /\ load' = "fetch"
           \/ load = "fetch" /\ file' = session /\ session' = session /\ load' = "idle"
    <2>. USE DEF zoneVars, saveVars, peerVars, netVars
    <2>1. ASSUME NEW fl \in BOOLEAN, loadDocument(fl)
          PROVE  /\ UNCHANGED <<operations, stored, job, replay, dirty, made, exposed, skipped>>
                 /\ load # "idle"
                 /\ \/ load = "open" /\ file' = stored /\ session' = stored /\ load' = "idle"
                    \/ load = "open" /\ file' = file /\ session' = stored /\ load' = "fetch"
      BY <2>1 DEF loadDocument, Loaded
    <2>2. CASE loadPdfBinary
      BY <2>2 DEF loadPdfBinary, Loaded
    <2>3. CASE LoadFails
      BY <2>3 DEF LoadFails, Loaded
    <2>. QED  BY <2>1, <2>2, <2>3 DEF LoadEnds
  <1>2. Work' = Work /\ Owed' = Owed
    BY <1>1 DEF Owed, Work
  <1>3. CASE Overlapping
    BY <1>1, <1>2, <1>3, OverlapIsCovered, CoveredStays DEF OnlyMade
  <1>4. CASE ~Overlapping
    <2>1. Kept /\ \A j \in Job : job[j].at = "idle"
      <3>1. \A j \in Job : ~InFlight(j)
        BY <1>1, <1>4 DEF Overlapping, BusyBut
      <3>. QED  BY <1>4, <3>1, ApartIsCalm DEF Calm, InFlight
    <2>2. replay = "idle"
      BY <1>1, <1>4 DEF Overlapping
    <2>3. ~Overlapping' /\ \A j \in Job : SafeSlot(j)'
      BY <1>1, <2>1, <2>2 DEF Overlapping, InFlight, SafeSlot
    <2>4. stored # NoFile /\ session # NoFile
      BY FileStays DEF TypeOK
    <2>5. stored' \subseteq Working' \cup exposed'
      BY <1>1, <2>1, <2>4 DEF Kept, Working
    <2>6. Owed' \subseteq EditsOf(operations') \cup (IF file' = NoFile THEN {} ELSE file')
      BY <1>1, <1>2, <2>1, <2>4 DEF Kept
    <2>7. Kept'
      BY <1>1, <1>2, <2>1, <2>5, <2>6 DEF Kept
    <2>. QED  BY <2>3, <2>7 DEF Safe, Calm
  <1>. QED  BY <1>3, <1>4

LEMMA ReloadSafe ==
    ASSUME OnlyMade', Safe, NEW discards \in BOOLEAN, reload(discards), discards \/ ~dirty
    PROVE  Safe'
  <1>1. /\ UNCHANGED <<operations, file, session, stored, job, replay, dirty, made, skipped>>
        /\ load' = "open" /\ Expose(discards \/ Busy, {})
    BY DEF reload, saveVars, netVars
  <1>2. CASE discards \/ Busy
    <2>1. made' \subseteq exposed'
      BY <1>1, <1>2 DEF Expose
    <2>. QED  BY <2>1, ExposesAll
  <1>3. CASE ~discards /\ ~Busy
    <2>1. /\ \A j \in Job : job[j].at = "idle"
          /\ load = "idle" /\ replay = "idle" /\ ~Overlapping
      BY <1>3, NobodyBusy
    <2>2. Kept /\ exposed' = exposed
      BY <1>1, <1>3, <2>1, ApartIsCalm DEF Calm, Expose
    <2>3. Owed' = Owed /\ Working' = Working
      BY <1>1, <2>2 DEF Owed, Work, Working
    <2>4. Owed \subseteq stored
      BY <1>3, <2>2 DEF Kept
    <2>5. Kept'
      BY <1>1, <2>1, <2>2, <2>3, <2>4 DEF Kept
    <2>6. ~Overlapping' /\ \A j \in Job : SafeSlot(j)'
      BY <1>1, <2>1 DEF Overlapping, InFlight, SafeSlot
    <2>. QED  BY <2>5, <2>6 DEF Safe, Calm
  <1>. QED  BY <1>2, <1>3

LEMMA OnlineSafe ==
    ASSUME OnlyMade, OnlyMade', Safe, handleOnline, Held' \subseteq Held, Cargo' \subseteq Cargo
    PROVE  Safe'
  <1>1. /\ UNCHANGED <<operations, file, session, stored, job, load, dirty, made, skipped>>
        /\ Expose(outbox # {} /\ Busy, {})
        /\ replay' = IF outbox # {} /\ replay = "idle" THEN "empty" ELSE replay
    BY DEF handleOnline, NetChange
  <1>2. CASE outbox # {} /\ Busy
    <2>1. made' \subseteq exposed'
      BY <1>1, <1>2 DEF Expose
    <2>. QED  BY <2>1, ExposesAll
  <1>3. CASE outbox = {}
    <2>1. replay' = replay /\ exposed' = exposed
      BY <1>1, <1>3 DEF Expose
    <2>2. Kept /\ ~dirty' => Owed \subseteq stored
      BY <1>1 DEF Kept
    <2>. QED  BY <1>1, <2>1, <2>2, StillSafe
  <1>4. CASE outbox # {} /\ ~Busy
    <2>1. /\ \A j \in Job : job[j].at = "idle"
          /\ load = "idle" /\ replay = "idle" /\ ~Overlapping
      BY <1>4, NobodyBusy
    <2>2. Kept /\ exposed' = exposed
      BY <1>1, <1>4, <2>1, ApartIsCalm DEF Calm, Expose
    <2>3. Owed' = Owed /\ Working' = Working
      BY <1>1, <2>2 DEF Owed, Work, Working
    <2>4. Kept'
      BY <1>1, <2>1, <2>2, <2>3 DEF Kept
    <2>5. ~Overlapping' /\ \A j \in Job : SafeSlot(j)'
      BY <1>1, <2>1 DEF Overlapping, InFlight, SafeSlot
    <2>. QED  BY <2>4, <2>5 DEF Safe, Calm
  <1>. QED  BY <1>2, <1>3, <1>4

LEMMA OtherSafe ==
    ASSUME TypeOK, OnlyMade, OnlyMade', Safe,
           \/ BackendEnds \/ FlushEnds \/ LoadEnds \/ handleDocumentBinaryUpdate
           \/ ReloadTimerFires \/ performRemoteReload \/ handleOffline
           \/ handleOnline \/ ReplayEnds \/ UNCHANGED vars
    PROVE  Safe'
  <1>0. Held' \subseteq Held /\ Cargo' \subseteq Cargo
    BY OtherFlow
  <1>1. ASSUME UNCHANGED <<operations, file, session, stored, job, load, replay, dirty, made,
                           exposed, skipped>>
        PROVE  Safe'
    <2>1. Kept /\ ~dirty' => Owed \subseteq stored
      BY <1>1 DEF Kept
    <2>. QED  BY <1>0, <1>1, <2>1, StillSafe
  <1>2. CASE \/ BackendEnds \/ FlushEnds \/ handleDocumentBinaryUpdate \/ handleOffline
             \/ UNCHANGED vars
    BY <1>1, <1>2, FlushQuiet
    DEF BackendEnds, BackendAnswers, handleDocumentBinaryUpdate, handleOffline, NetChange,
        vars, saveVars, netVars, Debounce
  <1>3. CASE performRemoteReload
    BY <1>3, ReloadSafe DEF performRemoteReload
  <1>4. CASE ReloadTimerFires
    BY <1>1, <1>4, ReloadSafe DEF ReloadTimerFires, isActivelyEditing, saveVars, netVars
  <1>5. ASSUME NEW s \in outbox, replayOperation(s) PROVE Safe'
    <2>1. made' \subseteq exposed'
      BY <1>5 DEF replayOperation, Expose, NetChange
    <2>. QED  BY <2>1, ExposesAll
  <1>6. CASE flushOfflineQueueEnds
    <2>1. /\ UNCHANGED <<operations, file, session, stored, job, load, made, exposed, skipped>>
          /\ replay' = "idle" /\ dirty' = (dirty /\ replay # "synced")
      BY <1>6 DEF flushOfflineQueueEnds, NetChange
    <2>2. Kept /\ ~dirty' => Owed \subseteq stored
      BY <2>1 DEF Kept
    <2>. QED  BY <1>0, <2>1, <2>2, StillSafe
  <1>. QED
    BY <1>0, <1>2, <1>3, <1>4, <1>5, <1>6, LoadSafe, OnlineSafe DEF ReplayEnds

LEMMA InitSafe == Init => Safe
  <1>. SUFFICES ASSUME Init PROVE Safe
    OBVIOUS
  <1>1. OnlyMade
    BY InitFlow
  <1>2. made = {}
    BY DEF Init
  <1>. QED  BY <1>1, <1>2 DEF OnlyMade, Safe, Covered, Work


LEMMA NextSafe ==
    ASSUME TypeOK, JobsShaped, OnlyMade, OnlyMade', Safe, [Next]_vars
    PROVE  Safe'
  <1>1. ASSUME NEW e \in Queued, NEW ops, EditMove(e, ops) PROVE Safe'
    BY <1>1, EditSafe
  <1>2. ASSUME NEW b \in Baked, NEW q, StartBake(b, q), BakeSlot(q), dirty' \in {dirty, TRUE}
        PROVE  Safe'
    BY <1>2, BakeSafe
  <1>3. ASSUME NEW b \in Baked, adoptModifiedPdf(b) \/ EngineFails(b) PROVE Safe'
    BY <1>3, AdoptSafe, EngineFailsSafe
  <1>4. ASSUME NEW j \in Job, ApplyEnds(j) PROVE Safe'
    BY <1>4, ApplySucceedsSafe, ApplyFailsSafe DEF ApplyEnds
  <1>. QED
    BY <1>1, <1>2, <1>3, <1>4, Steps, ContentSafe, SaveSafe, UploadSafe, OtherSafe

-----------------------------------------------------------------------------
(***************************************************************************)
(* The invariant is inductive, and what follows from it.                   *)
(***************************************************************************)

EditorInductive ==
    /\ TypeOK /\ JobsShaped /\ OpsSorted
    /\ OnlyMade /\ QueuedNowhere
    /\ Safe

\* The inductive invariant: each binary and each slot holds edits the user made, what
\* the store holds is in none of them, and an edit that is in danger is exposed.
THEOREM EditorInvariant == Spec => []EditorInductive
  <1>1. Init => EditorInductive
    BY InitTypes, InitFlow, InitSafe DEF EditorInductive
  <1>2. EditorInductive /\ [Next]_vars => EditorInductive'
    <2>. SUFFICES ASSUME EditorInductive, [Next]_vars PROVE EditorInductive'
      OBVIOUS
    <2>. USE DEF EditorInductive
    <2>1. TypeOK' /\ JobsShaped' /\ OpsSorted'
      BY NextTypes, NextShapes DEF JobsShaped, Rereads
    <2>2. OnlyMade' /\ QueuedNowhere'
      BY <2>1, NextFlow, FlowKeeps
    <2>3. Safe'
      BY <2>2, NextSafe
    <2>. QED  BY <2>1, <2>2, <2>3
  <1>. QED  BY <1>1, <1>2, PTL DEF Spec

\* Type invariant: the working copy, the saves and the bakes in flight and the
\* offline queue stay in their domains; a bake that reads the binary again finds one.
THEOREM EditorTypes == Spec => []TypeOK
  <1>1. EditorInductive => TypeOK
    BY DEF EditorInductive
  <1>. QED  BY <1>1, EditorInvariant, PTL

\* Whatever saves, bakes and reloads overlap, an operation that the store still holds is
\* in no binary, and apply-elements is never asked to apply an operation to a binary
\* that already has it.
THEOREM DoubleBakeExcluded == Spec => []NoDoubleBake
  <1>1. EditorInductive => NoDoubleBake
    <2>. SUFFICES ASSUME QueuedNowhere PROVE NoDoubleBake
      BY DEF EditorInductive
    <2>1. file # NoFile => file \subseteq Held
      BY DEF Held, Working
    <2>. QED  BY <2>1 DEF NoDoubleBake, QueuedNowhere
  <1>. QED  BY <1>1, EditorInvariant, PTL

LEMMA OwedIsKept == EditorInductive => Kept
  BY CoveredCalm DEF EditorInductive, Safe, Calm

\* An edit of the store, or a bake that was adopted, is in the store, in the working
\* binary or in the latest version: it is lost only while two operations overlap, or
\* when a save goes ahead without it.
THEOREM EditsSurvive == Spec => []SequentialEditsSurvive
  <1>1. EditorInductive => SequentialEditsSurvive
    BY OwedIsKept DEF Kept, Owed, SequentialEditsSurvive
  <1>. QED  BY <1>1, EditorInvariant, PTL

\* The page shows a document as saved, with nothing scheduled or in flight, only when
\* the latest version has every edit that was not exposed or skipped.
THEOREM QuietIsSaved == Spec => []QuietMeansSaved
  <1>1. EditorInductive => QuietMeansSaved
    BY OwedIsKept DEF Kept, Owed, Quiet, QuietMeansSaved
  <1>. QED  BY <1>1, EditorInvariant, PTL

\* What an upload in flight brings.
LEMMA UploadBrings ==
    ASSUME EditorInductive, job[Saver].at = "upload"
    PROVE  /\ Owed \subseteq job[Saver].base
           /\ stored \subseteq job[Saver].base \cup exposed
  <1>1. Saver \in Job
    BY DEF Job
  <1>2. SafeSlot(Saver)
    BY <1>1, CoveredCalm DEF EditorInductive, Safe, Calm
  <1>. QED  BY <1>2 DEF SafeSlot, InFlight

\* The steps that replace the stored version.
LEMMA StoringSteps ==
    ASSUME TypeOK, [Next]_vars
    PROVE  \/ stored' = stored
           \/ UploadEnds
           \/ \E s \in outbox : replayOperation(s)
  <1>. DEFINE Still == stored' = stored
  <1>1. ASSUME NEW e \in Queued, NEW ops, EditMove(e, ops) PROVE Still
    BY <1>1 DEF EditMove
  <1>2. ASSUME NEW b \in Baked, NEW q, StartBake(b, q) PROVE Still
    BY <1>2 DEF StartBake
  <1>3. ASSUME NEW b \in Baked, adoptModifiedPdf(b) \/ EngineFails(b) PROVE Still
    BY <1>3 DEF adoptModifiedPdf, EngineFails
  <1>4. ASSUME NEW j \in Job, ApplyEnds(j) PROVE Still
    BY <1>4 DEF ApplyEnds, ApplySucceeds, ApplyFails
  <1>5. CASE ContentMove
    BY <1>5 DEF ContentMove
  <1>6. CASE SaveMove
    BY <1>6 DEF SaveMove, save
  <1>7. CASE \/ BackendEnds \/ FlushEnds \/ LoadEnds \/ handleDocumentBinaryUpdate
             \/ ReloadTimerFires \/ performRemoteReload \/ handleOffline
             \/ handleOnline \/ UNCHANGED vars
    <2>1. CASE BackendEnds \/ FlushEnds \/ LoadEnds \/ UNCHANGED vars
      <3>1. CASE BackendEnds
        BY <3>1 DEF BackendEnds, BackendAnswers
      <3>2. CASE LoadEnds
        BY <3>2 DEF LoadEnds, loadDocument, loadPdfBinary, LoadFails, Loaded
      <3>3. CASE FlushEnds
        BY <3>3, FlushQuiet
      <3>4. CASE UNCHANGED vars
        BY <3>4 DEF vars
      <3>. QED  BY <2>1, <3>1, <3>2, <3>3, <3>4
    <2>2. CASE handleDocumentBinaryUpdate \/ ReloadTimerFires \/ performRemoteReload
      BY <2>2 DEF handleDocumentBinaryUpdate, ReloadTimerFires, performRemoteReload, reload
    <2>3. CASE handleOffline \/ handleOnline
      BY <2>3 DEF handleOffline, handleOnline, NetChange
    <2>. QED  BY <1>7, <2>1, <2>2, <2>3
  <1>8. CASE flushOfflineQueueEnds
    BY <1>8 DEF flushOfflineQueueEnds, NetChange
  <1>. QED
    BY <1>1, <1>2, <1>3, <1>4, <1>5, <1>6, <1>7, <1>8, Steps DEF ReplayEnds

\* A new version has every edit of the version before it, unless the edit was exposed
\* or a queued save was replayed over it.
THEOREM VersionsKeep == Spec => VersionsKeepEdits
  <1>. DEFINE A == stored \ stored' \subseteq exposed'
  <1>1. EditorInductive /\ [Next]_vars => A
    <2>. SUFFICES ASSUME EditorInductive, [Next]_vars PROVE A
      OBVIOUS
    <2>1. CASE UploadEnds
      <3>1. /\ job[Saver].at = "upload" /\ exposed' = exposed
            /\ stored' \in {stored, job[Saver].base}
        BY <2>1 DEF UploadEnds, UploadSucceeds, UploadFails
      <3>. QED  BY <3>1, UploadBrings
    <2>2. ASSUME NEW s \in outbox, replayOperation(s) PROVE A
      <3>1. made \subseteq exposed'
        BY <2>2 DEF replayOperation, Expose
      <3>2. stored \subseteq made
        BY HeldParts DEF EditorInductive, OnlyMade
      <3>. QED  BY <3>1, <3>2
    <2>. QED  BY <2>1, <2>2, StoringSteps DEF EditorInductive
  <1>. QED  BY <1>1, EditorInvariant, PTL DEF Spec, VersionsKeepEdits


=============================================================================
