-------------------------- MODULE StorageLedgerProofs --------------------------
(***************************************************************************)
(* Proof that StoredDocuments implements StorageLedger, for every value of *)
(* the constants: the counters behave as if each handler step charged,     *)
(* resized or freed documents in a ledger and nothing else.                *)
(***************************************************************************)
EXTENDS StoredDocumentsProofs

\* The refinement mapping: the counter that holds a document.
Holder == [d \in Doc |-> IF d \in Charged THEN charged[d] ELSE None]

\* What the proof needs of every state.
Mapped == Shape /\ Isolated /\ CountersAccount

\* The mapping, before and after a step.
LEMMA HolderMaps ==
    /\ Holder = [d \in Doc |-> IF d \in Active \cup stranded THEN charged[d] ELSE None]
    /\ Holder' = [d \in Doc |-> IF d \in Charged' THEN charged'[d] ELSE None]
  BY DEF Holder, Charged

\* A document is held by the counter that the ledger names, or by none.
LEMMA HolderHeld ==
    ASSUME Mapped
    PROVE  /\ \A d \in Charged : d \in Doc /\ Holder[d] = charged[d] /\ Holder[d] # None
           /\ \A d \in Doc \ Charged : Holder[d] = None
           /\ \A c \in Counter : {d \in Doc : Holder[d] = c} = Held(c)
  <1>1. /\ stranded \subseteq Doc /\ charged \in [Doc -> Counter] /\ None \notin Counter
    BY ConstantsAssumption DEF Mapped, Shape, TypeOK
  <1>2. Charged \subseteq Doc
    BY <1>1 DEF Charged, Active
  <1>. QED  BY <1>1, <1>2, HeldCharged DEF Holder

\* The ledger counts with the cardinality of this module.
LEMMA SameCardinality == \A S : Ledger!Cardinality(S) = Cardinality(S)
  BY Zenon DEF Ledger!Cardinality, Cardinality

\* Counters that account for what they hold are what the ledger recounts.
LEMMA AccountRecounts ==
    ASSUME Mapped
    PROVE  Ledger!Recount
  <1>1. \A c \in Counter : {d \in Doc : Holder[d] = c} = Held(c)
    BY HolderHeld
  <1>2. storageUsed \in [Counter -> Nat] /\ documentCount \in [Counter -> Nat]
    BY DEF Mapped, Shape, TypeOK
  <1>3. \A c \in Counter : /\ storageUsed[c] = Cardinality(UnitsOf(Held(c), size))
                           /\ documentCount[c] = Cardinality(Held(c))
    BY BytesUnits DEF Mapped, CountersAccount
  <1>4. storageUsed = [c \in Counter |-> Cardinality(UnitsOf(Held(c), size))]
    BY <1>2, <1>3
  <1>5. documentCount = [c \in Counter |-> Cardinality(Held(c))]
    BY <1>2, <1>3
  <1>6. \A c \in Counter : Ledger!HeldBy(c) = Held(c)
    BY <1>1 DEF Ledger!HeldBy, Holder, Charged
  <1>7. \A c \in Counter :
          /\ Ledger!Cardinality({u \in Doc \X (1..FileSizeLimit) :
                 u[1] \in Ledger!HeldBy(c) /\ u[2] <= size[u[1]]})
                = Cardinality(UnitsOf(Held(c), size))
          /\ Ledger!Cardinality(Ledger!HeldBy(c)) = Cardinality(Held(c))
    BY <1>6, SameCardinality DEF UnitsOf
  <1>. QED
    BY <1>4, <1>5, <1>7 DEF Ledger!Recount

-----------------------------------------------------------------------------
(***************************************************************************)
(* Each kind of step in the ledger.                                        *)
(***************************************************************************)

\* A charge of the handlers is a charge of the ledger.
LEMMA ChargeMaps ==
    ASSUME Mapped, Mapped', NEW d, NEW c, NEW b, ChargeStep(d, c, b)
    PROVE  Ledger!Move
  <1>1. /\ d \in Doc /\ c \in Counter /\ b \in 0..FileSizeLimit /\ d \notin Charged
        /\ Charged' = Charged \cup {d}
        /\ charged' = [charged EXCEPT ![d] = c]
        /\ size' = [size EXCEPT ![d] = b]
    BY DEF ChargeStep
  <1>2. charged \in [Doc -> Counter]
    BY DEF Mapped, Shape, TypeOK
  <1>3. Holder[d] = None
    BY <1>1 DEF Holder
  <1>4. Holder' = [Holder EXCEPT ![d] = c]
    BY <1>1, <1>2 DEF Holder
  <1>5. Ledger!Charge(d, c, b)
    BY <1>1, <1>3, <1>4, HolderMaps DEF Ledger!Charge, Charged
  <1>. QED  BY <1>1, <1>5 DEF Ledger!Move

\* A change of size of a charged document is a resize of the ledger.
LEMMA ResizeMaps ==
    ASSUME Mapped, NEW d \in Doc, NEW b, ResizeStep(d, b)
    PROVE  Ledger!Move
  <1>1. /\ d \in Charged /\ b \in 0..FileSizeLimit
        /\ Charged' = Charged /\ charged' = charged
        /\ size' = [size EXCEPT ![d] = b]
    BY DEF ResizeStep
  <1>2. Holder[d] # None
    BY <1>1, HolderHeld
  <1>3. Holder' = Holder
    BY <1>1 DEF Holder
  <1>4. Ledger!Resize(d, b)
    BY <1>1, <1>2, <1>3, HolderMaps DEF Ledger!Resize, Charged
  <1>. QED  BY <1>1, <1>4 DEF Ledger!Move

\* Documents that leave the charged ones are freed in the ledger.
LEMMA FreeMaps ==
    ASSUME Mapped, NEW S, S \subseteq Charged, Charged' = Charged \ S,
           UNCHANGED <<charged, size>>
    PROVE  Ledger!Move
  <1>1. S \in SUBSET Doc /\ \A d \in S : Holder[d] # None
    BY HolderHeld
  <1>2. Holder' = [d \in Doc |-> IF d \in S THEN None ELSE Holder[d]]
    BY DEF Holder
  <1>3. Ledger!Free(S)
    BY <1>1, <1>2, HolderMaps DEF Ledger!Free, Charged
  <1>. QED  BY <1>1, <1>3 DEF Ledger!Move

\* A recount gives up the documents that a purge deleted without freeing them.
LEMMA ReconcileMaps ==
    ASSUME Mapped, Reconcile
    PROVE  Ledger!Move
  <1>1. Active \cap stranded = {}
    BY DEF Mapped, Isolated, StrandedGone, Active
  <1>2. Charged' = Charged \ stranded /\ stranded \subseteq Charged
    BY <1>1 DEF Reconcile, Charged, Active, rows
  <1>. QED  BY <1>2, FreeMaps DEF Reconcile, rows

\* Every step of the handlers is a step of the ledger or leaves it alone.
LEMMA StepMaps ==
    ASSUME Mapped, Mapped', Ledger!Recount', [Next]_vars
    PROVE  [Ledger!Next]_Ledger!vars
  <1>1. Counted
    BY NextCounted DEF Mapped
  <1>2. CASE StillStep
    <2>1. Holder' = Holder
      BY <1>2 DEF StillStep, Holder
    <2>. QED  BY <1>2, <2>1, HolderMaps DEF StillStep, counters, Ledger!vars, Charged
  <1>3. CASE Ledger!Move
    BY <1>3 DEF Ledger!Next
  <1>. QED
    BY <1>1, <1>2, <1>3, ChargeMaps, ResizeMaps, FreeMaps, ReconcileMaps DEF Counted, FreeStep

\* Initially nothing is charged and nothing is shown.
LEMMA InitMaps ==
    ASSUME Init, Mapped
    PROVE  Ledger!Init
  <1>1. Charged = {}
    BY DEF Init, Charged, Active
  <1>2. Holder = [d \in Doc |-> None]
    BY <1>1 DEF Holder
  <1>3. size \in [Doc -> 0..FileSizeLimit]
    BY DEF Mapped, Shape, TypeOK
  <1>. QED
    BY <1>2, <1>3, HolderMaps, AccountRecounts DEF Ledger!Init

\* The handlers implement the ledger: whatever interleaves, fails or is left in
\* doubt, each step charges one document to one counter, resizes one, frees
\* some, or moves nothing (the rule in adjust_document_storage's docstring).
THEOREM LedgerImplemented == Spec => ImplementsLedger
  <1>1. Init => Mapped
    BY InitShape, InitIsolated, InitAccount DEF Mapped
  <1>2. Mapped /\ [Next]_vars => Mapped'
    BY NextShape, NextIsolated, NextAccount DEF Mapped
  <1>3. Init /\ Mapped => Ledger!Init
    BY InitMaps
  <1>4. Mapped => Ledger!Recount
    BY AccountRecounts
  <1>5. Mapped /\ Mapped' /\ Ledger!Recount' /\ [Next]_vars => [Ledger!Next]_Ledger!vars
    BY StepMaps
  <1>. QED
    BY <1>1, <1>2, <1>3, <1>4, <1>5, PTL DEF Spec, ImplementsLedger, Ledger!Spec

=============================================================================
