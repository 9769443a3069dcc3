------------------------ MODULE StoredDocumentsProofs ------------------------
(***************************************************************************)
(* Proofs about StoredDocuments, for every value of its constants.         *)
(***************************************************************************)
EXTENDS StoredDocuments, FiniteSetTheorems, TLAPS

-----------------------------------------------------------------------------
(***************************************************************************)
(* Keys and counters.                                                      *)
(***************************************************************************)

\* Every path that a version row can carry is an object key.
LEMMA KeyTypes ==
    ASSUME NEW d \in Doc, NEW n \in Version
    PROVE  /\ get_document_key(d, n) \in Key
           /\ _original_document_key(d, n) \in Key
           /\ FilePath(d, n) \in Key
  BY ConstantsAssumption
  DEF get_document_key, _original_document_key, FilePath, Key, Formats

\* collect_document_object_keys returns keys.
LEMMA CollectedKeys ==
    ASSUME versions \subseteq Doc \X Version, NEW S
    PROVE  collect_document_object_keys(S) \in SUBSET Key
  <1>1. \A v \in versions : FilePath(v[1], v[2]) \in Key
    BY KeyTypes
  <1>. QED  BY <1>1 DEF collect_document_object_keys

\* Deleting objects leaves a well-typed object store.
LEMMA WithoutType ==
    ASSUME objects \in [Key -> 0..FileSizeLimit], NEW S, NEW k
    PROVE  Without(S, k) \in [Key -> 0..FileSizeLimit]
  BY ConstantsAssumption DEF Without

\* The size units of a set of documents, for any assignment f of sizes.
UnitsOf(S, f) == {u \in Doc \X (1..FileSizeLimit) : u[1] \in S /\ u[2] <= f[u[1]]}

\* There are finitely many units.
LEMMA UnitsFinite ==
    ASSUME NEW S, NEW f
    PROVE  /\ IsFiniteSet(UnitsOf(S, f))
           /\ Cardinality(UnitsOf(S, f)) \in Nat
  <1>1. IsFiniteSet(1..FileSizeLimit)
    BY FS_Interval, ConstantsAssumption
  <1>2. IsFiniteSet(Doc \X (1..FileSizeLimit))
    BY <1>1, FS_Product, ConstantsAssumption
  <1>3. IsFiniteSet(UnitsOf(S, f))
    BY <1>2, FS_Subset DEF UnitsOf
  <1>. QED  BY <1>3, FS_CardinalityType

\* One more document adds its size.
LEMMA UnitsAdd ==
    ASSUME NEW S, NEW f \in [Doc -> 0..FileSizeLimit], NEW d \in Doc, d \notin S
    PROVE  Cardinality(UnitsOf(S \cup {d}, f)) = Cardinality(UnitsOf(S, f)) + f[d]
  <1>. DEFINE B == {d} \X (1..f[d])
  <1>0. f[d] \in Nat /\ f[d] <= FileSizeLimit
    BY ConstantsAssumption
  <1>1. IsFiniteSet(1..f[d]) /\ Cardinality(1..f[d]) = f[d]
    BY <1>0, FS_Interval
  <1>2. IsFiniteSet({d}) /\ Cardinality({d}) = 1
    BY FS_Singleton
  <1>3. IsFiniteSet(B) /\ Cardinality(B) = 1 * f[d]
    BY <1>1, <1>2, FS_Product
  <1>4. UnitsOf(S \cup {d}, f) = UnitsOf(S, f) \cup B
    BY <1>0, ConstantsAssumption DEF UnitsOf
  <1>5. UnitsOf(S, f) \cap B = {}
    BY DEF UnitsOf
  <1>6. Cardinality(UnitsOf(S, f) \cup B)
            = Cardinality(UnitsOf(S, f)) + Cardinality(B) - Cardinality(UnitsOf(S, f) \cap B)
    BY <1>3, UnitsFinite, FS_Union
  <1>7. Cardinality(UnitsOf(S, f) \cap B) = 0
    BY <1>5, FS_EmptySet
  <1>8. Cardinality(UnitsOf(S, f)) \in Nat
    BY UnitsFinite
  <1>9. Cardinality(B) = f[d]
    BY <1>0, <1>3
  <1>10. Cardinality(UnitsOf(S, f) \cup B) = Cardinality(UnitsOf(S, f)) + f[d]
    <2>. HIDE DEF B
    <2>. QED  BY <1>0, <1>6, <1>7, <1>8, <1>9
  <1>. QED
    BY <1>4, <1>10

\* Sizes outside the set do not matter.
LEMMA UnitsAgree ==
    ASSUME NEW S, NEW f, NEW g, \A d \in S : f[d] = g[d]
    PROVE  UnitsOf(S, f) = UnitsOf(S, g)
  BY DEF UnitsOf

\* Fewer documents: the difference.
LEMMA UnitsRemove ==
    ASSUME NEW S, NEW T, T \subseteq S, NEW f
    PROVE  Cardinality(UnitsOf(S \ T, f))
               = Cardinality(UnitsOf(S, f)) - Cardinality(UnitsOf(T, f))
  <1>1. UnitsOf(S \ T, f) = UnitsOf(S, f) \ UnitsOf(T, f)
    BY DEF UnitsOf
  <1>2. UnitsOf(S, f) \cap UnitsOf(T, f) = UnitsOf(T, f)
    BY DEF UnitsOf
  <1>. QED
    BY <1>1, <1>2, UnitsFinite, FS_Difference

\* Bytes is the cardinality of the units at the current sizes.
LEMMA BytesUnits ==
    /\ \A S : Bytes(S) = Cardinality(UnitsOf(S, size))
    /\ \A S : (Bytes(S))' = Cardinality(UnitsOf(S, size'))
  BY DEF Bytes, Units, UnitsOf

\* A set of documents is finite.
LEMMA DocsFinite ==
    ASSUME NEW S \in SUBSET Doc
    PROVE  IsFiniteSet(S) /\ Cardinality(S) \in Nat
  BY FS_Subset, FS_CardinalityType, ConstantsAssumption

-----------------------------------------------------------------------------
(***************************************************************************)
(* What a step may do to the counters.                                     *)
(***************************************************************************)

Charged == Active \cup stranded

ChargeStep(d, c, b) ==
    /\ d \in Doc /\ c \in Counter /\ b \in 0..FileSizeLimit
    /\ d \notin Charged
    /\ Charged' = Charged \cup {d}
    /\ charged' = [charged EXCEPT ![d] = c]
    /\ size' = [size EXCEPT ![d] = b]
    /\ _move_counter(c, b, 1)

ResizeStep(d, b) ==
    /\ d \in Charged /\ b \in 0..FileSizeLimit
    /\ Charged' = Charged
    /\ UNCHANGED charged
    /\ size' = [size EXCEPT ![d] = b]
    /\ _move_counter(charged[d], b - size[d], 0)

FreeStep(S) ==
    /\ S \subseteq Charged
    /\ Charged' = Charged \ S
    /\ UNCHANGED <<charged, size>>
    /\ release_documents(S)

StillStep ==
    /\ Charged' = Charged
    /\ UNCHANGED <<charged, size, counters>>

CounterTypes ==
    /\ stranded \subseteq Doc
    /\ size \in [Doc -> 0..FileSizeLimit]
    /\ charged \in [Doc -> Counter]
    /\ storageUsed \in [Counter -> Nat]
    /\ documentCount \in [Counter -> Nat]

\* Held, in terms of Charged.
LEMMA HeldCharged ==
    /\ \A c : Held(c) = {d \in Charged : charged[d] = c}
    /\ \A c : Held(c)' = {d \in Charged' : charged'[d] = c}
  BY DEF Held, Charged, Active

\* Charging a document keeps every counter equal to what it holds.
LEMMA ChargeKeeps ==
    ASSUME CounterTypes, CountersAccount, NEW d, NEW c, NEW b, ChargeStep(d, c, b)
    PROVE  CountersAccount'
  <1>. SUFFICES ASSUME NEW x \in Counter
                PROVE  /\ storageUsed'[x] = (Bytes(Held(x)))'
                       /\ documentCount'[x] = Cardinality(Held(x)')
    BY DEF CountersAccount
  <1>. USE DEF CounterTypes
  <1>0. d \in Doc /\ c \in Counter /\ b \in Nat /\ b \in 0..FileSizeLimit
    BY ConstantsAssumption DEF ChargeStep
  <1>1. Held(x) \in SUBSET Doc /\ d \notin Held(x)
    BY DEF Held, ChargeStep, Charged, Active
  <1>2. /\ storageUsed[x] = Cardinality(UnitsOf(Held(x), size))
        /\ documentCount[x] = Cardinality(Held(x))
    BY BytesUnits DEF CountersAccount
  <1>3. size' \in [Doc -> 0..FileSizeLimit] /\ size'[d] = b
    BY <1>0 DEF ChargeStep
  <1>4. UnitsOf(Held(x), size') = UnitsOf(Held(x), size)
    BY <1>1, UnitsAgree DEF ChargeStep
  <1>5. Cardinality(UnitsOf(Held(x), size)) \in Nat /\ Cardinality(Held(x)) \in Nat
    BY <1>1, UnitsFinite, DocsFinite
  <1>6. CASE x = c
    <2>1. Held(x)' = Held(x) \cup {d}
      BY <1>0, <1>6, HeldCharged DEF ChargeStep
    <2>2. Cardinality(UnitsOf(Held(x) \cup {d}, size'))
              = Cardinality(UnitsOf(Held(x), size')) + b
      BY <1>0, <1>1, <1>3, UnitsAdd
    <2>3. Cardinality(Held(x) \cup {d}) = Cardinality(Held(x)) + 1
      BY <1>1, FS_AddElement, DocsFinite
    <2>4. /\ storageUsed'[x] = storageUsed[x] + b
          /\ documentCount'[x] = documentCount[x] + 1
      BY <1>0, <1>6 DEF ChargeStep, _move_counter, _clamped_increment
    <2>. QED  BY <1>2, <1>4, <2>1, <2>2, <2>3, <2>4, BytesUnits
  <1>7. CASE x # c
    <2>1. Held(x)' = Held(x)
      BY <1>0, <1>1, <1>7, HeldCharged DEF ChargeStep, Charged, Active
    <2>2. /\ storageUsed'[x] = storageUsed[x]
          /\ documentCount'[x] = documentCount[x]
      BY <1>0, <1>7 DEF ChargeStep, _move_counter
    <2>. QED  BY <1>2, <1>4, <2>1, <2>2, BytesUnits
  <1>. QED  BY <1>6, <1>7

\* So does a change of size.
LEMMA ResizeKeeps ==
    ASSUME CounterTypes, CountersAccount, NEW d, NEW b, ResizeStep(d, b)
    PROVE  CountersAccount'
  <1>. SUFFICES ASSUME NEW x \in Counter
                PROVE  /\ storageUsed'[x] = (Bytes(Held(x)))'
                       /\ documentCount'[x] = Cardinality(Held(x)')
    BY DEF CountersAccount
  <1>. USE DEF CounterTypes
  <1>0. /\ d \in Doc /\ b \in Nat /\ b \in 0..FileSizeLimit
        /\ size[d] \in Nat /\ charged[d] \in Counter
    BY ConstantsAssumption DEF ResizeStep, Charged, Active
  <1>1. Held(x) \in SUBSET Doc
    BY DEF Held, Active
  <1>2. /\ storageUsed[x] = Cardinality(UnitsOf(Held(x), size))
        /\ documentCount[x] = Cardinality(Held(x))
    BY BytesUnits DEF CountersAccount
  <1>3. size' \in [Doc -> 0..FileSizeLimit] /\ size'[d] = b
    BY <1>0 DEF ResizeStep
  <1>4. Held(x)' = Held(x)
    BY HeldCharged DEF ResizeStep
  <1>5. Cardinality(UnitsOf(Held(x), size)) \in Nat /\ Cardinality(Held(x)) \in Nat
    BY <1>1, UnitsFinite, DocsFinite
  <1>6. CASE x = charged[d]
    <2>. DEFINE R == Held(x) \ {d}
    <2>0. Held(x) = R \cup {d} /\ d \notin R
      BY <1>6, HeldCharged DEF ResizeStep
    <2>1. Cardinality(UnitsOf(Held(x), size)) = Cardinality(UnitsOf(R, size)) + size[d]
      BY <1>0, <2>0, UnitsAdd
    <2>2. Cardinality(UnitsOf(Held(x), size')) = Cardinality(UnitsOf(R, size')) + b
      BY <1>0, <1>3, <2>0, UnitsAdd
    <2>3. UnitsOf(R, size') = UnitsOf(R, size)
      BY <1>1, UnitsAgree DEF ResizeStep
    <2>4. Cardinality(UnitsOf(R, size)) \in Nat
      BY UnitsFinite
    <2>5. /\ storageUsed'[x] = _clamped_increment(storageUsed[x], b - size[d])
          /\ documentCount'[x] = _clamped_increment(documentCount[x], 0)
      BY <1>0, <1>6 DEF ResizeStep, _move_counter
    <2>. HIDE DEF R
    <2>6. /\ storageUsed'[x] = Cardinality(UnitsOf(Held(x), size'))
          /\ documentCount'[x] = Cardinality(Held(x))
      BY <1>0, <1>2, <1>5, <2>1, <2>2, <2>3, <2>4, <2>5 DEF _clamped_increment
    <2>. QED  BY <1>4, <2>6, BytesUnits
  <1>7. CASE x # charged[d]
    <2>1. UnitsOf(Held(x), size') = UnitsOf(Held(x), size)
      BY <1>1, <1>7, UnitsAgree DEF ResizeStep, Held
    <2>2. /\ storageUsed'[x] = storageUsed[x]
          /\ documentCount'[x] = documentCount[x]
      BY <1>0, <1>7 DEF ResizeStep, _move_counter
    <2>. QED  BY <1>2, <1>4, <2>1, <2>2, BytesUnits
  <1>. QED  BY <1>6, <1>7

\* So does freeing documents, each from the counter recorded on it.
LEMMA FreeKeeps ==
    ASSUME CounterTypes, CountersAccount, NEW S, FreeStep(S)
    PROVE  CountersAccount'
  <1>. SUFFICES ASSUME NEW x \in Counter
                PROVE  /\ storageUsed'[x] = (Bytes(Held(x)))'
                       /\ documentCount'[x] = Cardinality(Held(x)')
    BY DEF CountersAccount
  <1>. USE DEF CounterTypes
  <1>. DEFINE F == {d \in S : charged[d] = x}
  <1>1. Held(x) \in SUBSET Doc /\ F \subseteq Held(x) /\ F \in SUBSET Doc
    BY HeldCharged DEF FreeStep, Charged, Active
  <1>2. /\ storageUsed[x] = Cardinality(UnitsOf(Held(x), size))
        /\ documentCount[x] = Cardinality(Held(x))
    BY BytesUnits DEF CountersAccount
  <1>3. Held(x)' = Held(x) \ F
    BY HeldCharged DEF FreeStep
  <1>4. Cardinality(UnitsOf(Held(x) \ F, size))
            = Cardinality(UnitsOf(Held(x), size)) - Cardinality(UnitsOf(F, size))
    BY <1>1, UnitsRemove
  <1>5. Cardinality(Held(x) \ F) = Cardinality(Held(x)) - Cardinality(F)
    <2>1. Held(x) \cap F = F
      BY <1>1
    <2>. QED  BY <1>1, <2>1, FS_Difference, DocsFinite
  <1>6. /\ Cardinality(UnitsOf(Held(x), size)) \in Nat
        /\ Cardinality(UnitsOf(Held(x) \ F, size)) \in Nat
        /\ Cardinality(UnitsOf(F, size)) \in Nat
    BY UnitsFinite
  <1>7. /\ Cardinality(Held(x)) \in Nat
        /\ Cardinality(Held(x) \ F) \in Nat
        /\ Cardinality(F) \in Nat
    BY <1>1, DocsFinite
  <1>8. /\ storageUsed'[x] = _clamped_increment(storageUsed[x], -Cardinality(UnitsOf(F, size)))
        /\ documentCount'[x] = _clamped_increment(documentCount[x], -Cardinality(F))
    BY BytesUnits DEF FreeStep, release_documents
  <1>. HIDE DEF F
  <1>9. /\ storageUsed'[x] = Cardinality(UnitsOf(Held(x) \ F, size))
        /\ documentCount'[x] = Cardinality(Held(x) \ F)
    BY <1>2, <1>4, <1>5, <1>6, <1>7, <1>8 DEF _clamped_increment
  <1>10. size' = size
    BY DEF FreeStep
  <1>. QED  BY <1>3, <1>9, <1>10, BytesUnits

\* Freeing one document by its own size is freeing that set.
LEMMA FreeOne ==
    ASSUME CounterTypes, NEW d \in Doc, _move_counter(charged[d], -size[d], -1)
    PROVE  release_documents({d})
  <1>. USE DEF CounterTypes
  <1>0. size[d] \in Nat /\ charged[d] \in Counter
    BY ConstantsAssumption
  <1>1. Cardinality(UnitsOf({d}, size)) = size[d] /\ Cardinality(UnitsOf({}, size)) = 0
    <2>1. UnitsOf({}, size) = {}
      BY DEF UnitsOf
    <2>2. Cardinality(UnitsOf({} \cup {d}, size)) = Cardinality(UnitsOf({}, size)) + size[d]
      BY UnitsAdd
    <2>. QED  BY <1>0, <2>1, <2>2, FS_EmptySet
  <1>2. Cardinality({d}) = 1 /\ Cardinality({}) = 0
    BY FS_Singleton, FS_EmptySet
  <1>3. ASSUME NEW x \in Counter
        PROVE  LET F == {e \in {d} : charged[e] = x}
               IN  /\ storageUsed'[x] = _clamped_increment(storageUsed[x], -Bytes(F))
                   /\ documentCount'[x] = _clamped_increment(documentCount[x], -Cardinality(F))
    <2>1. CASE x = charged[d]
      <3>1. {e \in {d} : charged[e] = x} = {d}
        BY <2>1
      <3>. QED
        BY <1>0, <1>1, <1>2, <2>1, <3>1, BytesUnits DEF _move_counter
    <2>2. CASE x # charged[d]
      <3>1. {e \in {d} : charged[e] = x} = {}
        BY <2>2
      <3>2. Bytes({}) = 0
        BY <1>1, BytesUnits
      <3>3. storageUsed'[x] = storageUsed[x] /\ documentCount'[x] = documentCount[x]
        BY <1>0, <2>2 DEF _move_counter
      <3>4. storageUsed[x] \in Nat /\ documentCount[x] \in Nat
        OBVIOUS
      <3>5. /\ _clamped_increment(storageUsed[x], -0) = storageUsed[x]
            /\ _clamped_increment(documentCount[x], -0) = documentCount[x]
        BY <3>4 DEF _clamped_increment
      <3>. QED
        BY <1>2, <3>1, <3>2, <3>3, <3>5
    <2>. QED  BY <2>1, <2>2
  <1>. QED
    BY <1>0, <1>3 DEF release_documents, _move_counter

\* A step that moves nothing.
LEMMA StillKeeps ==
    ASSUME CountersAccount, StillStep
    PROVE  CountersAccount'
  <1>1. \A x : Held(x)' = Held(x)
    BY HeldCharged DEF StillStep
  <1>. QED
    BY <1>1, BytesUnits DEF CountersAccount, StillStep, counters

-----------------------------------------------------------------------------
(***************************************************************************)
(* Type correctness.                                                       *)
(***************************************************************************)

RequestsOK ==
    /\ req \in [Request -> RequestState]
    /\ \A r \in Request : WellFormed(req[r])

Shape == TypeOK /\ RequestsOK /\ RowsNumbered

\* The state of a request that does nothing is well formed.
LEMMA IdleShape == Idle \in RequestState /\ WellFormed(Idle)
  BY ConstantsAssumption
  DEF Idle, OnBatch, RequestState, PC, WellFormed, AddsDocument, Unresolved

\* A request that works on a batch is well formed.
LEMMA BatchShape ==
    ASSUME NEW pc \in {"selected", "cleanup"}, NEW S \in SUBSET Doc, NEW K \in SUBSET Key
    PROVE  OnBatch(pc, S, K) \in RequestState /\ WellFormed(OnBatch(pc, S, K))
  <1>1. OnBatch(pc, S, K) \in RequestState
    BY ConstantsAssumption DEF OnBatch, RequestState, PC
  <1>2. WellFormed(OnBatch(pc, S, K))
    BY DEF OnBatch, WellFormed, AddsDocument, Unresolved
  <1>. QED  BY <1>1, <1>2

\* A request that moves to a well-formed state keeps all of them well formed.
LEMMA GotoShape ==
    ASSUME Shape, NEW r \in Request, NEW q \in RequestState, WellFormed(q), Goto(r, q)
    PROVE  RequestsOK'
  <1>. USE DEF RequestsOK
  <1>1. req \in [Request -> RequestState] /\ \A p \in Request : WellFormed(req[p])
    BY DEF Shape
  <1>2. req' = [req EXCEPT ![r] = q]
    BY DEF Goto
  <1>3. ASSUME NEW p \in Request PROVE req'[p] = IF p = r THEN q ELSE req[p]
    BY <1>1, <1>2
  <1>4. ASSUME NEW p \in Request PROVE WellFormed(req'[p])
    <2>1. CASE p = r  BY <1>3, <2>1
    <2>2. CASE p # r  BY <1>1, <1>3, <2>2
    <2>. QED  BY <2>1, <2>2
  <1>. QED  BY <1>1, <1>2, <1>4

\* Increments keep the counters natural numbers.
LEMMA MoveTypes ==
    ASSUME TypeOK, NEW c \in Counter, NEW b \in Int, NEW n \in Int, _move_counter(c, b, n)
    PROVE  storageUsed' \in [Counter -> Nat] /\ documentCount' \in [Counter -> Nat]
  BY DEF TypeOK, _move_counter, _clamped_increment

\* So do a bulk release and a recount.
LEMMA BulkTypes ==
    ASSUME TypeOK, NEW S \in SUBSET Doc
    PROVE  /\ Bytes(S) \in Nat /\ Cardinality(S) \in Nat
           /\ release_documents(S) => /\ storageUsed' \in [Counter -> Nat]
                                      /\ documentCount' \in [Counter -> Nat]
  <1>1. \A T \in SUBSET Doc : Bytes(T) \in Nat /\ Cardinality(T) \in Nat
    BY BytesUnits, UnitsFinite, DocsFinite
  <1>2. ASSUME release_documents(S)
        PROVE  storageUsed' \in [Counter -> Nat] /\ documentCount' \in [Counter -> Nat]
    <2>1. ASSUME NEW c \in Counter
          PROVE  /\ _clamped_increment(storageUsed[c], -Bytes({d \in S : charged[d] = c})) \in Nat
                 /\ _clamped_increment(documentCount[c], -Cardinality({d \in S : charged[d] = c})) \in Nat
      <3>1. {d \in S : charged[d] = c} \in SUBSET Doc
        OBVIOUS
      <3>2. storageUsed[c] \in Nat /\ documentCount[c] \in Nat
        BY DEF TypeOK
      <3>. QED  BY <1>1, <3>1, <3>2 DEF _clamped_increment
    <2>. QED  BY <1>2, <2>1 DEF release_documents
  <1>. QED  BY <1>1, <1>2

\* A request that ends, or is outlived by its transaction, is well formed.
LEMMA FinishShape ==
    ASSUME Shape, NEW r \in Request, req[r].pc # "idle", Finish(r)
    PROVE  RequestsOK'
  <1>1. req[r] \in RequestState /\ WellFormed(req[r])
    BY DEF Shape, RequestsOK
  <1>2. CASE Unresolved(req[r])
    <2>1. [req[r] EXCEPT !.pc = "dead"] \in RequestState
      BY <1>1 DEF RequestState, PC
    <2>2. WellFormed([req[r] EXCEPT !.pc = "dead"])
      BY <1>1, <1>2 DEF RequestState, WellFormed, AddsDocument, Unresolved
    <2>. QED  BY <1>2, <2>1, <2>2, GotoShape DEF Finish
  <1>3. CASE ~Unresolved(req[r])
    BY <1>3, IdleShape, GotoShape DEF Finish
  <1>. QED  BY <1>2, <1>3

\* The same when the server ends its transaction.
LEMMA ResolvedShape ==
    ASSUME Shape, NEW r \in Request, Unresolved(req[r]), Goto(r, Resolved(req[r]))
    PROVE  RequestsOK'
  <1>1. req[r] \in RequestState /\ WellFormed(req[r])
    BY DEF Shape, RequestsOK
  <1>2. CASE req[r].pc = "dead"
    BY <1>2, IdleShape, GotoShape DEF Resolved
  <1>3. CASE req[r].pc # "dead"
    <2>1. [req[r] EXCEPT !.pc = "settled"] \in RequestState
      BY <1>1 DEF RequestState, PC
    <2>2. WellFormed([req[r] EXCEPT !.pc = "settled"])
      BY <1>1 DEF RequestState, WellFormed, AddsDocument, Unresolved
    <2>. QED  BY <1>3, <2>1, <2>2, GotoShape DEF Resolved
  <1>. QED  BY <1>2, <1>3

\* What a committed save writes is well typed.
LEMMA WriteTypes ==
    ASSUME Shape, NEW r \in Request, ReadyToCommit(r) \/ Unresolved(req[r]), Write(req[r])
    PROVE  /\ status' \in [Doc -> {"none", "drawn", "active", "trashed", "gone"}]
           /\ size' \in [Doc -> 0..FileSizeLimit]
           /\ current' \in [Doc -> 0..MaxVersion]
           /\ charged' \in [Doc -> Counter]
           /\ versions' \subseteq Doc \X Version
           /\ storageUsed' \in [Counter -> Nat]
           /\ documentCount' \in [Counter -> Nat]
           /\ lock' \in [Doc -> Request \cup {None}]
           /\ RowsNumbered'
  <1>. DEFINE q == req[r]
  <1>1. q \in RequestState /\ WellFormed(q) /\ q.pc \in {"uploaded", "stored", "unsure", "dead"}
    BY DEF Shape, RequestsOK, ReadyToCommit, Unresolved
  <1>. HIDE DEF q
  <1>2. /\ q.doc \in Doc /\ q.n \in Version /\ q.size \in 0..FileSizeLimit
        /\ q.size \in Int
        /\ q.n = 1 => q.ctr \in Counter
    BY <1>1, ConstantsAssumption
    DEF RequestState, WellFormed, AddsDocument, Unresolved, Version
  <1>3. TypeOK
    BY DEF Shape
  <1>4. CASE q.n = 1
    <2>1. WriteNewDocument(q)
      BY <1>4 DEF Write, q
    <2>2. storageUsed' \in [Counter -> Nat] /\ documentCount' \in [Counter -> Nat]
      BY <1>2, <1>3, <1>4, <2>1, MoveTypes DEF WriteNewDocument
    <2>3. /\ status' \in [Doc -> {"none", "drawn", "active", "trashed", "gone"}]
          /\ size' \in [Doc -> 0..FileSizeLimit]
          /\ lock' \in [Doc -> Request \cup {None}]
      BY <1>2, <1>3, <2>1 DEF WriteNewDocument, TypeOK
    <2>4. current' \in [Doc -> 0..MaxVersion]
      BY <1>2, <1>3, <2>1, ConstantsAssumption DEF WriteNewDocument, TypeOK
    <2>5. charged' \in [Doc -> Counter] /\ versions' \subseteq Doc \X Version
      BY <1>2, <1>3, <1>4, <2>1 DEF WriteNewDocument, TypeOK
    <2>6. RowsNumbered'
      BY <1>2, <1>3, <2>1 DEF WriteNewDocument, TypeOK, Shape, RowsNumbered, HasRow
    <2>. QED  BY <2>2, <2>3, <2>4, <2>5, <2>6
  <1>5. CASE q.n # 1
    <2>1. WriteNewVersion(q)
      BY <1>5 DEF Write, q
    <2>2. storageUsed' \in [Counter -> Nat] /\ documentCount' \in [Counter -> Nat]
      <3>1. charged[q.doc] \in Counter /\ q.size - size[q.doc] \in Int /\ 0 \in Int
        BY <1>2, <1>3 DEF TypeOK
      <3>2. CASE status[q.doc] = "active"
        BY <1>3, <2>1, <3>1, <3>2, MoveTypes DEF WriteNewVersion, _resize_stored_document
      <3>3. CASE status[q.doc] # "active"
        BY <1>3, <2>1, <3>3 DEF WriteNewVersion, _resize_stored_document, counters, TypeOK
      <3>. QED  BY <3>2, <3>3
    <2>3. size' \in [Doc -> 0..FileSizeLimit] /\ lock' \in [Doc -> Request \cup {None}]
      BY <1>2, <1>3, <2>1 DEF WriteNewVersion, _resize_stored_document, TypeOK
    <2>4. current' \in [Doc -> 0..MaxVersion]
      BY <1>2, <1>3, <2>1, ConstantsAssumption DEF WriteNewVersion, TypeOK, Version
    <2>5. /\ charged' \in [Doc -> Counter] /\ versions' \subseteq Doc \X Version
          /\ status' \in [Doc -> {"none", "drawn", "active", "trashed", "gone"}]
      BY <1>2, <1>3, <2>1 DEF WriteNewVersion, TypeOK
    <2>6. RowsNumbered'
      BY <1>2, <1>3, <2>1 DEF WriteNewVersion, TypeOK, Shape, RowsNumbered, HasRow, Version
    <2>. QED  BY <2>2, <2>3, <2>4, <2>5, <2>6
  <1>. QED  BY <1>4, <1>5

\* A failure is counted up to its bound.
LEMMA FaultTypes ==
    ASSUME TypeOK, Fault \/ NoFault
    PROVE  faults' \in 0..MaxFaults
  BY ConstantsAssumption DEF TypeOK, Fault, NoFault

\* A transaction that ends leaves the locks well typed.
LEMMA UnlockTypes ==
    ASSUME TypeOK, NEW q, Unlock(q)
    PROVE  lock' \in [Doc -> Request \cup {None}]
  BY DEF TypeOK, Unlock

\* A step that writes no row keeps the shape if what it does write is typed.
LEMMA RowsStay ==
    ASSUME Shape, RequestsOK', UNCHANGED <<rows, counters, tenancy, history>>,
           objects' \in [Key -> 0..FileSizeLimit],
           lock' \in [Doc -> Request \cup {None}],
           Fault \/ NoFault
    PROVE  Shape'
  <1>1. faults' \in 0..MaxFaults
    BY FaultTypes DEF Shape
  <1>. QED
    BY <1>1 DEF Shape, RequestsOK, RowsNumbered, HasRow, TypeOK,
                rows, counters, tenancy, history

\* Taking the row lock of an active document for its next version.
LEMMA LockShape ==
    ASSUME Shape, NEW r \in Request, NEW d \in Doc, NEW s \in 0..FileSizeLimit,
           LockForVersion(r, d, s)
    PROVE  Shape'
  <1>. DEFINE q == OnDocument("locked", d, current[d] + 1, s, None, None)
  <1>1. q \in RequestState
    BY ConstantsAssumption DEF LockForVersion, Shape, TypeOK, OnDocument, RequestState, PC
  <1>2. WellFormed(q)
    BY ConstantsAssumption DEF LockForVersion, Shape, TypeOK, RowsNumbered, HasRow,
        OnDocument, WellFormed, AddsDocument, Unresolved
  <1>3. Goto(r, q)
    BY DEF LockForVersion
  <1>. HIDE DEF q
  <1>4. RequestsOK'
    BY <1>1, <1>2, <1>3, GotoShape
  <1>. QED
    BY <1>4, RowsStay DEF LockForVersion, Shape, TypeOK

\* The first step of a request keeps the types.
LEMMA StartShape ==
    ASSUME Shape, NEW r \in Request, Start(r)
    PROVE  Shape'
  <1>1. ASSUME NEW d \in Doc, NEW s \in 1..FileSizeLimit, NEW c \in Counter,
               SaveStart(r, d, s, c)
        PROVE  Shape'
    <2>. DEFINE q == OnDocument("checked", d, 1, s, c, None)
    <2>1. q \in RequestState
      BY <1>1, ConstantsAssumption DEF SaveStart, Shape, TypeOK, OnDocument, RequestState, PC
    <2>2. WellFormed(q)
      BY <1>1, ConstantsAssumption DEF SaveStart, Shape, TypeOK, OnDocument, WellFormed, AddsDocument, Unresolved
    <2>3. Goto(r, q)
      BY <1>1 DEF SaveStart
    <2>. HIDE DEF q
    <2>4. RequestsOK'
      BY <2>1, <2>2, <2>3, GotoShape
    <2>. QED
      BY <1>1, <2>4 DEF SaveStart, Shape, RequestsOK, RowsNumbered, HasRow, TypeOK,
                        counters, tenancy, history, NoFault
  <1>2. ASSUME NEW d \in Doc, NEW source \in Doc, NEW c \in Counter,
               DuplicateStart(r, d, source, c)
        PROVE  Shape'
    <2>. DEFINE q == OnDocument("checked", d, 1, size[source], c,
                             FilePath(source, current[source]))
    <2>0. FilePath(source, current[source]) \in Key
      BY <1>2, KeyTypes DEF DuplicateStart, Shape, TypeOK
    <2>1. q \in RequestState
      BY <2>0, <1>2, ConstantsAssumption DEF DuplicateStart, Shape, TypeOK, OnDocument, RequestState, PC
    <2>2. WellFormed(q)
      BY <2>0, <1>2, ConstantsAssumption DEF DuplicateStart, Shape, TypeOK, OnDocument, WellFormed, AddsDocument, Unresolved
    <2>3. Goto(r, q)
      BY <1>2 DEF DuplicateStart
    <2>. HIDE DEF q
    <2>4. RequestsOK'
      BY <2>1, <2>2, <2>3, GotoShape
    <2>. QED
      BY <1>2, <2>4 DEF DuplicateStart, Shape, RequestsOK, RowsNumbered, HasRow, TypeOK,
                        counters, tenancy, history, NoFault
  <1>3. ASSUME NEW d \in Doc, NEW s \in 1..FileSizeLimit, VersionStart(r, d, s)
        PROVE  Shape'
    BY <1>3, LockShape, ConstantsAssumption DEF VersionStart
  <1>4. ASSUME NEW d \in Doc, RevertStart(r, d)
        PROVE  Shape'
    <2>. DEFINE q == OnDocument("reverting", d, 0, objects[get_document_key(d, 1)], None, None)
    <2>0. objects[get_document_key(d, 1)] \in 0..FileSizeLimit
      BY KeyTypes, ConstantsAssumption DEF Shape, TypeOK, Version
    <2>1. q \in RequestState
      BY <2>0, <1>4, ConstantsAssumption DEF RevertStart, Shape, TypeOK, OnDocument, RequestState, PC
    <2>2. WellFormed(q)
      BY <2>0, <1>4, ConstantsAssumption DEF RevertStart, Shape, TypeOK, OnDocument, WellFormed, AddsDocument, Unresolved
    <2>3. Goto(r, q)
      BY <1>4 DEF RevertStart
    <2>. HIDE DEF q
    <2>4. RequestsOK'
      BY <2>1, <2>2, <2>3, GotoShape
    <2>. QED
      BY <1>4, <2>4, RowsStay DEF RevertStart, Shape, TypeOK
  <1>5. ASSUME NEW d \in Doc, HardDelete(r, d)
        PROVE  Shape'
    <2>. DEFINE q == OnBatch("cleanup", {}, collect_document_object_keys({d}))
    <2>0. collect_document_object_keys({d}) \in SUBSET Key
      BY CollectedKeys DEF Shape, TypeOK
    <2>1. q \in RequestState /\ WellFormed(q)
      BY <2>0, BatchShape
    <2>2. Goto(r, q)
      BY <1>5 DEF HardDelete
    <2>. HIDE DEF q
    <2>3. RequestsOK'
      BY <2>1, <2>2, GotoShape
    <2>4. TypeOK
      BY DEF Shape
    <2>5. storageUsed' \in [Counter -> Nat] /\ documentCount' \in [Counter -> Nat]
      <3>1. charged[d] \in Counter /\ -size[d] \in Int /\ -1 \in Int
        BY <2>4, ConstantsAssumption DEF TypeOK
      <3>2. CASE status[d] = "active"
        BY <1>5, <2>4, <3>1, <3>2, MoveTypes DEF HardDelete
      <3>3. CASE status[d] # "active"
        BY <1>5, <2>4, <3>3 DEF HardDelete, counters, TypeOK
      <3>. QED  BY <3>2, <3>3
    <2>. QED
      BY <1>5, <2>3, <2>4, <2>5
      DEF HardDelete, DropRows, Shape, RequestsOK, RowsNumbered, HasRow, TypeOK, tenancy, history, NoFault
  <1>6. ASSUME NEW d \in Doc, NEW c \in Counter, RestoreStart(r, d, c)
        PROVE  Shape'
    <2>. DEFINE q == OnDocument("restoring", d, 0, 0, c, None)
    <2>1. q \in RequestState
      BY <1>6, ConstantsAssumption DEF RestoreStart, Shape, TypeOK, OnDocument, RequestState, PC
    <2>2. WellFormed(q)
      BY <1>6, ConstantsAssumption DEF RestoreStart, Shape, TypeOK, OnDocument, WellFormed, AddsDocument, Unresolved
    <2>3. Goto(r, q)
      BY <1>6 DEF RestoreStart
    <2>. HIDE DEF q
    <2>4. RequestsOK'
      BY <2>1, <2>2, <2>3, GotoShape
    <2>. QED
      BY <1>6, <2>4, RowsStay DEF RestoreStart, Shape, TypeOK
  <1>. QED
    BY <1>1, <1>2, <1>3, <1>4, <1>5, <1>6 DEF Start

\* Restoring a document from the trash writes well-typed rows.
LEMMA RechargeShape ==
    ASSUME Shape, NEW d \in Doc, NEW c \in Counter, Recharge(d, c), RequestsOK'
    PROVE  Shape'
  <1>1. TypeOK /\ RowsNumbered
    BY DEF Shape
  <1>2. size[d] \in Int /\ 1 \in Int
    BY <1>1 DEF TypeOK
  <1>3. storageUsed' \in [Counter -> Nat] /\ documentCount' \in [Counter -> Nat]
    BY <1>1, <1>2, MoveTypes DEF Recharge
  <1>4. RowsNumbered'
    BY <1>1 DEF Recharge, RowsNumbered, HasRow, TypeOK
  <1>. QED
    BY <1>1, <1>3, <1>4 DEF Recharge, Shape, RequestsOK, TypeOK, tenancy, NoFault

\* Deleting rows keeps the types of the rows.
LEMMA DropShape ==
    ASSUME Shape, NEW S, DropRows(S)
    PROVE  /\ status' \in [Doc -> {"none", "drawn", "active", "trashed", "gone"}]
           /\ versions' \subseteq Doc \X Version
           /\ RowsNumbered'
  BY DEF Shape, TypeOK, DropRows, RowsNumbered, HasRow

\* Deleting the objects of deleted rows.
LEMMA CleanUpShape ==
    ASSUME Shape, NEW r \in Request, NEW left, CleanUp(r, left)
    PROVE  Shape'
  <1>1. RequestsOK'
    BY IdleShape, GotoShape DEF CleanUp
  <1>2. objects' \in [Key -> 0..FileSizeLimit]
    BY WithoutType DEF CleanUp, Shape, TypeOK
  <1>3. Fault \/ NoFault
    BY DEF CleanUp
  <1>. QED
    BY <1>1, <1>2, <1>3, RowsStay DEF CleanUp, Shape, TypeOK

\* The later steps of a request keep the types.
LEMMA ContinueShape ==
    ASSUME Shape, NEW r \in Request, Continue(r)
    PROVE  Shape'
  <1>. DEFINE q == req[r]
  <1>0. TypeOK /\ q \in RequestState /\ WellFormed(q)
    BY DEF Shape, RequestsOK
  <1>1. CASE StoreNewObject(r)
    <2>. DEFINE content == IF q.src = None THEN q.size ELSE objects[q.src]
                next == OnDocument("uploaded", q.doc, 1, q.size, q.ctr, None)
    <2>1. q.doc \in Doc /\ q.ctr \in Counter /\ q.pc = "checked"
      BY <1>0, <1>1 DEF StoreNewObject, WellFormed, AddsDocument
    <2>2. content \in 0..FileSizeLimit
      BY <1>0 DEF TypeOK, RequestState
    <2>3. next \in RequestState
      BY <1>0, <2>1, ConstantsAssumption DEF OnDocument, RequestState, PC
    <2>4. WellFormed(next)
      BY <2>1 DEF OnDocument, WellFormed, AddsDocument, Unresolved
    <2>5. Goto(r, next)
      BY <1>1 DEF StoreNewObject
    <2>6. objects' = [objects EXCEPT ![_original_document_key(q.doc, 1)] = content]
      BY <1>1 DEF StoreNewObject
    <2>. HIDE DEF next, content
    <2>7. RequestsOK'
      BY <2>3, <2>4, <2>5, GotoShape
    <2>8. objects' \in [Key -> 0..FileSizeLimit]
      BY <1>0, <2>2, <2>6 DEF TypeOK
    <2>. QED
      BY <1>0, <1>1, <2>7, <2>8, RowsStay DEF StoreNewObject, TypeOK
  <1>2. CASE CopyFails(r)
    BY <1>0, <1>2, IdleShape, GotoShape, RowsStay DEF CopyFails, TypeOK
  <1>3. CASE RevertLock(r)
    <2>1. q.doc \in Doc /\ q.size \in 0..FileSizeLimit
      BY <1>0, <1>3 DEF RevertLock, WellFormed, RequestState
    <2>. QED  BY <1>3, <2>1, LockShape DEF RevertLock
  <1>4. CASE RevertNotFound(r)
    BY <1>0, <1>4, IdleShape, GotoShape, RowsStay DEF RevertNotFound, TypeOK
  <1>5. CASE StoreVersionObject(r)
    <2>. DEFINE next == [q EXCEPT !.pc = "stored"]
    <2>1. next \in RequestState
      BY <1>0 DEF RequestState, PC
    <2>2. WellFormed(next)
      BY <1>0, <1>5 DEF StoreVersionObject, RequestState, WellFormed, AddsDocument, Unresolved
    <2>3. Goto(r, next)
      BY <1>5 DEF StoreVersionObject
    <2>. HIDE DEF next
    <2>4. RequestsOK'
      BY <2>1, <2>2, <2>3, GotoShape
    <2>5. objects' \in [Key -> 0..FileSizeLimit]
      BY <1>0, <1>5 DEF StoreVersionObject, TypeOK, RequestState
    <2>. QED
      BY <1>0, <1>5, <2>4, <2>5, RowsStay DEF StoreVersionObject, TypeOK
  <1>6. CASE CommitRows(r)
    <2>1. RequestsOK'
      BY <1>6, IdleShape, GotoShape DEF CommitRows
    <2>. QED
      BY <1>0, <1>6, <2>1, WriteTypes
      DEF CommitRows, Shape, RequestsOK, TypeOK, tenancy, history, NoFault
  <1>7. CASE KeepObject(r)
    <2>1. RequestsOK'
      BY <1>7, FinishShape DEF KeepObject
    <2>. QED
      BY <1>0, <1>7, <2>1, RowsStay DEF KeepObject, TypeOK
  <1>8. CASE DeleteObject(r)
    <2>1. RequestsOK'
      BY <1>8, FinishShape DEF DeleteObject
    <2>2. objects' \in [Key -> 0..FileSizeLimit]
      BY <1>0, <1>8, WithoutType DEF DeleteObject, TypeOK
    <2>. QED
      BY <1>0, <1>8, <2>1, <2>2, RowsStay DEF DeleteObject, TypeOK
  <1>9. CASE RestoreCommit(r)
    <2>1. RequestsOK'
      BY <1>9, IdleShape, GotoShape DEF RestoreCommit
    <2>2. q.doc \in Doc /\ q.ctr \in Counter
      BY <1>0, <1>9 DEF RestoreCommit, WellFormed
    <2>. QED  BY <1>9, <2>1, <2>2, RechargeShape DEF RestoreCommit
  <1>10. CASE RestoreNotFound(r)
    BY <1>0, <1>10, IdleShape, GotoShape, RowsStay DEF RestoreNotFound, TypeOK
  <1>11. CASE PurgeDelete(r)
    <2>1. q.keys \in SUBSET Key /\ {} \in SUBSET Doc
      BY <1>0 DEF RequestState
    <2>2. RequestsOK'
      BY <1>11, <2>1, BatchShape, GotoShape DEF PurgeDelete
    <2>3. DropRows({d \in q.batch : HasRow(d)})
      BY <1>11 DEF PurgeDelete
    <2>4. stranded' \subseteq Doc
      BY <1>0, <1>11 DEF PurgeDelete, TypeOK, Active
    <2>. QED
      BY <1>0, <1>11, <2>2, <2>3, <2>4, DropShape
      DEF PurgeDelete, DropRows, Shape, RequestsOK, TypeOK, counters, tenancy, NoFault
  <1>12. CASE CleanUp(r, {})
    BY <1>12, CleanUpShape
  <1>. QED
    BY <1>1, <1>2, <1>3, <1>4, <1>5, <1>6, <1>7, <1>8, <1>9, <1>10, <1>11, <1>12
    DEF Continue

\* So does the end of a transaction whose COMMIT failed.
LEMMA ResolveShape ==
    ASSUME Shape, NEW r \in Request, Resolve(r)
    PROVE  Shape'
  <1>0. TypeOK
    BY DEF Shape
  <1>1. CASE ServerCommits(r)
    <2>1. RequestsOK'
      BY <1>1, ResolvedShape DEF ServerCommits
    <2>. QED
      BY <1>0, <1>1, <2>1, WriteTypes
      DEF ServerCommits, Shape, RequestsOK, TypeOK, tenancy, history, NoFault
  <1>2. CASE ServerAborts(r)
    <2>1. RequestsOK'
      BY <1>2, ResolvedShape DEF ServerAborts
    <2>2. lock' \in [Doc -> Request \cup {None}]
      BY <1>0, <1>2, UnlockTypes DEF ServerAborts
    <2>. QED
      BY <1>0, <1>2, <2>1, <2>2, RowsStay DEF ServerAborts, TypeOK
  <1>. QED  BY <1>1, <1>2 DEF Resolve

\* So does a failure.
LEMMA BreakShape ==
    ASSUME Shape, NEW r \in Request, Break(r)
    PROVE  Shape'
  <1>0. TypeOK /\ req[r] \in RequestState /\ WellFormed(req[r])
    BY DEF Shape, RequestsOK
  <1>1. CASE RowsFail(r)
    <2>1. RequestsOK'
      BY <1>1, IdleShape, GotoShape DEF RowsFail
    <2>2. lock' \in [Doc -> Request \cup {None}]
      BY <1>0, <1>1, UnlockTypes DEF RowsFail
    <2>3. objects' \in [Key -> 0..FileSizeLimit]
      BY <1>0, <1>1, WithoutType DEF RowsFail, TypeOK
    <2>. QED
      BY <1>1, <2>1, <2>2, <2>3, RowsStay DEF RowsFail
  <1>2. CASE CommitBreaks(r)
    <2>1. [req[r] EXCEPT !.pc = "unsure"] \in RequestState
      BY <1>0 DEF RequestState, PC
    <2>2. WellFormed([req[r] EXCEPT !.pc = "unsure"])
      BY <1>0, <1>2
      DEF CommitBreaks, ReadyToCommit, RequestState, WellFormed, AddsDocument, Unresolved
    <2>3. RequestsOK'
      BY <1>2, <2>1, <2>2, GotoShape DEF CommitBreaks
    <2>. QED
      BY <1>0, <1>2, <2>3, RowsStay DEF CommitBreaks, TypeOK
  <1>3. CASE CheckFails(r)
    <2>1. RequestsOK'
      BY <1>3, FinishShape DEF CheckFails
    <2>. QED
      BY <1>0, <1>3, <2>1, RowsStay DEF CheckFails, TypeOK
  <1>4. CASE UploadFails(r)
    <2>1. RequestsOK'
      BY <1>4, IdleShape, GotoShape DEF UploadFails
    <2>2. lock' \in [Doc -> Request \cup {None}]
      BY <1>0, <1>4, UnlockTypes DEF UploadFails
    <2>. QED
      BY <1>0, <1>4, <2>1, <2>2, RowsStay DEF UploadFails, TypeOK
  <1>5. CASE Crash(r)
    <2>1. RequestsOK'
      BY <1>5, FinishShape DEF Crash
    <2>2. lock' \in [Doc -> Request \cup {None}]
      BY <1>0, <1>5, UnlockTypes DEF Crash, TypeOK
    <2>. QED
      BY <1>0, <1>5, <2>1, <2>2, RowsStay DEF Crash, TypeOK
  <1>6. ASSUME NEW left, CleanUp(r, left)
        PROVE  Shape'
    BY <1>6, CleanUpShape
  <1>. QED
    BY <1>1, <1>2, <1>3, <1>4, <1>5, <1>6 DEF Break

\* So do the one-step handlers, the purge's read, and the administrator.
LEMMA OthersShape ==
    ASSUME Shape
    PROVE  /\ \A d \in Doc : SoftDelete(d) => Shape'
           /\ \A S \in SUBSET Doc : TrashFolder(S) => Shape'
           /\ Purge => Shape'
           /\ Administer => Shape'
  <1>0. TypeOK /\ RowsNumbered /\ RequestsOK
    BY DEF Shape
  <1>1. ASSUME NEW d \in Doc, SoftDelete(d)
        PROVE  Shape'
    <2>1. charged[d] \in Counter /\ -size[d] \in Int /\ -1 \in Int
      BY <1>0, ConstantsAssumption DEF TypeOK
    <2>2. storageUsed' \in [Counter -> Nat] /\ documentCount' \in [Counter -> Nat]
      BY <1>0, <1>1, <2>1, MoveTypes DEF SoftDelete
    <2>3. RowsNumbered'
      BY <1>0, <1>1 DEF SoftDelete, RowsNumbered, HasRow, TypeOK
    <2>. QED
      BY <1>0, <1>1, <2>2, <2>3
      DEF SoftDelete, Shape, RequestsOK, TypeOK, tenancy, history, NoFault
  <1>2. ASSUME NEW S \in SUBSET Doc, TrashFolder(S)
        PROVE  Shape'
    <2>1. storageUsed' \in [Counter -> Nat] /\ documentCount' \in [Counter -> Nat]
      BY <1>0, <1>2, BulkTypes DEF TrashFolder
    <2>2. RowsNumbered'
      BY <1>0, <1>2 DEF TrashFolder, RowsNumbered, HasRow, Active
    <2>. QED
      BY <1>0, <1>2, <2>1, <2>2
      DEF TrashFolder, Shape, RequestsOK, TypeOK, tenancy, history, NoFault
  <1>3. ASSUME NEW r \in Request, NEW S \in SUBSET Doc, PurgeSelect(r, S)
        PROVE  Shape'
    <2>1. collect_document_object_keys(S) \in SUBSET Key
      BY <1>0, CollectedKeys DEF TypeOK
    <2>2. RequestsOK'
      BY <1>3, <2>1, BatchShape, GotoShape DEF PurgeSelect
    <2>. QED
      BY <1>0, <1>3, <2>2, RowsStay DEF PurgeSelect, TypeOK
  <1>4. ASSUME NEW d \in Doc, NEW c \in Counter, AdminRestore(d, c)
        PROVE  Shape'
    <2>1. RequestsOK'
      BY <1>0, <1>4 DEF AdminRestore, RequestsOK
    <2>. QED  BY <1>4, <2>1, RechargeShape DEF AdminRestore
  <1>5. ASSUME NEW u \in User, NEW t \in Tenant,
               \/ add_member(u, t) \/ remove_member(u, t)
               \/ delete_tenant(t) \/ update_tenant(t)
        PROVE  Shape'
    BY <1>0, <1>5
    DEF add_member, remove_member, delete_tenant, update_tenant, Shape, RequestsOK,
        RowsNumbered, HasRow, TypeOK, rows, counters, history
  <1>6. ASSUME NEW t \in Tenant, delete_tenant(t) \/ update_tenant(t)
        PROVE  Shape'
    BY <1>0, <1>6
    DEF delete_tenant, update_tenant, Shape, RequestsOK,
        RowsNumbered, HasRow, TypeOK, rows, counters, history
  <1>7. CASE Reconcile
    <2>1. \A T \in SUBSET Doc : Bytes(T) \in Nat /\ Cardinality(T) \in Nat
      BY <1>0, BulkTypes
    <2>2. \A c : {d \in Active : charged[d] = c} \in SUBSET Doc
      BY DEF Active
    <2>3. storageUsed' \in [Counter -> Nat] /\ documentCount' \in [Counter -> Nat]
      BY <1>7, <2>1, <2>2 DEF Reconcile
    <2>. QED
      BY <1>0, <1>7, <2>3
      DEF Reconcile, Shape, RequestsOK, RowsNumbered, HasRow, TypeOK, rows, tenancy, NoFault
  <1>8. Administer => Shape'
    BY <1>4, <1>5, <1>6, <1>7 DEF Administer
  <1>9. Purge => Shape'
    BY <1>3 DEF Purge
  <1>. QED  BY <1>1, <1>2, <1>8, <1>9

\* The initial state has the shape.
LEMMA InitShape == Init => Shape
  <1>. SUFFICES ASSUME Init PROVE Shape
    OBVIOUS
  <1>1. RequestsOK
    BY IdleShape DEF Init, RequestsOK
  <1>2. TypeOK
    BY <1>1, ConstantsAssumption DEF Init, TypeOK, RequestsOK, Counter
  <1>. QED  BY <1>1, <1>2 DEF Init, Shape, RowsNumbered, HasRow

\* Every step keeps it.
LEMMA NextShape == Shape /\ [Next]_vars => Shape'
  <1>. SUFFICES ASSUME Shape, [Next]_vars PROVE Shape'
    OBVIOUS
  <1>1. CASE Next
    BY <1>1, StartShape, ContinueShape, ResolveShape, BreakShape, OthersShape DEF Next
  <1>2. CASE UNCHANGED vars
    BY <1>2 DEF Shape, RequestsOK, RowsNumbered, HasRow, TypeOK, WellFormed, AddsDocument,
                Unresolved, vars, rows, counters, tenancy, history
  <1>. QED  BY <1>1, <1>2

\* For every set of users, organizations, documents and requests and every
\* limit, each handler step writes values of the domain of its column: no
\* counter becomes negative although every release subtracts a size, and no
\* version number or request is malformed at any interleaving or failure.
THEOREM TypeCorrect == Spec => []TypeOK
  <1>1. Shape => TypeOK
    BY DEF Shape
  <1>. QED  BY <1>1, InitShape, NextShape, PTL DEF Spec

-----------------------------------------------------------------------------
(***************************************************************************)
(* Isolation: no step of another actor changes what a save has read.       *)
(***************************************************************************)

Isolated == SavesIsolated /\ StrandedGone

\* No request but r is in the middle of adding d, or a version of d.
Clear(d, r) ==
    \A p \in Request \ {r} : AddsVersion(req[p]) \/ AddsDocument(req[p]) => req[p].doc # d

\* A document that is neither new nor locked by somebody else.
LEMMA ClearUnlocked ==
    ASSUME SavesIsolated, NEW d \in Doc, NEW r,
           status[d] # "drawn", lock[d] \in {r, None} \/ status[d] # "active"
    PROVE  Clear(d, r)
  BY ConstantsAssumption DEF SavesIsolated, Clear

\* The id that a request has drawn for a new document is its own.
LEMMA ClearOwn ==
    ASSUME SavesIsolated, NEW r \in Request, AddsDocument(req[r])
    PROVE  Clear(req[r].doc, r)
  BY DEF SavesIsolated, Clear

\* A step of r, or of an actor that is no request, that changes only
\* documents that are clear of the others.
LEMMA Frame ==
    ASSUME Shape, Isolated, NEW r, NEW D \in SUBSET Doc,
           \A p \in Request \ {r} : req'[p] = req[p],
           \A d \in Doc \ D : /\ status'[d] = status[d]
                              /\ lock'[d] = lock[d]
                              /\ current'[d] = current[d],
           \A d \in D : Clear(d, r),
           r \in Request => /\ AddsVersion(req'[r]) => /\ lock'[req'[r].doc] = r
                                                       /\ status'[req'[r].doc] = "active"
                                                       /\ req'[r].n = current'[req'[r].doc] + 1
                            /\ AddsDocument(req'[r]) => /\ status'[req'[r].doc] = "drawn"
                                                        /\ Clear(req'[r].doc, r),
           \A d \in Doc : status[d] = "gone" => status'[d] = "gone",
           \A d \in stranded' : d \in stranded \/ status'[d] = "gone"
    PROVE  Isolated'
  <1>1. \A p \in Request : AddsVersion(req[p]) \/ AddsDocument(req[p]) => req[p].doc \in Doc
    BY DEF Shape, RequestsOK, WellFormed, AddsVersion, AddsDocument, Unresolved
  <1>2. ASSUME NEW p \in Request \ {r}
        PROVE  /\ AddsVersion(req'[p]) => /\ lock'[req'[p].doc] = p
                                          /\ status'[req'[p].doc] = "active"
                                          /\ req'[p].n = current'[req'[p].doc] + 1
               /\ AddsDocument(req'[p]) => status'[req'[p].doc] = "drawn"
    <2>1. req'[p] = req[p]
      OBVIOUS
    <2>2. AddsVersion(req[p]) \/ AddsDocument(req[p]) => req[p].doc \in Doc \ D
      BY <1>1 DEF Clear
    <2>. QED  BY <2>1, <2>2 DEF Isolated, SavesIsolated
  <1>3. ASSUME NEW p \in Request, NEW x \in Request \ {p},
               AddsDocument(req'[p]), AddsDocument(req'[x])
        PROVE  req'[x].doc # req'[p].doc
    <2>1. CASE p = r
      BY <1>3, <2>1 DEF Clear
    <2>2. CASE x = r
      BY <1>3, <2>2 DEF Clear
    <2>3. CASE p # r /\ x # r
      BY <1>3, <2>3 DEF Isolated, SavesIsolated
    <2>. QED  BY <2>1, <2>2, <2>3
  <1>4. SavesIsolated'
    BY <1>2, <1>3 DEF SavesIsolated, AddsVersion, AddsDocument, Unresolved
  <1>5. StrandedGone'
    BY DEF StrandedGone, Isolated, Shape, TypeOK
  <1>. QED  BY <1>4, <1>5 DEF Isolated

\* What Goto does to the requests.
LEMMA GotoEffect ==
    ASSUME Shape, NEW r \in Request, NEW q, Goto(r, q)
    PROVE  req'[r] = q /\ \A p \in Request \ {r} : req'[p] = req[p]
  BY DEF Shape, TypeOK, Goto

Adds(q) == AddsVersion(q) \/ AddsDocument(q)

\* A request that does nothing, or works on a batch, adds nothing.
LEMMA AddsNothing ==
    /\ ~Adds(Idle)
    /\ \A pc \in {"selected", "cleanup"} : \A S, K : ~Adds(OnBatch(pc, S, K))
    /\ \A q : q.pc \in {"reverting", "restoring", "settled"} => ~Adds(q)
  BY DEF Adds, AddsVersion, AddsDocument, Unresolved, Idle, OnBatch

\* A request that goes on with what it adds, or gives it up, while the rows
\* stay as they are.
LEMMA QuietIsolated ==
    ASSUME Shape, Isolated, NEW r \in Request, NEW q, Goto(r, q),
           UNCHANGED <<status, current, lock, stranded>>,
           AddsVersion(q) => AddsVersion(req[r]) /\ q.doc = req[r].doc /\ q.n = req[r].n,
           AddsDocument(q) => AddsDocument(req[r]) /\ q.doc = req[r].doc
    PROVE  Isolated'
  <1>1. req'[r] = q /\ \A p \in Request \ {r} : req'[p] = req[p]
    BY GotoEffect
  <1>2. SavesIsolated
    BY DEF Isolated
  <1>3. AddsVersion(q) => /\ lock[q.doc] = r
                          /\ status[q.doc] = "active"
                          /\ q.n = current[q.doc] + 1
    BY <1>2 DEF SavesIsolated
  <1>4. AddsDocument(q) => status[q.doc] = "drawn" /\ Clear(q.doc, r)
    BY <1>2, ClearOwn DEF SavesIsolated
  <1>5. /\ {} \in SUBSET Doc
        /\ \A d \in {} : Clear(d, r)
        /\ \A d \in Doc \ {} : /\ status'[d] = status[d]
                               /\ lock'[d] = lock[d]
                               /\ current'[d] = current[d]
    OBVIOUS
  <1>. QED  BY <1>1, <1>3, <1>4, <1>5, Frame

\* A request whose transaction ends without a commit frees its row lock.
LEMMA UnlockIsolated ==
    ASSUME Shape, Isolated, NEW r \in Request, NEW q, Goto(r, q), ~Adds(q), Adds(req[r]),
           Unlock(req[r]), UNCHANGED <<status, current, stranded>>
    PROVE  Isolated'
  <1>1. req'[r] = q /\ \A p \in Request \ {r} : req'[p] = req[p]
    BY GotoEffect
  <1>2. req[r].doc \in Doc /\ lock \in [Doc -> Request \cup {None}]
    BY DEF Shape, TypeOK, RequestsOK, WellFormed, Adds, AddsVersion, AddsDocument, Unresolved
  <1>3. Clear(req[r].doc, r)
    <2>1. CASE AddsDocument(req[r])
      BY <2>1, ClearOwn DEF Isolated
    <2>2. CASE AddsVersion(req[r])
      BY <1>2, <2>2, ClearUnlocked DEF Isolated, SavesIsolated
    <2>. QED  BY <2>1, <2>2 DEF Adds
  <1>4. \A d \in Doc \ {req[r].doc} : lock'[d] = lock[d]
    BY <1>2 DEF Unlock
  <1>5. \A d \in {req[r].doc} : Clear(d, r)
    BY <1>3
  <1>6. {req[r].doc} \in SUBSET Doc
    BY <1>2
  <1>. QED  BY <1>1, <1>4, <1>5, <1>6, Frame DEF Adds

\* The end of a request, and the death of a client whose COMMIT is running.
LEMMA FinishIsolated ==
    ASSUME Shape, Isolated, NEW r \in Request, Finish(r),
           UNCHANGED <<status, current, lock, stranded>>
    PROVE  Isolated'
  <1>1. req[r] \in RequestState
    BY DEF Shape, RequestsOK
  <1>2. CASE Unresolved(req[r])
    <2>. DEFINE q == [req[r] EXCEPT !.pc = "dead"]
    <2>1. Goto(r, q)
      BY <1>2 DEF Finish
    <2>2. q.doc = req[r].doc /\ q.n = req[r].n /\ q.pc = "dead"
      BY <1>1 DEF RequestState
    <2>. HIDE DEF q
    <2>3. /\ AddsVersion(q) => AddsVersion(req[r])
          /\ AddsDocument(q) => AddsDocument(req[r])
      BY <1>2, <2>2 DEF AddsVersion, AddsDocument, Unresolved
    <2>. QED  BY <2>1, <2>2, <2>3, QuietIsolated
  <1>3. CASE ~Unresolved(req[r])
    BY <1>3, AddsNothing, QuietIsolated DEF Finish, Adds
  <1>. QED  BY <1>2, <1>3

\* A committed save, by its request or by the server alone.
LEMMA WriteIsolated ==
    ASSUME Shape, Isolated, NEW r \in Request, ReadyToCommit(r) \/ Unresolved(req[r]),
           Write(req[r]), NEW q, Goto(r, q), ~Adds(q), UNCHANGED stranded
    PROVE  Isolated'
  <1>. DEFINE d == req[r].doc
  <1>1. req'[r] = q /\ \A p \in Request \ {r} : req'[p] = req[p]
    BY GotoEffect
  <1>2. /\ d \in Doc
        /\ req[r].n = 1 => AddsDocument(req[r])
        /\ req[r].n # 1 => AddsVersion(req[r])
    BY DEF Shape, RequestsOK, WellFormed, ReadyToCommit, AddsVersion, AddsDocument,
           Unresolved, RequestState
  <1>3. /\ status \in [Doc -> {"none", "drawn", "active", "trashed", "gone"}]
        /\ current \in [Doc -> 0..MaxVersion]
        /\ lock \in [Doc -> Request \cup {None}]
    BY DEF Shape, TypeOK
  <1>4. Clear(d, r)
    BY <1>2, ClearOwn, ClearUnlocked DEF Isolated, SavesIsolated
  <1>5. /\ \A e \in Doc \ {d} : /\ status'[e] = status[e]
                                /\ lock'[e] = lock[e]
                                /\ current'[e] = current[e]
        /\ \A e \in Doc : status[e] = "gone" => status'[e] = "gone"
    <2>1. CASE req[r].n = 1
      <3>1. status[d] = "drawn"
        BY <1>2, <2>1 DEF Isolated, SavesIsolated
      <3>. QED  BY <1>3, <2>1, <3>1 DEF Write, WriteNewDocument
    <2>2. CASE req[r].n # 1
      BY <1>3, <2>2 DEF Write, WriteNewVersion
    <2>. QED  BY <2>1, <2>2
  <1>. HIDE DEF d
  <1>6. \A e \in {d} : Clear(e, r)
    BY <1>4
  <1>7. {d} \in SUBSET Doc
    BY <1>2 DEF d
  <1>. QED  BY <1>1, <1>5, <1>6, <1>7, Frame DEF Adds

\* Taking the row lock for a new version.
LEMMA LockIsolated ==
    ASSUME Shape, Isolated, NEW r \in Request, NEW d \in Doc, NEW s, LockForVersion(r, d, s)
    PROVE  Isolated'
  <1>. DEFINE q == OnDocument("locked", d, current[d] + 1, s, None, None)
  <1>1. req'[r] = q /\ \A p \in Request \ {r} : req'[p] = req[p]
    BY GotoEffect DEF LockForVersion
  <1>2. q.doc = d /\ q.n = current[d] + 1 /\ ~AddsDocument(q)
    BY DEF OnDocument, AddsDocument, Unresolved
  <1>. HIDE DEF q
  <1>3. /\ \A e \in Doc \ {d} : lock'[e] = lock[e]
        /\ lock'[d] = r
        /\ UNCHANGED <<status, current, stranded>>
    BY DEF LockForVersion, Shape, TypeOK, rows, history
  <1>4. \A e \in {d} : Clear(e, r)
    BY ClearUnlocked DEF Isolated, LockForVersion
  <1>5. status[d] = "active"
    BY DEF LockForVersion
  <1>6. {d} \in SUBSET Doc
    OBVIOUS
  <1>. QED  BY <1>1, <1>2, <1>3, <1>4, <1>5, <1>6, Frame

\* Restoring a document from the trash, by its owner's request or by the
\* administrator (who is no request).
LEMMA RechargeIsolated ==
    ASSUME Shape, Isolated, NEW d \in Doc, NEW c, Recharge(d, c), NEW r,
           \A p \in Request \ {r} : req'[p] = req[p],
           r \in Request => ~Adds(req'[r])
    PROVE  Isolated'
  <1>1. /\ \A e \in Doc \ {d} : status'[e] = status[e]
        /\ \A e \in Doc : status[e] = "gone" => status'[e] = "gone"
        /\ UNCHANGED <<current, lock, stranded>>
    BY DEF Recharge, Shape, TypeOK
  <1>2. \A e \in {d} : Clear(e, r)
    BY ClearUnlocked DEF Isolated, Recharge
  <1>3. {d} \in SUBSET Doc
    OBVIOUS
  <1>. QED  BY <1>1, <1>2, <1>3, Frame DEF Adds

\* Deleting rows that nobody has locked.
LEMMA DropIsolated ==
    ASSUME Shape, Isolated, NEW S \in SUBSET Doc, DropRows(S), NEW r \in Request, NEW q,
           Goto(r, q), ~Adds(q), \A d \in S : HasRow(d) /\ lock[d] = None,
           UNCHANGED lock, stranded' \subseteq stranded \cup S
    PROVE  Isolated'
  <1>1. req'[r] = q /\ \A p \in Request \ {r} : req'[p] = req[p]
    BY GotoEffect
  <1>2. /\ \A e \in Doc \ S : status'[e] = status[e]
        /\ \A e \in S : status'[e] = "gone"
        /\ UNCHANGED <<current, lock>>
    BY DEF DropRows
  <1>3. \A e \in S : Clear(e, r)
    BY ClearUnlocked DEF Isolated, HasRow
  <1>. QED  BY <1>1, <1>2, <1>3, Frame DEF Adds

\* An actor that is no request and changes only unlocked documents.
LEMMA OutsiderIsolated ==
    ASSUME Shape, Isolated, NEW D \in SUBSET Doc, UNCHANGED <<req, lock, current>>,
           \A d \in Doc \ D : status'[d] = status[d],
           \A d \in D : HasRow(d) /\ lock[d] = None,
           stranded' \subseteq stranded
    PROVE  Isolated'
  <1>1. \A p \in Request \ {None} : req'[p] = req[p]
    OBVIOUS
  <1>2. \A d \in D : Clear(d, None)
    BY ClearUnlocked DEF Isolated, HasRow
  <1>3. None \notin Request
    BY ConstantsAssumption
  <1>4. \A d \in Doc : status[d] = "gone" => status'[d] = "gone"
    BY DEF HasRow
  <1>. QED  BY <1>1, <1>2, <1>3, <1>4, Frame

\* The first step of a request leaves the saves in progress isolated: a new
\* id was never drawn before, a new version waits for the row lock.
LEMMA StartIsolated ==
    ASSUME Shape, Isolated, NEW r \in Request, Start(r)
    PROVE  Isolated'
  <1>1. ASSUME NEW d \in Doc, NEW q, status[d] = "none", Goto(r, q),
               status' = [status EXCEPT ![d] = "drawn"],
               UNCHANGED <<current, lock, stranded>>, q.doc = d, ~AddsVersion(q)
        PROVE  Isolated'
    <2>1. req'[r] = q /\ \A p \in Request \ {r} : req'[p] = req[p]
      BY <1>1, GotoEffect
    <2>2. /\ \A e \in Doc \ {d} : status'[e] = status[e]
          /\ \A e \in Doc : status[e] = "gone" => status'[e] = "gone"
          /\ status'[d] = "drawn"
      BY <1>1 DEF Shape, TypeOK
    <2>3. Clear(d, r)
      BY <1>1, ClearUnlocked DEF Isolated
    <2>4. {d} \in SUBSET Doc /\ \A e \in {d} : Clear(e, r)
      BY <2>3
    <2>5. /\ \A e \in Doc \ {d} : /\ status'[e] = status[e]
                                  /\ lock'[e] = lock[e]
                                  /\ current'[e] = current[e]
          /\ ~AddsVersion(req'[r])
          /\ status'[req'[r].doc] = "drawn" /\ Clear(req'[r].doc, r)
          /\ stranded' = stranded
      BY <1>1, <2>1, <2>2, <2>3
    <2>. QED  BY <2>1, <2>2, <2>4, <2>5, Frame
  <1>2. ASSUME NEW d \in Doc, NEW s, NEW c, SaveStart(r, d, s, c)
        PROVE  Isolated'
    BY <1>1, <1>2 DEF SaveStart, OnDocument, AddsVersion, Unresolved, history
  <1>3. ASSUME NEW d \in Doc, NEW source, NEW c, DuplicateStart(r, d, source, c)
        PROVE  Isolated'
    BY <1>1, <1>3 DEF DuplicateStart, OnDocument, AddsVersion, Unresolved, history
  <1>4. ASSUME NEW d \in Doc, NEW s, VersionStart(r, d, s)
        PROVE  Isolated'
    BY <1>4, LockIsolated DEF VersionStart
  <1>5. ASSUME NEW d \in Doc, RevertStart(r, d)
        PROVE  Isolated'
    BY <1>5, QuietIsolated
    DEF RevertStart, OnDocument, AddsVersion, AddsDocument, Unresolved, rows, history
  <1>6. ASSUME NEW d \in Doc, HardDelete(r, d)
        PROVE  Isolated'
    <2>1. {d} \in SUBSET Doc /\ \A e \in {d} : HasRow(e) /\ lock[e] = None
      BY <1>6 DEF HardDelete
    <2>. QED  BY <1>6, <2>1, AddsNothing, DropIsolated DEF HardDelete, history
  <1>7. ASSUME NEW d \in Doc, NEW c, RestoreStart(r, d, c)
        PROVE  Isolated'
    BY <1>7, QuietIsolated
    DEF RestoreStart, OnDocument, AddsVersion, AddsDocument, Unresolved, rows, history
  <1>. QED  BY <1>2, <1>3, <1>4, <1>5, <1>6, <1>7 DEF Start

\* So do the later steps of a request.
LEMMA ContinueIsolated ==
    ASSUME Shape, Isolated, NEW r \in Request, Continue(r)
    PROVE  Isolated'
  <1>0. req[r] \in RequestState /\ WellFormed(req[r])
    BY DEF Shape, RequestsOK
  <1>1. CASE StoreNewObject(r)
    BY <1>1, QuietIsolated
    DEF StoreNewObject, OnDocument, AddsVersion, AddsDocument, Unresolved, rows, history
  <1>2. CASE CopyFails(r)
    BY <1>2, AddsNothing, QuietIsolated DEF CopyFails, Adds, rows, history
  <1>3. CASE RevertLock(r)
    <2>1. req[r].doc \in Doc
      BY <1>0, <1>3 DEF RevertLock, WellFormed
    <2>. QED  BY <1>3, <2>1, LockIsolated DEF RevertLock
  <1>4. CASE RevertNotFound(r)
    BY <1>4, AddsNothing, QuietIsolated DEF RevertNotFound, Adds, rows, history
  <1>5. CASE StoreVersionObject(r)
    <2>. DEFINE q == [req[r] EXCEPT !.pc = "stored"]
    <2>1. q.doc = req[r].doc /\ q.n = req[r].n /\ q.pc = "stored"
      BY <1>0 DEF RequestState
    <2>2. Goto(r, q) /\ UNCHANGED <<status, current, lock, stranded>>
      BY <1>5 DEF StoreVersionObject, rows, history
    <2>. HIDE DEF q
    <2>3. AddsVersion(req[r]) /\ ~AddsDocument(q)
      BY <1>5, <2>1 DEF StoreVersionObject, AddsVersion, AddsDocument, Unresolved
    <2>. QED  BY <2>1, <2>2, <2>3, QuietIsolated
  <1>6. CASE CommitRows(r)
    BY <1>6, AddsNothing, WriteIsolated DEF CommitRows, history
  <1>7. CASE KeepObject(r)
    BY <1>7, FinishIsolated DEF KeepObject, rows, history
  <1>8. CASE DeleteObject(r)
    BY <1>8, FinishIsolated DEF DeleteObject, rows, history
  <1>9. CASE RestoreCommit(r)
    <2>1. req[r].doc \in Doc
      BY <1>0, <1>9 DEF RestoreCommit, WellFormed
    <2>2. req'[r] = Idle /\ \A p \in Request \ {r} : req'[p] = req[p]
      BY <1>9, GotoEffect DEF RestoreCommit
    <2>. QED  BY <1>9, <2>1, <2>2, AddsNothing, RechargeIsolated DEF RestoreCommit
  <1>10. CASE RestoreNotFound(r)
    BY <1>10, AddsNothing, QuietIsolated DEF RestoreNotFound, Adds, rows, history
  <1>11. CASE PurgeDelete(r)
    <2>. DEFINE S == {d \in req[r].batch : HasRow(d)}
    <2>1. S \in SUBSET Doc
      BY <1>0 DEF RequestState
    <2>2. \A d \in S : HasRow(d) /\ lock[d] = None
      BY <1>11 DEF PurgeDelete
    <2>. QED  BY <1>11, <2>1, <2>2, AddsNothing, DropIsolated DEF PurgeDelete
  <1>12. CASE CleanUp(r, {})
    BY <1>12, AddsNothing, QuietIsolated DEF CleanUp, Adds, rows, history
  <1>. QED
    BY <1>1, <1>2, <1>3, <1>4, <1>5, <1>6, <1>7, <1>8, <1>9, <1>10, <1>11, <1>12
    DEF Continue

\* So does the end of a transaction whose COMMIT failed.
LEMMA ResolveIsolated ==
    ASSUME Shape, Isolated, NEW r \in Request, Resolve(r)
    PROVE  Isolated'
  <1>0. req[r] \in RequestState /\ WellFormed(req[r])
    BY DEF Shape, RequestsOK
  <1>1. ~Adds(Resolved(req[r]))
    <2>1. CASE req[r].pc = "dead"
      BY <2>1, AddsNothing DEF Resolved
    <2>2. CASE req[r].pc # "dead"
      <3>. DEFINE q == [req[r] EXCEPT !.pc = "settled"]
      <3>1. q.pc = "settled"
        BY <1>0 DEF RequestState
      <3>2. Resolved(req[r]) = q
        BY <2>2 DEF Resolved
      <3>. HIDE DEF q
      <3>. QED  BY <3>1, <3>2 DEF Adds, AddsVersion, AddsDocument, Unresolved
    <2>. QED  BY <2>1, <2>2
  <1>2. CASE ServerCommits(r)
    BY <1>1, <1>2, WriteIsolated DEF ServerCommits, history
  <1>3. CASE ServerAborts(r)
    <2>1. Adds(req[r])
      BY <1>0, <1>3 DEF ServerAborts, RequestState, WellFormed, Adds, AddsVersion,
                        AddsDocument, Unresolved
    <2>. QED  BY <1>1, <1>3, <2>1, UnlockIsolated DEF ServerAborts, rows, history
  <1>. QED  BY <1>2, <1>3 DEF Resolve

\* So does a failure.
LEMMA BreakIsolated ==
    ASSUME Shape, Isolated, NEW r \in Request, Break(r)
    PROVE  Isolated'
  <1>0. req[r] \in RequestState /\ WellFormed(req[r])
    BY DEF Shape, RequestsOK
  <1>1. CASE RowsFail(r)
    <2>1. Adds(req[r])
      BY <1>1 DEF RowsFail, ReadyToCommit, Adds, AddsVersion, AddsDocument
    <2>. QED  BY <1>1, <2>1, AddsNothing, UnlockIsolated DEF RowsFail, rows, history
  <1>2. CASE CommitBreaks(r)
    <2>. DEFINE q == [req[r] EXCEPT !.pc = "unsure"]
    <2>1. q.doc = req[r].doc /\ q.n = req[r].n /\ q.pc = "unsure"
      BY <1>0 DEF RequestState
    <2>2. Goto(r, q) /\ UNCHANGED <<status, current, lock, stranded>>
      BY <1>2 DEF CommitBreaks, rows, history
    <2>. HIDE DEF q
    <2>3. /\ AddsVersion(q) => AddsVersion(req[r])
          /\ AddsDocument(q) => AddsDocument(req[r])
      BY <1>0, <1>2, <2>1
      DEF CommitBreaks, ReadyToCommit, WellFormed, AddsVersion, AddsDocument, Unresolved,
          RequestState
    <2>. QED  BY <2>1, <2>2, <2>3, QuietIsolated
  <1>3. CASE CheckFails(r)
    BY <1>3, FinishIsolated DEF CheckFails, rows, history
  <1>4. CASE UploadFails(r)
    <2>1. Adds(req[r])
      BY <1>4 DEF UploadFails, Adds, AddsVersion, AddsDocument
    <2>. QED  BY <1>4, <2>1, AddsNothing, UnlockIsolated DEF UploadFails, rows, history
  <1>5. CASE Crash(r)
    <2>1. CASE req[r].pc \in {"locked", "stored"}
      <3>1. Adds(req[r])
        BY <2>1 DEF Adds, AddsVersion
      <3>2. Goto(r, Idle) /\ Unlock(req[r])
        BY <1>5, <2>1 DEF Crash, Finish, Unresolved
      <3>. QED  BY <1>5, <3>1, <3>2, AddsNothing, UnlockIsolated DEF Crash, rows, history
    <2>2. CASE req[r].pc \notin {"locked", "stored"}
      BY <1>5, <2>2, FinishIsolated DEF Crash, rows, history
    <2>. QED  BY <2>1, <2>2
  <1>6. ASSUME NEW left, CleanUp(r, left)
        PROVE  Isolated'
    BY <1>6, AddsNothing, QuietIsolated DEF CleanUp, Adds, rows, history
  <1>. QED
    BY <1>1, <1>2, <1>3, <1>4, <1>5, <1>6 DEF Break

\* So do the one-step handlers, the purge's read, and the administrator.
LEMMA OthersIsolated ==
    ASSUME Shape, Isolated
    PROVE  /\ \A d \in Doc : SoftDelete(d) => Isolated'
           /\ \A S \in SUBSET Doc : TrashFolder(S) => Isolated'
           /\ Purge => Isolated'
           /\ Administer => Isolated'
  <1>1. ASSUME NEW d \in Doc, SoftDelete(d)
        PROVE  Isolated'
    <2>1. /\ {d} \in SUBSET Doc
          /\ \A e \in Doc \ {d} : status'[e] = status[e]
          /\ \A e \in {d} : HasRow(e) /\ lock[e] = None
      BY <1>1 DEF SoftDelete, HasRow, Shape, TypeOK
    <2>. QED  BY <1>1, <2>1, OutsiderIsolated DEF SoftDelete, history
  <1>2. ASSUME NEW S \in SUBSET Doc, TrashFolder(S)
        PROVE  Isolated'
    <2>1. /\ \A e \in Doc \ S : status'[e] = status[e]
          /\ \A e \in S : HasRow(e) /\ lock[e] = None
      BY <1>2 DEF TrashFolder, HasRow, Active
    <2>. QED  BY <1>2, <2>1, OutsiderIsolated DEF TrashFolder, history
  <1>3. ASSUME NEW r \in Request, NEW S \in SUBSET Doc, PurgeSelect(r, S)
        PROVE  Isolated'
    BY <1>3, AddsNothing, QuietIsolated DEF PurgeSelect, Adds, rows, history
  <1>4. ASSUME NEW d \in Doc, NEW c \in Counter, AdminRestore(d, c)
        PROVE  Isolated'
    <2>1. None \notin Request
      BY ConstantsAssumption
    <2>2. \A p \in Request \ {None} : req'[p] = req[p]
      BY <1>4 DEF AdminRestore
    <2>. QED  BY <1>4, <2>1, <2>2, RechargeIsolated DEF AdminRestore
  <1>5. ASSUME UNCHANGED <<rows, lock, req>>, stranded' \subseteq stranded
        PROVE  Isolated'
    <2>1. {} \in SUBSET Doc /\ \A d \in {} : HasRow(d) /\ lock[d] = None
      OBVIOUS
    <2>. QED  BY <1>5, <2>1, OutsiderIsolated DEF rows
  <1>6. Administer => Isolated'
    BY <1>4, <1>5
    DEF Administer, add_member, remove_member, delete_tenant, update_tenant, Reconcile, history
  <1>7. Purge => Isolated'
    BY <1>3 DEF Purge
  <1>. QED  BY <1>1, <1>2, <1>6, <1>7

\* Initially nothing is in progress.
LEMMA InitIsolated == Init => Isolated
  BY AddsNothing DEF Init, Isolated, SavesIsolated, StrandedGone, Adds

\* Every step keeps the saves in progress isolated.
LEMMA NextIsolated == Shape /\ Isolated /\ [Next]_vars => Isolated'
  <1>. SUFFICES ASSUME Shape, Isolated, [Next]_vars PROVE Isolated'
    OBVIOUS
  <1>1. CASE Next
    BY <1>1, StartIsolated, ContinueIsolated, ResolveIsolated, BreakIsolated, OthersIsolated
    DEF Next
  <1>2. CASE UNCHANGED vars
    BY <1>2
    DEF Isolated, SavesIsolated, StrandedGone, AddsVersion, AddsDocument, Unresolved,
        vars, rows, history
  <1>. QED  BY <1>1, <1>2

-----------------------------------------------------------------------------
(***************************************************************************)
(* Every step charges one document, resizes one, frees some, moves no      *)
(* counter, or recounts.                                                   *)
(***************************************************************************)

Counted ==
    \/ \E d \in Doc, c \in Counter, b \in 0..FileSizeLimit : ChargeStep(d, c, b)
    \/ \E d \in Doc, b \in 0..FileSizeLimit : ResizeStep(d, b)
    \/ \E S \in SUBSET Doc : FreeStep(S)
    \/ StillStep
    \/ Reconcile

\* A step that leaves rows, counters and history alone.
LEMMA QuietStill ==
    ASSUME UNCHANGED <<rows, counters, stranded>>
    PROVE  Counted
  BY DEF Counted, StillStep, Charged, Active, rows

\* A committed save charges its new document, or resizes its document.
LEMMA WriteCounted ==
    ASSUME Shape, Isolated, NEW r \in Request, ReadyToCommit(r) \/ Unresolved(req[r]),
           Write(req[r]), UNCHANGED stranded
    PROVE  Counted
  <1>. DEFINE q == req[r]
  <1>1. q \in RequestState /\ WellFormed(q) /\ q.pc \in {"uploaded", "stored", "unsure", "dead"}
    BY DEF Shape, RequestsOK, ReadyToCommit, Unresolved
  <1>2. /\ q.doc \in Doc /\ q.size \in 0..FileSizeLimit
        /\ q.n = 1 => AddsDocument(q) /\ q.ctr \in Counter
        /\ q.n # 1 => AddsVersion(q)
    BY <1>1 DEF RequestState, WellFormed, AddsVersion, AddsDocument, Unresolved
  <1>3. TypeOK /\ SavesIsolated /\ StrandedGone
    BY DEF Shape, Isolated
  <1>4. CASE q.n = 1
    <2>1. status[q.doc] = "drawn"
      BY <1>2, <1>3, <1>4 DEF SavesIsolated
    <2>2. WriteNewDocument(q)
      BY <1>4 DEF Write
    <2>. HIDE DEF q
    <2>3. q.doc \notin Charged
      BY <1>3, <2>1 DEF Charged, Active, StrandedGone
    <2>4. Active' = Active \cup {q.doc}
      BY <1>2, <1>3, <2>2 DEF WriteNewDocument, Active, TypeOK
    <2>5. Charged' = Charged \cup {q.doc}
      BY <2>4 DEF Charged
    <2>6. ChargeStep(q.doc, q.ctr, q.size)
      BY <1>2, <1>4, <2>2, <2>3, <2>5 DEF ChargeStep, WriteNewDocument
    <2>. QED  BY <1>2, <1>4, <2>6 DEF Counted
  <1>5. CASE q.n # 1
    <2>1. status[q.doc] = "active"
      BY <1>2, <1>3, <1>5 DEF SavesIsolated
    <2>2. WriteNewVersion(q)
      BY <1>5 DEF Write
    <2>. HIDE DEF q
    <2>3. Charged' = Charged /\ q.doc \in Charged
      BY <1>2, <2>1, <2>2 DEF WriteNewVersion, Charged, Active
    <2>4. ResizeStep(q.doc, q.size)
      BY <1>2, <2>1, <2>2, <2>3 DEF ResizeStep, WriteNewVersion, _resize_stored_document
    <2>. QED  BY <1>2, <2>4 DEF Counted
  <1>. QED  BY <1>4, <1>5

\* A restored document is charged anew.
LEMMA RechargeCounted ==
    ASSUME Shape, Isolated, NEW d \in Doc, NEW c \in Counter, Recharge(d, c)
    PROVE  Counted
  <1>1. TypeOK /\ StrandedGone /\ status[d] = "trashed"
    BY DEF Shape, Isolated, Recharge
  <1>2. d \notin Charged
    BY <1>1 DEF Charged, Active, StrandedGone
  <1>3. Active' = Active \cup {d}
    BY <1>1 DEF Recharge, Active, TypeOK
  <1>4. Charged' = Charged \cup {d}
    BY <1>3 DEF Charged, Recharge
  <1>5. size' = [size EXCEPT ![d] = size[d]] /\ size[d] \in 0..FileSizeLimit
    BY <1>1 DEF TypeOK, Recharge
  <1>6. ChargeStep(d, c, size[d])
    BY <1>2, <1>4, <1>5 DEF ChargeStep, Recharge
  <1>. QED  BY <1>5, <1>6 DEF Counted

\* A deleted document is freed from the counter that holds it, unless it was
\* in the trash.
LEMMA DeleteCounted ==
    ASSUME Shape, Isolated, NEW d \in Doc, HasRow(d),
           IF status[d] = "active" THEN _move_counter(charged[d], -size[d], -1)
                                   ELSE UNCHANGED counters,
           status'[d] # "active", \A e \in Doc \ {d} : status'[e] = status[e],
           UNCHANGED <<size, charged, stranded>>
    PROVE  Counted
  <1>1. CounterTypes /\ StrandedGone
    BY DEF Shape, TypeOK, Isolated, CounterTypes
  <1>2. CASE status[d] = "active"
    <2>1. release_documents({d})
      BY <1>1, <1>2, FreeOne
    <2>2. d \in Charged /\ Charged' = Charged \ {d}
      BY <1>1, <1>2 DEF Charged, Active, StrandedGone
    <2>3. FreeStep({d})
      BY <2>1, <2>2 DEF FreeStep
    <2>. QED  BY <2>3 DEF Counted
  <1>3. CASE status[d] # "active"
    <2>1. Charged' = Charged
      BY <1>3 DEF Charged, Active
    <2>. QED  BY <1>3, <2>1 DEF Counted, StillStep
  <1>. QED  BY <1>2, <1>3

\* Every step is one of the kinds above.
LEMMA NextCounted ==
    ASSUME Shape, Isolated, [Next]_vars
    PROVE  Counted
  <1>0. TypeOK
    BY DEF Shape
  <1>1. ASSUME NEW r \in Request, Start(r)
        PROVE  Counted
    <2>1. ASSUME NEW d \in Doc, status[d] = "none",
                 status' = [status EXCEPT ![d] = "drawn"],
                 UNCHANGED <<size, charged, counters, stranded>>
          PROVE  Counted
      <3>1. Active' = Active
        BY <1>0, <2>1 DEF Active, TypeOK
      <3>. QED  BY <2>1, <3>1 DEF Counted, StillStep, Charged
    <2>2. ASSUME NEW d \in Doc, NEW s, NEW c, SaveStart(r, d, s, c)
          PROVE  Counted
      BY <2>1, <2>2 DEF SaveStart, history
    <2>3. ASSUME NEW d \in Doc, NEW source, NEW c, DuplicateStart(r, d, source, c)
          PROVE  Counted
      BY <2>1, <2>3 DEF DuplicateStart, history
    <2>4. ASSUME NEW d \in Doc, NEW s, VersionStart(r, d, s)
          PROVE  Counted
      BY <2>4, QuietStill DEF VersionStart, LockForVersion, history
    <2>5. ASSUME NEW d \in Doc, RevertStart(r, d)
          PROVE  Counted
      BY <2>5, QuietStill DEF RevertStart, history
    <2>6. ASSUME NEW d \in Doc, HardDelete(r, d)
          PROVE  Counted
      <3>1. status'[d] # "active" /\ \A e \in Doc \ {d} : status'[e] = status[e]
        BY <2>6 DEF HardDelete, DropRows
      <3>2. UNCHANGED <<size, charged, stranded>>
        BY <2>6 DEF HardDelete, DropRows, history
      <3>3. /\ HasRow(d)
            /\ IF status[d] = "active" THEN _move_counter(charged[d], -size[d], -1)
                                       ELSE UNCHANGED counters
        BY <2>6 DEF HardDelete
      <3>. QED  BY <3>1, <3>2, <3>3, DeleteCounted
    <2>7. ASSUME NEW d \in Doc, NEW c, RestoreStart(r, d, c)
          PROVE  Counted
      BY <2>7, QuietStill DEF RestoreStart, history
    <2>. QED  BY <1>1, <2>2, <2>3, <2>4, <2>5, <2>6, <2>7 DEF Start
  <1>2. ASSUME NEW r \in Request, Continue(r)
        PROVE  Counted
    <2>1. CASE StoreNewObject(r) \/ CopyFails(r) \/ RevertNotFound(r) \/ StoreVersionObject(r)
      BY <2>1, QuietStill
      DEF StoreNewObject, CopyFails, RevertNotFound, StoreVersionObject, history
    <2>2. CASE KeepObject(r) \/ DeleteObject(r) \/ RestoreNotFound(r) \/ CleanUp(r, {})
      BY <2>2, QuietStill DEF KeepObject, DeleteObject, RestoreNotFound, CleanUp, history
    <2>3. CASE RevertLock(r)
      BY <2>3, QuietStill DEF RevertLock, LockForVersion, history
    <2>4. CASE CommitRows(r)
      BY <2>4, WriteCounted DEF CommitRows, history
    <2>5. CASE RestoreCommit(r)
      <3>1. req[r].doc \in Doc /\ req[r].ctr \in Counter
        BY <2>5 DEF RestoreCommit, Shape, RequestsOK, WellFormed
      <3>. QED  BY <2>5, <3>1, RechargeCounted DEF RestoreCommit
    <2>6. CASE PurgeDelete(r)
      <3>. DEFINE S == {d \in req[r].batch : HasRow(d)}
      <3>1. DropRows(S) /\ stranded' = stranded \cup (S \cap Active) /\ UNCHANGED counters
        BY <2>6 DEF PurgeDelete
      <3>2. Active' = Active \ S
        BY <3>1 DEF DropRows, Active
      <3>3. Charged' = Charged
        BY <3>1, <3>2 DEF Charged
      <3>. QED  BY <3>1, <3>3 DEF Counted, StillStep, DropRows
    <2>. QED
      BY <1>2, <2>1, <2>2, <2>3, <2>4, <2>5, <2>6 DEF Continue
  <1>3. ASSUME NEW r \in Request, Resolve(r)
        PROVE  Counted
    <2>1. CASE ServerCommits(r)
      BY <2>1, WriteCounted DEF ServerCommits, history
    <2>2. CASE ServerAborts(r)
      BY <2>2, QuietStill DEF ServerAborts, history
    <2>. QED  BY <1>3, <2>1, <2>2 DEF Resolve
  <1>4. ASSUME NEW r \in Request, Break(r)
        PROVE  Counted
    <2>1. UNCHANGED <<rows, counters, history>>
      BY <1>4 DEF Break, RowsFail, CommitBreaks, CheckFails, UploadFails, Crash, CleanUp
    <2>. QED  BY <2>1, QuietStill DEF history
  <1>5. ASSUME NEW d \in Doc, SoftDelete(d)
        PROVE  Counted
    <2>1. status'[d] # "active" /\ \A e \in Doc \ {d} : status'[e] = status[e]
      BY <1>0, <1>5 DEF SoftDelete, TypeOK
    <2>. QED  BY <1>5, <2>1, DeleteCounted DEF SoftDelete, HasRow, history
  <1>6. ASSUME NEW S \in SUBSET Doc, TrashFolder(S)
        PROVE  Counted
    <2>1. S \subseteq Active /\ Active' = Active \ S
      BY <1>6 DEF TrashFolder, Active
    <2>2. S \cap stranded = {}
      BY <2>1 DEF Active, Isolated, StrandedGone
    <2>3. S \subseteq Charged /\ Charged' = Charged \ S
      BY <1>6, <2>1, <2>2 DEF TrashFolder, history, Charged
    <2>4. FreeStep(S)
      BY <1>6, <2>3 DEF TrashFolder, FreeStep
    <2>. QED  BY <2>4 DEF Counted
  <1>7. CASE Purge
    BY <1>7, QuietStill DEF Purge, PurgeSelect, history
  <1>8. CASE Administer
    <2>1. ASSUME NEW d \in Doc, NEW c \in Counter, AdminRestore(d, c)
          PROVE  Counted
      BY <2>1, RechargeCounted DEF AdminRestore
    <2>2. CASE UNCHANGED <<rows, counters, history>>
      BY <2>2, QuietStill DEF history
    <2>. QED
      BY <1>8, <2>1, <2>2
      DEF Administer, add_member, remove_member, delete_tenant, update_tenant, Counted
  <1>9. CASE UNCHANGED vars
    BY <1>9, QuietStill DEF vars, history
  <1>. QED
    BY <1>1, <1>2, <1>3, <1>4, <1>5, <1>6, <1>7, <1>8, <1>9 DEF Next

\* A recount gives the counters what they hold.
LEMMA ReconcileKeeps ==
    ASSUME Reconcile
    PROVE  CountersAccount'
  <1>1. \A c : Held(c)' = {d \in Active : charged[d] = c}
    BY DEF Reconcile, Held, Active, rows
  <1>2. \A S : (Bytes(S))' = Bytes(S)
    BY BytesUnits DEF Reconcile, rows
  <1>3. ASSUME NEW c \in Counter
        PROVE  /\ storageUsed'[c] = Bytes({d \in Active : charged[d] = c})
               /\ documentCount'[c] = Cardinality({d \in Active : charged[d] = c})
    BY DEF Reconcile
  <1>. QED  BY <1>1, <1>2, <1>3, BytesUnits DEF CountersAccount

\* Initially every counter is zero and holds nothing.
LEMMA InitAccount == Init => CountersAccount
  <1>. SUFFICES ASSUME Init, NEW c \in Counter
                PROVE  storageUsed[c] = Bytes(Held(c)) /\ documentCount[c] = Cardinality(Held(c))
    BY DEF CountersAccount
  <1>1. Held(c) = {}
    BY DEF Init, Held, Active
  <1>2. UnitsOf({}, size) = {}
    BY DEF UnitsOf
  <1>3. Bytes({}) = 0 /\ Cardinality({}) = 0
    BY <1>2, BytesUnits, FS_EmptySet
  <1>. QED  BY <1>1, <1>3 DEF Init

\* Every step keeps each counter equal to what it holds.
LEMMA NextAccount ==
    ASSUME Shape, Isolated, CountersAccount, [Next]_vars
    PROVE  CountersAccount'
  <1>1. CounterTypes
    BY DEF Shape, TypeOK, CounterTypes
  <1>2. Counted
    BY NextCounted
  <1>. QED
    BY <1>1, <1>2, ChargeKeeps, ResizeKeeps, FreeKeeps, StillKeeps, ReconcileKeeps DEF Counted

\* The inductive invariant holds in every reachable state, whatever the number
\* of documents, organizations, concurrent requests and failures.
THEOREM Inductive == Spec => []CountersInductive
  <1>. DEFINE I == Shape /\ Isolated /\ CountersAccount
  <1>1. Init => I
    BY InitShape, InitIsolated, InitAccount
  <1>2. I /\ [Next]_vars => I'
    BY NextShape, NextIsolated, NextAccount
  <1>3. I => CountersInductive
    BY DEF CountersInductive, Shape, RequestsOK, Isolated
  <1>. HIDE DEF I
  <1>. QED  BY <1>1, <1>2, <1>3, PTL DEF Spec

\* No counter ever drifts from the documents it holds: saves, new versions,
\* deletes, restores, folder deletes and purges may interleave, fail, or lose
\* the connection during COMMIT, and the members of organizations may change
\* between a charge and its release (adjust_document_storage).
THEOREM CountersCorrect == Spec => []CountersAccount
  <1>1. CountersInductive => CountersAccount
    BY DEF CountersInductive
  <1>. QED  BY <1>1, Inductive, PTL

\* What a save reads before its upload is still true when it commits: the row
\* lock of create_version and restore_original is held by them alone, and a new
\* document's id is referenced by nobody else.
THEOREM SavesCorrect == Spec => []SavesIsolated
  <1>1. CountersInductive => SavesIsolated
    BY DEF CountersInductive
  <1>. QED  BY <1>1, Inductive, PTL

-----------------------------------------------------------------------------
=============================================================================
