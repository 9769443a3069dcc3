------------------------- MODULE OfflineQueueProofs -------------------------
(***************************************************************************)
(* Theorems about OfflineQueue, for any number of tabs and operations and  *)
(* any limits: types, retries, and how an operation can be lost.           *)
(***************************************************************************)
EXTENDS OfflineQueue, SequenceTheorems, TLAPS

-----------------------------------------------------------------------------
(* Queues and their entries.                                                 *)

Entries(q) == {q[i] : i \in DOMAIN q}

LEMMA OpsOf == ASSUME NEW q PROVE Ops(q) = {e.op : e \in Entries(q)}
  BY DEF Ops, Entries

LEMMA EntriesTyped ==
  ASSUME NEW q \in Seq(Entry)
  PROVE  Entries(q) \subseteq Entry /\ Ops(q) \subseteq Op
  <1>1. \A e \in Entry : e.op \in Op
    BY DEF Entry
  <1>2. \A i \in DOMAIN q : q[i] \in Entry
    OBVIOUS
  <1>. QED  BY <1>1, <1>2 DEF Entries, Ops

\* An operation at the end.
LEMMA Appending ==
  ASSUME NEW q \in Seq(Entry), NEW e \in Entry
  PROVE  /\ Append(q, e) \in Seq(Entry) /\ Len(Append(q, e)) = Len(q) + 1
         /\ Entries(Append(q, e)) = Entries(q) \cup {e}
         /\ Append(q, e) # <<>>
  <1>. DEFINE a == Append(q, e)
  <1>1. /\ a \in Seq(Entry) /\ Len(a) = Len(q) + 1 /\ Len(q) \in Nat
        /\ DOMAIN q = 1..Len(q) /\ DOMAIN a = 1..(Len(q) + 1)
        /\ \A i \in 1..Len(q) : a[i] = q[i]
        /\ a[Len(q) + 1] = e
    OBVIOUS
  <1>. HIDE DEF a
  <1>2. \A i \in DOMAIN a : (i \in DOMAIN q /\ a[i] = q[i]) \/ (i = Len(q) + 1 /\ a[i] = e)
    BY <1>1
  <1>3. \A i \in DOMAIN q : i \in DOMAIN a
    BY <1>1
  <1>4. Entries(a) \subseteq Entries(q) \cup {e}
    BY <1>2 DEF Entries
  <1>5. Entries(q) \subseteq Entries(a)
    BY <1>1, <1>3 DEF Entries
  <1>6. e \in Entries(a)
    <2>1. Len(q) + 1 \in DOMAIN a
      BY <1>1
    <2>. QED  BY <1>1, <2>1 DEF Entries
  <1>7. a # <<>>
    BY <1>1
  <1>. QED  BY <1>1, <1>4, <1>5, <1>6, <1>7 DEF a

\* The oldest operation goes, and no other.
LEMMA Removing ==
  ASSUME NEW q \in Seq(Entry), q # <<>>
  PROVE  /\ Tail(q) \in Seq(Entry) /\ Len(Tail(q)) = Len(q) - 1
         /\ Head(q) \in Entry
         /\ Entries(q) = Entries(Tail(q)) \cup {Head(q)}
  <1>. DEFINE a == Tail(q)
  <1>1. /\ a \in Seq(Entry) /\ Len(a) = Len(q) - 1 /\ Len(q) \in Nat \ {0}
        /\ DOMAIN q = 1..Len(q) /\ DOMAIN a = 1..(Len(q) - 1)
        /\ \A i \in DOMAIN a : a[i] = q[i + 1]
        /\ Head(q) = q[1] /\ q[1] \in Entry
    OBVIOUS
  <1>. HIDE DEF a
  <1>2. /\ \A i \in DOMAIN a : i + 1 \in DOMAIN q
        /\ 1 \in DOMAIN q
        /\ \A i \in DOMAIN q : i # 1 => i - 1 \in DOMAIN a /\ i = (i - 1) + 1
    BY <1>1
  <1>3. Entries(a) \subseteq Entries(q) /\ Head(q) \in Entries(q)
    BY <1>1, <1>2 DEF Entries
  <1>4. \A i \in DOMAIN q : i # 1 => q[i] \in Entries(a)
    <2>. SUFFICES ASSUME NEW i \in DOMAIN q, i # 1 PROVE q[i] \in Entries(a)
      OBVIOUS
    <2>1. i - 1 \in DOMAIN a /\ a[i - 1] = q[i]
      BY <1>1, <1>2
    <2>. QED  BY <2>1 DEF Entries
  <1>5. Entries(q) \subseteq Entries(a) \cup {Head(q)}
    BY <1>1, <1>4 DEF Entries
  <1>. QED  BY <1>1, <1>3, <1>5 DEF a

\* _evictOldest
LEMMA Evicting ==
  ASSUME NEW q \in Seq(Entry)
  PROVE  /\ Evicted(q) \in Seq(Entry) /\ Len(Evicted(q)) <= Len(q)
         /\ Entries(Evicted(q)) \subseteq Entries(q)
  <1>. DEFINE a == Evicted(q)
              k == EvictCount
  <1>0. k \in Nat \ {0} /\ Len(q) \in Nat /\ DOMAIN q = 1..Len(q)
    BY QueueAssumption
  <1>1. a = SubSeq(q, k + 1, Len(q))
    BY DEF Evicted
  <1>. HIDE DEF a, k
  <1>3. /\ a \in Seq(Entry) /\ Len(a) <= Len(q)
        /\ \A i \in DOMAIN a : a[i] = q[k + i] /\ k + i \in DOMAIN q
    <2>1. CASE k < Len(q)
      <3>1. k + 1 \in 1..(Len(q) + 1) /\ Len(q) \in ((k + 1) - 1)..Len(q) /\ k + 1 <= Len(q)
        BY <1>0, <2>1
      <3>2. /\ a \in Seq(Entry) /\ Len(a) = Len(q) - (k + 1) + 1
            /\ \A i \in 1..(Len(q) - (k + 1) + 1) : a[i] = q[(k + 1) + i - 1]
        BY <1>1, <3>1, SubSeqProperties
      <3>3. Len(a) = Len(q) - k /\ DOMAIN a = 1..Len(a)
        BY <1>0, <3>2
      <3>4. \A i \in 1..(Len(q) - k) : /\ i \in 1..(Len(q) - (k + 1) + 1) /\ (k + 1) + i - 1 = k + i
                                       /\ k + i \in 1..Len(q)
        BY <1>0, <2>1
      <3>5. \A i \in DOMAIN a : a[i] = q[k + i] /\ k + i \in DOMAIN q
        BY <1>0, <3>2, <3>3, <3>4
      <3>6. Len(a) <= Len(q)
        BY <1>0, <3>3
      <3>. QED  BY <3>2, <3>5, <3>6
    <2>2. CASE ~(k < Len(q))
      <3>1. a = <<>>
        BY <1>0, <1>1, <2>2, SubSeqEmpty
      <3>. QED  BY <1>0, <3>1
    <2>. QED  BY <2>1, <2>2
  <1>4. Entries(a) \subseteq Entries(q)
    BY <1>3 DEF Entries
  <1>. QED  BY <1>3, <1>4 DEF a

-----------------------------------------------------------------------------
(* Types.                                                                    *)

FlushAt == [at : {"idle", "peek", "dequeue", "handler"}, entry : Entry, now : 0..MaxDay]

LEMMA NoEntryType == NoEntry \in Entry /\ NoEntry.retries = 0 /\ Idle \in FlushAt
  <1>1. (CHOOSE o \in Op : TRUE) \in Op
    BY QueueAssumption
  <1>2. 0 \in 0..MaxRetries /\ 0 \in 0..MaxDay
    BY QueueAssumption
  <1>3. NoEntry \in Entry
    BY <1>1, <1>2 DEF NoEntry, Entry
  <1>. QED  BY <1>2, <1>3 DEF Idle, FlushAt, NoEntry

LEMMA Types ==
  ASSUME TypeOK
  PROVE  /\ open \subseteq Tab /\ store \in Seq(Entry) /\ Len(store) \in Nat /\ Len(store) <= Capacity
         /\ memory \in [Tab -> Seq(Entry)] /\ flush \in [Tab -> FlushAt]
         /\ day \in 0..MaxDay /\ errors \in 0..MaxErrors /\ fate \in [Op -> Fates]
         /\ tries \in [Op -> 0..(MaxRetries + 1)]
         /\ \A t \in Tab : flush[t].entry \in Entry /\ flush[t].entry.op \in Op
         /\ \A t \in Tab : Queue(t) \in Seq(Entry)
  <1>1. /\ open \subseteq Tab /\ store \in Seq(Entry) /\ Len(store) \in Nat /\ Len(store) <= Capacity
        /\ memory \in [Tab -> Seq(Entry)] /\ flush \in [Tab -> FlushAt]
        /\ day \in 0..MaxDay /\ errors \in 0..MaxErrors /\ fate \in [Op -> Fates]
        /\ tries \in [Op -> 0..(MaxRetries + 1)]
    BY DEF TypeOK, FlushAt
  <1>2. \A t \in Tab : flush[t].entry \in Entry
    BY <1>1 DEF FlushAt
  <1>3. \A e \in Entry : e.op \in Op
    BY DEF Entry
  <1>4. \A t \in Tab : Queue(t) \in Seq(Entry)
    BY <1>1 DEF Queue
  <1>. QED  BY <1>1, <1>2, <1>3, <1>4

\* A failed operation has one more retry and a new time stamp.
LEMMA RetriedType ==
  ASSUME TypeOK, NEW e \in Entry, RetryLeft(e)
  PROVE  Retried(e) \in Entry /\ Retried(e).op = e.op /\ Retried(e).retries = e.retries + 1
  <1>1. e.op \in Op /\ e.retries + 1 \in 0..MaxRetries /\ day \in 0..MaxDay
    BY Types, QueueAssumption DEF RetryLeft, Entry
  <1>2. e = [op |-> e.op, retries |-> e.retries, day |-> e.day]
    BY DEF Entry
  <1>. DEFINE n == e.retries + 1
              f == [e EXCEPT !.retries = n, !.day = day]
  <1>3. Retried(e) = f
    BY DEF Retried
  <1>. HIDE DEF n
  <1>4. f.op = e.op /\ f.retries = n /\ f.day = day /\ DOMAIN f = {"op", "retries", "day"}
    BY <1>2
  <1>5. f \in Entry
    BY <1>1, <1>4 DEF Entry, n
  <1>. QED  BY <1>3, <1>4, <1>5 DEF n

LEMMA TypeInit == Init => TypeOK
  <1>1. /\ <<>> \in Seq(Entry) /\ Len(<<>>) = 0 /\ Capacity \in Nat /\ 0 \in 0..MaxDay
        /\ 0 \in 0..MaxErrors /\ 0 \in 0..(MaxRetries + 1)
    BY QueueAssumption
  <1>. SUFFICES ASSUME Init PROVE TypeOK
    OBVIOUS
  <1>2. store \in Seq(Entry) /\ Len(store) <= Capacity /\ memory \in [Tab -> Seq(Entry)]
    BY <1>1 DEF Init
  <1>3. flush \in [Tab -> FlushAt]
    BY NoEntryType DEF Init
  <1>4. /\ fate \in [Op -> Fates] /\ open \in SUBSET Tab /\ day \in 0..MaxDay
        /\ errors \in 0..MaxErrors /\ tries \in [Op -> 0..(MaxRetries + 1)]
    BY <1>1 DEF Init, Fates
  <1>. QED  BY <1>2, <1>3, <1>4 DEF TypeOK, FlushAt

\* What Add does: a store with room, the old one or what an eviction left, takes the
\* entry, or the tab's memory does.
Adds(t, e, f, room) ==
    /\ room \in Seq(Entry) /\ Len(room) <= Capacity /\ Entries(room) \subseteq Entries(store)
    /\ \/ Len(room) < Capacity /\ store' = Append(room, e) /\ memory' = memory
       \/ store' = room /\ memory' = [memory EXCEPT ![t] = Append(memory[t], e)]
    /\ fate' = [o \in Op |-> IF o \in Ops(store) \ Ops(room) THEN "evicted" ELSE f[o]]

LEMMA AddIs ==
  ASSUME TypeOK, NEW t \in Tab, NEW e, NEW f, Add(t, e, f)
  PROVE  \E room : Adds(t, e, f, room)
  <1>1. PICK room \in {store} \cup {q \in {Evicted(store)} : Len(store) >= Capacity},
             written \in BOOLEAN :
          /\ written => Len(room) < Capacity /\ e.op \notin Ops(room)
          /\ store' = IF written THEN Append(room, e) ELSE room
          /\ memory' = IF written THEN memory
                       ELSE [memory EXCEPT ![t] = Append(memory[t], e)]
          /\ fate' = [o \in Op |-> IF o \in Ops(store) \ Ops(room) THEN "evicted" ELSE f[o]]
    BY DEF Add, Fallback
  <1>2. /\ room \in Seq(Entry) /\ Len(room) <= Capacity
        /\ Entries(room) \subseteq Entries(store)
    <2>1. /\ store \in Seq(Entry) /\ Len(store) \in Nat /\ Len(store) <= Capacity
          /\ Capacity \in Nat
      BY Types, QueueAssumption
    <2>2. /\ Evicted(store) \in Seq(Entry) /\ Len(Evicted(store)) <= Len(store)
          /\ Entries(Evicted(store)) \subseteq Entries(store)
      BY <2>1, Evicting
    <2>3. Len(Evicted(store)) \in Nat
      BY <2>2
    <2>. QED  BY <1>1, <2>1, <2>2, <2>3
  <1>. QED  BY <1>1, <1>2 DEF Adds

LEMMA AddType ==
  ASSUME TypeOK, NEW t \in Tab, NEW e \in Entry, NEW f \in [Op -> Fates], NEW room,
         Adds(t, e, f, room)
  PROVE  /\ store' \in Seq(Entry) /\ Len(store') <= Capacity
         /\ memory' \in [Tab -> Seq(Entry)]
         /\ fate' \in [Op -> Fates]
  <1>1. /\ room \in Seq(Entry) /\ Len(room) <= Capacity /\ Len(room) \in Nat
        /\ Capacity \in Nat /\ memory \in [Tab -> Seq(Entry)]
    BY Types, QueueAssumption DEF Adds
  <1>2. Append(room, e) \in Seq(Entry) /\ Len(Append(room, e)) = Len(room) + 1
    BY <1>1, Appending
  <1>3. Append(memory[t], e) \in Seq(Entry)
    BY <1>1, Appending
  <1>4. store' \in Seq(Entry) /\ Len(store') <= Capacity
    <2>. DEFINE a == Append(room, e)
    <2>1. \/ Len(room) < Capacity /\ store' = a
          \/ store' = room
      BY DEF Adds
    <2>2. a \in Seq(Entry) /\ Len(a) = Len(room) + 1
      BY <1>2
    <2>. HIDE DEF a
    <2>. QED  BY <1>1, <2>1, <2>2
  <1>5. memory' \in [Tab -> Seq(Entry)]
    BY <1>1, <1>3 DEF Adds
  <1>6. fate' \in [Op -> Fates]
    BY DEF Adds, Fates
  <1>. QED  BY <1>4, <1>5, <1>6

\* What enqueue does in a tab without IndexedDB.
Remembers(t, entry, f) ==
    LET long == Append(memory[t], entry)
    IN  /\ store' = store
        /\ \/ /\ memory' = [memory EXCEPT ![t] = Tail(long)]
              /\ fate' = [f EXCEPT ![Head(long).op] = "evicted"]
           \/ memory' = [memory EXCEPT ![t] = long] /\ fate' = f

LEMMA EnqueueIs ==
  ASSUME TypeOK, NEW t \in Tab, NEW o \in Op, enqueue(t, o)
  PROVE  \E entry \in Entry : \E f \in [Op -> Fates] :
            /\ entry.retries = 0 /\ \A p \in Op : f[p] \in {fate[p], "queued"}
            /\ (\E room : Adds(t, entry, f, room)) \/ Remembers(t, entry, f)
            /\ UNCHANGED <<open, flush, day, errors, tries>>
  <1>. DEFINE entry == [op |-> o, retries |-> 0, day |-> day]
              f == [fate EXCEPT ![o] = "queued"]
  <1>1. entry \in Entry /\ f \in [Op -> Fates] /\ entry.retries = 0
    BY Types, QueueAssumption DEF Entry, Fates
  <1>2. \A p \in Op : f[p] \in {fate[p], "queued"}
    BY Types
  <1>3. /\ Add(t, entry, f) \/ Remembers(t, entry, f)
        /\ UNCHANGED <<open, flush, day, errors, tries>>
    BY DEF enqueue, Remembers
  <1>. HIDE DEF entry, f
  <1>4. Add(t, entry, f) => \E room : Adds(t, entry, f, room)
    BY AddIs
  <1>. QED  BY <1>1, <1>2, <1>3, <1>4

LEMMA RememberType ==
  ASSUME TypeOK, NEW t \in Tab, NEW entry \in Entry, NEW f \in [Op -> Fates],
         Remembers(t, entry, f)
  PROVE  /\ memory' \in [Tab -> Seq(Entry)] /\ fate' \in [Op -> Fates]
         /\ Append(memory[t], entry) \in Seq(Entry) /\ Append(memory[t], entry) # <<>>
  <1>. DEFINE long == Append(memory[t], entry)
  <1>1. memory \in [Tab -> Seq(Entry)]
    BY Types
  <1>2. long \in Seq(Entry) /\ long # <<>>
    BY <1>1, Appending
  <1>3. /\ \/ memory' = [memory EXCEPT ![t] = Tail(long)]
           \/ memory' = [memory EXCEPT ![t] = long]
        /\ fate' = [f EXCEPT ![Head(long).op] = "evicted"] \/ fate' = f
    BY DEF Remembers
  <1>. HIDE DEF long
  <1>4. Tail(long) \in Seq(Entry)
    BY <1>2, Removing
  <1>5. memory' \in [Tab -> Seq(Entry)]
    BY <1>1, <1>2, <1>3, <1>4
  <1>6. fate' \in [Op -> Fates]
    BY <1>3 DEF Fates
  <1>. QED  BY <1>2, <1>5, <1>6 DEF long

LEMMA TypeEnqueue ==
  ASSUME TypeOK, NEW t \in Tab, NEW o \in Op, enqueue(t, o)
  PROVE  TypeOK'
  <1>1. PICK entry \in Entry, f \in [Op -> Fates] :
          /\ (\E room : Adds(t, entry, f, room)) \/ Remembers(t, entry, f)
          /\ UNCHANGED <<open, flush, day, errors, tries>>
    BY EnqueueIs
  <1>2. /\ store' \in Seq(Entry) /\ Len(store') <= Capacity
        /\ memory' \in [Tab -> Seq(Entry)] /\ fate' \in [Op -> Fates]
    <2>1. ASSUME NEW room, Adds(t, entry, f, room)
          PROVE  /\ store' \in Seq(Entry) /\ Len(store') <= Capacity
                 /\ memory' \in [Tab -> Seq(Entry)] /\ fate' \in [Op -> Fates]
      BY <2>1, AddType
    <2>2. CASE Remembers(t, entry, f)
      BY <2>2, RememberType, Types DEF Remembers
    <2>. QED  BY <1>1, <2>1, <2>2
  <1>. QED  BY <1>1, <1>2 DEF TypeOK

-----------------------------------------------------------------------------
(* The steps of a flush.                                                     *)

\* dequeue(), on the queue of tab t.
Dequeues(t) ==
    \/ store' = Rest(store) /\ memory' = memory /\ t \in Persistent
    \/ store' = store /\ memory' = [memory EXCEPT ![t] = Rest(memory[t])] /\ t \notin Persistent

LEMMA RestType ==
  ASSUME NEW q \in Seq(Entry)
  PROVE  /\ Rest(q) \in Seq(Entry) /\ Len(Rest(q)) <= Len(q) /\ Len(Rest(q)) \in Nat
         /\ Entries(Rest(q)) \subseteq Entries(q)
         /\ q # <<>> => Entries(q) = Entries(Rest(q)) \cup {Head(q)}
  <1>1. CASE q = <<>>
    BY <1>1 DEF Rest
  <1>2. CASE q # <<>>
    <2>1. /\ Tail(q) \in Seq(Entry) /\ Len(Tail(q)) = Len(q) - 1 /\ Len(q) \in Nat
          /\ Entries(q) = Entries(Tail(q)) \cup {Head(q)}
      BY <1>2, Removing
    <2>2. Len(Tail(q)) \in Nat
      BY <2>1
    <2>. QED  BY <1>2, <2>1, <2>2 DEF Rest
  <1>. QED  BY <1>1, <1>2

LEMMA DequeuesType ==
  ASSUME TypeOK, NEW t \in Tab, Dequeues(t)
  PROVE  /\ store' \in Seq(Entry) /\ Len(store') <= Capacity
         /\ memory' \in [Tab -> Seq(Entry)]
  <1>1. /\ store \in Seq(Entry) /\ Len(store) \in Nat /\ Len(store) <= Capacity
        /\ memory \in [Tab -> Seq(Entry)] /\ Capacity \in Nat
    BY Types, QueueAssumption
  <1>2. /\ Rest(store) \in Seq(Entry) /\ Len(Rest(store)) <= Len(store)
        /\ Len(Rest(store)) \in Nat /\ Rest(memory[t]) \in Seq(Entry)
    BY <1>1, RestType
  <1>3. CASE store' = Rest(store) /\ memory' = memory
    BY <1>1, <1>2, <1>3
  <1>4. CASE store' = store /\ memory' = [memory EXCEPT ![t] = Rest(memory[t])]
    BY <1>1, <1>2, <1>4
  <1>. QED  BY <1>3, <1>4 DEF Dequeues

\* Where the flush of a tab is after a step of it.
LEMMA FlushGoes ==
  ASSUME TypeOK, NEW t \in Tab, StartFlush(t) \/ FlushStep(t)
  PROVE  \E g \in FlushAt :
            /\ flush' = [flush EXCEPT ![t] = g] /\ UNCHANGED <<open, day>>
            /\ \/ g.entry = flush[t].entry
               \/ g.entry.retries = 0
               \/ g.entry \in Entries(Queue(t))
            /\ g.at = "handler" => g.entry = flush[t].entry /\ flush[t].at = "dequeue"
  <1>0. flush[t] \in FlushAt /\ flush[t].entry \in Entry
    BY Types
  <1>. DEFINE New(g) == /\ g \in FlushAt
                        /\ \/ g.entry = flush[t].entry
                           \/ g.entry.retries = 0
                           \/ g.entry \in Entries(Queue(t))
                        /\ g.at = "handler" => g.entry = flush[t].entry /\ flush[t].at = "dequeue"
  <1>1. New(Idle)
    BY NoEntryType DEF Idle
  <1>2. New(ToPeek(flush[t]))
    BY <1>0, NoEntryType DEF ToPeek, FlushAt
  <1>3. flush[t].at = "dequeue" => New(Dequeued(flush[t]))
    BY <1>0, <1>2 DEF Dequeued, FlushAt
  <1>4. New([at |-> "peek", entry |-> NoEntry, now |-> day])
    BY NoEntryType, Types DEF FlushAt
  <1>5. Queue(t) # <<>> => New([flush[t] EXCEPT !.at = "dequeue", !.entry = Head(Queue(t))])
    <2>1. Queue(t) # <<>> => Head(Queue(t)) \in Entry /\ Head(Queue(t)) \in Entries(Queue(t))
      BY Types, Removing
    <2>. QED  BY <1>0, <2>1 DEF FlushAt
  <1>. HIDE DEF New
  <1>6. \E g : New(g) /\ Goto(t, g)
    <2>1. CASE StartFlush(t)
      BY <1>4, <2>1 DEF StartFlush
    <2>2. CASE peek(t)
      BY <1>5, <2>2 DEF peek
    <2>3. CASE PeekFindsNothing(t) \/ HandlerFails(t)
      BY <1>1, <2>3 DEF PeekFindsNothing, HandlerFails
    <2>4. CASE dequeue(t) \/ DequeueFails(t)
      BY <1>3, <2>4 DEF dequeue, DequeueFails
    <2>5. CASE HandlerSucceeds(t)
      BY <1>2, <2>5 DEF HandlerSucceeds
    <2>. QED  BY <2>1, <2>2, <2>3, <2>4, <2>5 DEF FlushStep
  <1>. QED  BY <1>6 DEF New, Goto

\* What HandlerFails does with the operation.
LEMMA HandlerFailsIs ==
  ASSUME TypeOK, NEW t \in Tab, HandlerFails(t)
  PROVE  LET e == flush[t].entry IN
         \/ /\ RetryLeft(e) /\ Retried(e) \in Entry
            /\ \/ \E room : Adds(t, Retried(e), fate, room)
               \/ /\ memory' = [memory EXCEPT ![t] = Append(memory[t], Retried(e))]
                  /\ store' = store /\ fate' = fate
         \/ /\ ~RetryLeft(e) /\ fate' = [fate EXCEPT ![e.op] = "exhausted"]
            /\ UNCHANGED <<store, memory>>
  <1>. DEFINE e == flush[t].entry
  <1>1. e \in Entry
    BY Types
  <1>2. RetryLeft(e) => Retried(e) \in Entry
    BY <1>1, RetriedType
  <1>3. Add(t, Retried(e), fate) => \E room : Adds(t, Retried(e), fate, room)
    BY AddIs
  <1>. QED  BY <1>2, <1>3 DEF HandlerFails

LEMMA TypeFlush ==
  ASSUME TypeOK, NEW t \in Tab, StartFlush(t) \/ FlushStep(t)
  PROVE  TypeOK'
  <1>1. flush' \in [Tab -> FlushAt] /\ open' \in SUBSET Tab /\ day' \in 0..MaxDay
    <2>1. PICK g \in FlushAt : flush' = [flush EXCEPT ![t] = g] /\ UNCHANGED <<open, day>>
      BY FlushGoes
    <2>. QED  BY <2>1, Types
  <1>2. ASSUME UNCHANGED <<store, memory>>, errors' \in 0..MaxErrors,
               fate' \in [Op -> Fates], tries' \in [Op -> 0..(MaxRetries + 1)]
        PROVE  TypeOK'
    BY <1>1, <1>2 DEF TypeOK, FlushAt
  <1>3. CASE StartFlush(t) \/ peek(t) \/ PeekFindsNothing(t)
    BY <1>2, <1>3, Types DEF StartFlush, peek, PeekFindsNothing
  <1>4. CASE DequeueFails(t)
    BY <1>2, <1>4, Types, QueueAssumption DEF DequeueFails
  <1>5. CASE HandlerSucceeds(t)
    <2>1. fate' \in [Op -> Fates]
      BY <1>5, Types DEF HandlerSucceeds, Fates
    <2>. QED  BY <1>2, <1>5, <2>1, Types DEF HandlerSucceeds
  <1>6. CASE dequeue(t)
    <2>1. Dequeues(t) /\ UNCHANGED <<errors, tries>>
      BY <1>6 DEF dequeue, Dequeues
    <2>2. fate' \in [Op -> Fates]
      BY <1>6, Types DEF dequeue, Fates
    <2>3. store' \in Seq(Entry) /\ Len(store') <= Capacity /\ memory' \in [Tab -> Seq(Entry)]
      BY <2>1, DequeuesType
    <2>. QED  BY <1>1, <2>1, <2>2, <2>3 DEF TypeOK, FlushAt
  <1>7. CASE HandlerFails(t)
    <2>. DEFINE e == flush[t].entry
    <2>0. e \in Entry /\ e.op \in Op
      BY Types
    <2>1. tries' \in [Op -> 0..(MaxRetries + 1)] /\ errors' = errors
      <3>1. /\ tries' = [tries EXCEPT ![e.op] = IF @ > MaxRetries THEN @ ELSE @ + 1]
            /\ errors' = errors
        BY <1>7 DEF HandlerFails
      <3>2. tries[e.op] \in 0..(MaxRetries + 1) /\ tries \in [Op -> 0..(MaxRetries + 1)]
        BY <2>0, Types
      <3>. HIDE DEF e
      <3>3. (IF tries[e.op] > MaxRetries THEN tries[e.op] ELSE tries[e.op] + 1)
               \in 0..(MaxRetries + 1)
        BY <3>2, QueueAssumption
      <3>. QED  BY <3>1, <3>2, <3>3
    <2>2. \/ /\ RetryLeft(e) /\ Retried(e) \in Entry
             /\ \/ \E room : Adds(t, Retried(e), fate, room)
                \/ /\ memory' = [memory EXCEPT ![t] = Append(memory[t], Retried(e))]
                   /\ store' = store /\ fate' = fate
          \/ /\ ~RetryLeft(e) /\ fate' = [fate EXCEPT ![e.op] = "exhausted"]
             /\ UNCHANGED <<store, memory>>
      BY <1>7, HandlerFailsIs
    <2>. HIDE DEF e
    <2>3. /\ store' \in Seq(Entry) /\ Len(store') <= Capacity
          /\ memory' \in [Tab -> Seq(Entry)] /\ fate' \in [Op -> Fates]
      <3>1. ASSUME NEW room, Retried(e) \in Entry, Adds(t, Retried(e), fate, room)
            PROVE  /\ store' \in Seq(Entry) /\ Len(store') <= Capacity
                   /\ memory' \in [Tab -> Seq(Entry)] /\ fate' \in [Op -> Fates]
        BY <3>1, AddType, Types
      <3>2. ASSUME Retried(e) \in Entry,
                   memory' = [memory EXCEPT ![t] = Append(memory[t], Retried(e))]
            PROVE  memory' \in [Tab -> Seq(Entry)]
        <4>1. memory \in [Tab -> Seq(Entry)] /\ Append(memory[t], Retried(e)) \in Seq(Entry)
          BY <3>2, Types, Appending
        <4>. QED  BY <3>2, <4>1
      <3>3. [fate EXCEPT ![e.op] = "exhausted"] \in [Op -> Fates]
        BY Types DEF Fates
      <3>. QED  BY <2>2, <3>1, <3>2, <3>3, Types
    <2>. QED  BY <1>1, <2>1, <2>3, Types DEF TypeOK, FlushAt
  <1>. QED  BY <1>3, <1>4, <1>5, <1>6, <1>7 DEF FlushStep

LEMMA TypeNext == ASSUME TypeOK, [Next]_vars PROVE TypeOK'
  <1>1. ASSUME NEW t \in Tab, CloseTab(t) PROVE TypeOK'
    <2>1. /\ open' = open \ {t} /\ flush' = [flush EXCEPT ![t] = Idle]
          /\ memory' = [memory EXCEPT ![t] = <<>>] /\ UNCHANGED <<store, day, errors, tries>>
      BY <1>1 DEF CloseTab
    <2>2. fate' \in [Op -> Fates]
      BY <1>1, Types DEF CloseTab, Fates
    <2>3. memory' \in [Tab -> Seq(Entry)] /\ flush' \in [Tab -> FlushAt]
      BY <2>1, Types, NoEntryType
    <2>. QED  BY <2>1, <2>2, <2>3 DEF TypeOK, FlushAt
  <1>2. CASE DayPasses
    BY <1>2, QueueAssumption DEF DayPasses, TypeOK
  <1>3. CASE UNCHANGED vars
    BY <1>3 DEF vars, TypeOK
  <1>. QED  BY <1>1, <1>2, <1>3, TypeEnqueue, TypeFlush DEF Next

\* The store, the memories and the flushes stay in their domains; the store never has more
\* operations than it has room for, and no operation more retries than it may have.
THEOREM QueueTypes == Spec => []TypeOK
  BY TypeInit, TypeNext, PTL DEF Spec

-----------------------------------------------------------------------------
(* Retries.                                                                  *)

\* Every entry of the store, of a memory or of a flush.
Everywhere ==
    Entries(store) \cup (UNION {Entries(memory[t]) : t \in Tab}) \cup {flush[t].entry : t \in Tab}

\* An entry that may be there after a step: an old one, a new one, or a retried one.
Known(e) ==
    \/ e \in Everywhere
    \/ e.retries = 0
    \/ \E t \in Tab : HandlerFails(t) /\ RetryLeft(flush[t].entry) /\ e = Retried(flush[t].entry)

\* The entries after Add.
LEMMA AddKnown ==
  ASSUME TypeOK, NEW t \in Tab, NEW e \in Entry, NEW f, NEW room, Adds(t, e, f, room)
  PROVE  /\ Entries(store') \subseteq Entries(store) \cup {e}
         /\ \A u \in Tab : Entries(memory'[u]) \subseteq Entries(memory[u]) \cup {e}
  <1>1. memory \in [Tab -> Seq(Entry)]
    BY Types
  <1>2. Entries(Append(room, e)) = Entries(room) \cup {e}
    BY Appending DEF Adds
  <1>3. Entries(Append(memory[t], e)) = Entries(memory[t]) \cup {e}
    BY <1>1, Appending
  <1>4. Entries(store') \subseteq Entries(store) \cup {e}
    BY <1>2 DEF Adds
  <1>5. \A u \in Tab : Entries(memory'[u]) \subseteq Entries(memory[u]) \cup {e}
    BY <1>1, <1>3 DEF Adds
  <1>. QED  BY <1>4, <1>5

LEMMA RememberKnown ==
  ASSUME TypeOK, NEW t \in Tab, NEW e \in Entry, NEW f \in [Op -> Fates], Remembers(t, e, f)
  PROVE  \A u \in Tab : Entries(memory'[u]) \subseteq Entries(memory[u]) \cup {e}
  <1>. DEFINE long == Append(memory[t], e)
  <1>1. memory \in [Tab -> Seq(Entry)] /\ memory[t] \in Seq(Entry)
    BY Types
  <1>2. long \in Seq(Entry) /\ long # <<>> /\ Entries(long) = Entries(memory[t]) \cup {e}
    BY <1>1, Appending
  <1>3. \/ memory' = [memory EXCEPT ![t] = Tail(long)]
        \/ memory' = [memory EXCEPT ![t] = long]
    BY DEF Remembers
  <1>. HIDE DEF long
  <1>4. Entries(Tail(long)) \subseteq Entries(long)
    BY <1>2, Removing
  <1>. QED  BY <1>1, <1>2, <1>3, <1>4

LEMMA NothingNew ==
  ASSUME TypeOK, [Next]_vars
  PROVE  \A e \in Everywhere' : Known(e)
  <1>0. memory \in [Tab -> Seq(Entry)] /\ store \in Seq(Entry) /\ flush \in [Tab -> FlushAt]
    BY Types
  <1>. DEFINE New(n) == n.retries = 0 \/ Known(n)
  <1>1. ASSUME NEW n, New(n), UNCHANGED flush,
               Entries(store') \subseteq Entries(store) \cup {n},
               \A u \in Tab : Entries(memory'[u]) \subseteq Entries(memory[u]) \cup {n}
        PROVE  \A e \in Everywhere' : Known(e)
    BY <1>1 DEF Everywhere, Known
  <1>2. ASSUME NEW t \in Tab, NEW g \in FlushAt, flush' = [flush EXCEPT ![t] = g],
               Known(g.entry), NEW n, New(n),
               Entries(store') \subseteq Entries(store) \cup {n},
               \A u \in Tab : Entries(memory'[u]) \subseteq Entries(memory[u]) \cup {n}
        PROVE  \A e \in Everywhere' : Known(e)
    <2>1. \A u \in Tab : flush'[u].entry = flush[u].entry \/ flush'[u].entry = g.entry
      BY <1>0, <1>2
    <2>. QED  BY <1>2, <2>1 DEF Everywhere, Known
  <1>3. ASSUME NEW t \in Tab, NEW o \in Op, enqueue(t, o) PROVE \A e \in Everywhere' : Known(e)
    <2>1. PICK entry \in Entry, f \in [Op -> Fates] :
            /\ entry.retries = 0
            /\ (\E room : Adds(t, entry, f, room)) \/ Remembers(t, entry, f)
            /\ UNCHANGED flush
      BY <1>3, EnqueueIs
    <2>2. /\ Entries(store') \subseteq Entries(store) \cup {entry}
          /\ \A u \in Tab : Entries(memory'[u]) \subseteq Entries(memory[u]) \cup {entry}
      <3>1. CASE \E room : Adds(t, entry, f, room)
        BY <3>1, AddKnown
      <3>2. CASE Remembers(t, entry, f)
        BY <3>2, RememberKnown DEF Remembers
      <3>. QED  BY <2>1, <3>1, <3>2
    <2>. QED  BY <1>1, <2>1, <2>2
  <1>4. ASSUME NEW t \in Tab, StartFlush(t) \/ FlushStep(t) PROVE \A e \in Everywhere' : Known(e)
    <2>1. PICK g \in FlushAt :
            /\ flush' = [flush EXCEPT ![t] = g]
            /\ \/ g.entry = flush[t].entry
               \/ g.entry.retries = 0
               \/ g.entry \in Entries(Queue(t))
      BY <1>4, FlushGoes
    <2>2. Known(g.entry)
      <3>1. Entries(Queue(t)) \subseteq Everywhere
        BY DEF Queue, Everywhere
      <3>. QED  BY <2>1, <3>1 DEF Known, Everywhere
    <2>3. \E n : /\ New(n)
                 /\ Entries(store') \subseteq Entries(store) \cup {n}
                 /\ \A u \in Tab : Entries(memory'[u]) \subseteq Entries(memory[u]) \cup {n}
      <3>1. New(NoEntry)
        BY NoEntryType
      <3>2. CASE UNCHANGED <<store, memory>>
        BY <3>1, <3>2
      <3>3. CASE StartFlush(t) \/ peek(t) \/ PeekFindsNothing(t) \/ DequeueFails(t) \/ HandlerSucceeds(t)
        BY <3>2, <3>3 DEF StartFlush, peek, PeekFindsNothing, DequeueFails, HandlerSucceeds
      <3>4. CASE dequeue(t)
        <4>1. Dequeues(t)
          BY <3>4 DEF dequeue, Dequeues
        <4>2. Entries(Rest(store)) \subseteq Entries(store)
          BY <1>0, RestType
        <4>3. Entries(Rest(memory[t])) \subseteq Entries(memory[t])
          BY <1>0, RestType
        <4>4. /\ Entries(store') \subseteq Entries(store)
              /\ \A u \in Tab : Entries(memory'[u]) \subseteq Entries(memory[u])
          BY <1>0, <4>1, <4>2, <4>3 DEF Dequeues
        <4>. QED  BY <3>1, <4>4
      <3>5. CASE HandlerFails(t)
        <4>. DEFINE e == flush[t].entry
                    r == Retried(e)
        <4>1. \/ /\ RetryLeft(e) /\ r \in Entry
                 /\ \/ \E room : Adds(t, r, fate, room)
                    \/ /\ memory' = [memory EXCEPT ![t] = Append(memory[t], r)]
                       /\ store' = store
              \/ UNCHANGED <<store, memory>>
          BY <3>5, HandlerFailsIs
        <4>2. RetryLeft(e) => New(r)
          BY <3>5 DEF Known
        <4>. HIDE DEF e, r
        <4>3. ASSUME NEW room, r \in Entry, RetryLeft(e), Adds(t, r, fate, room)
              PROVE  /\ New(r) /\ Entries(store') \subseteq Entries(store) \cup {r}
                     /\ \A u \in Tab : Entries(memory'[u]) \subseteq Entries(memory[u]) \cup {r}
          BY <4>2, <4>3, AddKnown
        <4>4. ASSUME r \in Entry, RetryLeft(e), store' = store,
                     memory' = [memory EXCEPT ![t] = Append(memory[t], r)]
              PROVE  /\ New(r) /\ Entries(store') \subseteq Entries(store) \cup {r}
                     /\ \A u \in Tab : Entries(memory'[u]) \subseteq Entries(memory[u]) \cup {r}
          <5>1. Entries(Append(memory[t], r)) = Entries(memory[t]) \cup {r}
            BY <1>0, <4>4, Appending
          <5>. QED  BY <1>0, <4>2, <4>4, <5>1
        <4>. HIDE DEF New
        <4>. QED  BY <3>2, <4>1, <4>3, <4>4
      <3>. HIDE DEF New
      <3>. QED  BY <1>4, <3>3, <3>4, <3>5 DEF FlushStep
    <2>. HIDE DEF New
    <2>. QED  BY <1>2, <2>1, <2>2, <2>3
  <1>5. ASSUME NEW t \in Tab, CloseTab(t) PROVE \A e \in Everywhere' : Known(e)
    <2>1. /\ flush' = [flush EXCEPT ![t] = Idle] /\ store' = store
          /\ memory' = [memory EXCEPT ![t] = <<>>]
      BY <1>5 DEF CloseTab
    <2>2. Idle \in FlushAt /\ Known(Idle.entry) /\ New(NoEntry)
      BY NoEntryType DEF Known, Idle
    <2>3. Entries(<<>>) = {}
      BY DEF Entries
    <2>4. \A u \in Tab : Entries(memory'[u]) \subseteq Entries(memory[u])
      BY <1>0, <2>1, <2>3
    <2>. HIDE DEF New
    <2>. QED  BY <1>2, <2>1, <2>2, <2>4
  <1>6. CASE DayPasses \/ UNCHANGED vars
    <2>1. UNCHANGED <<store, memory, flush>>
      BY <1>6 DEF DayPasses, vars
    <2>. QED  BY <2>1 DEF Everywhere, Known
  <1>. QED  BY <1>3, <1>4, <1>5, <1>6 DEF Next

\* No entry has more retries than its operation has failed.
RetriesCounted == \A e \in Everywhere : e.op \in Op /\ e.retries <= tries[e.op]

\* The count of failures only grows, and grows when a replay fails.
LEMMA TriesGrow ==
  ASSUME TypeOK, [Next]_vars
  PROVE  /\ \A o \in Op : tries[o] <= tries'[o]
         /\ \A t \in Tab : HandlerFails(t) =>
               LET o == flush[t].entry.op
               IN  tries'[o] = IF tries[o] > MaxRetries THEN tries[o] ELSE tries[o] + 1
         /\ UNCHANGED tries \/ \E t \in Tab : HandlerFails(t)
  <1>1. /\ tries \in [Op -> 0..(MaxRetries + 1)]
        /\ \A t \in Tab : flush[t].entry.op \in Op
    BY Types
  <1>2. \A t \in Tab : HandlerFails(t) =>
               LET o == flush[t].entry.op
               IN  tries'[o] = IF tries[o] > MaxRetries THEN tries[o] ELSE tries[o] + 1
    BY <1>1 DEF HandlerFails
  <1>3. UNCHANGED tries \/ \E t \in Tab : HandlerFails(t)
    BY DEF Next, enqueue, StartFlush, FlushStep, CloseTab, DayPasses, peek, PeekFindsNothing,
           dequeue, DequeueFails, HandlerSucceeds, vars
  <1>4. ASSUME NEW t \in Tab, HandlerFails(t) PROVE \A o \in Op : tries[o] <= tries'[o]
    <2>1. \E k \in Op : \E n : tries' = [tries EXCEPT ![k] = n] /\ n \in {tries[k], tries[k] + 1}
      BY <1>1, <1>4 DEF HandlerFails
    <2>. QED  BY <1>1, <2>1
  <1>5. \A o \in Op : tries[o] <= tries'[o]
    BY <1>1, <1>3, <1>4
  <1>. QED  BY <1>2, <1>3, <1>5

LEMMA RetriesInit == Init => RetriesCounted
  <1>. SUFFICES ASSUME Init PROVE RetriesCounted
    OBVIOUS
  <1>1. Entries(<<>>) = {}
    BY DEF Entries
  <1>2. \A e \in Everywhere : e = NoEntry
    BY <1>1 DEF Init, Everywhere, Idle
  <1>3. NoEntry.op \in Op /\ NoEntry.retries = 0
    BY NoEntryType DEF Entry
  <1>. QED  BY <1>2, <1>3 DEF RetriesCounted, Init

LEMMA RetriesNext ==
  ASSUME TypeOK, RetriesCounted, [Next]_vars
  PROVE  RetriesCounted'
  <1>. SUFFICES ASSUME NEW e \in Everywhere' PROVE e.op \in Op /\ e.retries <= tries'[e.op]
    BY DEF RetriesCounted
  <1>0. TypeOK'
    BY TypeNext
  <1>1. e \in Entry
    <2>1. /\ store' \in Seq(Entry) /\ memory' \in [Tab -> Seq(Entry)]
          /\ flush' \in [Tab -> FlushAt]
      BY <1>0 DEF TypeOK, FlushAt
    <2>2. /\ Entries(store') \subseteq Entry
          /\ \A u \in Tab : Entries(memory'[u]) \subseteq Entry
      BY <2>1, EntriesTyped
    <2>3. \A u \in Tab : flush'[u].entry \in Entry
      BY <2>1 DEF FlushAt
    <2>. QED  BY <2>2, <2>3 DEF Everywhere
  <1>2. e.op \in Op /\ e.retries \in Nat /\ tries[e.op] \in Nat /\ tries'[e.op] \in Nat
        /\ tries[e.op] <= tries'[e.op]
    <2>1. e.op \in Op /\ e.retries \in Nat
      BY <1>1, QueueAssumption DEF Entry
    <2>2. tries[e.op] \in Nat /\ tries'[e.op] \in Nat
      BY <1>0, <2>1, QueueAssumption DEF TypeOK
    <2>. QED  BY <2>1, <2>2, TriesGrow
  <1>3. CASE e \in Everywhere
    BY <1>2, <1>3 DEF RetriesCounted
  <1>4. CASE e.retries = 0
    BY <1>2, <1>4
  <1>5. ASSUME NEW t \in Tab, HandlerFails(t), RetryLeft(flush[t].entry),
               e = Retried(flush[t].entry)
        PROVE  e.retries <= tries'[e.op]
    <2>. DEFINE old == flush[t].entry
    <2>1. old \in Entry /\ e.op = old.op /\ e.retries = old.retries + 1
      BY <1>5, Types, RetriedType
    <2>2. old.retries <= tries[old.op] /\ old.retries < MaxRetries /\ old.retries \in Nat
      BY <1>5, <2>1, QueueAssumption DEF RetriesCounted, Everywhere, RetryLeft, Entry
    <2>3. tries'[old.op] = IF tries[old.op] > MaxRetries THEN tries[old.op] ELSE tries[old.op] + 1
      BY <1>5, TriesGrow
    <2>. HIDE DEF old
    <2>. QED  BY <1>2, <2>1, <2>2, <2>3, QueueAssumption
  <1>. QED  BY <1>2, <1>3, <1>4, <1>5, NothingNew DEF Known

\* Only a failure with no retry left gives an operation up.
LEMMA ExhaustedByFailure ==
  ASSUME TypeOK, [Next]_vars, NEW o \in Op, fate'[o] = "exhausted"
  PROVE  \/ fate[o] = "exhausted"
         \/ \E t \in Tab : /\ HandlerFails(t) /\ flush[t].entry.op = o
                           /\ ~RetryLeft(flush[t].entry)
  <1>0. fate \in [Op -> Fates]
    BY Types
  <1>. DEFINE Was == fate[o] = "exhausted"
  <1>1. ASSUME NEW t \in Tab, NEW p \in Op, enqueue(t, p) PROVE Was
    <2>1. PICK entry \in Entry, f \in [Op -> Fates] :
            /\ \A q \in Op : f[q] \in {fate[q], "queued"}
            /\ (\E room : Adds(t, entry, f, room)) \/ Remembers(t, entry, f)
      BY <1>1, EnqueueIs
    <2>2. f[o] = "exhausted"
      <3>1. CASE \E room : Adds(t, entry, f, room)
        BY <3>1 DEF Adds
      <3>2. CASE Remembers(t, entry, f)
        <4>1. fate' = f \/ \E k : fate' = [f EXCEPT ![k] = "evicted"]
          BY <3>2 DEF Remembers
        <4>. QED  BY <4>1
      <3>. QED  BY <2>1, <3>1, <3>2
    <2>. QED  BY <2>1, <2>2
  <1>2. ASSUME NEW t \in Tab, FlushStep(t), ~HandlerFails(t) PROVE Was
    BY <1>0, <1>2 DEF FlushStep, peek, PeekFindsNothing, dequeue, DequeueFails, HandlerSucceeds
  <1>3. ASSUME NEW t \in Tab, HandlerFails(t)
        PROVE  Was \/ (flush[t].entry.op = o /\ ~RetryLeft(flush[t].entry))
    <2>. DEFINE e == flush[t].entry
    <2>1. \/ (\E room : Adds(t, Retried(e), fate, room)) \/ fate' = fate
          \/ ~RetryLeft(e) /\ fate' = [fate EXCEPT ![e.op] = "exhausted"]
      BY <1>3, HandlerFailsIs
    <2>2. (\E room : Adds(t, Retried(e), fate, room)) => Was
      BY DEF Adds
    <2>. HIDE DEF e
    <2>. QED  BY <1>0, <2>1, <2>2 DEF e
  <1>4. ASSUME NEW t \in Tab, StartFlush(t) \/ CloseTab(t) PROVE Was
    BY <1>4 DEF StartFlush, CloseTab
  <1>5. CASE DayPasses \/ UNCHANGED vars
    BY <1>5 DEF DayPasses, vars
  <1>. QED  BY <1>1, <1>2, <1>3, <1>4, <1>5 DEF Next

\* An operation is given up only after MaxRetries + 1 failures of its replay, in whatever
\* tabs and queues, and however many copies of it failed dequeues have left behind.
THEOREM GivenUpLate == Spec => []GivenUpAfterRetries
  <1>. DEFINE Inv == TypeOK /\ RetriesCounted /\ GivenUpAfterRetries
  <1>1. Init => Inv
    BY TypeInit, RetriesInit DEF Init, GivenUpAfterRetries
  <1>2. Inv /\ [Next]_vars => Inv'
    <2>. SUFFICES ASSUME Inv, [Next]_vars PROVE Inv'
      OBVIOUS
    <2>1. TypeOK' /\ RetriesCounted'
      BY TypeNext, RetriesNext
    <2>2. ASSUME NEW o \in Op, fate'[o] = "exhausted" PROVE tries'[o] = MaxRetries + 1
      <3>1. /\ tries[o] \in 0..(MaxRetries + 1) /\ tries'[o] \in 0..(MaxRetries + 1)
            /\ tries[o] <= tries'[o]
        BY <2>1, TriesGrow DEF TypeOK
      <3>2. CASE fate[o] = "exhausted"
        BY <3>1, <3>2, QueueAssumption DEF GivenUpAfterRetries
      <3>3. ASSUME NEW t \in Tab, HandlerFails(t), flush[t].entry.op = o,
                   ~RetryLeft(flush[t].entry)
            PROVE  tries'[o] = MaxRetries + 1
        <4>. DEFINE n == flush[t].entry.retries
        <4>1. flush[t].entry \in Entry /\ n <= tries[o]
          BY <3>3, Types DEF RetriesCounted, Everywhere
        <4>2. n = MaxRetries
          BY <3>3, <4>1, QueueAssumption DEF RetryLeft, Entry
        <4>3. tries'[o] = IF tries[o] > MaxRetries THEN tries[o] ELSE tries[o] + 1
          BY <3>3, TriesGrow
        <4>. QED  BY <3>1, <4>1, <4>2, <4>3, QueueAssumption
      <3>. QED  BY <2>2, <3>2, <3>3, ExhaustedByFailure
    <2>. QED  BY <2>1, <2>2 DEF GivenUpAfterRetries
  <1>. QED  BY <1>1, <1>2, PTL DEF Spec

-----------------------------------------------------------------------------
(* How an operation can be lost.                                             *)

\* Add keeps what it does not evict, and holds the new entry.
LEMMA AddHolds ==
  ASSUME TypeOK, NEW t \in Tab, NEW e \in Entry, NEW f \in [Op -> Fates], NEW room,
         Adds(t, e, f, room), NEW o \in Op
  PROVE  /\ o \in Ops(store) => o \in Ops(store') \/ fate'[o] = "evicted"
         /\ \A u \in Tab : o \in Ops(memory[u]) => o \in Ops(memory'[u])
         /\ e.op \in Ops(store') \cup Ops(memory'[t])
  <1>1. memory \in [Tab -> Seq(Entry)] /\ room \in Seq(Entry)
    BY Types DEF Adds
  <1>2. Ops(Append(room, e)) = Ops(room) \cup {e.op}
    BY <1>1, Appending, OpsOf
  <1>3. Ops(Append(memory[t], e)) = Ops(memory[t]) \cup {e.op}
    BY <1>1, Appending, OpsOf
  <1>4. Ops(room) \subseteq Ops(store') /\ (o \in Ops(store) \ Ops(room) => fate'[o] = "evicted")
    BY <1>2 DEF Adds
  <1>5. \A u \in Tab : o \in Ops(memory[u]) => o \in Ops(memory'[u])
    BY <1>1, <1>3 DEF Adds
  <1>6. e.op \in Ops(store') \cup Ops(memory'[t])
    BY <1>1, <1>2, <1>3 DEF Adds
  <1>. QED  BY <1>4, <1>5, <1>6

Foreign(t, o) ==
    /\ flush[t].at = "dequeue" /\ flush[t].entry.op # o
    /\ Queue(t) # <<>> /\ Head(Queue(t)).op = o

LEMMA HeldStays ==
  ASSUME TypeOK, NEW o \in Op, Held(o), UNCHANGED flush,
         o \in Ops(store) => o \in Ops(store'),
         \A u \in Tab : o \in Ops(memory[u]) => o \in Ops(memory'[u])
  PROVE  Held(o)'
  BY DEF Held, Handles

\* The same, when one tab's flush moves and did not hold the operation.
LEMMA HeldMoves ==
  ASSUME TypeOK, NEW o \in Op, Held(o), NEW t \in Tab, NEW g, flush' = [flush EXCEPT ![t] = g],
         ~Handles(t, o),
         o \in Ops(store) => o \in Ops(store'),
         \A u \in Tab : o \in Ops(memory[u]) => o \in Ops(memory'[u])
  PROVE  Held(o)'
  <1>1. \A u \in Tab : Handles(u, o) => Handles(u, o)'
    BY Types DEF Handles
  <1>. QED  BY <1>1 DEF Held

LEMMA EnqueueKeeps ==
  ASSUME TypeOK, NEW t \in Tab, NEW p \in Op, enqueue(t, p), NEW o \in Op, Held(o)
  PROVE  Held(o)' \/ fate'[o] # "queued"
  <1>1. PICK entry \in Entry, f \in [Op -> Fates] :
          /\ (\E room : Adds(t, entry, f, room)) \/ Remembers(t, entry, f)
          /\ UNCHANGED flush
    BY EnqueueIs
  <1>2. ASSUME NEW room, Adds(t, entry, f, room) PROVE Held(o)' \/ fate'[o] # "queued"
    BY <1>1, <1>2, AddHolds, HeldStays
  <1>3. CASE Remembers(t, entry, f)
    <2>. DEFINE long == Append(memory[t], entry)
    <2>1. /\ long \in Seq(Entry) /\ long # <<>> /\ memory \in [Tab -> Seq(Entry)]
          /\ Ops(long) = Ops(memory[t]) \cup {entry.op}
      BY <1>3, RememberType, Types, Appending, OpsOf
    <2>2. /\ store' = store
          /\ \/ /\ memory' = [memory EXCEPT ![t] = Tail(long)]
                /\ fate' = [f EXCEPT ![Head(long).op] = "evicted"]
             \/ memory' = [memory EXCEPT ![t] = long]
      BY <1>3 DEF Remembers
    <2>. HIDE DEF long
    <2>3. Ops(long) = Ops(Tail(long)) \cup {Head(long).op}
      BY <2>1, Removing, OpsOf
    <2>4. CASE o = Head(long).op /\ fate' = [f EXCEPT ![Head(long).op] = "evicted"]
      BY <2>4
    <2>5. CASE \A u \in Tab : o \in Ops(memory[u]) => o \in Ops(memory'[u])
      BY <1>1, <2>2, <2>5, HeldStays
    <2>. QED  BY <2>1, <2>2, <2>3, <2>4, <2>5
  <1>. QED  BY <1>1, <1>2, <1>3

LEMMA DequeueKeeps ==
  ASSUME TypeOK, NEW t \in Tab, dequeue(t), NEW o \in Op, Held(o)
  PROVE  Held(o)' \/ fate'[o] # "queued" \/ Foreign(t, o)
  <1>. DEFINE f == flush[t]
  <1>0. /\ f.at = "dequeue" /\ flush' = [flush EXCEPT ![t] = Dequeued(f)]
        /\ f \in FlushAt /\ flush \in [Tab -> FlushAt]
        /\ store \in Seq(Entry) /\ memory \in [Tab -> Seq(Entry)]
    BY Types DEF dequeue, Goto
  <1>1. CASE o = f.entry.op /\ Expired(f)
    BY <1>1, Types DEF dequeue
  <1>2. CASE o = f.entry.op /\ ~Expired(f)
    <2>1. Handles(t, o)'
      BY <1>0, <1>2 DEF Dequeued, Handles, FlushAt
    <2>. QED  BY <2>1 DEF Held
  <1>3. CASE o # f.entry.op /\ ~Foreign(t, o)
    <2>1. Queue(t) # <<>> => Head(Queue(t)).op # o
      BY <1>0, <1>3 DEF Foreign
    <2>2. ~Handles(t, o)
      BY <1>0 DEF Handles
    <2>3. \A q \in Seq(Entry) : o \in Ops(q) /\ (q # <<>> => Head(q).op # o) => o \in Ops(Rest(q))
      <3>. SUFFICES ASSUME NEW q \in Seq(Entry), o \in Ops(q), q # <<>> => Head(q).op # o
                    PROVE  o \in Ops(Rest(q))
        OBVIOUS
      <3>1. q # <<>>
        BY DEF Ops
      <3>2. Entries(q) = Entries(Rest(q)) \cup {Head(q)}
        BY <3>1, RestType
      <3>. QED  BY <3>1, <3>2, OpsOf
    <2>4. /\ o \in Ops(store) => o \in Ops(store')
          /\ \A u \in Tab : o \in Ops(memory[u]) => o \in Ops(memory'[u])
      <3>1. CASE t \in Persistent
        BY <1>0, <2>1, <2>3, <3>1 DEF dequeue, Queue
      <3>2. CASE t \notin Persistent
        BY <1>0, <2>1, <2>3, <3>2 DEF dequeue, Queue
      <3>. QED  BY <3>1, <3>2
    <2>. HIDE DEF f
    <2>. QED  BY <1>0, <2>2, <2>4, HeldMoves
  <1>. QED  BY <1>1, <1>2, <1>3

LEMMA FailureKeeps ==
  ASSUME TypeOK, NEW t \in Tab, HandlerFails(t), NEW o \in Op, Held(o)
  PROVE  Held(o)' \/ fate'[o] # "queued"
  <1>. DEFINE e == flush[t].entry
              r == Retried(e)
  <1>0. /\ flush' = [flush EXCEPT ![t] = Idle] /\ e \in Entry /\ e.op \in Op
        /\ memory \in [Tab -> Seq(Entry)]
        /\ Handles(t, o) <=> e.op = o
    BY Types DEF HandlerFails, Goto, Handles
  <1>1. \/ /\ RetryLeft(e) /\ r \in Entry
           /\ \/ \E room : Adds(t, r, fate, room)
              \/ /\ memory' = [memory EXCEPT ![t] = Append(memory[t], r)]
                 /\ store' = store
        \/ fate' = [fate EXCEPT ![e.op] = "exhausted"] /\ UNCHANGED <<store, memory>>
    BY HandlerFailsIs
  <1>2. RetryLeft(e) => r.op = e.op
    BY <1>0, RetriedType
  <1>. HIDE DEF e, r
  <1>3. ASSUME NEW room, RetryLeft(e), r \in Entry, Adds(t, r, fate, room)
        PROVE  Held(o)' \/ fate'[o] # "queued"
    <2>1. /\ o \in Ops(store) => o \in Ops(store') \/ fate'[o] = "evicted"
          /\ \A u \in Tab : o \in Ops(memory[u]) => o \in Ops(memory'[u])
          /\ r.op \in Ops(store') \cup Ops(memory'[t])
      BY <1>3, AddHolds, Types
    <2>2. CASE e.op = o
      BY <1>2, <1>3, <2>1, <2>2 DEF Held
    <2>3. CASE e.op # o
      BY <1>0, <2>1, <2>3, HeldMoves
    <2>. QED  BY <2>2, <2>3
  <1>4. ASSUME RetryLeft(e), r \in Entry, store' = store,
               memory' = [memory EXCEPT ![t] = Append(memory[t], r)]
        PROVE  Held(o)'
    <2>1. Ops(Append(memory[t], r)) = Ops(memory[t]) \cup {r.op}
      BY <1>0, <1>4, Appending, OpsOf
    <2>2. /\ \A u \in Tab : o \in Ops(memory[u]) => o \in Ops(memory'[u])
          /\ r.op \in Ops(memory'[t])
      BY <1>0, <1>4, <2>1
    <2>3. CASE e.op = o
      BY <1>2, <1>4, <2>2, <2>3 DEF Held
    <2>4. CASE e.op # o
      BY <1>0, <1>4, <2>2, <2>4, HeldMoves
    <2>. QED  BY <2>3, <2>4
  <1>5. CASE fate' = [fate EXCEPT ![e.op] = "exhausted"] /\ UNCHANGED <<store, memory>>
    <2>1. CASE e.op = o
      BY <1>5, <2>1, Types
    <2>2. CASE e.op # o
      BY <1>0, <1>5, <2>2, HeldMoves
    <2>. QED  BY <2>1, <2>2
  <1>. QED  BY <1>1, <1>3, <1>4, <1>5

LEMMA CloseKeeps ==
  ASSUME TypeOK, NEW t \in Tab, CloseTab(t), NEW o \in Op, Held(o)
  PROVE  Held(o)' \/ fate'[o] # "queued"
  <1>1. CASE o \in Ops(memory[t]) \/ Handles(t, o)
    BY <1>1 DEF CloseTab
  <1>2. CASE ~(o \in Ops(memory[t]) \/ Handles(t, o))
    <2>1. \A u \in Tab : o \in Ops(memory[u]) => o \in Ops(memory'[u])
      BY <1>2, Types DEF CloseTab
    <2>. QED  BY <1>2, <2>1, HeldMoves DEF CloseTab
  <1>. QED  BY <1>1, <1>2

\* Whatever fails, is evicted, expires, is retried or is closed, an operation vanishes
\* with its fate unsettled only when a flush dequeues it that had peeked at another one.
THEOREM OnlyForeignDequeuesLose == Spec => LostToForeignDequeue
  <1>. DEFINE A == \A o \in Op :
                     fate[o] = "queued" /\ Held(o) /\ ~Held(o)' =>
                        \/ fate'[o] # "queued"
                        \/ \E t \in Tab : /\ flush[t].at = "dequeue" /\ flush[t].entry.op # o
                                          /\ Queue(t) # <<>> /\ Head(Queue(t)).op = o
  <1>1. TypeOK /\ [Next]_vars => A
    <2>. SUFFICES ASSUME TypeOK, [Next]_vars, NEW o \in Op, Held(o)
                  PROVE  Held(o)' \/ fate'[o] # "queued" \/ \E t \in Tab : Foreign(t, o)
      BY DEF Foreign
    <2>1. CASE UNCHANGED <<store, memory, flush>>
      BY <2>1, HeldStays
    <2>2. ASSUME NEW t \in Tab, StartFlush(t) \/ peek(t) \/ PeekFindsNothing(t) \/ DequeueFails(t)
          PROVE  Held(o)'
      <3>1. /\ UNCHANGED <<store, memory>> /\ ~Handles(t, o)
            /\ \E g : flush' = [flush EXCEPT ![t] = g]
        BY <2>2 DEF StartFlush, peek, PeekFindsNothing, DequeueFails, Goto, Handles
      <3>. QED  BY <3>1, HeldMoves
    <2>3. ASSUME NEW t \in Tab, HandlerSucceeds(t) PROVE Held(o)' \/ fate'[o] # "queued"
      <3>1. CASE Handles(t, o)
        BY <2>3, <3>1, Types DEF HandlerSucceeds, Handles
      <3>2. CASE ~Handles(t, o)
        BY <2>3, <3>2, HeldMoves DEF HandlerSucceeds, Goto
      <3>. QED  BY <3>1, <3>2
    <2>4. CASE DayPasses \/ UNCHANGED vars
      BY <2>1, <2>4 DEF DayPasses, vars
    <2>. QED
      BY <2>2, <2>3, <2>4, EnqueueKeeps, DequeueKeeps, FailureKeeps, CloseKeeps
      DEF Next, FlushStep
  <1>. QED  BY <1>1, QueueTypes, PTL DEF Spec, LostToForeignDequeue

=============================================================================
