----------------------------- MODULE OfflineQueue -----------------------------
(***************************************************************************)
(* The offline queue of the web application                                 *)
(* (apps/web/src/lib/offline-queue.ts): one IndexedDB store that every tab  *)
(* of the browser shares, a queue in memory in a tab that has no IndexedDB  *)
(* or cannot write to it, and flush, which replays the operations one by    *)
(* one.  Each IndexedDB transaction is one step; peek, dequeue and the      *)
(* replay of one operation are three.  Any transaction may fail, and the    *)
(* code goes on without a word.                                             *)
(***************************************************************************)
EXTENDS Naturals, Sequences, FiniteSets

CONSTANTS
    Op,            \* operations that may be queued
    Tab,           \* tabs of the browser
    Persistent,    \* tabs in which IndexedDB opens
    Capacity,      \* operations the IndexedDB quota has room for
    EvictCount,    \* oldest operations evicted on QuotaExceededError
    MaxQueueSize,  \* MAX_QUEUE_SIZE, of the queue in memory
    MaxRetries,    \* retries of a failed operation
    MaxErrors,     \* bound on dequeues that fail
    MaxDay         \* bound on the days that pass

ASSUME QueueAssumption ==
    /\ Op # {} /\ Persistent \subseteq Tab
    /\ Capacity \in Nat \ {0} /\ EvictCount \in Nat \ {0} /\ MaxQueueSize \in Nat \ {0}
    /\ MaxRetries \in Nat /\ MaxErrors \in Nat /\ MaxDay \in Nat

VARIABLES
    open,     \* the tabs that are open
    store,    \* the IndexedDB store, oldest timestamp first
    memory,   \* memoryQueue of every tab
    flush,    \* the flush of every tab: idle, peek, dequeue, handler
    day,      \* the clock, in units of OP_MAX_AGE_MS
    errors,   \* dequeues that have failed
    fate,     \* history: what became of every operation
    tries     \* history: how often its replay has failed, up to MaxRetries + 1

vars == <<open, store, memory, flush, day, errors, fate, tries>>

Entry == [op : Op, retries : 0..MaxRetries, day : 0..MaxDay]
NoEntry == [op |-> CHOOSE o \in Op : TRUE, retries |-> 0, day |-> 0]
Idle == [at |-> "idle", entry |-> NoEntry, now |-> 0]

Fates == {"new", "queued", "replayed", "expired", "exhausted", "evicted", "closed"}

TypeOK ==
    /\ open \in SUBSET Tab
    /\ store \in Seq(Entry) /\ Len(store) <= Capacity
    /\ memory \in [Tab -> Seq(Entry)]
    /\ flush \in [Tab -> [at : {"idle", "peek", "dequeue", "handler"}, entry : Entry,
                          now : 0..MaxDay]]
    /\ day \in 0..MaxDay
    /\ errors \in 0..MaxErrors
    /\ fate \in [Op -> Fates]
    /\ tries \in [Op -> 0..(MaxRetries + 1)]

Init ==
    /\ open = Tab
    /\ store = <<>>
    /\ memory = [t \in Tab |-> <<>>]
    /\ flush = [t \in Tab |-> Idle]
    /\ day = 0
    /\ errors = 0
    /\ fate = [o \in Op |-> "new"]
    /\ tries = [o \in Op |-> 0]

-----------------------------------------------------------------------------
Queue(t) == IF t \in Persistent THEN store ELSE memory[t]

Ops(q) == {q[i].op : i \in DOMAIN q}

\* _evictOldest
Evicted(q) == SubSeq(q, EvictCount + 1, Len(q))

\* Mutant: what cannot be written is only logged.
Forgotten(t, entry) == memory[t]

\* "Ne pas rejeter - fallback in-memory"
Fallback(t, entry) == Append(memory[t], entry)

\* _idbEnqueueWithEviction: a full store loses its oldest operations, unless their
\* deletion fails, and the write is tried once more.  What cannot be written (the room
\* has gone to another write, the index on id is unique, the disk fails) goes to the
\* tab's memory.  f: the fates after the caller's step.
Add(t, entry, f) ==
    \E room \in {store} \cup {q \in {Evicted(store)} : Len(store) >= Capacity} :
    \E written \in BOOLEAN :
        /\ written => Len(room) < Capacity /\ entry.op \notin Ops(room)
        /\ store' = IF written THEN Append(room, entry) ELSE room
        /\ memory' = IF written THEN memory
                     ELSE [memory EXCEPT ![t] = Fallback(t, entry)]
        /\ fate' = [o \in Op |-> IF o \in Ops(store) \ Ops(room) THEN "evicted" ELSE f[o]]

enqueue(t, o) ==
    LET entry == [op |-> o, retries |-> 0, day |-> day]
        fates == [fate EXCEPT ![o] = "queued"]
        long == Append(memory[t], entry)
    IN  /\ t \in open /\ fate[o] = "new"
        /\ \/ t \in Persistent /\ Add(t, entry, fates)
           \/ /\ t \notin Persistent
              /\ IF Len(long) > MaxQueueSize
                 THEN /\ memory' = [memory EXCEPT ![t] = Tail(long)]
                      /\ fate' = [fates EXCEPT ![Head(long).op] = "evicted"]
                 ELSE /\ memory' = [memory EXCEPT ![t] = long]
                      /\ fate' = fates
              /\ UNCHANGED store
        /\ UNCHANGED <<open, flush, day, errors, tries>>

-----------------------------------------------------------------------------
(* flush, one tab.                                                          *)

Goto(t, f) ==
    /\ flush' = [flush EXCEPT ![t] = f]
    /\ UNCHANGED <<open, day>>

\* The online event finds the queue not empty and no flush of this tab running.
StartFlush(t) ==
    /\ t \in open /\ flush[t].at = "idle" /\ Queue(t) # <<>>
    /\ Goto(t, [at |-> "peek", entry |-> NoEntry, now |-> day])
    /\ UNCHANGED <<store, memory, errors, fate, tries>>

peek(t) ==
    /\ flush[t].at = "peek" /\ Queue(t) # <<>>
    /\ Goto(t, [flush[t] EXCEPT !.at = "dequeue", !.entry = Head(Queue(t))])
    /\ UNCHANGED <<store, memory, errors, fate, tries>>

\* Nothing is left, or the read fails, which looks the same.
PeekFindsNothing(t) ==
    /\ flush[t].at = "peek"
    /\ Queue(t) = <<>> \/ t \in Persistent
    /\ Goto(t, Idle)
    /\ UNCHANGED <<store, memory, errors, fate, tries>>

Expired(f) == f.now > f.entry.day

ToPeek(f) == [f EXCEPT !.at = "peek", !.entry = NoEntry]

\* The flush goes on with what it has peeked, whatever dequeue returned.
Dequeued(f) == IF Expired(f) THEN ToPeek(f) ELSE [f EXCEPT !.at = "handler"]

Rest(q) == IF q = <<>> THEN q ELSE Tail(q)

\* dequeue(): removes whatever is the oldest by now.
dequeue(t) ==
    LET f == flush[t] IN
    /\ f.at = "dequeue"
    /\ Goto(t, Dequeued(f))
    /\ IF t \in Persistent
       THEN store' = Rest(store) /\ UNCHANGED memory
       ELSE memory' = [memory EXCEPT ![t] = Rest(@)] /\ UNCHANGED store
    /\ fate' = IF Expired(f) THEN [fate EXCEPT ![f.entry.op] = "expired"] ELSE fate
    /\ UNCHANGED <<errors, tries>>

\* dequeue() answers null and has removed nothing.
DequeueFails(t) ==
    /\ t \in Persistent /\ flush[t].at = "dequeue"
    /\ errors < MaxErrors /\ errors' = errors + 1
    /\ Goto(t, Dequeued(flush[t]))
    /\ UNCHANGED <<store, memory, fate, tries>>

HandlerSucceeds(t) ==
    /\ flush[t].at = "handler"
    /\ Goto(t, ToPeek(flush[t]))
    /\ fate' = [fate EXCEPT ![flush[t].entry.op] = "replayed"]
    /\ UNCHANGED <<store, memory, errors, tries>>

\* The failed operation goes to the end of the queue.
Retried(e) == [e EXCEPT !.retries = @ + 1, !.day = day]

\* Mutants: one retry too many, one too few.
RetryLeftOrLast(e) == e.retries <= MaxRetries
RetryLeftButOne(e) == e.retries + 1 < MaxRetries

RetryLeft(e) == e.retries < MaxRetries

\* A failure ends the flush.
HandlerFails(t) ==
    LET e == flush[t].entry IN
    /\ flush[t].at = "handler"
    /\ Goto(t, Idle)
    /\ tries' = [tries EXCEPT ![e.op] = IF @ > MaxRetries THEN @ ELSE @ + 1]
    /\ \/ /\ RetryLeft(e) /\ t \in Persistent
          /\ Add(t, Retried(e), fate)
       \/ /\ RetryLeft(e) /\ t \notin Persistent
          /\ memory' = [memory EXCEPT ![t] = Append(@, Retried(e))]
          /\ UNCHANGED <<store, fate>>
       \/ /\ ~RetryLeft(e)
          /\ fate' = [fate EXCEPT ![e.op] = "exhausted"]
          /\ UNCHANGED <<store, memory>>
    /\ UNCHANGED errors

Handles(t, o) == flush[t].at = "handler" /\ flush[t].entry.op = o

\* The tab is closed: its memory is gone, and the operation it was replaying.
CloseTab(t) ==
    /\ t \in open /\ open' = open \ {t}
    /\ flush' = [flush EXCEPT ![t] = Idle]
    /\ memory' = [memory EXCEPT ![t] = <<>>]
    /\ fate' = [o \in Op |-> IF o \in Ops(memory[t]) \/ Handles(t, o)
                             THEN "closed" ELSE fate[o]]
    /\ UNCHANGED <<store, day, errors, tries>>

DayPasses ==
    /\ day < MaxDay /\ day' = day + 1
    /\ UNCHANGED <<open, store, memory, flush, errors, fate, tries>>

FlushStep(t) ==
    \/ peek(t) \/ PeekFindsNothing(t)
    \/ dequeue(t) \/ DequeueFails(t)
    \/ HandlerSucceeds(t) \/ HandlerFails(t)

Next ==
    \/ \E t \in Tab :
          \/ \E o \in Op : enqueue(t, o)
          \/ StartFlush(t) \/ FlushStep(t) \/ CloseTab(t)
    \/ DayPasses

Spec == Init /\ [][Next]_vars

-----------------------------------------------------------------------------
(* Properties.                                                              *)

\* The operation is in the store, in the memory of a tab or in the hands of a flush.
Held(o) ==
    \/ o \in Ops(store)
    \/ \E t \in Tab : o \in Ops(memory[t]) \/ Handles(t, o)

\* offline-queue.ts: "Garantit zero data-loss", and of several tabs "chaque onglet
\* partage la meme queue": an operation that was neither replayed nor given up, and that
\* no full store and no closed tab took with it, is held.
NothingLost == \A o \in Op : fate[o] = "queued" => Held(o)

\* The only way to lose an operation: a flush dequeues it that had peeked at another one.
\* Failed writes, evictions, retries, expiries, failed dequeues and closed tabs never
\* make an operation vanish without its fate being settled.
LostToForeignDequeue ==
    [][\A o \in Op :
          fate[o] = "queued" /\ Held(o) /\ ~Held(o)' =>
             \/ fate'[o] # "queued"
             \/ \E t \in Tab : /\ flush[t].at = "dequeue" /\ flush[t].entry.op # o
                               /\ Queue(t) # <<>> /\ Head(Queue(t)).op = o]_vars

\* An operation is not given up before its replay has failed MaxRetries + 1 times, in
\* whatever tabs and through whatever queues it was tried.
GivenUpAfterRetries == \A o \in Op : fate[o] = "exhausted" => tries[o] = MaxRetries + 1

=============================================================================
