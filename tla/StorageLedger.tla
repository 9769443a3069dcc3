---------------------------- MODULE StorageLedger ----------------------------
(***************************************************************************)
(* What the storage counters promise, without requests, transactions or    *)
(* objects (the docstring of quota_service.adjust_document_storage states  *)
(* the rule): a document is held by at most one counter, it is charged     *)
(* when it enters the active set and freed when it leaves it, a change of  *)
(* size moves the counter that holds it, and a counter always shows        *)
(* exactly what it holds.                                                  *)
(***************************************************************************)
EXTENDS Integers, FiniteSets

CONSTANTS Doc, Counter, MaxBytes, None

VARIABLES
    holder,     \* counter that holds a document, None when it is not charged
    bytes,      \* size of a document
    used,       \* bytes shown by a counter
    count       \* documents shown by a counter

vars == <<holder, bytes, used, count>>

HeldBy(c) == {d \in Doc : holder[d] = c}

Recount ==
    /\ used = [c \in Counter |->
          Cardinality({u \in Doc \X (1..MaxBytes) :
                          u[1] \in HeldBy(c) /\ u[2] <= bytes[u[1]]})]
    /\ count = [c \in Counter |-> Cardinality(HeldBy(c))]

Init ==
    /\ holder = [d \in Doc |-> None]
    /\ bytes \in [Doc -> 0..MaxBytes]
    /\ Recount

Charge(d, c, b) ==
    /\ holder[d] = None
    /\ holder' = [holder EXCEPT ![d] = c]
    /\ bytes' = [bytes EXCEPT ![d] = b]

Resize(d, b) ==
    /\ holder[d] # None
    /\ bytes' = [bytes EXCEPT ![d] = b]
    /\ UNCHANGED holder

\* One document, a folder's documents, or those a reconciliation gives up.
Free(S) ==
    /\ \A d \in S : holder[d] # None
    /\ holder' = [d \in Doc |-> IF d \in S THEN None ELSE holder[d]]
    /\ UNCHANGED bytes

Move ==
    \/ \E d \in Doc, c \in Counter, b \in 0..MaxBytes : Charge(d, c, b)
    \/ \E d \in Doc, b \in 0..MaxBytes : Resize(d, b)
    \/ \E S \in SUBSET Doc : Free(S)

Next == Move /\ Recount'

Spec == Init /\ [][Next]_vars

=============================================================================
