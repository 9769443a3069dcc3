-------------------------- MODULE MCStoredDocuments --------------------------
(***************************************************************************)
(* Instances of StoredDocuments for TLC.                                   *)
(***************************************************************************)
EXTENDS StoredDocuments, TLC

CONSTANTS u1

OneOwner == [d \in Doc |-> u1]

AllPdf == [d \in Doc |-> "pdf"]

AllDocx == [d \in Doc |-> "docx"]

\* The personal quota takes three bytes and two documents, the organization
\* has no limit.
Storage == [c \in Counter |-> IF c = u1 THEN 3 ELSE -1]

Documents == [c \in Counter |-> IF c = u1 THEN 2 ELSE -1]

Symmetry == Permutations(Request) \cup Permutations(Doc)

=============================================================================
