--------------------------- MODULE MCCollaboration ---------------------------
(***************************************************************************)
(* Instances of Collaboration for TLC.                                     *)
(***************************************************************************)
EXTENDS Collaboration, TLC

CONSTANTS s1, s2, u1, u2

\* One tab each.
OneEach == [s \in Socket |-> IF s = s1 THEN u1 ELSE u2]

\* Both users do the same things with their sockets.
Symmetry ==
    Permutations(Handler) \cup Permutations(LockId) \cup Permutations(Session)
      \cup {s1 :> s2 @@ s2 :> s1 @@ u1 :> u2 @@ u2 :> u1}

=============================================================================
