--------------------------- MODULE MCTokenRefresh ---------------------------
(***************************************************************************)
(* Instances of TokenRefresh for TLC.                                      *)
(***************************************************************************)
EXTENDS TokenRefresh, TLC

\* The requests of one client are alike.
Symmetry == Permutations(Web) \cup Permutations(Request \ Web)

=============================================================================
