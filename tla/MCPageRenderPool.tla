-------------------------- MODULE MCPageRenderPool --------------------------
(***************************************************************************)
(* Instances of PageRenderPool for TLC.                                    *)
(***************************************************************************)
EXTENDS PageRenderPool, TLC

Symmetry == Permutations(Page) \cup Permutations(Run)

=============================================================================
