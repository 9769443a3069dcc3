-------------------------- MODULE MCEditorDocument --------------------------
(***************************************************************************)
(* Instances of EditorDocument for TLC.                                    *)
(***************************************************************************)
EXTENDS EditorDocument

\* Every edit is about the same element: the case in which updates coalesce.
OneElement == [e \in Queued \cup Content |-> CHOOSE x \in Element : TRUE]

=============================================================================
