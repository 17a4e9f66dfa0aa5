--------------------------- MODULE MCPersonDeletion ---------------------------
(* Small instances of PersonDeletion for TLC.                                *)
EXTENDS PersonDeletion, TLC

\* Calls are anonymous.
Symmetry == Permutations(Session)

=============================================================================
