-------------------------- MODULE MCAccessManagement --------------------------
(* Small instances of AccessManagement for TLC.                              *)
EXTENDS AccessManagement, TLC

\* People are interchangeable.
Symmetry == Permutations(Person)

=============================================================================
