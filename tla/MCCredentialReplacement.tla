----------------------- MODULE MCCredentialReplacement -----------------------
(* Small instances of CredentialReplacement for TLC.                         *)
EXTENDS CredentialReplacement, TLC

\* Sessions are anonymous.
Symmetry == Permutations(Session)

=============================================================================
