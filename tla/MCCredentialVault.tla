-------------------------- MODULE MCCredentialVault --------------------------
(* A small instance of CredentialVault for TLC.                              *)
EXTENDS CredentialVault, TLC

\* Identifiers are only compared for equality, so they can be permuted freely.
Symmetry ==
  Permutations(Credential) \cup Permutations(Handle) \cup Permutations(Secret)
    \cup Permutations(Key)

=============================================================================
