------------------------- MODULE MCSecretLifecycle -------------------------
(* Small instances of SecretLifecycle.                                     *)
EXTENDS SecretLifecycle, TLC

Symmetry == Permutations(Key) \cup Permutations(Alias) \cup Permutations(Payload)
=============================================================================
