----------------------------- MODULE MCIdentity -----------------------------
(* Small instances of Identity.                                            *)
EXTENDS Identity, TLC

Symmetry == Permutations(Token) \cup Permutations(Proc)
=============================================================================
