-------------------------- MODULE MCRotationLease --------------------------
(* A small instance of RotationLease: executors and secrets are            *)
(* interchangeable, so both sets are symmetric in the invariant runs.      *)
EXTENDS RotationLease, TLC

Symmetry == Permutations(Executor) \cup Permutations(Secret)
=============================================================================
