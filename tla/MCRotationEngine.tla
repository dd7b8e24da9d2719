-------------------------- MODULE MCRotationEngine --------------------------
(* Small instances of RotationEngine. Slots of executions and idempotency  *)
(* keys are interchangeable.                                               *)
EXTENDS RotationEngine, TLC

Symmetry == Permutations(Exec) \cup Permutations(Key)
=============================================================================
