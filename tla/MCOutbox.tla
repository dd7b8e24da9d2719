------------------------------ MODULE MCOutbox ------------------------------
(* Small instances of Outbox: workers, events and keys are interchangeable.*)
EXTENDS Outbox, TLC

Symmetry == Permutations(Event) \cup Permutations(Key) \cup Permutations(Worker)
=============================================================================
