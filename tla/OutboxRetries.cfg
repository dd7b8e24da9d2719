SPECIFICATION Spec
CONSTANTS
  Event = {e1}
  Key = {k}
  Worker = {v, w}
  None = None
  MaxAttempts = 2
  Lease = 3
  MaxPass = 2
  MaxCrashes = 0
SYMMETRY Symmetry
INVARIANTS RetriesBounded
