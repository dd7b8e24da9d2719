SPECIFICATION Spec
CONSTANTS
  Key = {k1, k2}
  Exec = {A, B}
  Consumer = {}
  Deniable = {}
  None = None
  Ghost = Ghost
  MaxAttempts = 2
  MaxCrashes = 0
  MaxStalls = 0
  MaxFaults = 0
  MaxEmitFaults = 0
SYMMETRY Symmetry
INVARIANTS RevokeTargetIsSuperseded
CHECK_DEADLOCK FALSE
