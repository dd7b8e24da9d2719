SPECIFICATION Spec
CONSTANTS
  Key = {k1}
  Exec = {A, B}
  Consumer = {}
  Deniable = {}
  None = None
  Ghost = Ghost
  MaxAttempts = 1
  MaxCrashes = 0
  MaxStalls = 1
  MaxFaults = 0
  MaxEmitFaults = 0
SYMMETRY Symmetry
INVARIANTS ServedCredentialLive
CHECK_DEADLOCK FALSE
