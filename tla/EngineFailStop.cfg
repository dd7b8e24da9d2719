SPECIFICATION Spec
CONSTANTS
  Key = {k1, k2, k3}
  Exec = {A, B}
  Consumer = {}
  Deniable = {"rollback"}
  None = None
  Ghost = Ghost
  MaxAttempts = 2
  MaxCrashes = 1
  MaxStalls = 0
  MaxFaults = 1
  MaxEmitFaults = 0
SYMMETRY Symmetry
INVARIANTS ServedCredentialLive AtMostOneLivePerJob
CHECK_DEADLOCK FALSE
