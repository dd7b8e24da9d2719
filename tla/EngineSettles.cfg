SPECIFICATION FairSpec
CONSTANTS
  Key = {k1, k2}
  Exec = {A, B}
  Consumer = {}
  Deniable = {"rollback"}
  None = None
  Ghost = Ghost
  MaxAttempts = 2
  MaxCrashes = 0
  MaxStalls = 0
  MaxFaults = 1
  MaxEmitFaults = 1
INVARIANTS ServedJobNotRolledBack
PROPERTIES EveryJobSettles
CHECK_DEADLOCK FALSE
