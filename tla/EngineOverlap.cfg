SPECIFICATION Spec
CONSTANTS
  Key = {k1, k2}
  Exec = {A, B}
  Consumer = {c}
  Deniable = {"move-alias", "revoke", "rollback"}
  None = None
  Ghost = Ghost
  MaxAttempts = 2
  MaxCrashes = 0
  MaxStalls = 1
  MaxFaults = 1
  MaxEmitFaults = 0
SYMMETRY Symmetry
INVARIANTS ServedWasProbed ReconcileHasRecord DoneRetiredOld
PROPERTIES RowFollowsGraph AdoptedCredentialIsFinal
CHECK_DEADLOCK FALSE
