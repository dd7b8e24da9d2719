SPECIFICATION FairSpec
CONSTANTS
  Op = {a, b}
  Reconciler = {r, s}
  MaxFaults = 2
  MaxCrashes = 2
INVARIANTS OpenIffRequired CommittedMeansApplied
PROPERTIES EveryRecordCloses
CHECK_DEADLOCK FALSE
