SPECIFICATION FairSpec
CONSTANTS
  Event = {e1, e2}
  Key = {k}
  Worker = {v, w}
  None = None
  MaxAttempts = 2
  Lease = 2
  MaxPass = 1
  MaxCrashes = 1
INVARIANTS TypeOK ExclusiveHandling OneSuccessPerKey CallsBounded
PROPERTIES EveryEventSettles
