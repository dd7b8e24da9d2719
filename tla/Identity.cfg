SPECIFICATION FairSpec
CONSTANTS
  Token = {t1, t2}
  Proc = {p, q}
  Life = {1, Forever}
  Overlap = {1, Invalid}
  None = None
  Forever = Forever
  Invalid = Invalid
  Stale = 1
  Timeout = 0
  MaxTime = 1
  MaxCrashes = 1
  MaxRaces = 0
INVARIANTS ReportedIsDurable SupersededHasSuccessor
PROPERTIES ImplementsRegistry EveryCallReturns
