SPECIFICATION Spec
CONSTANTS
  Secret = {x, y}
  Executor = {A, B, C}
  NoOwner = NoOwner
  TTL = 2
  MaxClock = 3
  MaxSeq = 4
SYMMETRY Symmetry
INVARIANTS FencedWriteExclusive
PROPERTIES StaleHandleStaysStale FenceNeverGoesBack ImplementsTenure
