SPECIFICATION Spec
CONSTANTS
  Secret = {s}
  Alias = {a, b}
  Payload = {p, q}
  Key = {i, j}
  Provenance = {legacy}
  None = None
  MaxVersions = 3
  MaxLedger = 7
SYMMETRY Symmetry
INVARIANTS AliasesResolve AnswersAreDistinct LedgerExplainsState
PROPERTIES VersionsAreImmutable
CHECK_DEADLOCK FALSE
