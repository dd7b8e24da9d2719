SPECIFICATION MCSpec
CONSTANTS
  Subject = {a, b}
  Addr = {i, j}
  Inside = {i}
  Session = {x, y}
  Resource = {u}
  Req = {q, r}
  Program = {"open", "bearer", "oauth2", "mtls+jwt", "mcp", "mcp2", "proxy"}
  Window = 2
  Limit = 2
  AccessLife = 1
  RefreshLife = 2
  MaxTime = 1
  Forever = Forever
  None = None
  MaxChanges = 2
SYMMETRY Symmetry
INVARIANTS WithdrawnIsRefused BlockIsShort
PROPERTIES DenyHolds
