SPECIFICATION CacheSpec
CONSTANTS
  Proc = {p, q}
  Req = {a, b}
  Id = {i}
  Name = {n, m}
  Meant <- OneAlias
  Value = {u, v}
  None = None
  Torn = Torn
  TTL = 1
  MaxEdits = 1
  MaxCrashes = 0
  MaxRaces = 0
  MaxTicks = 2
  Ops = {"get", "clear"}
  Programs = {"rest"}
  Clients = {FALSE}
INVARIANTS TypeOK CachedIsRecent
SYMMETRY Symmetry
