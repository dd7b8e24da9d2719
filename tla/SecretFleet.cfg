SPECIFICATION Spec
CONSTANTS
  Proc = {p, q}
  Req = {a, b, c}
  Id = {i}
  Name = {n}
  Meant <- OwnNames
  Value = {v}
  None = None
  Torn = Torn
  TTL = 1
  MaxEdits = 1
  MaxCrashes = 0
  MaxRaces = 0
  MaxTicks = 0
  Ops = {"list", "refresh"}
  Programs = {"mcp"}
  Clients = {TRUE}
INVARIANTS WithdrawnIsNotFound
SYMMETRY Symmetry
