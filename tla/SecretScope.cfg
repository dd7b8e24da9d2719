SPECIFICATION Spec
CONSTANTS
  Proc = {p}
  Req = {a, b}
  Id = {i}
  Name = {n}
  Meant <- OwnNames
  Value = {v}
  None = None
  Torn = Torn
  TTL = 1
  MaxEdits = 2
  MaxCrashes = 1
  MaxRaces = 0
  MaxTicks = 0
  Ops = {"get", "fields", "list", "info", "service", "credential", "refresh", "create", "update", "delete", "clear", "cred"}
  Programs = {"mcp", "mcp2", "rest", "proxy"}
  Clients = {TRUE}
INVARIANTS WithdrawnIsNotFound
PROPERTIES WritesStayInFolder
SYMMETRY Symmetry

CONSTRAINT TwoEvents
