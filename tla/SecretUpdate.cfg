SPECIFICATION Spec
CONSTANTS
  Proc = {p}
  Req = {a}
  Id = {i}
  Name = {n}
  Meant <- OwnNames
  Value = {v}
  None = None
  Torn = Torn
  TTL = 1
  MaxEdits = 2
  MaxCrashes = 0
  MaxRaces = 0
  MaxTicks = 0
  Ops = {"update"}
  Programs = {"mcp"}
  Clients = {TRUE}
PROPERTIES UpdateKeepsTheRest
SYMMETRY Symmetry
