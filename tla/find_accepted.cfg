CONSTANTS
  s1 = s1
  s2 = s2
  c1 = c1
  c2 = c2
  Sweeps = {s1}
  Replica <- MCReplica
  Backends = {"json", "table"}
  Columns = {c1, c2}
  Confirmations = 2
  MaxErrors = 2
  Models <- AllModels
  WatchSchema = TRUE
  MinDrop = 3
  DropPercent = 50
  MaxFaults = 1
SPECIFICATION Spec
PROPERTY AcceptedIsNormal
CHECK_DEADLOCK FALSE
