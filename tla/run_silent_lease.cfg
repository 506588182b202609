CONSTANTS
  s1 = s1
  s2 = s2
  c1 = c1
  c2 = c2
  Sweeps = {s1, s2}
  Replica <- MCReplica
  Backends = {"json", "table"}
  Columns = {c1, c2}
  Confirmations = 2
  MaxErrors = 2
  Models <- TwoModels
  WatchSchema = FALSE
  MinDrop = 3
  DropPercent = 50
  MaxFaults = 1
SPECIFICATION FairSpec
INVARIANTS
  OneSweeper
PROPERTIES
  StaleIsAnnounced
CHECK_DEADLOCK FALSE
