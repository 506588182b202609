CONSTANTS
  Threshold = 2
  PriorTop = 1
  PollTop = 2
  MaxRuns = 3
  MaxFaults = 1
SPECIFICATION FairSpec
INVARIANTS
  RiskIsExact
  SilenceIsForetold
  OutcomeIsOwn
PROPERTIES
  CallEnds
CHECK_DEADLOCK FALSE
