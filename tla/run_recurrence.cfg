\* Runs and drains over their stores, with a fault and an overlap.
CONSTANTS
  Processes = {p1, p2}
  Signatures = {s1}
  NoSignature = NoSignature
  Backends = {"json", "table"}
  Outcomes = {"resolved", "flagged_data_quality", "deferred_retry", "duplicate_suppressed", "needs_human"}
  MaxAttempts = 2
  MaxRuns = 2
  MaxOpened = 2
  MaxFaults = 1
  MaxJoins = 1
  MaxTogether = 1
SPECIFICATION FairSpec
INVARIANTS
  OccurrencesAddUp
  OwedIsPending
  PatienceIsBounded
  RetriesAreBounded
  RepairClosesTheIncident
PROPERTIES
  NoRefreshInTheWindow
  OwedIsSettled
CHECK_DEADLOCK FALSE
