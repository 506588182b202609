CONSTANTS
  Processes = {p1}
  Signatures = {s1}
  NoSignature = NoSignature
  Backends = {"json", "table"}
  Outcomes = {"resolved", "flagged_data_quality", "deferred_retry", "duplicate_suppressed", "needs_human"}
  MaxAttempts = 2
  MaxRuns = 3
  MaxOpened = 4
  MaxFaults = 0
  MaxJoins = 0
  MaxTogether = 0
SPECIFICATION Spec
CHECK_DEADLOCK FALSE
INVARIANT RepairLeavesNothingOpen
