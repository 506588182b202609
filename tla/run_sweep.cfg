\* Two processes sweep one mailbox, with crashes and failing storage.
CONSTANTS
  w1 = w1
  w2 = w2
  a1 = a1
  a2 = a2
  n1 = n1
  None = None
  Workers = {w1, w2}
  Messages = {a1, a2, n1}
  Alerts = {a1, a2}
  Limit = 2
  Window = 3
  Interference = {"crash", "storage_fails", "fetch_fails", "scope_unproven", "claim_fails", "run_raises", "slow_run"}
  MaxFaults = 1
SPECIFICATION FairSpec
INVARIANTS
  TypeOK
  OneAtATime
  RerunsAreBounded
PROPERTIES
  ImplementsAlertQueue
  EveryAlertHandled
