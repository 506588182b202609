CONSTANTS
  Runs = {r1}
  Humans = {h1, h2}
  Requests <- MCRequests
  Backends = {"json", "table"}
  MaxAsks = 2
  MaxAnswers = 2
  MaxFaults = 1
SPECIFICATION FairSpec
INVARIANTS
  TypeOK
  OneYesOneGrant
  ClickGrantsItsCard
PROPERTIES
  ClicksReplaceNothing
  ImplementsConsent
  EveryRequestEnds
CHECK_DEADLOCK FALSE
