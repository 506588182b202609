\* A rebind without a target is approved, charged and then refused by its tool.
CONSTANTS
  MaxTurns = 1
  MaxToolCalls = 2
  MaxWrites = 1
  MaxTokens = 0
  Timeout = 0
  Offered = {"rebind_dataset_gateway", "report_resolution"}
  Claims = {"resolved"}
  Situations <- FreshFailure
  Targets = {gw1}
  NoTarget = NoTarget
  NoArg = NoArg
  Tables = {}
  ReplyTokens = {0}
  MaxBatch = 2
  MaxAttempts = 1
  Interference = {}
SPECIFICATION Spec
INVARIANT
  RefusalsAreFree
