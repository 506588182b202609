\* One run over all its tools: budgets, approvals, preconditions, evidence, claims.
CONSTANTS
  MaxTurns = 2
  MaxToolCalls = 3
  MaxWrites = 2
  MaxTokens = 0
  Timeout = 0
  Offered = {"refresh_powerbi_dataset", "rebind_dataset_gateway", "reenable_refresh_schedule", "consult_data_quality_agent", "write_data_quality_flag", "notify_teams", "defer_refresh_retry", "delete_dataset", "report_resolution"}
  Claims = {"resolved", "flagged_data_quality", "deferred_retry", "all_good"}
  Situations <- AllFailures
  Targets = {gw1}
  NoTarget = NoTarget
  NoArg = NoArg
  Tables = {t1}
  ReplyTokens = {0, 1}
  MaxBatch = 2
  MaxAttempts = 1
  Interference = {"retry_due", "refresh_elsewhere"}
SPECIFICATION FairSpec
INVARIANTS
  TypeOK
  BudgetsHold
  RefusedBeforeTheTool
  GatedOnlyWithOwnGrant
  ResolvedIsEarned
  RearmedOnEvidence
  FlagBackedByScan
  DeferredIsScheduled
  NoticeIsHonest
PROPERTIES
  NoStampede
  RunTerminates
