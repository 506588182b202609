------------------------------ MODULE TriageRun ------------------------------
(***************************************************************************)
(* One triage run: the controller loop of TriageAgent.run, the dispatcher  *)
(* behind it (ToolDispatcher), the Data Quality agent it consults, and the *)
(* validation of what the model finally claims.                            *)
(*                                                                         *)
(* The model (the LLM) proposes; any proposal is possible, limited only to *)
(* the tool names in Offered.  The controller disposes.  Each await of the *)
(* code is a point where the clock, the capacity backoff and the dataset   *)
(* itself may move, so a dispatch is split there: charge, precondition,    *)
(* ask a human, charge the write, execute.                                 *)
(***************************************************************************)
EXTENDS PolicyLedger, Sequences, FiniteSets

CONSTANTS
  Offered,       \* tool names the model may ask for, hallucinated ones included
  Claims,        \* outcomes it may report, unknown words included
  Situations,    \* what the run may find when it starts
  Targets,       \* gateways a rebind may name as its target_gateway
  NoTarget,      \* the argument of a rebind whose target_gateway is missing
  NoArg,         \* every other tool: its arguments decide nothing here
  Tables,        \* registered tables the Data Quality agent scans
  ReplyTokens,   \* sizes of a model reply, in tokens
  MaxBatch,      \* tool calls in one model reply
  MaxAttempts,   \* InMemoryRetryStore.max_attempts
  Interference   \* what moves while the run waits: "retry_due", "refresh_elsewhere"

ValidOutcomes ==
  {"resolved", "flagged_data_quality", "duplicate_suppressed", "approval_denied",
   "deferred_retry", "needs_human", "declared_failed"}
Overrides == {"timed_out", "max_turns_exceeded", "budget_exceeded", "agent_crashed"}

\* The known incident, open or also announced; whether an approval gate is
\* configured; the retry row of the signature; the dataset's last refresh.
RetryStatuses == {"unavailable", "none", "pending", "due", "exhausted", "done"}
Situation ==
  [known : {"none", "open", "announced"}, gate : BOOLEAN,
   retry : [status : RetryStatuses, attempts : Nat],
   latest : {"Completed", "Failed", "none"}]

ASSUME RunAssumption ==
  /\ Claims \subseteq STRING
  /\ "none" \notin Claims
  /\ Situations \subseteq Situation
  /\ ReplyTokens \subseteq Nat
  /\ MaxBatch \in Nat
  /\ MaxAttempts \in Nat
  /\ NoTarget \notin Targets
  /\ NoArg \notin (Targets \cup {NoTarget})

VARIABLES
  pc,           \* where the run is
  pending,      \* tool calls of the current reply not yet dispatched
  cur,          \* the call being dispatched, and the decision that allowed it
  setup,        \* fixed for the run: known incident and approval gate
  remediation,  \* ctx.remediation_outcome
  finding,      \* ctx.dq_finding
  flagged,      \* ctx.flag_written
  deferred,     \* ctx.retry_deferred
  approvals,    \* ctx.approvals: which kinds of record it holds
  notice,       \* ctx.notification_attempted, _delivered, _suppressed
  resolution,   \* the outcome the model reported, "none" before that
  outcome,      \* TriageResult.outcome
  todo,         \* tables the Data Quality agent has not scanned yet
  evidence,     \* what its scans have shown so far
  issued,       \* decisions the gate has returned, by decision_id
  consumed,     \* decision_ids the gate has marked used
  retry,        \* the signature's row in the store's memory, which the run reads
  stored,       \* the status of that row in the table, which a later drain reads
  latest        \* the dataset's most recent refresh; anything that is neither
                \* "Completed" nor "none" (throttled, running) counts as "Failed"

\* History, read by no action: what really happened outside the ledger.
VARIABLES
  performed,    \* remediations sent to Power BI, in order
  healthy,      \* whether latest has been "Completed" since the run began
  completions,  \* replies obtained from any model
  shown,        \* what any table scan has shown
  turnedAway,   \* remediations their own tool refused after the charge
  lost,         \* whether a write of the retry row has failed
  cards         \* resolution cards the channel received

ctx   == <<remediation, finding, flagged, deferred, approvals, notice, resolution>>
dq    == <<todo, evidence>>
gate  == <<issued, consumed>>
world == <<retry, stored, lost, latest, healthy>>
hist  == <<performed, completions, shown, cards, turnedAway>>
vars  == <<ledger, clock, pc, pending, cur, setup, ctx, outcome, dq, gate, world, hist>>

-----------------------------------------------------------------------------
(* Values.                                                                 *)

\* Dispatch defers the write charge of these until they can no longer be refused.
Preconditioned == {"refresh_powerbi_dataset", "reenable_refresh_schedule"}
Gated(action)  == action \in ApprovalRequired

ArgsOf(action) ==
  IF action = "rebind_dataset_gateway" THEN Targets \cup {NoTarget} ELSE {NoArg}

Idle == [action |-> "none", arg |-> NoArg, by |-> 0]

\* The fingerprint covers the action and its arguments.
Fingerprint(call) == <<call.action, call.arg>>
Fingerprints == UNION {{action} \X ArgsOf(action) : action \in ApprovalRequired}

Decisions == [granted : BOOLEAN, fingerprint : Fingerprints]

Executing(action) == pc = "execute" /\ cur.action = action
RemediationInFlight == pc = "execute" /\ cur.action \in RemediationActions

-----------------------------------------------------------------------------
Init ==
  /\ LedgerInit
  /\ pc = "turn"
  /\ pending = 0
  /\ cur = Idle
  /\ setup \in Situations
  /\ remediation = "none"
  /\ finding = "none"
  /\ flagged = FALSE
  /\ deferred = FALSE
  /\ approvals = {}
  /\ notice = {}
  /\ resolution = "none"
  /\ outcome = "running"
  /\ todo = {}
  /\ evidence = "none"
  /\ issued = <<>>
  /\ consumed = {}
  /\ retry = setup.retry
  /\ stored = setup.retry.status
  /\ lost = FALSE
  /\ latest = setup.latest
  /\ healthy = (latest = "Completed")
  /\ performed = <<>>
  /\ completions = 0
  /\ shown = {}
  /\ cards = 0
  /\ turnedAway = 0

-----------------------------------------------------------------------------
(* How a step leaves the controller.                                       *)

\* A PolicyViolation or a crash reaches run(): the outcome is overridden.
EndRun(kind) ==
  /\ outcome' = kind
  /\ pc' = "done"
  /\ UNCHANGED <<pending, cur>>

\* The dispatcher returned a result to the model.
CallReturns ==
  /\ pending' = pending - 1
  /\ pc' = IF pending = 1 THEN "turn" ELSE "call"
  /\ cur' = Idle
  /\ UNCHANGED outcome

GoTo(stage) ==
  /\ pc' = stage
  /\ UNCHANGED <<pending, cur, outcome>>

-----------------------------------------------------------------------------
(* The loop: TriageAgent._loop.                                            *)

LoopTurnRefused ==
  /\ pc = "turn"
  /\ \/ Overdue /\ EndRun("timed_out")
     \/ ~Overdue /\ TurnsSpent /\ EndRun("max_turns_exceeded")
  /\ UNCHANGED <<ledger, clock, setup, ctx, dq, gate, world, hist>>

LoopTurnCharged ==
  /\ pc = "turn"
  /\ ~Overdue
  /\ ~TurnsSpent
  /\ ChargeLlmTurn
  /\ GoTo("model")
  /\ UNCHANGED <<clock, setup, ctx, dq, gate, world, hist>>

\* The provider raised: recorded as a crash.
ProviderFails ==
  /\ pc = "model"
  /\ EndRun("agent_crashed")
  /\ UNCHANGED <<ledger, clock, setup, ctx, dq, gate, world, hist>>

\* A reply with n tool calls; none at all is a give-up, not a success.
ModelReplies(n, count) ==
  /\ pc = "model"
  /\ ChargeTokens(count)
  /\ completions' = completions + 1
  /\ IF TokensOverrun(count)
     THEN EndRun("budget_exceeded")
     ELSE /\ pending' = n
          /\ pc' = IF n = 0 THEN "finish" ELSE "call"
          /\ UNCHANGED <<cur, outcome>>
  /\ UNCHANGED <<clock, setup, ctx, dq, gate, world, performed, shown, cards, turnedAway>>

-----------------------------------------------------------------------------
(* ToolDispatcher.dispatch: the charge.                                    *)

\* Where a charged call goes before it may execute.
StageAfterCharge(action) ==
  IF action \in Preconditioned THEN "check"
  ELSE IF Gated(action) THEN "ask"
  ELSE "execute"

DispatchEndsRun ==
  /\ pc = "call"
  /\ \E action \in Offered :
       \/ Overdue /\ EndRun("timed_out")
       \/ /\ ~Overdue /\ action \in AllowedActions /\ CallsSpent
          /\ EndRun("budget_exceeded")
  /\ UNCHANGED <<ledger, clock, setup, ctx, dq, gate, world, hist>>

\* Off the allowlist: refused as a tool result, and the run goes on.
DispatchUnlisted(action) ==
  /\ pc = "call"
  /\ ~Overdue
  /\ action \notin AllowedActions
  /\ RecordBlocked
  /\ CallReturns
  /\ UNCHANGED <<clock, setup, ctx, dq, gate, world, hist>>

\* Mutant: the allowlist is not consulted.
DispatchAnything(action, arg) ==
  /\ pc = "call"
  /\ ~Overdue
  /\ ~CallsSpent
  /\ ChargeToolCall
  /\ cur' = [action |-> action, arg |-> arg, by |-> 0]
  /\ pc' = StageAfterCharge(action)
  /\ UNCHANGED <<pending, outcome, clock, setup, ctx, dq, gate, world, hist>>

DispatchCharged(action, arg) ==
  /\ pc = "call"
  /\ ~Overdue
  /\ action \in AllowedActions
  /\ ~CallsSpent
  /\ ChargeToolCall
  /\ cur' = [action |-> action, arg |-> arg, by |-> 0]
  /\ pc' = StageAfterCharge(action)
  /\ UNCHANGED <<pending, outcome, clock, setup, ctx, dq, gate, world, hist>>

-----------------------------------------------------------------------------
(* ToolDispatcher._precondition_failure.                                   *)

\* Mutant: the backoff is honoured only once it is over.
DeferredWhenDue == retry.status = "due"

\* is_deferred: a retry is scheduled and its window has not arrived.
IsDeferred == retry.status = "pending"

\* Mutant: the refused refresh is charged all the same.
CheckRefreshCharging ==
  /\ pc = "check"
  /\ cur.action = "refresh_powerbi_dataset"
  /\ IF IsDeferred THEN CallReturns /\ ChargeWrite ELSE GoTo("charge") /\ UNCHANGED ledger
  /\ UNCHANGED <<clock, setup, ctx, dq, gate, world, hist>>

\* Mutant: the dispatcher waits for the window instead of refusing.
CheckRefreshWaiting ==
  /\ pc = "check"
  /\ cur.action = "refresh_powerbi_dataset"
  /\ GoTo(IF IsDeferred THEN "check" ELSE "charge")
  /\ UNCHANGED <<ledger, clock, setup, ctx, dq, gate, world, hist>>

CheckRefresh ==
  /\ pc = "check"
  /\ cur.action = "refresh_powerbi_dataset"
  /\ IF IsDeferred THEN CallReturns ELSE GoTo("charge")
  /\ UNCHANGED <<ledger, clock, setup, ctx, dq, gate, world, hist>>

\* Mutant: a history that cannot be read is no objection.
CheckReenableUnread(readable) ==
  /\ pc = "check"
  /\ cur.action = "reenable_refresh_schedule"
  /\ IF remediation = "succeeded" \/ ~readable \/ latest = "Completed"
     THEN GoTo("ask")
     ELSE CallReturns
  /\ UNCHANGED <<ledger, clock, setup, ctx, dq, gate, world, hist>>

\* A remediation that succeeded in this run stands for a good refresh;
\* otherwise the history is read, and an unreadable history is a refusal.
CheckReenable(readable) ==
  /\ pc = "check"
  /\ cur.action = "reenable_refresh_schedule"
  /\ IF remediation = "succeeded" \/ (readable /\ latest = "Completed")
     THEN GoTo("ask")
     ELSE CallReturns
  /\ UNCHANGED <<ledger, clock, setup, ctx, dq, gate, world, hist>>

-----------------------------------------------------------------------------
(* ToolDispatcher._seek_approval.  The wall clock does not run in "ask".   *)

NoGate ==
  /\ pc = "ask"
  /\ ~setup.gate
  /\ approvals' = approvals \cup {"ungranted"}
  /\ CallReturns
  /\ UNCHANGED <<ledger, clock, setup, remediation, finding, flagged, deferred, notice,
                 resolution, dq, gate, world, hist>>

\* Mutant: an answer stays good after it was used.
AuthorisesAgain(decision, id, late) ==
  /\ decision.granted
  /\ decision.fingerprint = Fingerprint(cur)
  /\ ~late

\* ApprovalDecision.is_valid_for, then consume.
Authorises(decision, id, late) ==
  /\ decision.granted
  /\ decision.fingerprint = Fingerprint(cur)
  /\ ~late
  /\ id \notin consumed

\* _acknowledge_decision: who answered goes to the channel whatever becomes of the post.
\* It is no announcement of the incident, and no attempt at one.
Acknowledges == UNCHANGED <<notice, cards>>

\* The gate answers with decision number id; late when the deadline has
\* passed by the time it is read.
Answered(id, decision, late) ==
  /\ pc = "ask"
  /\ setup.gate
  /\ IF Authorises(decision, id, late)
     THEN /\ consumed' = consumed \cup {id}
          /\ approvals' = approvals \cup {"granted"}
          /\ cur' = [cur EXCEPT !.by = id]
          /\ pc' = "charge"
          /\ UNCHANGED <<pending, outcome>>
     ELSE /\ approvals' = approvals \cup {"ungranted"}
          /\ CallReturns
          /\ UNCHANGED consumed
  /\ Acknowledges
  /\ UNCHANGED <<ledger, clock, setup, remediation, finding, flagged, deferred,
                 resolution, dq, world, performed, completions, shown,
                 turnedAway>>

\* A new decision.  A refusal always names the request it refuses.
FreshAnswer(decision, late) ==
  /\ ~decision.granted => decision.fingerprint = Fingerprint(cur)
  /\ issued' = Append(issued, decision)
  /\ Answered(Len(issued) + 1, decision, late)

\* The gate hands back a decision it has already returned.
ReplayedAnswer(id, late) ==
  /\ Answered(id, issued[id], late)
  /\ UNCHANGED issued

-----------------------------------------------------------------------------
(* The deferred remediation charge of dispatch.                            *)

WriteRefused ==
  /\ pc = "charge"
  /\ WritesSpent
  /\ RecordBlocked
  /\ CallReturns
  /\ UNCHANGED <<clock, setup, ctx, dq, gate, world, hist>>

WriteCharged ==
  /\ pc = "charge"
  /\ ~WritesSpent
  /\ ChargeWrite
  /\ GoTo("execute")
  /\ UNCHANGED <<clock, setup, ctx, dq, gate, world, hist>>

-----------------------------------------------------------------------------
(* ToolDispatcher._execute: one disjunct per tool.                         *)

\* The call is handed to the Power BI client.  How it ended: "succeeded", "failed", or
\* "raised", where the client threw and the outcome of record stays as it was.
Perform(result) ==
  /\ performed' = Append(performed, [action |-> cur.action, arg |-> cur.arg,
                                     by |-> cur.by, ok |-> result = "succeeded"])
  /\ remediation' = IF result = "raised" THEN remediation ELSE result
  /\ UNCHANGED <<finding, flagged, deferred, approvals, notice, resolution,
                 completions, shown, cards, turnedAway>>

\* A refresh that was refused, throttled, polled for too long or whose polling
\* raised leaves the history as it was or goes on to end either way.
ExecuteRefresh(result, after) ==
  /\ Executing("refresh_powerbi_dataset")
  /\ result = "succeeded" => after = "Completed"
  /\ Perform(result)
  /\ latest' = after
  /\ healthy' = (healthy \/ after = "Completed")
  /\ CallReturns
  /\ UNCHANGED <<ledger, clock, setup, dq, gate, retry, stored, lost>>

\* Without a target the tool refuses, after the approval and the charge.
ExecuteRebind(result) ==
  /\ Executing("rebind_dataset_gateway")
  /\ IF cur.arg = NoTarget
     THEN /\ turnedAway' = turnedAway + 1
          /\ UNCHANGED <<ctx, performed, completions, shown, cards>>
     ELSE Perform(result)
  /\ CallReturns
  /\ UNCHANGED <<ledger, clock, setup, dq, gate, world>>

ExecuteReenable(result) ==
  /\ Executing("reenable_refresh_schedule")
  /\ Perform(result)
  /\ CallReturns
  /\ UNCHANGED <<ledger, clock, setup, dq, gate, world>>

\* build_flag and append: a row goes into the table, and none ever comes out.
WritesFlag == finding = "duplicates"

ExecuteFlag ==
  /\ Executing("write_data_quality_flag")
  /\ flagged' = (flagged \/ WritesFlag)
  /\ CallReturns
  /\ UNCHANGED <<ledger, clock, setup, remediation, finding, deferred, approvals, notice,
                 resolution, dq, gate, world, hist>>

\* What a notifier says of a card: delivered only on a 2xx of the webhook; a transport
\* error, another status and no webhook at all are answers too.
Posted(delivered) ==
  (notice \ {"delivered"}) \cup {"attempted"} \cup (IF delivered THEN {"delivered"} ELSE {})

\* Mutant: every occurrence is announced.
ExecuteNotifyAlways(delivered) ==
  /\ Executing("notify_teams")
  /\ notice' = Posted(delivered)
  /\ cards' = cards + (IF delivered THEN 1 ELSE 0)
  /\ CallReturns
  /\ UNCHANGED <<ledger, clock, setup, remediation, finding, flagged, deferred, approvals,
                 resolution, dq, gate, world, performed, completions, shown,
                 turnedAway>>

\* A known incident that was announced before is not announced again.
ExecuteNotify(delivered) ==
  /\ Executing("notify_teams")
  /\ IF setup.known = "announced"
     THEN /\ notice' = (notice \cup {"attempted", "suppressed"}) \ {"delivered"}
          /\ UNCHANGED cards
     ELSE /\ notice' = Posted(delivered)
          /\ cards' = cards + (IF delivered THEN 1 ELSE 0)
  /\ CallReturns
  /\ UNCHANGED <<ledger, clock, setup, remediation, finding, flagged, deferred, approvals,
                 resolution, dq, gate, world, performed, completions, shown,
                 turnedAway>>

\* InMemoryRetryStore.defer: one row per signature, a bounded attempt count.
Defer(row) ==
  IF row.attempts + 1 > MaxAttempts
  THEN [row EXCEPT !.status = "exhausted"]
  ELSE [status |-> "pending", attempts |-> row.attempts + 1]

\* AzureTableRetryStore._persist: without a client, or when the upsert fails, the row
\* stays in memory, the failure is logged and the caller is told nothing.
Persist(row, lands) ==
  /\ stored' = IF lands THEN row.status ELSE stored
  /\ lost' = (lost \/ ~lands)

\* Mutant: having asked for a retry counts as having one.
ExecuteDeferAlways(lands) ==
  /\ Executing("defer_refresh_retry")
  /\ IF retry.status = "unavailable"
     THEN UNCHANGED <<retry, stored, lost, deferred>>
     ELSE /\ retry' = Defer(retry)
          /\ Persist(Defer(retry), lands)
          /\ deferred' = TRUE
  /\ CallReturns
  /\ UNCHANGED <<ledger, clock, setup, remediation, finding, flagged, approvals, notice,
                 resolution, dq, gate, latest, healthy, hist>>

ExecuteDefer(lands) ==
  /\ Executing("defer_refresh_retry")
  /\ IF retry.status = "unavailable"
     THEN UNCHANGED <<retry, stored, lost, deferred>>
     ELSE /\ retry' = Defer(retry)
          /\ Persist(Defer(retry), lands)
          /\ deferred' = (Defer(retry).status = "pending")
  /\ CallReturns
  /\ UNCHANGED <<ledger, clock, setup, remediation, finding, flagged, approvals, notice,
                 resolution, dq, gate, latest, healthy, hist>>

\* The loop returns after report_resolution, whatever follows it in the reply.
ExecuteReport(claim) ==
  /\ Executing("report_resolution")
  /\ resolution' = claim
  /\ GoTo("finish")
  /\ UNCHANGED <<ledger, clock, setup, remediation, finding, flagged, deferred, approvals,
                 notice, dq, gate, world, hist>>

\* The read-only tools, and any other tool whose call raised: an exception is
\* a tool result.  (For the Power BI calls see Perform.)
ExecuteWithoutEffect ==
  /\ pc = "execute"
  /\ cur.action \notin (RemediationActions \cup {"report_resolution", "notify_teams"})
  /\ CallReturns
  /\ UNCHANGED <<ledger, clock, setup, ctx, dq, gate, world, hist>>

\* The notifier raised: the attempt is on record, the delivery flag is stale.
NotifyRaises ==
  /\ Executing("notify_teams")
  /\ setup.known # "announced"
  /\ notice' = notice \cup {"attempted"}
  /\ CallReturns
  /\ UNCHANGED <<ledger, clock, setup, remediation, finding, flagged, deferred, approvals,
                 resolution, dq, gate, world, hist>>

-----------------------------------------------------------------------------
(* DataQualityAgent.investigate, sharing the ledger.                       *)

ExecuteConsult ==
  /\ Executing("consult_data_quality_agent")
  /\ todo' = Tables
  /\ evidence' = "none"
  /\ GoTo("scan")
  /\ UNCHANGED <<ledger, clock, setup, ctx, gate, world, hist>>

\* detect_duplicates: a key that two rows share, no such key (or no key columns), or a
\* table that is not there.
Sightings == {"none", "clean", "duplicates"}

\* A defect anywhere outranks cleanliness everywhere else.
Worst(a, b) ==
  CASE "duplicates" \in {a, b} -> "duplicates"
    [] "clean" \in {a, b}      -> "clean"
    [] OTHER                   -> "none"

\* The table is read first and charged after; the charge may end the run.
ScanTable(table, sees) ==
  /\ pc = "scan"
  /\ table \in todo
  /\ todo' = todo \ {table}
  /\ evidence' = Worst(evidence, sees)
  /\ shown' = shown \cup ({sees} \ {"none"})
  /\ \/ Overdue /\ EndRun("timed_out") /\ UNCHANGED ledger
     \/ ~Overdue /\ CallsSpent /\ EndRun("budget_exceeded") /\ UNCHANGED ledger
     \/ ~Overdue /\ ~CallsSpent /\ ChargeToolCall /\ GoTo("scan")
  /\ UNCHANGED <<clock, setup, ctx, gate, world, performed, completions, cards, turnedAway>>

\* No table, or none readable: a finding without evidence and without a model.
NothingScanned ==
  /\ pc = "scan"
  /\ todo = {}
  /\ evidence = "none"
  /\ finding' = "unknown"
  /\ CallReturns
  /\ UNCHANGED <<ledger, clock, setup, remediation, flagged, deferred, approvals, notice,
                 resolution, dq, gate, world, hist>>

\* Mutant: the second agent's turns are its own affair.
InterpretTurnFree ==
  /\ pc = "scan"
  /\ todo = {}
  /\ evidence # "none"
  /\ GoTo("interpret")
  /\ UNCHANGED <<ledger, clock, setup, ctx, dq, gate, world, hist>>

InterpretTurn ==
  /\ pc = "scan"
  /\ todo = {}
  /\ evidence # "none"
  /\ \/ Overdue /\ EndRun("timed_out") /\ UNCHANGED ledger
     \/ ~Overdue /\ TurnsSpent /\ EndRun("max_turns_exceeded") /\ UNCHANGED ledger
     \/ ~Overdue /\ ~TurnsSpent /\ ChargeLlmTurn /\ GoTo("interpret")
  /\ UNCHANGED <<clock, setup, ctx, dq, gate, world, hist>>

\* Mutant: the model's reading of the scan is taken as it is.
ReconcileTrusting(claim, seen) == IF claim = "none" THEN seen ELSE claim

\* _reconcile: whatever the model claims, the scan wins.
Reconcile(claim, seen) == seen

Interpreted(claim, count) ==
  /\ pc = "interpret"
  /\ ChargeTokens(count)
  /\ completions' = completions + 1
  /\ IF TokensOverrun(count)
     THEN EndRun("budget_exceeded") /\ UNCHANGED finding
     ELSE CallReturns /\ finding' = Reconcile(claim, evidence)
  /\ UNCHANGED <<clock, setup, remediation, flagged, deferred, approvals, notice, resolution,
                 dq, gate, world, performed, shown, cards, turnedAway>>

\* A scan or the agent's provider raised: a tool error, the run goes on.
ConsultFails ==
  /\ pc = "interpret" \/ (pc = "scan" /\ todo # {})
  /\ CallReturns
  /\ UNCHANGED <<ledger, clock, setup, ctx, dq, gate, world, hist>>

-----------------------------------------------------------------------------
(* TriageAgent._validate_outcome: the claim against what happened.         *)

\* Mutant: "resolved" is taken on the model's word.
UnsupportedButResolved(claim) ==
  \/ claim \notin ValidOutcomes
  \/ claim = "resolved" /\ "ungranted" \in approvals /\ "granted" \notin approvals
  \/ claim = "deferred_retry" /\ ~deferred
  \/ claim = "flagged_data_quality" /\ (finding # "duplicates" \/ ~flagged)
  \/ claim = "duplicate_suppressed" /\ setup.known = "none"
  \/ claim = "approval_denied" /\ "ungranted" \notin approvals
  \/ claim \in {"resolved", "flagged_data_quality"} /\ blocked > 0

Unsupported(claim) ==
  \/ claim \notin ValidOutcomes
  \/ claim = "resolved" /\ "ungranted" \in approvals /\ "granted" \notin approvals
  \/ claim = "resolved" /\ remediation # "succeeded"
  \/ claim = "deferred_retry" /\ ~deferred
  \/ claim = "flagged_data_quality" /\ (finding # "duplicates" \/ ~flagged)
  \/ claim = "duplicate_suppressed" /\ setup.known = "none"
  \/ claim = "approval_denied" /\ "ungranted" \notin approvals
  \/ claim \in {"resolved", "flagged_data_quality"} /\ blocked > 0

Finish ==
  /\ pc = "finish"
  /\ outcome' = IF resolution = "none" \/ Unsupported(resolution)
                THEN "needs_human" ELSE resolution
  /\ pc' = "done"
  /\ UNCHANGED <<ledger, clock, pending, cur, setup, ctx, dq, gate, world, hist>>

-----------------------------------------------------------------------------
(* What moves around the run.                                              *)

TimePasses ==
  /\ pc \notin {"ask", "done"}
  /\ Tick
  /\ UNCHANGED <<pc, pending, cur, setup, ctx, outcome, dq, gate, world, hist>>

\* The deferred retry's window arrives.
RetryWindowArrives ==
  /\ "retry_due" \in Interference
  /\ pc # "done"
  /\ retry.status = "pending"
  /\ retry' = [retry EXCEPT !.status = "due"]
  /\ UNCHANGED <<ledger, clock, pc, pending, cur, setup, ctx, outcome, dq, gate, stored, lost, latest,
                 healthy, hist>>

\* Power BI's own schedule, or a person, refreshes the dataset.
RefreshElsewhere(status) ==
  /\ "refresh_elsewhere" \in Interference
  /\ pc # "done"
  /\ latest' = status
  /\ healthy' = (healthy \/ status = "Completed")
  /\ UNCHANGED <<ledger, clock, pc, pending, cur, setup, ctx, outcome, dq, gate, retry, stored,
                 lost, hist>>

-----------------------------------------------------------------------------
Loop ==
  \/ LoopTurnRefused
  \/ LoopTurnCharged
  \/ ProviderFails
  \/ \E n \in 0..MaxBatch, count \in ReplyTokens : ModelReplies(n, count)
  \/ Finish

Dispatch ==
  \/ DispatchEndsRun
  \/ \E action \in Offered : DispatchUnlisted(action)
  \/ \E action \in Offered : \E arg \in ArgsOf(action) : DispatchCharged(action, arg)
  \/ CheckRefresh
  \/ \E readable \in BOOLEAN : CheckReenable(readable)
  \/ NoGate
  \/ \E decision \in Decisions, late \in BOOLEAN : FreshAnswer(decision, late)
  \/ \E id \in 1..Len(issued), late \in BOOLEAN : ReplayedAnswer(id, late)
  \/ WriteRefused
  \/ WriteCharged

Execute ==
  \/ \E result \in {"succeeded", "failed", "raised"} :
       \/ \E after \in {latest, "Completed", "Failed"} : ExecuteRefresh(result, after)
       \/ ExecuteRebind(result)
       \/ ExecuteReenable(result)
  \/ ExecuteFlag
  \/ \E delivered \in BOOLEAN : ExecuteNotify(delivered)
  \/ NotifyRaises
  \/ \E lands \in BOOLEAN : ExecuteDefer(lands)
  \/ \E claim \in Claims : ExecuteReport(claim)
  \/ ExecuteWithoutEffect

Consult ==
  \/ ExecuteConsult
  \/ \E table \in Tables, sees \in Sightings : ScanTable(table, sees)
  \/ NothingScanned
  \/ InterpretTurn
  \/ \E claim \in {"clean", "duplicates", "none"}, count \in ReplyTokens :
       Interpreted(claim, count)
  \/ ConsultFails

Controller == Loop \/ Dispatch \/ Execute \/ Consult

Environment ==
  \/ TimePasses
  \/ RetryWindowArrives
  \/ \E status \in {"Completed", "Failed"} : RefreshElsewhere(status)

Done == pc = "done" /\ UNCHANGED vars

Next == Controller \/ Environment \/ Done

Spec == Init /\ [][Next]_vars

\* One process runs the loop; its awaits all return (the HTTP clients carry
\* timeouts, the gate has a deadline), so a step it can take it takes.
FairSpec == Spec /\ WF_vars(Controller)
=============================================================================
