--------------------------- MODULE TriageRunProps ---------------------------
(***************************************************************************)
(* What a triage run promises, and a claim the repository makes about it   *)
(* that the code does not keep.                                            *)
(***************************************************************************)
EXTENDS TriageRun

Stages == {"turn", "model", "call", "check", "ask", "charge", "execute",
           "scan", "interpret", "finish", "done"}

Rows == [status : RetryStatuses, attempts : Nat]

Arguments == Targets \cup {NoTarget, NoArg}

Calls == [action : AllowedActions \cup {"none"}, arg : Arguments, by : Nat]

Performed == [action : RemediationActions, arg : Arguments,
              by : Nat, ok : BOOLEAN]

\* Every variable holds a value of its kind; a call in progress is a call the
\* ledger has let through the allowlist.
TypeOK ==
  /\ LedgerTypeOK
  /\ pc \in Stages
  /\ pending \in Nat
  /\ cur \in Calls
  /\ setup \in Situations
  /\ remediation \in {"none", "succeeded", "failed"}
  /\ finding \in {"none", "unknown", "clean", "duplicates"}
  /\ flagged \in BOOLEAN
  /\ deferred \in BOOLEAN
  /\ approvals \subseteq {"granted", "ungranted"}
  /\ notice \subseteq {"attempted", "delivered", "suppressed"}
  /\ resolution \in Claims \cup {"none"}
  /\ outcome \in (Claims \cap ValidOutcomes) \cup {"needs_human"} \cup Overrides \cup {"running"}
  /\ todo \subseteq Tables
  /\ evidence \in {"none", "clean", "duplicates"}
  /\ issued \in Seq(Decisions)
  /\ consumed \subseteq Nat
  /\ retry \in Rows
  /\ stored \in RetryStatuses
  /\ lost \in BOOLEAN
  /\ latest \in {"Completed", "Failed", "none"}
  /\ healthy \in BOOLEAN
  /\ performed \in Seq(Performed)
  /\ completions \in Nat
  /\ shown \subseteq {"clean", "duplicates"}
  /\ cards \in Nat
  /\ turnedAway \in Nat

-----------------------------------------------------------------------------
(* Safety.                                                                 *)

\* The budgets bound what really happens, over both agents of the run, not
\* only what the ledger counted: remediations sent to Power BI, replies paid
\* for, and tokens, which may overrun by the one reply that ends the run.
BudgetsHold ==
  /\ Len(performed) <= MaxWrites
  /\ completions <= MaxTurns
  /\ tokens > MaxTokens => outcome = "budget_exceeded"

\* The remediation budget is charged once for each remediation the controller has
\* let through to its tool: a refusal by a precondition, by a human, by silence or
\* by the budget itself costs nothing (registry.py:454-459).
RefusedBeforeTheTool ==
  writes = Len(performed) + turnedAway + (IF RemediationInFlight THEN 1 ELSE 0)

\* What the code says of itself is more: "A refused action must never spend the
\* run's one remediation" (registry.py:456), so the budget is charged for nothing
\* but remediations sent to Power BI.  The code does not keep it: a rebind without
\* a target is approved, charged and then refused by the tool (registry.py:831-833).
RefusalsAreFree ==
  writes = Len(performed) + (IF RemediationInFlight THEN 1 ELSE 0)

\* Each gated remediation sent to Power BI rests on a human's "yes" to exactly
\* that action with those arguments, and no two rest on the same "yes"
\* (approvals.py:26-40: bound to the exact action, single use).
GatedOnlyWithOwnGrant ==
  \A i \in 1..Len(performed) :
    Gated(performed[i].action) =>
      /\ performed[i].by \in 1..Len(issued)
      /\ issued[performed[i].by].granted
      /\ issued[performed[i].by].fingerprint = <<performed[i].action, performed[i].arg>>
      /\ \A j \in 1..Len(performed) : j # i => performed[j].by # performed[i].by

FixedSomething == \E i \in 1..Len(performed) : performed[i].ok

\* "resolved" is earned: some remediation did succeed, policy refused nothing
\* the agent asked for, and a human who was asked agreed to something, whatever
\* the model reports (_validate_outcome).
ResolvedIsEarned ==
  outcome = "resolved" =>
    /\ FixedSomething
    /\ blocked = 0
    /\ "ungranted" \in approvals => "granted" \in approvals

\* A data quality flag, and the outcome that reports one, rest on duplicates a
\* scan of this run has counted, whatever the Data Quality model claims.
FlagBackedByScan ==
  (flagged \/ outcome = "flagged_data_quality") => "duplicates" \in shown

\* A run that ends in "deferred_retry" has a retry scheduled in the store it asked,
\* not an exhausted row, even if the model deferred several times; and in the
\* table too unless a write of the row has failed.
DeferredIsScheduled ==
  outcome = "deferred_retry" =>
    /\ retry.status \in {"pending", "due"}
    /\ lost \/ stored \in {"pending", "due"}

\* What the incident store will count as an announcement did reach the channel,
\* and an incident announced by an earlier run is not announced again.
NoticeIsHonest ==
  /\ "delivered" \in notice => cards > 0
  /\ setup.known = "announced" => cards = 0

\* No refresh is sent into a backoff window the run, or an earlier one, has
\* already agreed to wait out (retries.is_deferred).
NoStampede ==
  [][(performed' # performed /\ performed'[Len(performed')].action = "refresh_powerbi_dataset")
       => retry.status # "pending"]_vars

\* A schedule is re-armed only in a run that has a reason to: the dataset has
\* been seen to refresh since the run began, or an earlier remediation of the
\* run succeeded; an unreadable or empty history is no reason
\* (_precondition_failure).
RearmedOnEvidence ==
  \A i \in 1..Len(performed) :
    performed[i].action = "reenable_refresh_schedule" =>
      healthy \/ \E j \in 1..(i - 1) : performed[j].ok

-----------------------------------------------------------------------------
(* Liveness.                                                               *)

\* Whatever the model does, the run reaches a terminal outcome.
RunTerminates == <>(pc = "done" /\ outcome # "running")

=============================================================================
