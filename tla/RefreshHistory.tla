---------------------------- MODULE RefreshHistory ----------------------------
(***************************************************************************)
(* A dataset's refreshes as Power BI lists them, and what                  *)
(* knowledge/refresh_history.py reads from the list: how many scheduled    *)
(* refreshes in a row have failed, since Power BI switches the schedule    *)
(* off after Threshold of them.  The list does not say when the schedule   *)
(* was re-armed, and shows a refresh that is under way as it shows one     *)
(* that has ended.                                                         *)
(*                                                                         *)
(* Refreshes are numbered in the order they start; the list shows the      *)
(* newest first, and each once the service has got round to it.            *)
(***************************************************************************)
EXTENDS Naturals, Sequences, FiniteSets

CONSTANT Threshold   \* DEACTIVATION_THRESHOLD

ASSUME ThresholdAssumption == Threshold \in Nat \ {0}

Triggers == {"scheduled", "api"}
Statuses == {"Unknown", "Completed", "Failed", "Disabled", "Cancelled"}
Ended    == Statuses \ {"Unknown"}
Refresh  == [trigger : Triggers, status : Statuses]

\* What GET .../refreshes?$top=k answers when the rows of listed can be seen.
Newest(k, listed) == {n \in listed : Cardinality({m \in listed : m > n}) < k}

\* Mutant: "disabled" is forgotten.
FailedOnly(row) == row.status = "Failed"

\* _FAILED
Failure(row) == row.status \in {"Failed", "Disabled"}

\* Mutant: any refresh counts.
ScheduledOfAnyKind(runs, rows) == rows

\* _is_scheduled
Scheduled(runs, rows) == {n \in rows : runs[n].trigger = "scheduled"}

\* The loop of assess_deactivation_risk: the newest scheduled refreshes up to the first
\* that is no failure.
Consecutive(runs, rows) ==
  LET scheduled == Scheduled(runs, rows)
  IN  {n \in scheduled : \A m \in scheduled : m >= n => Failure(runs[m])}

\* Mutant: one failure late.
AtRiskOnceOff(runs, rows) == Cardinality(Consecutive(runs, rows)) >= Threshold

\* at_risk
AtRisk(runs, rows) == Cardinality(Consecutive(runs, rows)) + 1 >= Threshold
=============================================================================
