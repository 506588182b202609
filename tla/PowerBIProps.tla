----------------------------- MODULE PowerBIProps -----------------------------
(***************************************************************************)
(* What the client's answer is worth, and what the assessment of the       *)
(* history is worth.                                                       *)
(***************************************************************************)
EXTENDS PowerBI

Call == [at : {"idle", "sending", "waiting", "reading"}, prior : SUBSET Ids,
         target : 0..Len(runs), late : BOOLEAN, own : 0..Len(runs), past : SUBSET Ids,
         alone : BOOLEAN]

\* Every variable holds a value of its kind: a refresh that has ended is listed, and an
\* outcome is one of those a caller knows (powerbi.py:32).
TypeOK ==
  /\ runs \in Seq(Refresh)
  /\ listed \subseteq Ids
  /\ \A n \in Ids \ listed : runs[n].status = "Unknown"
  /\ enabled \in BOOLEAN
  /\ strikes \subseteq Ids
  /\ rearmed \in 0..Len(runs)
  /\ call \in Call
  /\ answer \in [status : {"none", "Completed", "Failed", "Disabled", "Throttled", "Unknown", "raised"},
                 of : {"none", "own", "past", "other"}, sure : BOOLEAN]
  /\ faults \in Nat

\* The scheduled refreshes that neither succeeded nor failed: the loop of
\* assess_deactivation_risk ends at them as it does at a success.
Undecided(rows) == {n \in Scheduled(runs, rows) : runs[n].status \in {"Unknown", "Cancelled"}}

\* However many rows are read, of however many other refreshes, a failure the assessment
\* counts either counts against the schedule or is older than its last re-arming; and it
\* misses none of those it reads unless it reads a scheduled refresh that is under way or
\* was cancelled (refresh_history.py:8-26).
RiskIsExact ==
  \A k \in 1..MaxRuns :
    LET rows  == Newest(k, listed)
        count == Consecutive(runs, rows)
    IN  /\ \A n \in count \ strikes : n <= rearmed
        /\ Undecided(rows) = {} => strikes \cap rows \subseteq count

\* The next scheduled failure switches the schedule off.
OnTheBrink == Cardinality(strikes) + 1 >= Threshold

\* A schedule that is off, or one failure away from it, is said to be at risk, however many
\* refreshes have succeeded through the API meanwhile, unless a scheduled one is under way
\* or was cancelled (refresh_history.py:20-26).
SilenceIsForetold ==
  Undecided(listed) = {} /\ (enabled => OnTheBrink) => AtRisk(runs, listed)

\* The outcome reported is that of the refresh the client sent, if the reply named it or
\* if no other refresh came up and none was out of sight (powerbi.py:278-281, 317-332).
OutcomeIsOwn == answer.sure => answer.of \in {"own", "none"}

\* refresh_dataset returns, whatever the service does (powerbi.py:321-349).
CallEnds == (call.at # "idle") ~> (call.at = "idle")

=============================================================================
