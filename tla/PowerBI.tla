------------------------------- MODULE PowerBI -------------------------------
(***************************************************************************)
(* LivePowerBIClient (tools/powerbi.py) against the service: it sends a    *)
(* refresh, then polls the history until it finds the outcome of what it   *)
(* sent, while the schedule and other people refresh the same dataset.     *)
(*                                                                         *)
(* Of the service no more is modelled than the client's code relies on: a  *)
(* refresh appears in the history some time after it is accepted and       *)
(* before it has ended, scheduled refreshes do not overlap each other, and *)
(* the schedule is switched off as refresh_history.py says.  A schedule    *)
(* that is re-armed starts counting anew (set_refresh_schedule_enabled:    *)
(* "fails four more times"); of a scheduled refresh that is cancelled      *)
(* nothing says whether the service forgives the failures before it, so    *)
(* both are possible.                                                      *)
(***************************************************************************)
EXTENDS RefreshHistory

CONSTANTS
  PriorTop,   \* rows read before the refresh is sent
  PollTop,    \* rows read by a poll
  MaxRuns,    \* refreshes of any kind, a bound
  MaxFaults   \* faults, a bound

ASSUME ClientAssumption ==
  PriorTop \in Nat /\ PollTop \in Nat /\ MaxRuns \in Nat /\ MaxFaults \in Nat

VARIABLES
  runs,      \* the service: every refresh there has been
  listed,    \* the refreshes its history shows
  enabled,   \* the refresh schedule is on
  strikes,   \* the scheduled refreshes whose failure counts against it
  rearmed,   \* history: the last refresh there was when it was switched on again
  call,      \* the client: where refresh_dataset is, and what it knows
  answer,    \* the client: what the last call came to
  faults     \* faults so far

service == <<runs, listed, enabled, strikes, rearmed>>
vars    == <<service, call, answer, faults>>

Ids == 1..Len(runs)

\* own, past and alone belong to the history: which refresh is the client's, which ones it
\* could see had ended before it sent any, and that no other came up and none was out of
\* sight.  An answer says whose end it tells, and whether it had to be right.
Idle    == [at |-> "idle", prior |-> {}, target |-> 0, late |-> FALSE,
            own |-> 0, past |-> {}, alone |-> TRUE]
Nothing == [status |-> "none", of |-> "none", sure |-> FALSE]

Init ==
  /\ runs = <<>>
  /\ listed = {}
  /\ enabled = TRUE
  /\ strikes = {}
  /\ rearmed = 0
  /\ call = Idle
  /\ answer = Nothing
  /\ faults = 0

-----------------------------------------------------------------------------
(* The service and whoever else uses it.                                   *)

Joins(trigger) ==
  /\ Len(runs) < MaxRuns
  /\ runs' = Append(runs, [trigger |-> trigger, status |-> "Unknown"])

\* The schedule starts a refresh, or somebody in the portal does.
OthersRefresh(trigger) ==
  /\ trigger = "scheduled" =>
       enabled /\ \A n \in Ids : runs[n].trigger = "scheduled" => runs[n].status # "Unknown"
  /\ Joins(trigger)
  /\ call' = [call EXCEPT !.alone = FALSE]
  /\ UNCHANGED <<listed, enabled, strikes, rearmed, answer, faults>>

Appear(n) ==
  /\ n \in Ids \ listed
  /\ listed' = listed \cup {n}
  /\ UNCHANGED <<runs, enabled, strikes, rearmed, call, answer, faults>>

\* Only scheduled refreshes move the counter, in either direction.
Finish(n, status) ==
  /\ n \in listed
  /\ runs[n].status = "Unknown"
  /\ status = "Disabled" => runs[n].trigger = "scheduled"
  /\ runs' = [runs EXCEPT ![n].status = status]
  /\ strikes' \in IF runs[n].trigger # "scheduled" THEN {strikes}
                  ELSE IF status = "Completed" THEN {{}}
                  ELSE IF status = "Cancelled" THEN {{}, strikes}
                  ELSE {strikes \cup {n}}
  /\ enabled' = (enabled /\ (strikes' \subseteq strikes \/ Cardinality(strikes') < Threshold))
  /\ UNCHANGED <<listed, rearmed, call, answer, faults>>

\* set_refresh_schedule_enabled, or somebody in the portal.
Rearm ==
  /\ ~enabled
  /\ enabled' = TRUE
  /\ strikes' = {}
  /\ rearmed' = Len(runs)
  /\ UNCHANGED <<runs, listed, call, answer, faults>>

-----------------------------------------------------------------------------
(* refresh_dataset.                                                        *)

Returns(status, of) ==
  /\ answer' = [status |-> status, of |-> of, sure |-> call.target # 0 \/ call.alone]
  /\ call' = Idle

Whose(n) ==
  IF n = call.own THEN "own" ELSE IF n \in call.past THEN "past" ELSE "other"

\* A request of the client fails and the exception leaves refresh_dataset.
Fault ==
  /\ faults < MaxFaults
  /\ faults' = faults + 1

\* prior_ids
ReadPrior ==
  /\ call.at = "idle"
  /\ call' = [Idle EXCEPT !.at = "sending", !.prior = Newest(PriorTop, listed),
                          !.past = {n \in listed : runs[n].status \in Ended},
                          !.alone = (listed = Ids /\ Cardinality(Ids) <= PriorTop)]
  /\ answer' = Nothing
  /\ UNCHANGED <<service, faults>>

\* The POST is accepted; its reply names the refresh or does not.
Accepted(named) ==
  /\ call.at = "sending"
  /\ Joins("api")
  /\ call' = [call EXCEPT !.at = "waiting", !.own = Len(runs) + 1,
                          !.target = IF named THEN Len(runs) + 1 ELSE 0]
  /\ UNCHANGED <<listed, enabled, strikes, rearmed, answer, faults>>

\* 429 is no failure; any other status is.
Rejected(status) ==
  /\ call.at = "sending"
  /\ Returns(status, "none")
  /\ UNCHANGED <<service, faults>>

\* The reply is lost, and the refresh may have been accepted all the same.
SendRaises(landed) ==
  /\ call.at = "sending"
  /\ Fault
  /\ IF landed THEN Joins("api") ELSE UNCHANGED runs
  /\ Returns("raised", "none")
  /\ UNCHANGED <<listed, enabled, strikes, rearmed>>

ReadRaises ==
  /\ call.at \in {"sending", "reading"}
  /\ Fault
  /\ Returns("raised", "none")
  /\ UNCHANGED service

Sleep ==
  /\ call.at = "waiting" /\ ~call.late
  /\ call' = [call EXCEPT !.at = "reading"]
  /\ UNCHANGED <<service, answer, faults>>

\* Mutant: the first row not seen before, whatever the reply said.
CandidatesAnyNew == Newest(PollTop, listed) \ call.prior

\* The rows that may be the refresh that was sent.
Candidates ==
  IF call.target # 0 THEN Newest(PollTop, listed) \cap {call.target}
  ELSE Newest(PollTop, listed) \ call.prior

\* The newest of them, once it has ended in a way the loop knows.
Poll ==
  /\ call.at = "reading"
  /\ \/ \E n \in Candidates :
          /\ \A m \in Candidates : m <= n
          /\ runs[n].status \in {"Completed", "Failed", "Disabled"}
          /\ Returns(runs[n].status, Whose(n))
     \/ /\ \A n \in Candidates :
             (\A m \in Candidates : m <= n) => runs[n].status \in {"Unknown", "Cancelled"}
        /\ call' = [call EXCEPT !.at = "waiting"]
        /\ UNCHANGED answer
  /\ UNCHANGED <<service, faults>>

\* Mutant: the loop ends only when the refresh has been seen.
TimeOutUnseen ==
  /\ call.at = "waiting" /\ call.late
  /\ Candidates # {}
  /\ Returns("Unknown", "none")
  /\ UNCHANGED <<service, faults>>

\* The loop's deadline.
TimeOut ==
  /\ call.at = "waiting" /\ call.late
  /\ Returns("Unknown", "none")
  /\ UNCHANGED <<service, faults>>

DeadlinePasses ==
  /\ call.at \in {"waiting", "reading"} /\ ~call.late
  /\ call' = [call EXCEPT !.late = TRUE]
  /\ UNCHANGED <<service, answer, faults>>

-----------------------------------------------------------------------------
Sends ==
  \/ \E named \in BOOLEAN : Accepted(named)
  \/ \E status \in {"Throttled", "Failed"} : Rejected(status)
  \/ \E landed \in BOOLEAN : SendRaises(landed)

Polls == Sleep \/ Poll \/ TimeOut

Others ==
  \/ \E trigger \in Triggers : OthersRefresh(trigger)
  \/ \E n \in Ids : Appear(n)
  \/ \E n \in Ids, status \in Ended : Finish(n, status)
  \/ Rearm \/ DeadlinePasses

Next == ReadPrior \/ Sends \/ ReadRaises \/ Polls \/ Others

Spec == Init /\ [][Next]_vars

\* Every request of the client carries a timeout, and its deadline is a time on a clock;
\* the service owes nothing, not even an end to what it has started.
FairSpec == Spec /\ WF_vars(Sends \/ Polls) /\ WF_vars(DeadlinePasses)
=============================================================================
