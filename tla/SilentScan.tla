----------------------------- MODULE SilentScan -----------------------------
(***************************************************************************)
(* Looking for failures that sent no alert: TriageRunner.silent_sweep and  *)
(* _record_silent_finding (runner.py) around SilentFailureScanner          *)
(* (detectors/silent_failures.py), for one probe of one semantic model.    *)
(*                                                                         *)
(* A sweep takes the lease, compares one reading of the model with the     *)
(* row of the probe, writes the row, gives the lease back, and then says   *)
(* what it confirmed.  Every query, every table call and the post of the   *)
(* card is a step of its own; the model changes whenever it likes.         *)
(***************************************************************************)
EXTENDS HealthStore

CONSTANTS
  Models,        \* what the semantic model may be like: see ModelState
  WatchSchema,   \* watch_schema
  MinDrop,       \* min_absolute_drop
  DropPercent,   \* max_drop_fraction, in percent
  MaxFaults      \* crashes, calls that fail and operators' commands, a bound

\* age: days the newest data is past the expected lag and grace; up: it can be queried.
ModelState == [up : BOOLEAN, age : Nat, rows : Nat, shape : SUBSET Columns \ {{}}]

\* What is configured for a probe, apart from the calendar of its loads (Freshness).
HealthProbe ==
  [watch_schema : BOOLEAN, min_absolute_drop : Nat, max_drop_percent : 0..100,
   confirmations : Nat, max_consecutive_errors : Nat]

ASSUME SilentAssumption ==
  /\ Models \subseteq ModelState /\ Models # {}
  /\ [watch_schema |-> WatchSchema, min_absolute_drop |-> MinDrop,
      max_drop_percent |-> DropPercent, confirmations |-> Confirmations,
      max_consecutive_errors |-> MaxErrors] \in HealthProbe
  /\ MaxFaults \in Nat

VARIABLES
  model,      \* the semantic model
  sweep,      \* sweep[s]: where the sweep is, and what it found
  incidents,  \* signatures with an open, announced incident in the shared store
  faults      \* faults so far

\* History.
VARIABLES
  log,        \* what happened, as long as nothing was lost and one sweep came after another
  overran,    \* a lease expired, or was reset, under a sweep that held it
  accepted,   \* rows the operator accepted as normal, until a reading is healthy
  strayed     \* sweeps without the stored baselines: never seen, or rewritten since

hist == <<log, overran, accepted, strayed>>
vars == <<health, model, sweep, incidents, faults, hist>>

NoSignature == [kind |-> "none", age |-> 0, rows |-> 0, base |-> 0, gone |-> {}]
Idle        == [at |-> "idle", rows |-> 0, sig |-> NoSignature,
                status |-> "none", known |-> {}, told |-> FALSE]

\* streak, n: the latest readings judged in one way; blind: queries refused since the last
\* good one, less what a cooldown allows; told: the cards delivered; twice: one again.
NewLog == [kept |-> TRUE, streak |-> "none", n |-> 0, blind |-> 0, told |-> {}, twice |-> FALSE]
NoLog  == [NewLog EXCEPT !.kept = FALSE]

Init ==
  /\ HealthInit
  /\ model \in Models
  /\ sweep = [s \in Sweeps |-> Idle]
  /\ incidents = {}
  /\ faults = 0
  /\ log = NewLog
  /\ overran = FALSE
  /\ accepted = 0
  /\ strayed = {}

Writes(entry) == log' = IF log.kept THEN entry ELSE NoLog

\* A call lands and is logged, or fails within the bound.
Calls(lands, entry) ==
  IF lands THEN Writes(entry) /\ UNCHANGED faults
  ELSE faults < MaxFaults /\ faults' = faults + 1 /\ log' = NoLog

Holding == {"sweeping", "asked", "judged", "releasing", "deleting"}
AtWork  == {s \in Sweeps : sweep[s].at # "idle"}
Holders == {s \in Sweeps : Shared(s) /\ sweep[s].at \in Holding}

Baselines(state) == <<state.rows, state.shape>>

\* A write of s that moves the baselines leaves everybody else with the old ones.
Strays(s) ==
  strayed' = IF Baselines(row') = Baselines(row) THEN strayed ELSE strayed \cup (AtWork \ {s})

Goes(s, at) == sweep' = [sweep EXCEPT ![s].at = at]
Ends(s)     == sweep' = [sweep EXCEPT ![s] = Idle]

-----------------------------------------------------------------------------
(* Taking the lease.                                                       *)

\* A runner is built, and with it the copies of what its stores hold.
Wake(s, opened, seen) ==
  /\ sweep[s].at = "idle"
  /\ ~seen => backend = "table"
  /\ Calls(seen, IF AtWork = {} THEN log ELSE NoLog)
  /\ LoadHealth(s, opened, seen)
  /\ strayed' = IF seen THEN strayed \ {s} ELSE strayed \cup {s}
  /\ sweep' = [sweep EXCEPT ![s] = [Idle EXCEPT !.at = "ready", !.known = incidents]]
  /\ UNCHANGED <<model, incidents, overran, accepted>>

\* try_acquire_lease, its first call.
AskLease(s) ==
  /\ sweep[s].at = "ready"
  /\ \/ /\ ~Shared(s)
        /\ Goes(s, "sweeping")
        /\ UNCHANGED health
     \/ /\ Shared(s)
        /\ CreateLease(s)
        /\ Goes(s, "sweeping")
        /\ UNCHANGED <<backend, row, copy, online>>
     \/ /\ Shared(s) /\ lease # NoLease
        /\ Goes(s, "refused")
        /\ UNCHANGED health
  /\ UNCHANGED <<model, incidents, faults, hist>>

\* A lease that is gone by now, or still somebody's, ends the sweep.
LookAtLease(s) ==
  /\ sweep[s].at = "refused"
  /\ IF MayTake(s)
     THEN ReadLease(s) /\ Goes(s, "taking") /\ UNCHANGED <<copy, online>>
     ELSE ForgetHealth(s) /\ Ends(s) /\ UNCHANGED <<lease, held>>
  /\ UNCHANGED <<backend, row, model, incidents, faults, hist>>

\* Of several that saw it expired the first gets it.
TakeOver(s) ==
  /\ sweep[s].at = "taking"
  /\ IF held[s]
     THEN TakeLease(s) /\ Goes(s, "sweeping") /\ UNCHANGED <<copy, online>>
     ELSE ForgetHealth(s) /\ Ends(s) /\ UNCHANGED <<lease, held>>
  /\ UNCHANGED <<backend, row, model, incidents, faults, hist>>

-----------------------------------------------------------------------------
(* The scan.                                                               *)

Finds(s, status, sig) ==
  sweep' = [sweep EXCEPT ![s].at = "releasing", ![s].status = status, ![s].sig = sig]

\* Mutant: nothing is ever parked.
BreakerNever(state) == "closed"

\* _circuit_open: a probe that failed too often in a row waits for its cooldown.
Breaker(state) ==
  IF state.errors < MaxErrors THEN "closed"
  ELSE IF state.breaker = "closed" THEN "arms"
  ELSE state.breaker

Parked == [NoSignature EXCEPT !.kind = "detector_fault"]

\* _scan up to its query.  A probe due again is tried once; another failure leaves the
\* breaker to be armed by the scan after.
Begin(s, lands) ==
  LET state == Known(s) IN
  /\ sweep[s].at = "sweeping"
  /\ \/ /\ Breaker(state) = "closed" /\ lands
        /\ copy' = [copy EXCEPT ![s] = state]
        /\ UNCHANGED row
        /\ Goes(s, "asked")
     \/ /\ Breaker(state) = "due"
        /\ SaveHealth(s, [state EXCEPT !.breaker = "closed"], lands)
        /\ Goes(s, "asked")
     \/ /\ Breaker(state) = "arms"
        /\ SaveHealth(s, [state EXCEPT !.breaker = "armed"], lands)
        /\ Finds(s, "parked", Parked)
     \/ /\ Breaker(state) = "armed" /\ lands
        /\ copy' = [copy EXCEPT ![s] = state]
        /\ UNCHANGED row
        /\ Finds(s, "parked", Parked)
  /\ ~lands => backend = "table"
  /\ Calls(lands, log)
  /\ IF backend = "json" THEN strayed' = strayed \ {s} ELSE Strays(s)
  /\ UNCHANGED <<backend, lease, online, held, model, incidents, overran, accepted>>

\* _execute: refused, throttled or unreadable, a query says nothing of the data.
Executes == model.up

\* read_schema, where it is asked for: an empty schema counts as no answer.
SchemaReads == WatchSchema /\ Executes /\ model.shape # {}

\* run_probe fails and _record_fault writes it down: the suspicion stays as it is.
ProbeFails(s, lands) ==
  /\ sweep[s].at = "asked"
  /\ ~Executes
  /\ ~lands => backend = "table"
  /\ Calls(lands, [log EXCEPT !.blind = @ + 1])
  /\ SaveHealth(s, [copy[s] EXCEPT !.errors = Atmost(@ + 1, MaxErrors)], lands)
  /\ Strays(s)
  /\ Finds(s, "detector_fault", NoSignature)
  /\ UNCHANGED <<backend, lease, online, held, model, incidents, overran, accepted>>

\* _check_row_count: both thresholds, against a baseline there is.
Collapsed(base, rows) ==
  /\ base > 0
  /\ base - rows >= MinDrop
  /\ (base - rows) * 100 >= DropPercent * base

\* _judge, with what its sentence says; a date is days behind the day it is read on.
Judge(state, read) ==
  CASE read.age > 0 -> [NoSignature EXCEPT !.kind = "stale", !.age = read.age]
    [] read.age = 0 /\ Collapsed(state.rows, read.rows) ->
         [NoSignature EXCEPT !.kind = "row_collapse", !.rows = read.rows, !.base = state.rows]
    [] OTHER -> NoSignature

\* run_probe answers: the breaker closes, in memory, and the data is judged.
ProbeAnswers(s) ==
  /\ sweep[s].at = "asked"
  /\ Executes
  /\ copy' = [copy EXCEPT ![s].errors = 0, ![s].breaker = "closed"]
  /\ sweep' = [sweep EXCEPT ![s].at = "judged", ![s].rows = model.rows,
                            ![s].sig = Judge(copy[s], model)]
  /\ UNCHANGED <<backend, row, lease, online, held, model, incidents, faults, hist>>

\* Mutant: what is gone is forgotten once it was reported.
SchemaForgetful(state, shape) ==
  [gone |-> state.shape \ shape, state |-> [state EXCEPT !.shape = shape]]

\* _check_schema: what vanished since the baseline, which moves only when nothing did.
SchemaCheck(state, shape) ==
  [gone  |-> state.shape \ shape,
   state |-> IF state.shape \subseteq shape THEN [state EXCEPT !.shape = shape] ELSE state]

\* _record_healthy.
Healthy(state, rows) ==
  [state EXCEPT !.rows = rows, !.suspects = 0, !.kind = "none"]

\* Mutant: any two odd readings make a finding.
SuspectAnyhow(state, kind) ==
  [state EXCEPT !.suspects = Atmost(@ + 1, Confirmations), !.kind = kind]

\* _record_suspect: another kind of wrongness starts the count again.
Suspect(state, kind) ==
  [state EXCEPT !.suspects = Atmost((IF state.kind = kind THEN @ ELSE 0) + 1, Confirmations),
                !.kind = kind]

\* The end of _scan: the schema, if it is watched and can be read, and the record.
Conclude(s, readable, lands) ==
  LET check == IF readable
               THEN SchemaCheck(copy[s], model.shape)
               ELSE [gone |-> {}, state |-> copy[s]]
      sig == IF sweep[s].sig.kind = "none" /\ check.gone # {}
             THEN [NoSignature EXCEPT !.kind = "schema_drift", !.gone = check.gone]
             ELSE sweep[s].sig
      kind == sig.kind
      state == IF kind = "none" THEN Healthy(check.state, sweep[s].rows)
               ELSE Suspect(check.state, kind)
  IN
  /\ sweep[s].at = "judged"
  /\ readable => SchemaReads
  /\ ~lands => backend = "table"
  /\ Calls(lands, [log EXCEPT !.blind = 0, !.streak = kind,
                              !.n = Atmost((IF log.streak = kind THEN @ ELSE 0) + 1,
                                           Confirmations)])
  /\ SaveHealth(s, state, lands)
  /\ Strays(s)
  /\ Finds(s, IF kind = "none" THEN "healthy"
              ELSE IF state.suspects >= Confirmations THEN "confirmed" ELSE "suspect", sig)
  /\ accepted' = IF kind = "none" THEN 0 ELSE accepted
  /\ UNCHANGED <<backend, lease, online, held, model, incidents, overran>>

-----------------------------------------------------------------------------
(* Giving the lease back, and saying what was found.                       *)

\* Without the lease: only a confirmed finding and a parked probe, which no branch of
\* silent_sweep names, go on to be recorded; find_open asks the copy the runner was built
\* with whether the card is to be posted.
Leaves(s) ==
  IF sweep[s].status \in {"confirmed", "parked"}
  THEN /\ Goes(s, IF sweep[s].sig \in sweep[s].known THEN "recording" ELSE "posting")
       /\ UNCHANGED <<copy, online>>
  ELSE Ends(s) /\ ForgetHealth(s)

\* release_lease, its first call: the lease may be somebody else's by now.
Release(s) ==
  /\ sweep[s].at = "releasing"
  /\ IF Shared(s) /\ lease.owner = Replica[s]
     THEN Goes(s, "deleting") /\ UNCHANGED <<copy, online>>
     ELSE Leaves(s)
  /\ UNCHANGED <<backend, row, lease, held, model, incidents, faults, hist>>

\* Its second, whoever has the lease meanwhile.
DeleteLease(s) ==
  /\ sweep[s].at = "deleting"
  /\ DropLease
  /\ Leaves(s)
  /\ UNCHANGED <<backend, row, model, incidents, faults, hist>>

\* The card is posted, or not delivered.
Post(s, delivered) ==
  /\ sweep[s].at = "posting"
  /\ ~delivered => faults < MaxFaults
  /\ faults' = IF delivered THEN faults ELSE faults + 1
  /\ sweep' = [sweep EXCEPT ![s].at = "recording", ![s].told = delivered]
  /\ Writes(IF ~delivered THEN log
            ELSE [log EXCEPT !.told = @ \cup {sweep[s].sig},
                             !.twice = @ \/ sweep[s].sig \in log.told])
  /\ UNCHANGED <<health, model, incidents, overran, accepted, strayed>>

\* Mutant: the delivery is not written down.
AnnouncedNot(s, known) == known

\* record, on one copy of the store: notified_count goes up with a delivery, never down.
Announced(s, known) == IF sweep[s].told THEN known \cup {sweep[s].sig} ELSE known

Record(s, lands) ==
  /\ sweep[s].at = "recording"
  /\ ~lands => backend = "table"
  /\ Calls(lands, log)
  /\ incidents' = IF ~lands THEN incidents
                  ELSE Announced(s, IF backend = "json" THEN sweep[s].known ELSE incidents)
  /\ Ends(s) /\ ForgetHealth(s)
  /\ UNCHANGED <<backend, row, lease, held, model, overran, accepted, strayed>>

-----------------------------------------------------------------------------
(* Everything else.                                                        *)

\* The process dies: its lease stays behind, and a card may be delivered and not recorded.
Crash(s) ==
  /\ sweep[s].at # "idle"
  /\ faults < MaxFaults
  /\ faults' = faults + 1
  /\ Ends(s) /\ ForgetHealth(s)
  /\ held' = [held EXCEPT ![s] = FALSE]
  /\ Writes(IF sweep[s].at = "recording" THEN NoLog ELSE log)
  /\ UNCHANGED <<backend, row, lease, model, incidents, overran, accepted, strayed>>

\* The model is loaded, breaks, or cannot be queried for a while.
ModelChanges ==
  /\ model' \in Models \ {model}
  /\ UNCHANGED <<health, sweep, incidents, faults, hist>>

\* max(60, triage_timeout_seconds) have passed.
LeaseExpires ==
  /\ lease.live
  /\ lease' = [lease EXCEPT !.live = FALSE]
  /\ overran' = (overran \/ Holders # {})
  /\ UNCHANGED <<backend, row, copy, online, held, model, sweep, incidents, faults, log,
                 accepted, strayed>>

Due(state) == IF state.breaker = "armed" THEN [state EXCEPT !.breaker = "due"] ELSE state

\* circuit_cooldown_minutes have passed: the sentence about the parking that ended, which
\* names its minute, is never said again.
CooldownPasses ==
  /\ \E state \in {row} \cup {copy[s] : s \in Sweeps} : state.breaker = "armed"
  /\ row' = Due(row)
  /\ copy' = [s \in Sweeps |-> Due(copy[s])]
  /\ incidents' = incidents \ {Parked}
  /\ sweep' = [s \in Sweeps |-> [sweep[s] EXCEPT !.known = @ \ {Parked}]]
  /\ Writes([log EXCEPT !.told = @ \ {Parked}, !.blind = Atmost(@, MaxErrors - 1)])
  /\ UNCHANGED <<backend, lease, online, held, model, faults, overran, accepted, strayed>>

\* An operator's command runs alone, or the log ends.
Command(entry) ==
  /\ row # NoState
  /\ faults < MaxFaults
  /\ faults' = faults + 1
  /\ Writes(IF AtWork = {} THEN entry ELSE NoLog)

\* health --accept, by an operator who looks at the model: the suspicion and the shape
\* are dropped, the baselines of the data stay.
Accept ==
  /\ model.up
  /\ Command([log EXCEPT !.streak = "none", !.n = 0])
  /\ row' = [row EXCEPT !.suspects = 0, !.kind = "none", !.shape = {}]
  /\ accepted' = model.rows
  /\ strayed' = strayed \cup AtWork
  /\ UNCHANGED <<backend, lease, copy, online, held, model, sweep, incidents, overran>>

\* The command that starts everything anew: incidents, probes, and leases with them.
Reset ==
  /\ Command(NewLog)
  /\ row' = NoState
  /\ incidents' = {}
  /\ DropLease
  /\ overran' = (overran \/ Holders # {})
  /\ strayed' = strayed \cup AtWork
  /\ UNCHANGED <<backend, copy, online, model, sweep, accepted>>

SweepStep(s) ==
  \/ \E opened, seen \in BOOLEAN : Wake(s, opened, seen)
  \/ \E lands \in BOOLEAN : Begin(s, lands) \/ ProbeFails(s, lands)
  \/ AskLease(s) \/ LookAtLease(s) \/ TakeOver(s)
  \/ ProbeAnswers(s)
  \/ \E readable, lands \in BOOLEAN : Conclude(s, readable, lands)
  \/ Release(s) \/ DeleteLease(s)
  \/ \E lands \in BOOLEAN : Post(s, lands) \/ Record(s, lands)

Next ==
  \/ \E s \in Sweeps : SweepStep(s) \/ Crash(s)
  \/ ModelChanges \/ LeaseExpires \/ CooldownPasses \/ Accept \/ Reset

Spec == Init /\ [][Next]_vars

\* The schedule keeps coming, a sweep that is alive goes on, and time passes.
FairSpec ==
  /\ Spec
  /\ \A s \in Sweeps : WF_vars(SweepStep(s))
  /\ WF_vars(LeaseExpires) /\ WF_vars(CooldownPasses)
=============================================================================
