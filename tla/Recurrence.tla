------------------------------ MODULE Recurrence ------------------------------
(***************************************************************************)
(* A failure that comes back: TriageRunner over its two stores.  Processes *)
(* are constructed, triage alerts (run_request), perform postponed retries *)
(* (drain_due_retries) and go away, by themselves or by a crash.  What     *)
(* happens inside a run is module TriageRun; here a run may refresh once,  *)
(* defer, notify, and end with any outcome that module allows.             *)
(*                                                                         *)
(* Each await and each durable write is a step.                            *)
(***************************************************************************)
EXTENDS RetryStore, FiniteSets, Sequences

CONSTANTS
  Outcomes,      \* outcomes a run may report
  NoSignature,   \* what an idle process works on
  MaxRuns,       \* alerts triaged, a bound
  MaxOpened,     \* runs defer only while fewer windows have been opened, a bound
  MaxFaults,     \* crashes, failed loads and failed writes, a bound
  MaxJoins,      \* starts of a process beside another one, a bound
  MaxTogether    \* runs, and windows opened by runs, before and once processes overlap, a bound

ASSUME RecurrenceAssumption ==
  /\ NoSignature \notin Signatures
  /\ MaxRuns \in Nat /\ MaxOpened \in Nat /\ MaxFaults \in Nat /\ MaxJoins \in Nat
  /\ MaxTogether \in Nat
  /\ "duplicate_suppressed" \in Outcomes

VARIABLES
  pc,          \* where a process is
  job,         \* the run or the drain it is busy with
  attached     \* stores whose table the process has a client for

\* History, read by no action but through the bounds.
VARIABLES
  runs,        \* alerts triaged
  faults,      \* faults so far
  lossy,       \* whether a load or a write has failed, or a file was torn
  joins,       \* starts of a process beside one that was alive
  recorded,    \* recorded[s]: results recorded since the last reset
  scheduled,   \* scheduled[s]: deferrals scheduled since the last reset
  performed,   \* performed[w]: whose retry window w is for, how often it was sent
  owed,        \* owed[s]: a scheduled retry has not been sent or given up
  fixed        \* fixed[s]: what last dealt with s, "run", "drain" or "nothing"

hist  == <<runs, faults, lossy, joins, recorded, scheduled, performed, owed,
           fixed>>
procs == <<pc, job, attached>>
vars  == <<store, queue, procs, hist>>

Stores == {"incidents", "retries"}

Job == [sig : Signatures \cup {NoSignature}, known : {"none", "open", "announced"},
        repaired : BOOLEAN, refreshed : BOOLEAN, deferred : BOOLEAN, told : BOOLEAN,
        due : SUBSET (Signatures \X (1..opened)), result : {"none", "ok", "throttled", "failed"}]

NoJob == [sig |-> NoSignature, known |-> "none", repaired |-> FALSE, refreshed |-> FALSE,
          deferred |-> FALSE, told |-> FALSE, due |-> {}, result |-> "none"]

Init ==
  /\ IncidentInit
  /\ RetryInit
  /\ pc = [p \in Processes |-> "down"]
  /\ job = [p \in Processes |-> NoJob]
  /\ attached = [p \in Processes |-> {}]
  /\ runs = 0
  /\ faults = 0
  /\ lossy = FALSE
  /\ joins = 0
  /\ recorded = [s \in Signatures |-> 0]
  /\ scheduled = [s \in Signatures |-> 0]
  /\ performed = <<>>
  /\ owed = [s \in Signatures |-> FALSE]
  /\ fixed = [s \in Signatures |-> "nothing"]

-----------------------------------------------------------------------------
\* Two processes have been alive at once.
overlapped == joins > 0

\* The bounds.
MayTriage == runs < (IF overlapped THEN MaxTogether ELSE MaxRuns)
MayOpen   == opened < (IF overlapped THEN MaxTogether ELSE MaxOpened)
MayFail   == faults < MaxFaults
MayJoin   == joins < MaxJoins /\ runs <= MaxTogether /\ opened <= MaxTogether

\* A write of process p to a store lands, or fails: always when the process never
\* got a client, and by a fault of the table otherwise.
Writes(p, which, lands) ==
  IF which \notin attached[p]
  THEN ~lands /\ lossy' = TRUE /\ UNCHANGED faults
  ELSE IF lands THEN UNCHANGED <<faults, lossy>>
       ELSE /\ backend = "table"
            /\ MayFail
            /\ faults' = faults + 1
            /\ lossy' = TRUE

-----------------------------------------------------------------------------
(* TriageRunner.__init__ and the end of a process.                         *)

\* The JSON files are there or start empty; a table may refuse the client or
\* the listing, and the store carries on in memory.
Start(p, loaded, clients) ==
  /\ pc[p] = "down"
  /\ IF \A q \in Processes : pc[q] = "down"
     THEN UNCHANGED joins
     ELSE MayJoin /\ joins' = joins + 1
  /\ loaded \subseteq clients
  /\ IF loaded = Stores THEN UNCHANGED <<faults, lossy>>
     ELSE /\ backend = "table"
          /\ MayFail
          /\ faults' = faults + 1
          /\ lossy' = TRUE
  /\ LoadIncidents(p, "incidents" \in loaded)
  /\ LoadRetries(p, "retries" \in loaded)
  /\ attached' = [attached EXCEPT ![p] = clients]
  /\ pc' = [pc EXCEPT ![p] = "idle"]
  /\ UNCHANGED <<job, runs, recorded, scheduled, performed, owed, fixed>>

Gone(p) ==
  /\ pc' = [pc EXCEPT ![p] = "down"]
  /\ job' = [job EXCEPT ![p] = NoJob]
  /\ attached' = [attached EXCEPT ![p] = {}]
  /\ icopy' = [icopy EXCEPT ![p] = NoIncidents]
  /\ rcopy' = [rcopy EXCEPT ![p] = NoRetries]
  /\ UNCHANGED <<backend, incidents, over, opened, runs, joins, recorded, scheduled,
                 performed, owed, fixed>>

Exit(p) ==
  /\ pc[p] = "idle"
  /\ Gone(p)
  /\ UNCHANGED <<retries, faults, lossy>>

\* The retry file is written in place, so a crash may leave it unreadable, and an
\* unreadable file reads as an empty one.
Crash(p, torn) ==
  /\ pc[p] \notin {"down", "idle"}
  /\ MayFail
  /\ torn => backend = "json" /\ pc[p] \in {"run", "settle"}
  /\ faults' = faults + 1
  /\ lossy' = (lossy \/ torn)
  /\ retries' = IF torn THEN NoRetries ELSE retries
  /\ Gone(p)

-----------------------------------------------------------------------------
(* run_request.                                                            *)

KnownAs(p, s) ==
  IF FindOpen(icopy[p], s) = {} THEN {"none"}
  ELSE {IF icopy[p][id].announced THEN "announced" ELSE "open" : id \in FindOpen(icopy[p], s)}

RunBegins(p, s, known) ==
  /\ pc[p] = "idle"
  /\ MayTriage
  /\ known \in KnownAs(p, s)
  /\ runs' = runs + 1
  /\ pc' = [pc EXCEPT ![p] = "run"]
  /\ job' = [job EXCEPT ![p] = [NoJob EXCEPT !.sig = s, !.known = known]]
  /\ UNCHANGED <<store, queue, attached, faults, lossy, joins, recorded, scheduled,
                 performed, owed, fixed>>

\* Mutant: the precondition is forgotten.
RunRefreshesAnyway(p, ok) ==
  /\ pc[p] = "run"
  /\ ~job[p].refreshed
  /\ Reload(p)
  /\ job' = [job EXCEPT ![p].refreshed = TRUE, ![p].repaired = ok]
  /\ UNCHANGED <<store, pc, attached, runs, faults, lossy, joins, recorded, scheduled,
                 performed, owed, fixed>>

\* The run's one refresh, unless a retry is scheduled and its window open.
RunRefreshes(p, ok) ==
  /\ pc[p] = "run"
  /\ ~job[p].refreshed
  /\ Reload(p)
  /\ IF IsDeferred(Fresh(p)[job[p].sig])
     THEN UNCHANGED <<job>>
     ELSE /\ job' = [job EXCEPT ![p].refreshed = TRUE, ![p].repaired = ok]
  /\ UNCHANGED <<store, pc, attached, runs, faults, lossy, joins, recorded, scheduled,
                 performed, owed, fixed>>

\* What a deferral adds to the history, by a run or by a drain.
Scheduling(p, s) ==
  LET pending == Deferred(rcopy[p][s], opened + 1).status = "pending" IN
  /\ performed' = IF pending THEN Append(performed, [sig |-> s, times |-> 0]) ELSE performed
  /\ scheduled' = [scheduled EXCEPT ![s] = IF pending THEN @ + 1 ELSE @]
  /\ owed' = [owed EXCEPT ![s] = pending]

RunDefers(p, lands) ==
  /\ pc[p] = "run"
  /\ MayOpen
  /\ Writes(p, "retries", lands)
  /\ Defer(p, job[p].sig, lands)
  /\ Scheduling(p, job[p].sig)
  /\ job' = [job EXCEPT ![p].deferred =
               (Deferred(rcopy[p][job[p].sig], opened + 1).status = "pending")]
  /\ UNCHANGED <<store, pc, attached, runs, joins, recorded, fixed>>

\* A card that is delivered.  An incident announced before is not announced again.
RunNotifies(p) ==
  /\ pc[p] = "run"
  /\ job[p].known # "announced"
  /\ job' = [job EXCEPT ![p].told = TRUE]
  /\ UNCHANGED <<store, queue, pc, attached, runs, faults, lossy, joins, recorded, scheduled,
                 performed, owed, fixed>>

\* What TriageAgent._validate_outcome lets through.
Supported(p, outcome) ==
  /\ outcome = "resolved" => job[p].repaired
  /\ outcome = "deferred_retry" => job[p].deferred
  /\ outcome = "duplicate_suppressed" => job[p].known # "none"

RunEnds(p, outcome, id, lands) ==
  /\ pc[p] = "run"
  /\ Supported(p, outcome)
  /\ id \in RowsFor(icopy[p], job[p].sig, outcome)
  /\ Writes(p, "incidents", lands)
  /\ SaveIncident(p, id, Occurred(icopy[p][id], outcome, job[p].told), lands)
  /\ recorded' = [recorded EXCEPT ![job[p].sig] = @ + 1]
  /\ fixed' = [fixed EXCEPT ![job[p].sig] = IF outcome = "resolved" THEN "run" ELSE "nothing"]
  /\ pc' = [pc EXCEPT ![p] = "idle"]
  /\ job' = [job EXCEPT ![p] = NoJob]
  /\ UNCHANGED <<queue, attached, runs, joins, scheduled, performed, owed>>

-----------------------------------------------------------------------------
(* drain_due_retries.                                                      *)

DueRows(p) == {s \in Signatures : IsDue(Fresh(p)[s])}

\* due(): the rows are copied, and worked off one by one.
DrainBegins(p) ==
  /\ pc[p] = "idle"
  /\ DueRows(p) # {}
  /\ Reload(p)
  /\ pc' = [pc EXCEPT ![p] = "drain"]
  /\ job' = [job EXCEPT ![p].due = {<<s, Fresh(p)[s].window>> : s \in DueRows(p)}]
  /\ UNCHANGED <<store, attached, hist>>

DrainSends(p, s, window, result) ==
  /\ pc[p] = "drain"
  /\ <<s, window>> \in job[p].due
  /\ pc' = [pc EXCEPT ![p] = "settle"]
  /\ job' = [job EXCEPT ![p].sig = s, ![p].due = @ \ {<<s, window>>}, ![p].result = result]
  /\ performed' = [performed EXCEPT ![window].times = @ + 1]
  /\ owed' = [owed EXCEPT ![s] = FALSE]
  /\ UNCHANGED <<store, queue, attached, runs, faults, lossy, joins, recorded, scheduled,
                 fixed>>

\* The row is done with; the next one, or the end of the drain.
NextRow(p) ==
  /\ pc' = [pc EXCEPT ![p] = IF job[p].due = {} THEN "idle" ELSE "drain"]
  /\ job' = [job EXCEPT ![p] = [NoJob EXCEPT !.due = job[p].due]]

\* Still throttled: back off further, or give up.
DrainDefers(p, lands) ==
  /\ pc[p] = "settle"
  /\ job[p].result = "throttled"
  /\ Writes(p, "retries", lands)
  /\ Defer(p, job[p].sig, lands)
  /\ Scheduling(p, job[p].sig)
  /\ NextRow(p)
  /\ UNCHANGED <<store, attached, runs, joins, recorded, fixed>>

\* Mutant: a retry that failed is left for the next drain.
DrainCompletesSuccess(p, lands) ==
  /\ pc[p] = "settle"
  /\ job[p].result # "throttled"
  /\ Writes(p, "retries", lands)
  /\ IF job[p].result = "ok" THEN Complete(p, job[p].sig, lands) ELSE UNCHANGED queue
  /\ IF job[p].result = "ok"
     THEN /\ pc' = [pc EXCEPT ![p] = "close"]
          /\ fixed' = [fixed EXCEPT ![job[p].sig] = "drain"]
          /\ UNCHANGED job
     ELSE NextRow(p) /\ UNCHANGED fixed
  /\ UNCHANGED <<store, attached, runs, joins, recorded, scheduled, performed,
                 owed>>

\* Mutant: the retry is done with and its incident forgotten.
DrainCompletesOnly(p, lands) ==
  /\ pc[p] = "settle"
  /\ job[p].result # "throttled"
  /\ Writes(p, "retries", lands)
  /\ Complete(p, job[p].sig, lands)
  /\ NextRow(p)
  /\ fixed' = [fixed EXCEPT ![job[p].sig] = IF job[p].result = "ok" THEN "drain" ELSE @]
  /\ UNCHANGED <<store, attached, runs, joins, recorded, scheduled, performed,
                 owed>>

\* It ran: the row is closed, whatever came of it.
DrainCompletes(p, lands) ==
  /\ pc[p] = "settle"
  /\ job[p].result # "throttled"
  /\ Writes(p, "retries", lands)
  /\ Complete(p, job[p].sig, lands)
  /\ IF job[p].result = "ok"
     THEN /\ pc' = [pc EXCEPT ![p] = "close"]
          /\ fixed' = [fixed EXCEPT ![job[p].sig] = "drain"]
          /\ UNCHANGED job
     ELSE NextRow(p) /\ UNCHANGED fixed
  /\ UNCHANGED <<store, attached, runs, joins, recorded, scheduled, performed,
                 owed>>

\* A retry that succeeded closes its incident.
DrainCloses(p, id, lands) ==
  /\ pc[p] = "close"
  /\ id \in FindOpen(icopy[p], job[p].sig)
  /\ Writes(p, "incidents", lands)
  /\ SaveIncident(p, id, Marked(icopy[p][id]), lands)
  /\ NextRow(p)
  /\ UNCHANGED <<queue, attached, runs, joins, recorded, scheduled, performed,
                 owed, fixed>>

DrainFindsNothingOpen(p) ==
  /\ pc[p] = "close"
  /\ FindOpen(icopy[p], job[p].sig) = {}
  /\ NextRow(p)
  /\ UNCHANGED <<store, queue, attached, hist>>

-----------------------------------------------------------------------------
\* cmd_reset, and prepare before a scenario: both stores, and the copy of whoever does it.
Reset(p) ==
  /\ pc[p] = "idle"
  /\ ResetIncidents(p)
  /\ ResetRetries(p)
  /\ recorded' = [s \in Signatures |-> 0]
  /\ scheduled' = [s \in Signatures |-> 0]
  /\ owed' = [s \in Signatures |-> FALSE]
  /\ fixed' = [s \in Signatures |-> "nothing"]
  /\ UNCHANGED <<procs, runs, faults, lossy, joins, performed>>

\* A window nobody waits for any more ends unseen.
WindowPasses(w) ==
  /\ \E rows \in {retries} \cup {rcopy[p] : p \in Processes}, s \in Signatures :
       rows[s].status = "pending" /\ rows[s].window = w
  /\ WindowEnds(w)
  /\ UNCHANGED <<store, procs, hist>>

-----------------------------------------------------------------------------
Run(p) ==
  \/ \E ok \in BOOLEAN : RunRefreshes(p, ok)
  \/ \E lands \in BOOLEAN : RunDefers(p, lands)
  \/ RunNotifies(p)

Ends(p) ==
  \E outcome \in Outcomes, id \in Ids, lands \in BOOLEAN : RunEnds(p, outcome, id, lands)

Drain(p) ==
  \/ \E s \in Signatures, w \in 1..opened, result \in {"ok", "throttled", "failed"} :
       DrainSends(p, s, w, result)
  \/ \E lands \in BOOLEAN : DrainDefers(p, lands) \/ DrainCompletes(p, lands)
  \/ \E id \in Ids, lands \in BOOLEAN : DrainCloses(p, id, lands)
  \/ DrainFindsNothingOpen(p)

Begins(p) ==
  \/ \E loaded, clients \in SUBSET Stores : Start(p, loaded, clients)
  \/ \E s \in Signatures, known \in {"none", "open", "announced"} : RunBegins(p, s, known)
  \/ DrainBegins(p)

Stops(p) ==
  \/ Exit(p)
  \/ \E torn \in BOOLEAN : Crash(p, torn)
  \/ Reset(p)

Next ==
  \/ \E p \in Processes : Begins(p) \/ Run(p) \/ Ends(p) \/ Drain(p) \/ Stops(p)
  \/ \E w \in 1..opened : WindowPasses(w)

Spec == Init /\ [][Next]_vars

\* A scheduled sweep comes back for ever, and drains before it reads mail; calls
\* carry timeouts, so runs and drains move on; windows are times on a clock.
FairSpec ==
  /\ Spec
  /\ \A p \in Processes :
       /\ WF_vars(\E loaded, clients \in SUBSET Stores : Start(p, loaded, clients))
       /\ SF_vars(DrainBegins(p))
       /\ WF_vars(Ends(p))
       /\ WF_vars(Drain(p))
  /\ WF_vars(\E w \in 1..opened : WindowPasses(w))
=============================================================================
