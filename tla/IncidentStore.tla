---------------------------- MODULE IncidentStore ----------------------------
(***************************************************************************)
(* The incident store (store/incidents.py, store/azure_table.py): what a   *)
(* process that triages an alert finds out about earlier ones, and what it *)
(* leaves behind.  Every process works on a copy it loaded when it was     *)
(* constructed; a write goes to the copy and then to the shared storage,   *)
(* which is one JSON file ("json", written whole) or a table ("table", one *)
(* entity per incident).                                                   *)
(*                                                                         *)
(* A signature has two rows: "sig" for outcomes that dealt with the        *)
(* problem and "usig" for the others.                                      *)
(***************************************************************************)
EXTENDS Naturals

CONSTANTS
  Processes,    \* invocations that may be alive at once: hosted runs, CLI commands
  Signatures,   \* failure signatures
  Backends      \* which storage the deployment may have configured

ASSUME BackendAssumption == Backends \subseteq {"json", "table"}

VARIABLES
  backend,      \* the storage configured: "json" or "table"
  incidents,    \* the shared storage
  icopy         \* icopy[p]: InMemoryIncidentStore._items of process p

store == <<backend, incidents, icopy>>

Kinds == {"sig", "usig"}
Ids   == Signatures \X Kinds

\* notified_count is only ever compared with zero.
IncidentRow ==
  [status : {"absent", "open", "resolved"}, count : Nat, announced : BOOLEAN]
Absent == [status |-> "absent", count |-> 0, announced |-> FALSE]
NoIncidents == [id \in Ids |-> Absent]

IncidentInit ==
  /\ backend \in Backends
  /\ incidents = NoIncidents
  /\ icopy = [p \in Processes |-> NoIncidents]

IncidentTypeOK ==
  /\ backend \in {"json", "table"}
  /\ incidents \in [Ids -> IncidentRow]
  /\ icopy \in [Processes -> [Ids -> IncidentRow]]

-----------------------------------------------------------------------------
\* incident_id: which of the two rows an outcome belongs to.
KindOf(outcome) ==
  IF outcome \in {"resolved", "flagged_data_quality"} THEN "sig" ELSE "usig"

\* _status_for.
StatusFor(outcome) == IF outcome = "resolved" THEN "resolved" ELSE "open"

\* find_open: the first open row of the signature, whichever was loaded first.
FindOpen(rows, s) == {id \in {s} \X Kinds : rows[id].status = "open"}

\* record: a suppressed duplicate counts on the incident it repeats; without
\* one it is recorded as needs_human.
RowsFor(rows, s, outcome) ==
  IF outcome = "duplicate_suppressed" /\ FindOpen(rows, s) # {}
  THEN FindOpen(rows, s)
  ELSE {<<s, KindOf(outcome)>>}

\* Mutant: a row that exists is written over, not counted up.
OccurredAnew(row, outcome, told) ==
  [status |-> StatusFor(outcome), count |-> 1, announced |-> told]

\* A new row and a repeat alike: count, and let the status follow the outcome.
Occurred(row, outcome, told) ==
  [status    |-> StatusFor(outcome),
   count     |-> row.count + 1,
   announced |-> row.announced \/ told]

\* mark(id, "resolved").
Marked(row) == [row EXCEPT !.status = "resolved"]

-----------------------------------------------------------------------------
\* What the storage holds after process p persists one row of its rows.
Written(disk, rows, id) ==
  IF backend = "json" THEN rows ELSE [disk EXCEPT ![id] = rows[id]]

\* The copy is changed first; a table write that fails is logged and forgotten.
SaveIncident(p, id, row, lands) ==
  /\ icopy' = [icopy EXCEPT ![p][id] = row]
  /\ incidents' = IF lands THEN Written(incidents, icopy'[p], id) ELSE incidents
  /\ UNCHANGED backend

\* _load, at construction and never again.
LoadIncidents(p, loaded) ==
  /\ icopy' = [icopy EXCEPT ![p] = IF loaded THEN incidents ELSE NoIncidents]
  /\ UNCHANGED <<backend, incidents>>

ResetIncidents(p) ==
  /\ icopy' = [icopy EXCEPT ![p] = NoIncidents]
  /\ incidents' = NoIncidents
  /\ UNCHANGED backend
=============================================================================
