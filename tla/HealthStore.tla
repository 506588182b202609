----------------------------- MODULE HealthStore -----------------------------
(***************************************************************************)
(* What the silent-failure detector remembers of one probe, and the lease  *)
(* that is to keep sweeps apart (store/semantic_health.py).  The storage   *)
(* is one JSON file, read again by every get, or a table, read when a      *)
(* sweep's runner is built and never again.  A sweep without storage, or   *)
(* on the JSON file, arbitrates the lease with nobody but itself.          *)
(***************************************************************************)
EXTENDS Naturals

CONSTANTS
  Sweeps,         \* sweeps that may be going on at once, each a request or a command
  Replica,        \* Replica[s]: the process that serves it, the owner it gives the lease
  Backends,       \* which storage the deployment may have
  Columns,        \* visible columns and measures a model may expose
  Confirmations,  \* scans that must agree
  MaxErrors       \* max_consecutive_errors

\* A replica runs one request at a time (app.py:202), so one sweep.
ASSUME HealthAssumption ==
  /\ Confirmations \in Nat /\ MaxErrors \in Nat /\ Backends \subseteq {"json", "table"}
  /\ \A s, t \in Sweeps : Replica[s] = Replica[t] => s = t
  /\ \A s \in Sweeps : Replica[s] # "none"

VARIABLES
  backend,   \* the storage: "json" or "table"
  row,       \* the shared row of the probe
  lease,     \* the lease row of the table
  copy,      \* copy[s]: the row in the memory of sweep s
  online,    \* online[s]: the storage could be opened, so puts and the lease go there
  held       \* held[s]: s has read the lease row, and it was not written since

health == <<backend, row, lease, copy, online, held>>

Kinds == {"none", "stale", "row_collapse", "schema_drift"}

\* A baseline of no rows is none; neither counter is ever compared above its limit,
\* so both stop there; when the breaker was armed matters until its cooldown is over.
ProbeState ==
  [rows : Nat, shape : SUBSET Columns, suspects : 0..Confirmations, kind : Kinds,
   errors : 0..MaxErrors, breaker : {"closed", "armed", "due"}]
NoState == [rows |-> 0, shape |-> {}, suspects |-> 0, kind |-> "none",
            errors |-> 0, breaker |-> "closed"]

Owners  == {Replica[s] : s \in Sweeps}
NoLease == [owner |-> "none", live |-> FALSE]

HealthInit ==
  /\ backend \in Backends
  /\ row = NoState
  /\ lease = NoLease
  /\ copy = [s \in Sweeps |-> NoState]
  /\ online = [s \in Sweeps |-> FALSE]
  /\ held = [s \in Sweeps |-> FALSE]

HealthTypeOK ==
  /\ backend \in {"json", "table"}
  /\ row \in ProbeState
  /\ lease \in [owner : Owners \cup {"none"}, live : BOOLEAN]
  /\ copy \in [Sweeps -> ProbeState]
  /\ online \in [Sweeps -> BOOLEAN]
  /\ held \in [Sweeps -> BOOLEAN]

Atmost(n, limit) == IF n > limit THEN limit ELSE n

-----------------------------------------------------------------------------
(* The row of the probe.                                                   *)

\* The runner is built: the storage is opened, and listed as far as the listing gets.  A
\* table that was opened stays in use whether or not the row of the probe was seen.
LoadHealth(s, opened, seen) ==
  /\ seen => opened
  /\ online' = [online EXCEPT ![s] = opened]
  /\ copy' = [copy EXCEPT ![s] = IF seen THEN row ELSE NoState]
  /\ UNCHANGED <<backend, row, lease, held>>

\* get.
Known(s) == IF backend = "json" THEN row ELSE copy[s]

\* Mutant: the storage is never written.
SaveHealthInMemory(s, state, lands) ==
  /\ copy' = [copy EXCEPT ![s] = state]
  /\ UNCHANGED row

\* put: into memory, and into the storage unless the write fails.
SaveHealth(s, state, lands) ==
  /\ copy' = [copy EXCEPT ![s] = state]
  /\ row' = IF online[s] /\ lands THEN state ELSE row

ForgetHealth(s) ==
  /\ copy' = [copy EXCEPT ![s] = NoState]
  /\ online' = [online EXCEPT ![s] = FALSE]

-----------------------------------------------------------------------------
(* The lease.  A write to its row makes every ETag read before it useless. *)

Shared(s) == backend = "table" /\ online[s]

\* create_entity.
CreateLease(s) ==
  /\ lease = NoLease
  /\ lease' = [owner |-> Replica[s], live |-> TRUE]
  /\ held' = [held EXCEPT ![s] = FALSE]

\* Mutant: a lease is anybody's, live or not.
MayTakeAny(s) == lease # NoLease

\* get_entity: a lease of another owner that has not expired is respected.
MayTake(s) == lease # NoLease /\ (lease.owner = Replica[s] \/ ~lease.live)

ReadLease(s) ==
  /\ held' = [held EXCEPT ![s] = TRUE]
  /\ UNCHANGED lease

\* update_entity, under the ETag read: only if nobody wrote the row since.
TakeLease(s) ==
  /\ lease' = [owner |-> Replica[s], live |-> TRUE]
  /\ held' = [t \in Sweeps |-> FALSE]

\* delete_entity, under no condition.
DropLease ==
  /\ lease' = NoLease
  /\ held' = [t \in Sweeps |-> FALSE]
=============================================================================
