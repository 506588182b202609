------------------------------ MODULE RetryStore ------------------------------
(***************************************************************************)
(* The store of postponed refreshes (store/retries.py): one row per        *)
(* signature, copied by each process like the incidents.  The JSON store   *)
(* reads its file again before it answers a question (get, due, pending)   *)
(* but not before it writes (defer, complete); the table store reads the   *)
(* table at construction only.                                             *)
(*                                                                         *)
(* How long a retry waits is the platform's Retry-After, the model's own   *)
(* wish, or a doubling backoff, so nothing is known of it: each deferral   *)
(* opens a window with a number of its own, and windows end in any order.  *)
(***************************************************************************)
EXTENDS IncidentStore

CONSTANT
  MaxAttempts   \* max_attempts

ASSUME RetryAssumption == MaxAttempts \in Nat

VARIABLES
  retries,      \* the shared storage
  rcopy,        \* rcopy[p]: InMemoryRetryStore._items of process p
  over,         \* windows whose due_at has passed
  opened        \* how many windows have been opened

queue == <<retries, rcopy, over, opened>>

RetryRow == [status : {"none", "pending", "exhausted", "done"},
             attempts : Nat, window : Nat]
NoRow     == [status |-> "none", attempts |-> 0, window |-> 0]
NoRetries == [s \in Signatures |-> NoRow]

RetryInit ==
  /\ retries = NoRetries
  /\ rcopy = [p \in Processes |-> NoRetries]
  /\ over = {}
  /\ opened = 0

RetryTypeOK ==
  /\ retries \in [Signatures -> RetryRow]
  /\ rcopy \in [Processes -> [Signatures -> RetryRow]]
  /\ opened \in Nat
  /\ over \subseteq 1..opened

-----------------------------------------------------------------------------
\* _reload: the file, or nothing new for the table.
Fresh(p) == IF backend = "json" THEN retries ELSE rcopy[p]

\* is_deferred: scheduled, and not due yet.
IsDeferred(row) == row.status = "pending" /\ row.window \notin over

\* Mutant: the last attempt is never due.
IsDueWithinLimit(row) ==
  row.status = "pending" /\ row.window \in over /\ row.attempts < MaxAttempts

\* due: scheduled, and due.
IsDue(row) == row.status = "pending" /\ row.window \in over

\* Mutant: the attempts of the row before are not carried over.
DeferredAfresh(row, window) ==
  [status |-> "pending", attempts |-> 1, window |-> window]

\* defer: whatever the row before was, even one that is done.
Deferred(row, window) ==
  IF row.attempts + 1 > MaxAttempts
  THEN [row EXCEPT !.status = "exhausted"]
  ELSE [status |-> "pending", attempts |-> row.attempts + 1, window |-> window]

\* complete.
Completed(row) == [row EXCEPT !.status = "done"]

-----------------------------------------------------------------------------
\* Mutant: the row is never persisted.
SaveRetryInMemory(p, s, row, lands) ==
  /\ rcopy' = [rcopy EXCEPT ![p][s] = row]
  /\ UNCHANGED retries

\* The file is written in place and whole, an entity by its signature.
SaveRetry(p, s, row, lands) ==
  /\ rcopy' = [rcopy EXCEPT ![p][s] = row]
  /\ retries' = IF lands THEN Written(retries, rcopy'[p], s) ELSE retries

Defer(p, s, lands) ==
  /\ SaveRetry(p, s, Deferred(rcopy[p][s], opened + 1), lands)
  /\ opened' = IF Deferred(rcopy[p][s], opened + 1).status = "pending"
               THEN opened + 1 ELSE opened
  /\ UNCHANGED over

\* A signature without a row has nothing to complete.
Complete(p, s, lands) ==
  /\ IF rcopy[p][s].status = "none"
     THEN UNCHANGED <<retries, rcopy>>
     ELSE SaveRetry(p, s, Completed(rcopy[p][s]), lands)
  /\ UNCHANGED <<over, opened>>

LoadRetries(p, loaded) ==
  /\ rcopy' = [rcopy EXCEPT ![p] = IF loaded THEN retries ELSE NoRetries]
  /\ UNCHANGED <<retries, over, opened>>

Reload(p) ==
  /\ rcopy' = [rcopy EXCEPT ![p] = Fresh(p)]
  /\ UNCHANGED <<retries, over, opened>>

ResetRetries(p) ==
  /\ rcopy' = [rcopy EXCEPT ![p] = NoRetries]
  /\ retries' = NoRetries
  /\ UNCHANGED <<over, opened>>

WindowEnds(w) ==
  /\ w \in (1..opened) \ over
  /\ over' = over \cup {w}
  /\ UNCHANGED <<retries, rcopy, opened>>
=============================================================================
