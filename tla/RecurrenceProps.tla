--------------------------- MODULE RecurrenceProps ---------------------------
(***************************************************************************)
(* What the incident store and the retry store promise to the runs and     *)
(* drains that share them, and a claim the code does not keep.             *)
(*                                                                         *)
(* Most promises are made to processes that do not overlap (the scheduled  *)
(* sweep, a person at the CLI), while storage answers: Orderly says so.    *)
(***************************************************************************)
EXTENDS Recurrence

Orderly == ~overlapped /\ ~lossy

\* Every variable holds a value of its kind.
TypeOK ==
  /\ IncidentTypeOK
  /\ RetryTypeOK
  /\ pc \in [Processes -> {"down", "idle", "run", "drain", "settle", "close"}]
  /\ job \in [Processes -> Job]
  /\ attached \in [Processes -> SUBSET Stores]
  /\ runs \in Nat /\ faults \in Nat
  /\ lossy \in BOOLEAN /\ joins \in Nat
  /\ recorded \in [Signatures -> Nat]
  /\ scheduled \in [Signatures -> Nat]
  /\ performed \in [1..opened -> [sig : Signatures, times : Nat]]
  /\ owed \in [Signatures -> BOOLEAN]
  /\ fixed \in [Signatures -> {"run", "drain", "nothing"}]

-----------------------------------------------------------------------------
\* Every terminal outcome is on record exactly once: the occurrences the two rows of
\* a signature count are the results recorded, duplicates included, over crashes
\* and restarts (incidents.py:5-7, 157-160).
OccurrencesAddUp ==
  Orderly =>
    \A s \in Signatures :
      incidents[<<s, "sig">>].count + incidents[<<s, "usig">>].count = recorded[s]

\* Work the agent has postponed is not forgotten: until its retry is sent or given
\* up, the storage holds a pending row for it (retries.py:12-15).
OwedIsPending ==
  Orderly => \A s \in Signatures : owed[s] => retries[s].status = "pending"

\* Patience is bounded: a signature is deferred at most max_attempts times, however
\* runs and drains take turns, and what the row counts is what happened
\* (retries.py:17-20).
PatienceIsBounded ==
  Orderly => \A s \in Signatures :
    /\ scheduled[s] <= MaxAttempts
    /\ retries[s].attempts = scheduled[s]

\* A postponed retry is sent once, and again only by a process that was started beside
\* another one and took the row for pending too, or after a fault (runner.py:363-424).
\* Not so in the JSON store once processes overlap: the file is written whole, and
\* brings back other rows.
RetriesAreBounded ==
  (backend = "table" \/ ~overlapped) =>
    \A w \in 1..opened : performed[w].times <= 1 + joins + faults

\* Whether what dealt with s is through with it.
Settled(s) == fixed[s] # "nothing" /\ \A p \in Processes : pc[p] # "close"

\* A repair, by a run or by a deferred retry, leaves no incident to suppress the next
\* alert, as long as the signature has a single incident (runner.py:387-396,
\* incidents.py:203-205).
RepairClosesTheIncident ==
  (Orderly /\ faults = 0) =>
    \A s \in Signatures :
      (Settled(s) /\ \E id \in {s} \X Kinds : incidents[id] = Absent)
        => FindOpen(incidents, s) = {}

\* This step sends a refresh for process p.
Refreshes(p) ==
  \/ ~job[p].refreshed /\ job'[p].refreshed
  \/ pc[p] = "drain" /\ pc'[p] = "settle"

\* No refresh, by a run or by a drain, falls into a window that has been agreed to
\* and has not passed (retries.py:140-145, registry.py:649-653).
NoRefreshInTheWindow ==
  [][\A p \in Processes :
       (Orderly /\ Refreshes(p)) => ~IsDeferred(retries[job'[p].sig])]_vars

\* Whatever is postponed is sent or given up in the end.
OwedIsSettled ==
  \A s \in Signatures : (owed[s] /\ Orderly) ~> (~owed[s] \/ ~Orderly)

-----------------------------------------------------------------------------
(* A claim of the repository's own text that the code does not keep.       *)

\* incidents.py:76-78, runner.py:387-389: an incident is not left open after what it
\* is about was repaired.
RepairLeavesNothingOpen ==
  \A s \in Signatures : Settled(s) => FindOpen(incidents, s) = {}
=============================================================================
