--------------------------- MODULE RecurrenceProofs ---------------------------
(***************************************************************************)
(* The promises of the two stores to the runs and drains that share them,  *)
(* for every number of processes, signatures, attempts, runs and faults.   *)
(*                                                                         *)
(* Nothing here is inductive alone: what a write puts on disk depends on   *)
(* the copy it is made from.  So the proofs go from the steps of one       *)
(* process (JobInv), over when its copies are the stores (AgreeInv), to    *)
(* what the stores add up to.                                              *)
(***************************************************************************)
EXTENDS RecurrenceProps, FiniteSetTheorems, SequenceTheorems, TLAPS

-----------------------------------------------------------------------------
(* Type correctness.                                                       *)

\* A job is well formed with respect to the windows opened so far.
JobUpTo(n) ==
  [sig : Signatures \cup {NoSignature}, known : {"none", "open", "announced"},
   repaired : BOOLEAN, refreshed : BOOLEAN, deferred : BOOLEAN, told : BOOLEAN,
   due : SUBSET (Signatures \X (1..n)), result : {"none", "ok", "throttled", "failed"}]

LEMMA JobGrows ==
  ASSUME NEW n \in Nat, NEW m \in Nat, n <= m
  PROVE  JobUpTo(n) \subseteq JobUpTo(m)
<1>1. 1..n \subseteq 1..m
  OBVIOUS
<1>2. SUBSET (Signatures \X (1..n)) \subseteq SUBSET (Signatures \X (1..m))
  BY <1>1, Zenon
<1> QED BY <1>2 DEF JobUpTo

LEMMA NoJobOK == ASSUME NEW n PROVE NoJob \in JobUpTo(n)
  BY DEF NoJob, JobUpTo

LEMMA RowTypes ==
  /\ NoRetries \in [Signatures -> RetryRow]
  /\ NoIncidents \in [Ids -> IncidentRow]
  /\ \A row \in RetryRow, w \in Nat : Deferred(row, w) \in RetryRow
  /\ \A row \in RetryRow : Completed(row) \in RetryRow
  /\ \A row \in IncidentRow : Marked(row) \in IncidentRow
  /\ \A row \in IncidentRow, told \in BOOLEAN :
       \A outcome : Occurred(row, outcome, told) \in IncidentRow
  BY DEF NoRetries, NoRow, RetryRow, NoIncidents, Absent, IncidentRow, Deferred, Completed,
         Marked, Occurred, StatusFor

\* The history a deferral leaves is of its type, with or without a new window.
HistoryOK ==
  /\ opened' \in Nat
  /\ over' \subseteq 1..opened'
  /\ scheduled' \in [Signatures -> Nat]
  /\ performed' \in [1..opened' -> [sig : Signatures, times : Nat]]
  /\ owed' \in [Signatures -> BOOLEAN]

LEMMA WindowAppended ==
  ASSUME NEW S, NEW n \in Nat, NEW f \in [1..n -> S], NEW x \in S
  PROVE  /\ Append(f, x) \in [1..(n + 1) -> S]
         /\ \A i \in 1..n : Append(f, x)[i] = f[i]
         /\ Append(f, x)[n + 1] = x
<1>1. f \in Seq(S) /\ Len(f) = n
  OBVIOUS
<1>2. Append(f, x) \in Seq(S) /\ Len(Append(f, x)) = n + 1
  BY <1>1
<1>3. Append(f, x) \in [1..(n + 1) -> S]
  <2>1. Append(f, x) \in [1..Len(Append(f, x)) -> S]
    BY <1>2, LenProperties
  <2> QED BY <1>2, <2>1
<1>4. \A i \in 1..n : Append(f, x)[i] = f[i]
  BY <1>1
<1>5. Append(f, x)[n + 1] = x
  BY <1>1
<1> QED BY <1>3, <1>4, <1>5

LEMMA RetryTypes ==
  ASSUME RetryTypeOK, NEW p \in Processes, NEW s \in Signatures, NEW r \in RetryRow,
         NEW lands \in BOOLEAN, SaveRetry(p, s, r, lands)
  PROVE  /\ retries' \in [Signatures -> RetryRow]
         /\ rcopy' \in [Processes -> [Signatures -> RetryRow]]
<1>1. [rcopy[p] EXCEPT ![s] = r] \in [Signatures -> RetryRow]
  BY DEF RetryTypeOK
<1>2. rcopy' = [rcopy EXCEPT ![p] = [rcopy[p] EXCEPT ![s] = r]]
  BY DEF SaveRetry
<1>3. rcopy' \in [Processes -> [Signatures -> RetryRow]]
  BY <1>1, <1>2 DEF RetryTypeOK
<1>4. retries' \in [Signatures -> RetryRow]
  BY <1>3 DEF SaveRetry, Written, RetryTypeOK
<1> QED BY <1>3, <1>4

LEMMA IncidentTypes ==
  ASSUME IncidentTypeOK, NEW p \in Processes, NEW id \in Ids, NEW r \in IncidentRow,
         NEW lands \in BOOLEAN, SaveIncident(p, id, r, lands)
  PROVE  IncidentTypeOK'
<1>1. [icopy[p] EXCEPT ![id] = r] \in [Ids -> IncidentRow]
  BY DEF IncidentTypeOK
<1>2. icopy' = [icopy EXCEPT ![p] = [icopy[p] EXCEPT ![id] = r]]
  BY DEF SaveIncident
<1>3. icopy' \in [Processes -> [Ids -> IncidentRow]]
  BY <1>1, <1>2 DEF IncidentTypeOK
<1>4. incidents' \in [Ids -> IncidentRow]
  BY <1>3 DEF SaveIncident, Written, IncidentTypeOK
<1> QED BY <1>3, <1>4 DEF SaveIncident, IncidentTypeOK

\* One field of a job at a time.
LEMMA JobFields ==
  ASSUME NEW n \in Nat, NEW j \in JobUpTo(n)
  PROVE  /\ \A s \in Signatures : [j EXCEPT !.sig = s] \in JobUpTo(n)
         /\ \A k \in {"none", "open", "announced"} : [j EXCEPT !.known = k] \in JobUpTo(n)
         /\ \A b \in BOOLEAN : /\ [j EXCEPT !.repaired = b] \in JobUpTo(n)
                               /\ [j EXCEPT !.refreshed = b] \in JobUpTo(n)
                               /\ [j EXCEPT !.deferred = b] \in JobUpTo(n)
                               /\ [j EXCEPT !.told = b] \in JobUpTo(n)
         /\ \A d \in SUBSET (Signatures \X (1..n)) : [j EXCEPT !.due = d] \in JobUpTo(n)
         /\ \A r \in {"none", "ok", "throttled", "failed"} : [j EXCEPT !.result = r] \in JobUpTo(n)
<1>1. /\ \A s \in Signatures : [j EXCEPT !.sig = s] \in JobUpTo(n)
      /\ \A k \in {"none", "open", "announced"} : [j EXCEPT !.known = k] \in JobUpTo(n)
  BY DEF JobUpTo
<1>2. \A b \in BOOLEAN : /\ [j EXCEPT !.repaired = b] \in JobUpTo(n)
                        /\ [j EXCEPT !.refreshed = b] \in JobUpTo(n)
                        /\ [j EXCEPT !.deferred = b] \in JobUpTo(n)
                        /\ [j EXCEPT !.told = b] \in JobUpTo(n)
  BY DEF JobUpTo
<1>3. /\ \A d \in SUBSET (Signatures \X (1..n)) : [j EXCEPT !.due = d] \in JobUpTo(n)
      /\ \A r \in {"none", "ok", "throttled", "failed"} : [j EXCEPT !.result = r] \in JobUpTo(n)
  BY DEF JobUpTo
<1> QED BY <1>1, <1>2, <1>3

\* What the steps of a run and a drain make of the job, several fields at a time.
LEMMA JobsBegun ==
  ASSUME NEW n \in Nat, NEW s \in Signatures, NEW k \in {"none", "open", "announced"}
  PROVE  /\ [NoJob EXCEPT !.sig = s, !.known = k] \in JobUpTo(n)
         /\ \A d \in SUBSET (Signatures \X (1..n)) : [NoJob EXCEPT !.due = d] \in JobUpTo(n)
<1> DEFINE j == [NoJob EXCEPT !.sig = s]
<1>1. NoJob \in JobUpTo(n)
  BY NoJobOK
<1>2. j \in JobUpTo(n)
  BY <1>1, JobFields
<1>3. [NoJob EXCEPT !.sig = s, !.known = k] = [j EXCEPT !.known = k]
  OBVIOUS
<1> HIDE DEF j
<1> QED BY <1>1, <1>2, <1>3, JobFields

LEMMA JobsRefreshed ==
  ASSUME NEW n \in Nat, NEW j \in JobUpTo(n), NEW ok \in BOOLEAN
  PROVE  [j EXCEPT !.refreshed = TRUE, !.repaired = ok] \in JobUpTo(n)
<1> DEFINE i == [j EXCEPT !.refreshed = TRUE]
<1>1. i \in JobUpTo(n)
  BY JobFields
<1>2. [j EXCEPT !.refreshed = TRUE, !.repaired = ok] = [i EXCEPT !.repaired = ok]
  OBVIOUS
<1> HIDE DEF i
<1> QED BY <1>1, <1>2, JobFields

LEMMA JobsSent ==
  ASSUME NEW n \in Nat, NEW j \in JobUpTo(n), NEW s \in Signatures, NEW w,
         NEW r \in {"ok", "throttled", "failed"}
  PROVE  [j EXCEPT !.sig = s, !.due = @ \ {<<s, w>>}, !.result = r] \in JobUpTo(n)
<1> DEFINE i == [j EXCEPT !.sig = s]
           d == j.due \ {<<s, w>>}
           k == [i EXCEPT !.due = d]
<1>1. i \in JobUpTo(n)
  BY JobFields
<1>2. j.due \in SUBSET (Signatures \X (1..n))
  BY DEF JobUpTo
<1>3. d \in SUBSET (Signatures \X (1..n))
  BY <1>2
<1>4. [j EXCEPT !.sig = s, !.due = @ \ {<<s, w>>}, !.result = r] = [k EXCEPT !.result = r]
  OBVIOUS
<1> HIDE DEF i, d
<1>5. k \in JobUpTo(n)
  BY <1>1, <1>3, JobFields
<1> HIDE DEF k
<1> QED BY <1>4, <1>5, JobFields

\* The parts of the state a step may touch, each of its type after it.
MoveOK == pc' \in [Processes -> {"down", "idle", "run", "drain", "settle", "close"}]
JobOK  == job' \in [Processes -> JobUpTo(opened')]
NoteOK == /\ runs' \in Nat /\ faults' \in Nat
          /\ lossy' \in BOOLEAN /\ joins' \in Nat
          /\ attached' \in [Processes -> SUBSET Stores]
HistOK == recorded' \in [Signatures -> Nat] /\ fixed' \in [Signatures -> {"run", "drain", "nothing"}]
RowsOK == /\ retries' \in [Signatures -> RetryRow]
          /\ rcopy' \in [Processes -> [Signatures -> RetryRow]]

LEMMA TypeJoin ==
  ASSUME IncidentTypeOK', RowsOK, HistoryOK, MoveOK, JobOK, NoteOK, HistOK
  PROVE  TypeOK'
  BY DEF RowsOK, HistoryOK, MoveOK, JobOK, NoteOK, HistOK, TypeOK, RetryTypeOK, Job, JobUpTo

LEMMA TypeParts ==
  ASSUME TypeOK
  PROVE  /\ IncidentTypeOK /\ RetryTypeOK
         /\ pc \in [Processes -> {"down", "idle", "run", "drain", "settle", "close"}]
         /\ job \in [Processes -> JobUpTo(opened)]
         /\ attached \in [Processes -> SUBSET Stores]
         /\ runs \in Nat /\ faults \in Nat /\ lossy \in BOOLEAN /\ joins \in Nat
         /\ recorded \in [Signatures -> Nat]
         /\ fixed \in [Signatures -> {"run", "drain", "nothing"}]
  BY DEF TypeOK, Job, JobUpTo

LEMMA StoreKept == ASSUME TypeOK, UNCHANGED store PROVE IncidentTypeOK'
  BY DEF TypeOK, IncidentTypeOK, store

LEMMA HistoryKept ==
  ASSUME TypeOK, UNCHANGED <<over, opened, scheduled, performed, owed>>
  PROVE  HistoryOK
  BY DEF TypeOK, RetryTypeOK, HistoryOK

LEMMA QueueKept == ASSUME TypeOK, UNCHANGED queue PROVE RowsOK
  BY DEF TypeOK, RetryTypeOK, RowsOK, queue

LEMMA WritesNoted ==
  ASSUME TypeOK, NEW p, NEW which, NEW lands, Writes(p, which, lands)
  PROVE  faults' \in Nat /\ lossy' \in BOOLEAN
<1>1. faults' \in Nat
  BY DEF TypeOK, Writes
<1>2. lossy' = lossy \/ lossy' = TRUE
  BY Zenon DEF Writes
<1>3. lossy' \in BOOLEAN
  BY <1>2 DEF TypeOK
<1> QED BY <1>1, <1>3

LEMMA JobReplaced ==
  ASSUME TypeOK, NEW p \in Processes, NEW j \in JobUpTo(opened), opened' = opened,
         job' = [job EXCEPT ![p] = j]
  PROVE  JobOK
  BY TypeParts DEF JobOK

LEMMA DeferTyped ==
  ASSUME TypeOK, NEW p \in Processes, NEW s \in Signatures, NEW lands \in BOOLEAN,
         Defer(p, s, lands), Scheduling(p, s)
  PROVE  RowsOK /\ HistoryOK /\ opened' \in {opened, opened + 1}
<1> DEFINE r == Deferred(rcopy[p][s], opened + 1)
<1>0. /\ opened \in Nat /\ rcopy[p][s] \in RetryRow /\ RetryTypeOK
      /\ performed \in [1..opened -> [sig : Signatures, times : Nat]]
  BY DEF TypeOK, RetryTypeOK
<1>1. r \in RetryRow
  BY <1>0, RowTypes
<1>2. SaveRetry(p, s, r, lands)
  BY DEF Defer
<1>3. RowsOK
  BY <1>0, <1>1, <1>2, RetryTypes DEF RowsOK
<1>4. /\ opened' = IF r.status = "pending" THEN opened + 1 ELSE opened
      /\ over' = over
      /\ performed' = IF r.status = "pending" THEN Append(performed, [sig |-> s, times |-> 0])
                      ELSE performed
      /\ scheduled' = [scheduled EXCEPT ![s] = IF r.status = "pending" THEN @ + 1 ELSE @]
      /\ owed' = [owed EXCEPT ![s] = (r.status = "pending")]
  BY DEF Defer, Scheduling
<1> HIDE DEF r
<1>5. opened' \in Nat /\ over' \subseteq 1..opened'
  BY <1>0, <1>4 DEF RetryTypeOK
<1>6. scheduled' \in [Signatures -> Nat]
  BY <1>4 DEF TypeOK
<1>7. owed' \in [Signatures -> BOOLEAN]
  <2>1. (r.status = "pending") \in BOOLEAN
    OBVIOUS
  <2> QED BY <1>4, <2>1, Zenon DEF TypeOK
<1>8. performed' \in [1..opened' -> [sig : Signatures, times : Nat]]
  <2>1. [sig |-> s, times |-> 0] \in [sig : Signatures, times : Nat]
    OBVIOUS
  <2>2. CASE r.status = "pending"
    BY <1>0, <1>4, <2>1, <2>2, WindowAppended
  <2>3. CASE r.status # "pending"
    BY <1>0, <1>4, <2>3
  <2> QED BY <2>2, <2>3
<1> QED BY <1>3, <1>4, <1>5, <1>6, <1>7, <1>8 DEF HistoryOK

LEMMA NextRowTyped ==
  ASSUME TypeOK, NEW p \in Processes, NEW n \in Nat, opened <= n, opened' = n, NextRow(p)
  PROVE  MoveOK /\ JobOK
<1>1. opened \in Nat /\ job \in [Processes -> JobUpTo(opened)]
  BY TypeParts DEF RetryTypeOK
<1>2. JobUpTo(opened) \subseteq JobUpTo(n)
  BY <1>1, JobGrows
<1>3. job[p].due \in SUBSET (Signatures \X (1..n))
  <2>1. job[p] \in JobUpTo(n)
    BY <1>1, <1>2
  <2> QED BY <2>1 DEF JobUpTo
<1>4. [NoJob EXCEPT !.due = job[p].due] \in JobUpTo(n)
  BY <1>3, NoJobOK, JobFields
<1>5. job' \in [Processes -> JobUpTo(n)]
  BY <1>1, <1>2, <1>4 DEF NextRow
<1> QED BY <1>5, TypeParts DEF NextRow, MoveOK, JobOK

LEMMA GoneTyped ==
  ASSUME TypeOK, NEW p \in Processes, Gone(p), retries' \in [Signatures -> RetryRow],
         faults' \in Nat, lossy' \in BOOLEAN
  PROVE  TypeOK'
<1>1. MoveOK /\ NoteOK /\ HistOK
  BY TypeParts DEF Gone, MoveOK, NoteOK, HistOK
<1>2. JobOK
  BY TypeParts, NoJobOK DEF Gone, JobOK
<1>3. HistoryOK
  BY HistoryKept DEF Gone
<1>4. RowsOK /\ IncidentTypeOK'
  BY TypeParts, RowTypes DEF Gone, RowsOK, RetryTypeOK, IncidentTypeOK
<1> QED BY <1>1, <1>2, <1>3, <1>4, TypeJoin

LEMMA TypeInit == Init => TypeOK
<1> SUFFICES ASSUME Init PROVE TypeOK
  OBVIOUS
<1>1. IncidentTypeOK
  BY BackendAssumption, RowTypes DEF Init, IncidentInit, IncidentTypeOK
<1>2. RetryTypeOK
  BY RowTypes DEF Init, RetryInit, RetryTypeOK
<1>3. job \in [Processes -> Job]
  BY NoJobOK DEF Init, Job, JobUpTo
<1>4. performed \in [1..opened -> [sig : Signatures, times : Nat]]
  BY DEF Init, RetryInit
<1> QED BY <1>1, <1>2, <1>3, <1>4 DEF Init, TypeOK

LEMMA StartTyped ==
  ASSUME TypeOK, NEW p \in Processes, NEW loaded \in SUBSET Stores,
         NEW clients \in SUBSET Stores, Start(p, loaded, clients)
  PROVE  TypeOK'
<1>1. MoveOK /\ HistOK
  BY TypeParts DEF Start, MoveOK, HistOK
<1>2. faults' \in Nat /\ lossy' \in BOOLEAN
  <2>1. (faults' = faults \/ faults' = faults + 1) /\ (lossy' = lossy \/ lossy' = TRUE)
    BY Zenon DEF Start
  <2>2. lossy' \in BOOLEAN
    BY <2>1, TypeParts, Zenon
  <2> QED BY <2>1, <2>2, TypeParts
<1>3. joins' \in Nat
  <2>1. joins' = joins \/ joins' = joins + 1
    BY Zenon DEF Start
  <2> QED BY <2>1, TypeParts
<1>4. NoteOK
  BY <1>2, <1>3, TypeParts DEF Start, NoteOK
<1>5. HistoryOK
  BY HistoryKept DEF Start, LoadRetries
<1>6. JobOK
  BY TypeParts DEF Start, LoadRetries, JobOK
<1>7. IncidentTypeOK'
  BY TypeParts, RowTypes DEF Start, LoadIncidents, IncidentTypeOK
<1>8. RowsOK
  BY TypeParts, RowTypes DEF Start, LoadRetries, RetryTypeOK, RowsOK
<1> QED BY <1>1, <1>4, <1>5, <1>6, <1>7, <1>8, TypeJoin

LEMMA DrainBeginsTyped ==
  ASSUME TypeOK, NEW p \in Processes, DrainBegins(p)
  PROVE  TypeOK'
<1> DEFINE d == {<<s, Fresh(p)[s].window>> : s \in DueRows(p)}
<1>0. /\ opened \in Nat /\ opened' = opened /\ over \subseteq 1..opened
      /\ Fresh(p) \in [Signatures -> RetryRow]
  BY TypeParts DEF DrainBegins, Reload, RetryTypeOK, Fresh
<1>1. d \in SUBSET (Signatures \X (1..opened))
  <2>1. \A s \in DueRows(p) : s \in Signatures /\ Fresh(p)[s].window \in 1..opened
    BY <1>0 DEF DueRows, IsDue
  <2> QED BY <2>1
<1>2. job' = [job EXCEPT ![p] = [job[p] EXCEPT !.due = d]]
  BY DEF DrainBegins
<1> HIDE DEF d
<1>3. [job[p] EXCEPT !.due = d] \in JobUpTo(opened)
  <2>1. job[p] \in JobUpTo(opened)
    BY TypeParts
  <2> QED BY <1>0, <1>1, <2>1, JobFields
<1>4. JobOK
  BY <1>0, <1>2, <1>3, JobReplaced
<1>5. MoveOK /\ NoteOK /\ HistOK
  BY TypeParts DEF DrainBegins, MoveOK, NoteOK, HistOK, hist
<1>6. HistoryOK
  BY HistoryKept DEF DrainBegins, Reload, hist
<1>7. IncidentTypeOK'
  BY StoreKept DEF DrainBegins
<1>8. RowsOK
  BY <1>0, TypeParts DEF DrainBegins, Reload, RetryTypeOK, RowsOK
<1> QED BY <1>4, <1>5, <1>6, <1>7, <1>8, TypeJoin

LEMMA DrainSendsTyped ==
  ASSUME TypeOK, NEW p \in Processes, NEW s \in Signatures, NEW w \in 1..opened,
         NEW r \in {"ok", "throttled", "failed"}, DrainSends(p, s, w, r)
  PROVE  TypeOK'
<1> DEFINE j == [job[p] EXCEPT !.sig = s, !.due = @ \ {<<s, w>>}, !.result = r]
<1>1. job' = [job EXCEPT ![p] = j]
  BY DEF DrainSends
<1>2. j \in JobUpTo(opened)
  <2>1. job[p] \in JobUpTo(opened) /\ opened \in Nat
    BY TypeParts DEF RetryTypeOK
  <2> QED BY <2>1, JobsSent
<1> HIDE DEF j
<1>3. JobOK
  BY <1>1, <1>2, JobReplaced DEF DrainSends, queue
<1>4. MoveOK /\ NoteOK /\ HistOK
  BY TypeParts DEF DrainSends, MoveOK, NoteOK, HistOK
<1>5. HistoryOK
  <2>1. opened' = opened /\ over' = over /\ scheduled' = scheduled
    BY DEF DrainSends, queue
  <2>2. owed' \in [Signatures -> BOOLEAN]
    BY DEF DrainSends, TypeOK
  <2>3. performed' \in [1..opened -> [sig : Signatures, times : Nat]]
    <3>1. [performed[w] EXCEPT !.times = @ + 1] \in [sig : Signatures, times : Nat]
      <4>1. performed[w] \in [sig : Signatures, times : Nat]
        BY DEF TypeOK
      <4> QED BY <4>1
    <3>2. performed' = [performed EXCEPT ![w] = [performed[w] EXCEPT !.times = @ + 1]]
      BY DEF DrainSends
    <3> QED BY <3>1, <3>2 DEF TypeOK
  <2> QED BY <2>1, <2>2, <2>3 DEF TypeOK, RetryTypeOK, HistoryOK
<1>6. IncidentTypeOK' /\ RowsOK
  BY StoreKept, QueueKept DEF DrainSends
<1> QED BY <1>3, <1>4, <1>5, <1>6, TypeJoin

LEMMA CompleteTyped ==
  ASSUME TypeOK, NEW p \in Processes, NEW s \in Signatures, NEW lands \in BOOLEAN,
         Complete(p, s, lands)
  PROVE  RowsOK
<1>1. CASE rcopy[p][s].status = "none"
  BY <1>1 DEF Complete, TypeOK, RetryTypeOK, RowsOK
<1>2. CASE rcopy[p][s].status # "none"
  <2>1. Completed(rcopy[p][s]) \in RetryRow
    BY TypeParts, RowTypes DEF RetryTypeOK
  <2> QED BY <1>2, <2>1, TypeParts, RetryTypes DEF Complete, RowsOK
<1> QED BY <1>1, <1>2

\* What a process in these stages works on is a signature: job.sig is set by whoever
\* goes there.
BusyWithSig ==
  \A p \in Processes : pc[p] \in {"run", "settle", "close"} => job[p].sig \in Signatures

TypeInv == TypeOK /\ BusyWithSig

LEMMA RunRefreshesTyped ==
  ASSUME TypeInv, NEW p \in Processes, NEW ok \in BOOLEAN, RunRefreshes(p, ok)
  PROVE  TypeOK'
<1>0. TypeOK /\ opened \in Nat /\ job[p] \in JobUpTo(opened)
  BY TypeParts DEF TypeInv, RetryTypeOK
<1>1. JobOK
  <2>1. [job[p] EXCEPT !.refreshed = TRUE, !.repaired = ok] \in JobUpTo(opened)
    BY <1>0, JobsRefreshed
  <2>2. \/ job' = job
        \/ job' = [job EXCEPT ![p] = [job[p] EXCEPT !.refreshed = TRUE, !.repaired = ok]]
    BY DEF RunRefreshes
  <2>3. opened' = opened
    BY DEF RunRefreshes, Reload
  <2> QED BY <1>0, <2>1, <2>2, <2>3, JobReplaced, TypeParts DEF JobOK
<1>2. MoveOK /\ NoteOK /\ HistOK
  BY <1>0, TypeParts DEF RunRefreshes, MoveOK, NoteOK, HistOK
<1>3. HistoryOK
  BY <1>0, HistoryKept DEF RunRefreshes, Reload
<1>4. IncidentTypeOK'
  BY <1>0, StoreKept DEF RunRefreshes
<1>5. RowsOK
  BY <1>0, TypeParts DEF RunRefreshes, Reload, Fresh, RetryTypeOK, RowsOK
<1> QED BY <1>1, <1>2, <1>3, <1>4, <1>5, TypeJoin

LEMMA RunDefersTyped ==
  ASSUME TypeInv, NEW p \in Processes, NEW lands \in BOOLEAN, RunDefers(p, lands)
  PROVE  TypeOK'
<1> DEFINE pending == (Deferred(rcopy[p][job[p].sig], opened + 1).status = "pending")
<1>0. TypeOK /\ opened \in Nat /\ job \in [Processes -> JobUpTo(opened)]
  BY TypeParts DEF TypeInv, RetryTypeOK
<1>1. RowsOK /\ HistoryOK /\ opened' \in {opened, opened + 1}
  BY <1>0, DeferTyped DEF RunDefers, TypeInv, BusyWithSig
<1>2. JobOK
  <2>1. job' = [job EXCEPT ![p] = [job[p] EXCEPT !.deferred = pending]] /\ pending \in BOOLEAN
    BY DEF RunDefers
  <2> HIDE DEF pending
  <2>2. [job[p] EXCEPT !.deferred = pending] \in JobUpTo(opened)
    BY <1>0, <2>1, JobFields
  <2>3. JobUpTo(opened) \subseteq JobUpTo(opened')
    BY <1>0, <1>1, JobGrows
  <2> QED BY <1>0, <2>1, <2>2, <2>3 DEF JobOK
<1>3. faults' \in Nat /\ lossy' \in BOOLEAN
  BY <1>0, WritesNoted DEF RunDefers
<1>4. MoveOK /\ NoteOK /\ HistOK
  BY <1>0, <1>3, TypeParts DEF RunDefers, MoveOK, NoteOK, HistOK
<1>5. IncidentTypeOK'
  BY <1>0, StoreKept DEF RunDefers
<1> QED BY <1>1, <1>2, <1>4, <1>5, TypeJoin

LEMMA RunEndsTyped ==
  ASSUME TypeInv, NEW p \in Processes, NEW outcome, NEW id \in Ids, NEW lands \in BOOLEAN,
         RunEnds(p, outcome, id, lands)
  PROVE  TypeOK'
<1>0. TypeOK /\ opened \in Nat /\ job[p] \in JobUpTo(opened)
  BY TypeParts DEF TypeInv, RetryTypeOK
<1>1. IncidentTypeOK'
  <2>1. job[p].told \in BOOLEAN
    BY <1>0 DEF JobUpTo
  <2>2. icopy[p][id] \in IncidentRow
    BY <1>0, TypeParts DEF IncidentTypeOK
  <2>3. Occurred(icopy[p][id], outcome, job[p].told) \in IncidentRow
    BY <2>1, <2>2, RowTypes
  <2>4. SaveIncident(p, id, Occurred(icopy[p][id], outcome, job[p].told), lands)
    BY DEF RunEnds
  <2> QED BY <1>0, <2>3, <2>4, TypeParts, IncidentTypes
<1>2. RowsOK
  BY <1>0, QueueKept DEF RunEnds
<1>3. HistoryOK
  BY <1>0, HistoryKept DEF RunEnds, queue
<1>4. JobOK
  BY <1>0, TypeParts, NoJobOK DEF RunEnds, JobOK, queue
<1>5. faults' \in Nat /\ lossy' \in BOOLEAN
  BY <1>0, WritesNoted DEF RunEnds
<1>6. MoveOK /\ NoteOK
  BY <1>0, <1>5, TypeParts DEF RunEnds, MoveOK, NoteOK
<1>7. HistOK
  <2>1. recorded' \in [Signatures -> Nat]
    <3>1. /\ recorded \in [Signatures -> Nat] /\ job[p].sig \in Signatures
          /\ recorded' = [recorded EXCEPT ![job[p].sig] = @ + 1]
      BY <1>0, TypeParts DEF RunEnds, TypeInv, BusyWithSig
    <3> QED BY <3>1
  <2>2. fixed' \in [Signatures -> {"run", "drain", "nothing"}]
    BY <1>0, TypeParts DEF RunEnds
  <2> QED BY <2>1, <2>2 DEF HistOK
<1> QED BY <1>1, <1>2, <1>3, <1>4, <1>6, <1>7, TypeJoin

LEMMA DrainDefersTyped ==
  ASSUME TypeInv, NEW p \in Processes, NEW lands \in BOOLEAN, DrainDefers(p, lands)
  PROVE  TypeOK'
<1>0. TypeOK /\ opened \in Nat
  BY TypeParts DEF TypeInv, RetryTypeOK
<1>1. RowsOK /\ HistoryOK /\ opened' \in {opened, opened + 1}
  BY <1>0, DeferTyped DEF DrainDefers, TypeInv, BusyWithSig
<1>2. MoveOK /\ JobOK
  BY <1>0, <1>1, NextRowTyped DEF DrainDefers
<1>3. faults' \in Nat /\ lossy' \in BOOLEAN
  BY <1>0, WritesNoted DEF DrainDefers
<1>4. NoteOK /\ HistOK
  BY <1>0, <1>3, TypeParts DEF DrainDefers, NoteOK, HistOK
<1>5. IncidentTypeOK'
  BY <1>0, StoreKept DEF DrainDefers
<1> QED BY <1>1, <1>2, <1>4, <1>5, TypeJoin

LEMMA DrainCompletesTyped ==
  ASSUME TypeInv, NEW p \in Processes, NEW lands \in BOOLEAN, DrainCompletes(p, lands)
  PROVE  TypeOK'
<1>0. TypeOK /\ opened \in Nat
  BY TypeParts DEF TypeInv, RetryTypeOK
<1>1. RowsOK
  BY <1>0, CompleteTyped DEF DrainCompletes, TypeInv, BusyWithSig
<1>2. HistoryOK
  BY <1>0, HistoryKept DEF DrainCompletes, Complete
<1>3. MoveOK /\ JobOK
  <2>1. opened' = opened
    BY DEF DrainCompletes, Complete
  <2>2. CASE NextRow(p)
    BY <1>0, <2>1, <2>2, NextRowTyped
  <2>3. CASE pc' = [pc EXCEPT ![p] = "close"] /\ job' = job
    BY <1>0, <2>1, <2>3, TypeParts DEF MoveOK, JobOK
  <2> QED BY <2>2, <2>3 DEF DrainCompletes
<1>4. faults' \in Nat /\ lossy' \in BOOLEAN
  BY <1>0, WritesNoted DEF DrainCompletes
<1>5. NoteOK /\ HistOK
  BY <1>0, <1>4, TypeParts DEF DrainCompletes, NoteOK, HistOK
<1>6. IncidentTypeOK'
  BY <1>0, StoreKept DEF DrainCompletes
<1> QED BY <1>1, <1>2, <1>3, <1>5, <1>6, TypeJoin

LEMMA DrainClosesTyped ==
  ASSUME TypeInv, NEW p \in Processes, NEW id \in Ids, NEW lands \in BOOLEAN,
         DrainCloses(p, id, lands)
  PROVE  TypeOK'
<1>0. TypeOK /\ opened \in Nat
  BY TypeParts DEF TypeInv, RetryTypeOK
<1>1. IncidentTypeOK'
  <2>1. Marked(icopy[p][id]) \in IncidentRow
    BY <1>0, TypeParts, RowTypes DEF IncidentTypeOK
  <2> QED BY <1>0, <2>1, TypeParts, IncidentTypes DEF DrainCloses
<1>2. RowsOK
  BY <1>0, QueueKept DEF DrainCloses
<1>3. HistoryOK
  BY <1>0, HistoryKept DEF DrainCloses, queue
<1>4. MoveOK /\ JobOK
  BY <1>0, NextRowTyped DEF DrainCloses, queue
<1>5. faults' \in Nat /\ lossy' \in BOOLEAN
  BY <1>0, WritesNoted DEF DrainCloses
<1>6. NoteOK /\ HistOK
  BY <1>0, <1>5, TypeParts DEF DrainCloses, NoteOK, HistOK
<1> QED BY <1>1, <1>2, <1>3, <1>4, <1>6, TypeJoin

\* The moves of one process, and what they leave alone: nobody touches the state of
\* another process.
Moves(p) == Begins(p) \/ Run(p) \/ Ends(p) \/ Drain(p) \/ Stops(p)

Others(p) ==
  \A q \in Processes \ {p} :
    /\ pc'[q] = pc[q] /\ job'[q] = job[q] /\ attached'[q] = attached[q]
    /\ icopy'[q] = icopy[q] /\ rcopy'[q] = rcopy[q]

LEMMA Domains ==
  ASSUME TypeOK
  PROVE  /\ DOMAIN pc = Processes /\ DOMAIN job = Processes /\ DOMAIN attached = Processes
         /\ DOMAIN icopy = Processes /\ DOMAIN rcopy = Processes
  BY DEF TypeOK, IncidentTypeOK, RetryTypeOK

LEMMA OthersKeep ==
  ASSUME TypeOK, NEW p \in Processes, Moves(p)
  PROVE  Others(p)
<1>. USE Domains DEF Others, store, queue, procs, hist
<1>1. ASSUME Begins(p) PROVE Others(p)
  BY <1>1 DEF Begins, Start, LoadIncidents, LoadRetries, RunBegins, DrainBegins, Reload
<1>2. ASSUME Run(p) PROVE Others(p)
  BY <1>2 DEF Run, RunRefreshes, RunDefers, RunNotifies, Reload, Defer, SaveRetry
<1>3. ASSUME Ends(p) PROVE Others(p)
  BY <1>3 DEF Ends, RunEnds, SaveIncident
<1>4. ASSUME Drain(p) PROVE Others(p)
  BY <1>4 DEF Drain, DrainSends, DrainDefers, DrainCompletes, DrainCloses, DrainFindsNothingOpen,
              Defer, Complete, SaveRetry, SaveIncident, NextRow
<1>5. ASSUME Stops(p) PROVE Others(p)
  BY <1>5 DEF Stops, Exit, Crash, Reset, Gone, ResetIncidents, ResetRetries
<1> QED BY <1>1, <1>2, <1>3, <1>4, <1>5 DEF Moves

\* It is enough that the process that moves works on a signature afterwards.
LEMMA BusyJoin ==
  ASSUME TypeInv, TypeOK', NEW p \in Processes, Others(p),
         pc'[p] \in {"run", "settle", "close"} => job'[p].sig \in Signatures
  PROVE  TypeInv'
  BY DEF TypeInv, BusyWithSig, Others

LEMMA TypeStep == TypeInv /\ [Next]_vars => TypeInv'
<1> SUFFICES ASSUME TypeInv, [Next]_vars PROVE TypeInv'
  OBVIOUS
<1>0. TypeOK /\ BusyWithSig
  BY DEF TypeInv
<1>d. /\ DOMAIN pc = Processes /\ DOMAIN job = Processes
      /\ \A p \in Processes : job[p] \in JobUpTo(opened)
  BY <1>0, Domains, TypeParts
<1>o. ASSUME NEW p \in Processes, Moves(p), TypeOK',
             pc'[p] \in {"run", "settle", "close"} => job'[p].sig \in Signatures
      PROVE  TypeInv'
  BY <1>0, <1>o, OthersKeep, BusyJoin
<1>1. ASSUME NEW p \in Processes, NEW loaded \in SUBSET Stores, NEW clients \in SUBSET Stores,
             Start(p, loaded, clients)
      PROVE  TypeInv'
  <2>1. TypeOK'
    BY <1>0, <1>1, StartTyped
  <2>2. pc'[p] = "idle"
    BY <1>d, <1>1 DEF Start
  <2> QED BY <1>1, <1>o, <2>1, <2>2 DEF Moves, Begins
<1>2. ASSUME NEW p \in Processes, NEW s \in Signatures,
             NEW k \in {"none", "open", "announced"}, RunBegins(p, s, k)
      PROVE  TypeInv'
  <2>1. opened \in Nat /\ opened' = opened /\ job' = [job EXCEPT ![p] = [NoJob EXCEPT !.sig = s, !.known = k]]
    BY <1>0, <1>2, TypeParts DEF RunBegins, RetryTypeOK, queue
  <2>2. JobOK
    BY <1>0, <2>1, JobsBegun, JobReplaced
  <2>3. TypeOK'
    <3>1. MoveOK /\ NoteOK /\ HistOK
      BY <1>0, <1>2, TypeParts DEF RunBegins, MoveOK, NoteOK, HistOK
    <3>2. HistoryOK /\ RowsOK /\ IncidentTypeOK'
      BY <1>0, <1>2, HistoryKept, QueueKept, StoreKept DEF RunBegins, queue
    <3> QED BY <2>2, <3>1, <3>2, TypeJoin
  <2>4. job'[p].sig = s
    BY <1>d, <2>1 DEF NoJob
  <2> QED BY <1>2, <1>o, <2>3, <2>4 DEF Moves, Begins
<1>3. ASSUME NEW p \in Processes, DrainBegins(p) PROVE TypeInv'
  <2>1. TypeOK'
    BY <1>0, <1>3, DrainBeginsTyped
  <2>2. pc'[p] = "drain"
    BY <1>d, <1>3 DEF DrainBegins
  <2> QED BY <1>3, <1>o, <2>1, <2>2 DEF Moves, Begins
<1>4. ASSUME NEW p \in Processes, NEW ok \in BOOLEAN, RunRefreshes(p, ok) PROVE TypeInv'
  <2>1. TypeOK'
    BY <1>4, RunRefreshesTyped
  <2>2. job'[p].sig = job[p].sig /\ job[p].sig \in Signatures
    BY <1>0, <1>d, <1>4 DEF RunRefreshes, BusyWithSig, JobUpTo
  <2> QED BY <1>4, <1>o, <2>1, <2>2 DEF Moves, Run
<1>5. ASSUME NEW p \in Processes, NEW lands \in BOOLEAN, RunDefers(p, lands) PROVE TypeInv'
  <2>1. TypeOK'
    BY <1>5, RunDefersTyped
  <2>2. job'[p].sig = job[p].sig /\ job[p].sig \in Signatures
    BY <1>0, <1>d, <1>5 DEF RunDefers, BusyWithSig, JobUpTo
  <2> QED BY <1>5, <1>o, <2>1, <2>2 DEF Moves, Run
<1>6. ASSUME NEW p \in Processes, RunNotifies(p) PROVE TypeInv'
  <2>1. opened \in Nat /\ opened' = opened
    BY <1>0, <1>6, TypeParts DEF RunNotifies, RetryTypeOK, queue
  <2>2. job' = [job EXCEPT ![p] = [job[p] EXCEPT !.told = TRUE]]
    BY <1>6 DEF RunNotifies
  <2>3. JobOK
    BY <1>0, <1>d, <2>1, <2>2, JobFields, JobReplaced
  <2>4. TypeOK'
    <3>1. MoveOK /\ NoteOK /\ HistOK
      BY <1>0, <1>6, TypeParts DEF RunNotifies, MoveOK, NoteOK, HistOK
    <3>2. HistoryOK /\ RowsOK /\ IncidentTypeOK'
      BY <1>0, <1>6, HistoryKept, QueueKept, StoreKept DEF RunNotifies, queue
    <3> QED BY <2>3, <3>1, <3>2, TypeJoin
  <2>5. job'[p].sig = job[p].sig /\ job[p].sig \in Signatures
    BY <1>0, <1>d, <1>6 DEF RunNotifies, BusyWithSig, JobUpTo
  <2> QED BY <1>6, <1>o, <2>4, <2>5 DEF Moves, Run
<1>7. ASSUME NEW p \in Processes, NEW outcome \in Outcomes, NEW id \in Ids, NEW lands \in BOOLEAN,
             RunEnds(p, outcome, id, lands)
      PROVE  TypeInv'
  <2>1. TypeOK'
    BY <1>7, RunEndsTyped
  <2>2. pc'[p] = "idle"
    BY <1>d, <1>7 DEF RunEnds
  <2> QED BY <1>7, <1>o, <2>1, <2>2 DEF Moves, Ends
<1>8. ASSUME NEW p \in Processes, NEW s \in Signatures, NEW w \in 1..opened,
             NEW r \in {"ok", "throttled", "failed"}, DrainSends(p, s, w, r)
      PROVE  TypeInv'
  <2>1. TypeOK'
    BY <1>0, <1>8, DrainSendsTyped
  <2>2. job'[p].sig = s
    BY <1>d, <1>8 DEF DrainSends, JobUpTo
  <2> QED BY <1>8, <1>o, <2>1, <2>2 DEF Moves, Drain
<1>9. ASSUME NEW p \in Processes, NEW lands \in BOOLEAN, DrainDefers(p, lands) PROVE TypeInv'
  <2>1. TypeOK'
    BY <1>9, DrainDefersTyped
  <2>2. pc'[p] \in {"idle", "drain"}
    BY <1>d, <1>9 DEF DrainDefers, NextRow
  <2> QED BY <1>9, <1>o, <2>1, <2>2 DEF Moves, Drain
<1>10. ASSUME NEW p \in Processes, NEW lands \in BOOLEAN, DrainCompletes(p, lands) PROVE TypeInv'
  <2>1. TypeOK'
    BY <1>10, DrainCompletesTyped
  <2>2. pc'[p] \in {"idle", "drain"} \/ (job' = job /\ pc[p] = "settle")
    BY <1>d, <1>10 DEF DrainCompletes, NextRow
  <2> QED BY <1>0, <1>10, <1>o, <2>1, <2>2 DEF Moves, Drain, BusyWithSig
<1>11. ASSUME NEW p \in Processes, NEW id \in Ids, NEW lands \in BOOLEAN, DrainCloses(p, id, lands)
       PROVE  TypeInv'
  <2>1. TypeOK'
    BY <1>11, DrainClosesTyped
  <2>2. pc'[p] \in {"idle", "drain"}
    BY <1>d, <1>11 DEF DrainCloses, NextRow
  <2> QED BY <1>11, <1>o, <2>1, <2>2 DEF Moves, Drain
<1>12. ASSUME NEW p \in Processes, DrainFindsNothingOpen(p) PROVE TypeInv'
  <2>1. MoveOK /\ JobOK
    BY <1>0, <1>12, NextRowTyped, TypeParts DEF DrainFindsNothingOpen, queue, RetryTypeOK
  <2>2. TypeOK'
    <3>1. NoteOK /\ HistOK
      BY <1>0, <1>12, TypeParts DEF DrainFindsNothingOpen, NoteOK, HistOK, hist
    <3>2. HistoryOK /\ RowsOK /\ IncidentTypeOK'
      BY <1>0, <1>12, HistoryKept, QueueKept, StoreKept DEF DrainFindsNothingOpen, queue, hist
    <3> QED BY <2>1, <3>1, <3>2, TypeJoin
  <2>3. pc'[p] \in {"idle", "drain"}
    BY <1>d, <1>12 DEF DrainFindsNothingOpen, NextRow
  <2> QED BY <1>12, <1>o, <2>2, <2>3 DEF Moves, Drain
<1>13. ASSUME NEW p \in Processes, Exit(p) \/ \E torn \in BOOLEAN : Crash(p, torn) PROVE TypeInv'
  <2>1. faults' \in Nat /\ retries' \in [Signatures -> RetryRow]
    BY <1>0, <1>13, TypeParts, RowTypes DEF Exit, Crash, RetryTypeOK
  <2>2. lossy' \in BOOLEAN
    <3>1. lossy' = lossy \/ lossy' \in BOOLEAN
      BY <1>13, Zenon DEF Exit, Crash
    <3> QED BY <1>0, <3>1, TypeParts
  <2>3. TypeOK'
    BY <1>0, <1>13, <2>1, <2>2, GoneTyped DEF Exit, Crash
  <2>4. pc'[p] = "down"
    BY <1>d, <1>13 DEF Exit, Crash, Gone
  <2> QED BY <1>13, <1>o, <2>3, <2>4 DEF Moves, Stops
<1>14. ASSUME NEW p \in Processes, Reset(p) PROVE TypeInv'
  <2>1. MoveOK /\ JobOK /\ NoteOK
    BY <1>0, <1>14, TypeParts DEF Reset, ResetRetries, MoveOK, JobOK, NoteOK, procs
  <2>2. HistOK
    BY <1>14 DEF Reset, HistOK
  <2>3. HistoryOK
    BY <1>0, <1>14 DEF Reset, ResetRetries, HistoryOK, TypeOK, RetryTypeOK
  <2>4. RowsOK /\ IncidentTypeOK'
    BY <1>0, <1>14, TypeParts, RowTypes
       DEF Reset, ResetRetries, ResetIncidents, RetryTypeOK, RowsOK, IncidentTypeOK
  <2>5. TypeOK'
    BY <2>1, <2>2, <2>3, <2>4, TypeJoin
  <2>6. pc'[p] = "idle"
    BY <1>14 DEF Reset, procs
  <2> QED BY <1>14, <1>o, <2>5, <2>6 DEF Moves, Stops
<1>15. ASSUME NEW w \in 1..opened, WindowPasses(w) PROVE TypeInv'
  <2>1. MoveOK /\ JobOK /\ NoteOK /\ HistOK
    BY <1>0, <1>15, TypeParts
       DEF WindowPasses, WindowEnds, MoveOK, JobOK, NoteOK, HistOK, procs, hist
  <2>2. HistoryOK /\ RowsOK
    BY <1>0, <1>15 DEF WindowPasses, WindowEnds, HistoryOK, RowsOK, TypeOK, RetryTypeOK, hist
  <2>3. IncidentTypeOK'
    BY <1>0, <1>15, StoreKept DEF WindowPasses
  <2>4. TypeOK'
    BY <2>1, <2>2, <2>3, TypeJoin
  <2> QED BY <1>0, <1>15, <2>4 DEF TypeInv, BusyWithSig, WindowPasses, procs
<1>16. CASE UNCHANGED vars
  <2>1. UNCHANGED <<store, queue, procs, hist>>
    BY <1>16 DEF vars
  <2>2. MoveOK /\ JobOK /\ NoteOK /\ HistOK
    BY <1>0, <2>1, TypeParts DEF MoveOK, JobOK, NoteOK, HistOK, procs, hist, queue
  <2>3. HistoryOK /\ RowsOK /\ IncidentTypeOK'
    BY <1>0, <2>1, HistoryKept, QueueKept, StoreKept DEF queue, hist
  <2>4. TypeOK'
    BY <2>2, <2>3, TypeJoin
  <2> QED BY <1>0, <2>1, <2>4 DEF TypeInv, BusyWithSig, procs
<1> QED
  BY <1>1, <1>2, <1>3, <1>4, <1>5, <1>6, <1>7, <1>8, <1>9, <1>10, <1>11, <1>12, <1>13, <1>14,
     <1>15, <1>16 DEF Next, Begins, Run, Ends, Drain, Stops

\* Every variable holds a value of its kind, in particular every window a drain is
\* about to send is one that was opened.
THEOREM RecurrenceTypeCorrect == Spec => []TypeOK
<1>1. Init => TypeInv
  BY TypeInit DEF Init, TypeInv, BusyWithSig
<1>2. TypeInv => TypeOK
  BY DEF TypeInv
<1> QED BY <1>1, <1>2, TypeStep, PTL DEF Spec

-----------------------------------------------------------------------------
(* The steps of one process.  While it drains, the rows it has yet to send  *)
(* are pending in its copy, and the one it has sent is so until settled:    *)
(* nobody else writes to its copy, and it reads no file in between.         *)

Pending(row, window) == row.status = "pending" /\ row.window = window

OwnInv(p) ==
  /\ pc[p] \in {"down", "idle"} => job[p] = NoJob
  /\ pc[p] = "run" => job[p].due = {}
  /\ pc[p] = "settle" => rcopy[p][job[p].sig].status = "pending"
  /\ \A s \in Signatures, w \in Nat : <<s, w>> \in job[p].due =>
       /\ w \in over
       /\ Pending(rcopy[p][s], w)
       /\ pc[p] \in {"settle", "close"} => s # job[p].sig

JobInv == \A p \in Processes : OwnInv(p)

LEMMA JobJoin ==
  ASSUME JobInv, NEW p \in Processes, Others(p), over \subseteq over', OwnInv(p)'
  PROVE  JobInv'
  BY DEF JobInv, OwnInv, Others

\* What becomes of the rows that are left when one is settled.
LEMMA NextRowOwn ==
  ASSUME TypeInv, NEW p \in Processes, OwnInv(p), pc[p] \in {"settle", "close"}, NextRow(p),
         over' = over,
         \A s \in Signatures : s # job[p].sig => rcopy'[p][s] = rcopy[p][s]
  PROVE  OwnInv(p)'
<1>0. DOMAIN pc = Processes /\ DOMAIN job = Processes /\ job[p] \in JobUpTo(opened)
  BY Domains, TypeParts DEF TypeInv
<1>1. pc'[p] = IF job[p].due = {} THEN "idle" ELSE "drain"
  BY <1>0 DEF NextRow
<1>2. job'[p] = [NoJob EXCEPT !.due = job[p].due]
  BY <1>0 DEF NextRow
<1>3. job'[p].due = job[p].due
  BY <1>2 DEF NoJob
<1>4. pc'[p] = "idle" => job'[p] = NoJob
  BY <1>1, <1>2 DEF NoJob
<1> QED BY <1>1, <1>3, <1>4 DEF OwnInv

LEMMA JobStep == TypeInv /\ TypeInv' /\ JobInv /\ [Next]_vars => JobInv'
<1> SUFFICES ASSUME TypeInv, TypeInv', JobInv, [Next]_vars PROVE JobInv'
  OBVIOUS
<1>0. TypeOK /\ BusyWithSig /\ \A p \in Processes : OwnInv(p)
  BY DEF TypeInv, JobInv
<1>d. /\ DOMAIN pc = Processes /\ DOMAIN job = Processes /\ DOMAIN rcopy = Processes
      /\ \A p \in Processes : job[p] \in JobUpTo(opened)
      /\ retries \in [Signatures -> RetryRow]
      /\ rcopy \in [Processes -> [Signatures -> RetryRow]]
  BY <1>0, Domains, TypeParts DEF RetryTypeOK
<1>o. ASSUME NEW p \in Processes, Moves(p), over' = over, OwnInv(p)' PROVE JobInv'
  BY <1>0, <1>o, OthersKeep, JobJoin
<1>1. ASSUME NEW p \in Processes, NEW loaded \in SUBSET Stores, NEW clients \in SUBSET Stores,
             Start(p, loaded, clients)
      PROVE  JobInv'
  <2>1. OwnInv(p)'
    BY <1>0, <1>d, <1>1 DEF Start, OwnInv, NoJob
  <2> QED BY <1>1, <1>o, <2>1 DEF Moves, Begins, Start, LoadRetries
<1>2. ASSUME NEW p \in Processes, NEW s \in Signatures,
             NEW k \in {"none", "open", "announced"}, RunBegins(p, s, k)
      PROVE  JobInv'
  <2>1. OwnInv(p)'
    BY <1>0, <1>d, <1>2 DEF RunBegins, OwnInv, NoJob
  <2> QED BY <1>2, <1>o, <2>1 DEF Moves, Begins, RunBegins, queue
<1>3. ASSUME NEW p \in Processes, DrainBegins(p) PROVE JobInv'
  <2> DEFINE d == {<<s, Fresh(p)[s].window>> : s \in DueRows(p)}
  <2>1. pc'[p] = "drain" /\ job'[p] = [job[p] EXCEPT !.due = d] /\ rcopy'[p] = Fresh(p)
        /\ over' = over
    BY <1>d, <1>3 DEF DrainBegins, Reload
  <2>2. job'[p].due = d
    BY <1>d, <2>1 DEF JobUpTo
  <2>3. OwnInv(p)'
    <3>1. ASSUME NEW s \in Signatures, NEW w \in Nat, <<s, w>> \in d
          PROVE  w \in over /\ Pending(Fresh(p)[s], w)
      BY <3>1 DEF DueRows, IsDue, Pending
    <3> HIDE DEF d
    <3> QED BY <2>1, <2>2, <3>1 DEF OwnInv
  <2> QED BY <1>3, <1>o, <2>1, <2>3 DEF Moves, Begins
<1>4. ASSUME NEW p \in Processes, NEW ok \in BOOLEAN, RunRefreshes(p, ok) PROVE JobInv'
  <2>1. pc'[p] = "run" /\ job'[p].due = {}
    BY <1>0, <1>d, <1>4 DEF RunRefreshes, OwnInv, JobUpTo
  <2>2. OwnInv(p)'
    BY <2>1 DEF OwnInv
  <2> QED BY <1>4, <1>o, <2>2 DEF Moves, Run, RunRefreshes, Reload
<1>5. ASSUME NEW p \in Processes, NEW lands \in BOOLEAN, RunDefers(p, lands) PROVE JobInv'
  <2>1. pc'[p] = "run" /\ job'[p].due = {}
    BY <1>0, <1>d, <1>5 DEF RunDefers, OwnInv, JobUpTo
  <2>2. OwnInv(p)'
    BY <2>1 DEF OwnInv
  <2> QED BY <1>5, <1>o, <2>2 DEF Moves, Run, RunDefers, Defer
<1>6. ASSUME NEW p \in Processes, RunNotifies(p) PROVE JobInv'
  <2>1. pc'[p] = "run" /\ job'[p].due = {}
    BY <1>0, <1>d, <1>6 DEF RunNotifies, OwnInv, JobUpTo
  <2>2. OwnInv(p)'
    BY <2>1 DEF OwnInv
  <2> QED BY <1>6, <1>o, <2>2 DEF Moves, Run, RunNotifies, queue
<1>7. ASSUME NEW p \in Processes, NEW outcome \in Outcomes, NEW id \in Ids, NEW lands \in BOOLEAN,
             RunEnds(p, outcome, id, lands)
      PROVE  JobInv'
  <2>1. pc'[p] = "idle" /\ job'[p] = NoJob
    BY <1>d, <1>7 DEF RunEnds
  <2>2. OwnInv(p)'
    BY <2>1 DEF OwnInv, NoJob
  <2> QED BY <1>7, <1>o, <2>2 DEF Moves, Ends, RunEnds, queue
<1>8. ASSUME NEW p \in Processes, NEW s \in Signatures, NEW w \in 1..opened,
             NEW r \in {"ok", "throttled", "failed"}, DrainSends(p, s, w, r)
      PROVE  JobInv'
  <2>1. /\ pc'[p] = "settle" /\ rcopy'[p] = rcopy[p] /\ over' = over
        /\ job'[p].sig = s /\ job'[p].due = job[p].due \ {<<s, w>>}
    BY <1>d, <1>8 DEF DrainSends, JobUpTo, queue
  <2>2. <<s, w>> \in job[p].due /\ w \in Nat
    BY <1>0, <1>8, TypeParts DEF DrainSends, RetryTypeOK
  <2>3. OwnInv(p)'
    BY <1>0, <2>1, <2>2 DEF OwnInv, Pending
  <2> QED BY <1>8, <1>o, <2>1, <2>3 DEF Moves, Drain
<1>9. ASSUME NEW p \in Processes, NEW lands \in BOOLEAN, DrainDefers(p, lands) PROVE JobInv'
  <2>1. over' = over /\ \A s \in Signatures : s # job[p].sig => rcopy'[p][s] = rcopy[p][s]
    BY <1>d, <1>9 DEF DrainDefers, Defer, SaveRetry
  <2>2. OwnInv(p)'
    BY <1>0, <1>9, <2>1, NextRowOwn DEF DrainDefers
  <2> QED BY <1>9, <1>o, <2>1, <2>2 DEF Moves, Drain
<1>10. ASSUME NEW p \in Processes, NEW lands \in BOOLEAN, DrainCompletes(p, lands) PROVE JobInv'
  <2>1. over' = over /\ \A s \in Signatures : s # job[p].sig => rcopy'[p][s] = rcopy[p][s]
    BY <1>d, <1>10 DEF DrainCompletes, Complete, SaveRetry
  <2>2. CASE NextRow(p)
    <3>1. OwnInv(p)'
      BY <1>0, <1>10, <2>1, <2>2, NextRowOwn DEF DrainCompletes
    <3> QED BY <1>10, <1>o, <2>1, <3>1 DEF Moves, Drain
  <2>3. CASE pc' = [pc EXCEPT ![p] = "close"] /\ job' = job
    <3>1. pc'[p] = "close" /\ job'[p] = job[p] /\ pc[p] = "settle"
      BY <1>d, <1>10, <2>3 DEF DrainCompletes
    <3>2. OwnInv(p)'
      BY <1>0, <2>1, <3>1 DEF OwnInv
    <3> QED BY <1>10, <1>o, <2>1, <3>2 DEF Moves, Drain
  <2> QED BY <1>10, <2>2, <2>3 DEF DrainCompletes
<1>11. ASSUME NEW p \in Processes, NEW id \in Ids, NEW lands \in BOOLEAN, DrainCloses(p, id, lands)
       PROVE  JobInv'
  <2>1. over' = over /\ rcopy' = rcopy
    BY <1>11 DEF DrainCloses, queue
  <2>2. OwnInv(p)'
    BY <1>0, <1>11, <2>1, NextRowOwn DEF DrainCloses
  <2> QED BY <1>11, <1>o, <2>1, <2>2 DEF Moves, Drain
<1>12. ASSUME NEW p \in Processes, DrainFindsNothingOpen(p) PROVE JobInv'
  <2>1. over' = over /\ rcopy' = rcopy
    BY <1>12 DEF DrainFindsNothingOpen, queue
  <2>2. OwnInv(p)'
    BY <1>0, <1>12, <2>1, NextRowOwn DEF DrainFindsNothingOpen
  <2> QED BY <1>12, <1>o, <2>1, <2>2 DEF Moves, Drain
<1>13. ASSUME NEW p \in Processes, Exit(p) \/ \E torn \in BOOLEAN : Crash(p, torn) PROVE JobInv'
  <2>1. pc'[p] = "down" /\ job'[p] = NoJob /\ over' = over
    BY <1>d, <1>13 DEF Exit, Crash, Gone
  <2>2. OwnInv(p)'
    BY <2>1 DEF OwnInv, NoJob
  <2> QED BY <1>13, <1>o, <2>1, <2>2 DEF Moves, Stops
<1>14. ASSUME NEW p \in Processes, Reset(p) PROVE JobInv'
  <2>1. pc'[p] = "idle" /\ job'[p] = NoJob /\ over' = over
    BY <1>0, <1>14 DEF Reset, ResetRetries, procs, OwnInv
  <2>2. OwnInv(p)'
    BY <2>1 DEF OwnInv, NoJob
  <2> QED BY <1>14, <1>o, <2>1, <2>2 DEF Moves, Stops
<1>15. ASSUME NEW w \in 1..opened, WindowPasses(w) PROVE JobInv'
  BY <1>0, <1>15 DEF WindowPasses, WindowEnds, JobInv, OwnInv, procs
<1>16. CASE UNCHANGED vars
  BY <1>0, <1>16 DEF vars, queue, procs, JobInv, OwnInv
<1> QED
  BY <1>1, <1>2, <1>3, <1>4, <1>5, <1>6, <1>7, <1>8, <1>9, <1>10, <1>11, <1>12, <1>13, <1>14,
     <1>15, <1>16 DEF Next, Begins, Run, Ends, Drain, Stops

-----------------------------------------------------------------------------
(* The copies of a process that is alone are the stores themselves, while  *)
(* storage answers; for the retry file they are whatever fails.            *)

Alive(p) == pc[p] # "down"

Sound == ~lossy \/ backend = "json"
Exact == ~overlapped /\ Sound

CopyInv(p) ==
  /\ Orderly => icopy[p] = incidents
  /\ Exact => rcopy[p] = retries
  /\ Sound => attached[p] = Stores

AgreeInv ==
  /\ ~overlapped => \A p, q \in Processes : Alive(p) /\ Alive(q) => p = q
  /\ \A p \in Processes : Alive(p) => CopyInv(p)

\* A process that stands alone keeps every other one down.
LEMMA AgreeJoin ==
  ASSUME AgreeInv, TypeOK, NEW p \in Processes, Others(p), Alive(p),
         joins' = joins, backend' = backend, lossy => lossy',
         Alive(p)' => CopyInv(p)'
  PROVE  AgreeInv'
<1>1. ~overlapped' => \A q, r \in Processes : Alive(q)' /\ Alive(r)' => q = r
  BY DEF AgreeInv, Alive, Others, overlapped
<1>2. ASSUME NEW q \in Processes, q # p, Alive(q)' PROVE CopyInv(q)'
  <2>1. Alive(q) /\ icopy'[q] = icopy[q] /\ rcopy'[q] = rcopy[q] /\ attached'[q] = attached[q]
    BY <1>2 DEF Others, Alive
  <2>2. CopyInv(q)
    BY <2>1 DEF AgreeInv
  <2> QED
    BY <1>2, <2>1, <2>2 DEF AgreeInv, CopyInv, overlapped, Orderly, Exact, Sound
<1> QED BY <1>1, <1>2 DEF AgreeInv

\* While it counts, a write lands.
LEMMA WriteLands ==
  ASSUME NEW p, NEW which \in Stores, NEW lands, Writes(p, which, lands), CopyInv(p),
         backend' = backend, Sound'
  PROVE  Sound /\ lands /\ lossy' = lossy /\ faults' = faults
  BY DEF Writes, CopyInv, Sound

LEMMA RetryWritten ==
  ASSUME TypeOK, NEW p \in Processes, NEW s \in Signatures, NEW r,
         rcopy[p] = retries, SaveRetry(p, s, r, TRUE)
  PROVE  /\ retries'[s] = r
         /\ \A t \in Signatures : t # s => retries'[t] = retries[t]
         /\ rcopy'[p] = retries'
<1>1. rcopy' = [rcopy EXCEPT ![p] = [rcopy[p] EXCEPT ![s] = r]]
  BY DEF SaveRetry
<1>2. rcopy'[p] = [retries EXCEPT ![s] = r]
  BY <1>1, Domains
<1> QED BY <1>2 DEF SaveRetry, Written, TypeOK, RetryTypeOK

LEMMA IncidentWritten ==
  ASSUME TypeOK, NEW p \in Processes, NEW id \in Ids, NEW r,
         icopy[p] = incidents, SaveIncident(p, id, r, TRUE)
  PROVE  /\ incidents'[id] = r
         /\ \A k \in Ids : k # id => incidents'[k] = incidents[k]
         /\ icopy'[p] = incidents'
<1>1. icopy' = [icopy EXCEPT ![p] = [icopy[p] EXCEPT ![id] = r]]
  BY DEF SaveIncident
<1>2. icopy'[p] = [incidents EXCEPT ![id] = r]
  BY <1>1, Domains
<1> QED BY <1>2 DEF SaveIncident, Written, TypeOK, IncidentTypeOK

LEMMA AgreeStep == TypeInv /\ AgreeInv /\ [Next]_vars => AgreeInv'
<1> SUFFICES ASSUME TypeInv, AgreeInv, [Next]_vars PROVE AgreeInv'
  OBVIOUS
<1>0. TypeOK /\ BusyWithSig /\ \A p \in Processes : Alive(p) => CopyInv(p)
  BY DEF TypeInv, AgreeInv
<1>d. /\ DOMAIN pc = Processes /\ DOMAIN attached = Processes
      /\ DOMAIN icopy = Processes /\ DOMAIN rcopy = Processes
  BY <1>0, Domains
<1>o. ASSUME NEW p \in Processes, Moves(p), Alive(p), joins' = joins,
             backend' = backend, lossy => lossy', Alive(p)' => CopyInv(p)'
      PROVE  AgreeInv'
  BY <1>0, <1>o, OthersKeep, AgreeJoin
\* A step that reads at most the retry file.
<1>r. ASSUME NEW p \in Processes, Moves(p), pc[p] # "down", UNCHANGED store,
             UNCHANGED <<attached, lossy, joins, retries>>,
             rcopy'[p] \in {rcopy[p], Fresh(p)}
      PROVE  AgreeInv'
  <2>1. CopyInv(p)'
    BY <1>0, <1>r DEF Alive, CopyInv, overlapped, Orderly, Exact, Sound, Fresh, store
  <2> QED BY <1>o, <1>r, <2>1 DEF Alive, store
<1>1. ASSUME NEW p \in Processes, NEW loaded \in SUBSET Stores, NEW clients \in SUBSET Stores,
             Start(p, loaded, clients)
      PROVE  AgreeInv'
  <2>1. Others(p)
    BY <1>0, <1>1, OthersKeep DEF Moves, Begins
  <2>0. joins' = IF \A q \in Processes : pc[q] = "down" THEN joins ELSE joins + 1
    BY <1>1 DEF Start
  <2>a. overlapped' = (overlapped \/ \E q \in Processes \ {p} : pc[q] # "down")
    <3>1. joins \in Nat /\ pc[p] = "down"
      BY <1>0, <1>1 DEF Start, TypeOK
    <3> QED BY <2>0, <3>1 DEF overlapped
  <2>2. /\ UNCHANGED <<backend, incidents, retries>>
        /\ overlapped' = (overlapped \/ \E q \in Processes \ {p} : pc[q] # "down")
        /\ attached'[p] = clients /\ pc'[p] = "idle"
        /\ icopy'[p] = IF "incidents" \in loaded THEN incidents ELSE NoIncidents
        /\ rcopy'[p] = IF "retries" \in loaded THEN retries ELSE NoRetries
    BY <1>d, <1>1, <2>a DEF Start, LoadIncidents, LoadRetries
  <2>3. lossy => lossy'
    BY <1>1 DEF Start
  <2>4. Sound' => loaded = Stores /\ clients = Stores
    BY <1>1, <2>2 DEF Start, Sound
  <2>5. CopyInv(p)'
    BY <2>2, <2>4 DEF CopyInv, overlapped, Orderly, Exact, Sound, Stores
  <2>6. ~overlapped' => \A q \in Processes : Alive(q)' => q = p
    BY <2>1, <2>2 DEF Others, Alive
  <2>7. ASSUME NEW q \in Processes, q # p, Alive(q)' PROVE CopyInv(q)'
    <3>1. Alive(q) /\ attached'[q] = attached[q] /\ overlapped'
      BY <2>1, <2>6, <2>7 DEF Others, Alive
    <3> QED BY <1>0, <2>2, <2>3, <3>1 DEF CopyInv, overlapped, Orderly, Exact, Sound
  <2> QED BY <2>5, <2>6, <2>7 DEF AgreeInv
<1>2. ASSUME NEW p \in Processes, NEW s \in Signatures,
             NEW k \in {"none", "open", "announced"}, RunBegins(p, s, k)
      PROVE  AgreeInv'
  BY <1>2, <1>r DEF RunBegins, Moves, Begins, queue
<1>3. ASSUME NEW p \in Processes, DrainBegins(p) PROVE AgreeInv'
  <2>1. rcopy'[p] = Fresh(p)
    BY <1>d, <1>3 DEF DrainBegins, Reload
  <2> QED BY <1>3, <1>r, <2>1 DEF DrainBegins, Reload, Moves, Begins, hist
<1>4. ASSUME NEW p \in Processes, NEW ok \in BOOLEAN, RunRefreshes(p, ok) PROVE AgreeInv'
  <2>1. rcopy'[p] = Fresh(p)
    BY <1>d, <1>4 DEF RunRefreshes, Reload
  <2> QED BY <1>4, <1>r, <2>1 DEF RunRefreshes, Reload, Moves, Run
<1>5. ASSUME NEW p \in Processes, NEW s \in Signatures, NEW r, NEW lands \in BOOLEAN,
             Moves(p), pc[p] # "down", UNCHANGED <<store, attached, joins>>,
             Writes(p, "retries", lands), SaveRetry(p, s, r, lands)
      PROVE  AgreeInv'
  <2>0. overlapped' = overlapped /\ backend' = backend
    BY <1>5 DEF overlapped, store
  <2>1. Sound' => lands /\ lossy' = lossy
    BY <1>0, <1>5, WriteLands DEF Alive, Stores, store
  <2>2. lossy => lossy'
    BY <1>5 DEF Writes
  <2>3. Exact' => rcopy'[p] = retries'
    <3>1. SUFFICES ASSUME Exact' PROVE rcopy'[p] = retries'
      OBVIOUS
    <3>2. lands = TRUE /\ Exact
      BY <2>0, <2>1, <3>1 DEF Exact, Sound
    <3>3. rcopy[p] = retries
      BY <1>0, <1>5, <3>2 DEF Alive, CopyInv
    <3> QED BY <1>0, <1>5, <3>2, <3>3, RetryWritten
  <2>4. CopyInv(p)'
    BY <1>0, <1>5, <2>0, <2>1, <2>2, <2>3 DEF Alive, CopyInv, Orderly, Sound, store
  <2> QED BY <1>o, <1>5, <2>2, <2>4 DEF Alive, store
<1>6. ASSUME NEW p \in Processes, NEW id \in Ids, NEW r, NEW lands \in BOOLEAN,
             Moves(p), pc[p] # "down", UNCHANGED <<queue, attached, joins>>,
             Writes(p, "incidents", lands), SaveIncident(p, id, r, lands)
      PROVE  AgreeInv'
  <2>0. overlapped' = overlapped
    BY <1>6 DEF overlapped
  <2>1. Sound' => lands /\ lossy' = lossy
    BY <1>0, <1>6, WriteLands DEF Alive, Stores, SaveIncident
  <2>2. (lossy => lossy') /\ backend' = backend
    BY <1>6 DEF Writes, SaveIncident
  <2>3. Orderly' => icopy'[p] = incidents'
    <3>1. SUFFICES ASSUME Orderly' PROVE icopy'[p] = incidents'
      OBVIOUS
    <3>2. lands = TRUE /\ Orderly
      BY <2>0, <2>1, <2>2, <3>1 DEF Orderly, Sound
    <3>3. icopy[p] = incidents
      BY <1>0, <1>6, <3>2 DEF Alive, CopyInv
    <3> QED BY <1>0, <1>6, <3>2, <3>3, IncidentWritten
  <2>4. CopyInv(p)'
    BY <1>0, <1>6, <2>0, <2>1, <2>2, <2>3 DEF Alive, CopyInv, Exact, Sound, queue
  <2> QED BY <1>o, <1>6, <2>2, <2>4 DEF Alive
<1>7. ASSUME NEW p \in Processes, NEW lands \in BOOLEAN, RunDefers(p, lands) PROVE AgreeInv'
  BY <1>0, <1>5, <1>7 DEF RunDefers, Defer, Moves, Run, BusyWithSig
<1>8. ASSUME NEW p \in Processes, RunNotifies(p) PROVE AgreeInv'
  BY <1>8, <1>r DEF RunNotifies, Moves, Run, queue
<1>9. ASSUME NEW p \in Processes, NEW outcome \in Outcomes, NEW id \in Ids, NEW lands \in BOOLEAN,
             RunEnds(p, outcome, id, lands)
      PROVE  AgreeInv'
  BY <1>6, <1>9 DEF RunEnds, Moves, Ends
<1>10. ASSUME NEW p \in Processes, NEW s \in Signatures, NEW w \in 1..opened,
              NEW r \in {"ok", "throttled", "failed"}, DrainSends(p, s, w, r)
       PROVE  AgreeInv'
  BY <1>10, <1>r DEF DrainSends, Moves, Drain, queue
<1>11. ASSUME NEW p \in Processes, NEW lands \in BOOLEAN, DrainDefers(p, lands) PROVE AgreeInv'
  BY <1>0, <1>5, <1>11 DEF DrainDefers, Defer, Moves, Drain, BusyWithSig
<1>12. ASSUME NEW p \in Processes, NEW lands \in BOOLEAN, DrainCompletes(p, lands) PROVE AgreeInv'
  <2>0. /\ pc[p] = "settle" /\ job[p].sig \in Signatures /\ Moves(p)
        /\ UNCHANGED <<store, attached, joins>> /\ Writes(p, "retries", lands)
        /\ Complete(p, job[p].sig, lands)
    BY <1>0, <1>12 DEF DrainCompletes, Moves, Drain, BusyWithSig
  <2>1. CASE rcopy[p][job[p].sig].status # "none"
    BY <1>5, <2>0, <2>1 DEF Complete
  <2>2. CASE rcopy[p][job[p].sig].status = "none"
    <3>1. UNCHANGED <<retries, rcopy>>
      BY <2>0, <2>2 DEF Complete
    <3>2. (Sound' => Sound /\ lossy' = lossy) /\ (lossy => lossy')
      BY <1>0, <2>0, WriteLands DEF Writes, Alive, Stores, store
    <3>3. CopyInv(p)'
      BY <1>0, <2>0, <3>1, <3>2 DEF Alive, CopyInv, overlapped, Orderly, Exact, Sound, store
    <3> QED BY <1>o, <2>0, <3>2, <3>3 DEF Alive, store
  <2> QED BY <2>1, <2>2
<1>13. ASSUME NEW p \in Processes, NEW id \in Ids, NEW lands \in BOOLEAN, DrainCloses(p, id, lands)
       PROVE  AgreeInv'
  BY <1>6, <1>13 DEF DrainCloses, Moves, Drain
<1>14. ASSUME NEW p \in Processes, DrainFindsNothingOpen(p) PROVE AgreeInv'
  BY <1>14, <1>r DEF DrainFindsNothingOpen, Moves, Drain, queue, hist
<1>15. ASSUME NEW p \in Processes, Exit(p) \/ \E torn \in BOOLEAN : Crash(p, torn) PROVE AgreeInv'
  <2>1. Alive(p) /\ joins' = joins /\ backend' = backend /\ (lossy => lossy')
    <3>1. lossy => lossy'
      BY <1>15, Zenon DEF Exit, Crash
    <3> QED BY <1>15, <3>1 DEF Exit, Crash, Gone, Alive
  <2>2. ~Alive(p)'
    BY <1>d, <1>15 DEF Exit, Crash, Gone, Alive
  <2> QED BY <1>o, <1>15, <2>1, <2>2 DEF Moves, Stops
<1>16. ASSUME NEW p \in Processes, Reset(p) PROVE AgreeInv'
  <2>1. /\ icopy'[p] = incidents' /\ rcopy'[p] = retries' /\ attached'[p] = attached[p]
        /\ UNCHANGED <<lossy, joins, backend>> /\ Alive(p)
    BY <1>d, <1>16 DEF Reset, ResetIncidents, ResetRetries, procs, Alive
  <2>2. CopyInv(p)'
    BY <1>0, <2>1 DEF CopyInv, Sound
  <2> QED BY <1>o, <1>16, <2>1, <2>2 DEF Moves, Stops
<1>17. ASSUME NEW w \in 1..opened, WindowPasses(w) PROVE AgreeInv'
  BY <1>17 DEF WindowPasses, WindowEnds, AgreeInv, Alive, CopyInv, overlapped, Orderly, Exact, Sound, store,
               procs, hist
<1>18. CASE UNCHANGED vars
  BY <1>18 DEF vars, AgreeInv, Alive, CopyInv, overlapped, Orderly, Exact, Sound, store, queue, procs, hist
<1> QED
  BY <1>1, <1>2, <1>3, <1>4, <1>7, <1>8, <1>9, <1>10, <1>11, <1>12, <1>13, <1>14, <1>15, <1>16,
     <1>17, <1>18 DEF Next, Begins, Run, Ends, Drain, Stops

\* Processes that have overlapped have done so for good.
LEMMA JoinsGrow ==
  ASSUME TypeOK, [Next]_vars
  PROVE  joins \in Nat /\ joins' \in {joins, joins + 1} /\ (overlapped => overlapped')
<1>0. joins \in Nat
  BY DEF TypeOK
<1>1. ASSUME NEW p \in Processes, Begins(p) PROVE joins' \in {joins, joins + 1}
  <2>1. CASE \E loaded, clients \in SUBSET Stores : Start(p, loaded, clients)
    BY <2>1, Zenon DEF Start
  <2>2. CASE \E s \in Signatures, known \in {"none", "open", "announced"} : RunBegins(p, s, known)
    BY <2>2 DEF RunBegins
  <2>3. CASE DrainBegins(p)
    BY <2>3 DEF DrainBegins, hist
  <2> QED BY <1>1, <2>1, <2>2, <2>3 DEF Begins
<1>2. ASSUME NEW p \in Processes, Run(p) \/ Ends(p) \/ Drain(p) PROVE joins' = joins
  BY <1>2 DEF Run, RunRefreshes, RunDefers, RunNotifies, Ends, RunEnds, Drain, DrainSends,
              DrainDefers, DrainCompletes, DrainCloses, DrainFindsNothingOpen, hist
<1>3. ASSUME NEW p \in Processes, Stops(p) PROVE joins' = joins
  BY <1>3 DEF Stops, Exit, Crash, Reset, Gone
<1>4. ASSUME NEW w \in 1..opened, WindowPasses(w) PROVE joins' = joins
  BY <1>4 DEF WindowPasses, hist
<1>5. ASSUME UNCHANGED vars PROVE joins' = joins
  BY <1>5 DEF vars, hist
<1>6. joins' \in {joins, joins + 1}
  BY <1>1, <1>2, <1>3, <1>4, <1>5 DEF Next
<1> QED BY <1>0, <1>6 DEF overlapped

\* Nothing becomes orderly again.
LEMMA OrderlyBefore == TypeOK /\ [Next]_vars /\ Orderly' => Orderly
<1> SUFFICES ASSUME TypeOK, [Next]_vars PROVE Orderly' => Orderly
  OBVIOUS
<1>1. ASSUME NEW p \in Processes, Begins(p) PROVE lossy => lossy'
  <2>1. CASE \E loaded, clients \in SUBSET Stores : Start(p, loaded, clients)
    BY <2>1 DEF Start
  <2>2. CASE \E s \in Signatures, known \in {"none", "open", "announced"} : RunBegins(p, s, known)
    BY <2>2 DEF RunBegins
  <2>3. CASE DrainBegins(p)
    BY <2>3 DEF DrainBegins, hist
  <2> QED BY <1>1, <2>1, <2>2, <2>3 DEF Begins
<1>2. ASSUME NEW p \in Processes, Run(p) \/ Ends(p) \/ Drain(p) PROVE lossy => lossy'
  BY <1>2 DEF Run, RunRefreshes, RunDefers, RunNotifies, Ends, RunEnds, Drain, DrainSends,
              DrainDefers, DrainCompletes, DrainCloses, DrainFindsNothingOpen, Writes, hist
<1>3. ASSUME NEW p \in Processes, Stops(p) PROVE lossy => lossy'
  BY <1>3, Zenon DEF Stops, Exit, Crash, Reset
<1>4. ASSUME NEW w \in 1..opened, WindowPasses(w) PROVE lossy' = lossy
  BY <1>4 DEF WindowPasses, hist
<1>5. ASSUME UNCHANGED vars PROVE lossy' = lossy
  BY <1>5 DEF vars, hist
<1>6. lossy => lossy'
  BY <1>1, <1>2, <1>3, <1>4, <1>5 DEF Next
<1> QED BY <1>6, JoinsGrow DEF Orderly

\* Of a process at work in an orderly history: its copies are the stores, and its
\* writes land.
LEMMA OrderlyWork ==
  ASSUME AgreeInv, Orderly, NEW p \in Processes, pc[p] # "down"
  PROVE  icopy[p] = incidents /\ rcopy[p] = retries /\ attached[p] = Stores
  BY DEF AgreeInv, CopyInv, Alive, Orderly, Exact, Sound

LEMMA OrderlyWrite ==
  ASSUME NEW p, NEW which, NEW lands \in BOOLEAN, Writes(p, which, lands), Orderly'
  PROVE  lands = TRUE /\ faults' = faults
  BY DEF Writes, Orderly

-----------------------------------------------------------------------------
(* The incidents: each result is counted on one row.                       *)

LEMMA OccurrencesStep ==
  TypeInv /\ AgreeInv /\ OccurrencesAddUp /\ [Next]_vars => OccurrencesAddUp'
<1> SUFFICES ASSUME TypeInv, AgreeInv, OccurrencesAddUp, [Next]_vars, Orderly'
             PROVE  \A s \in Signatures :
                      incidents'[<<s, "sig">>].count + incidents'[<<s, "usig">>].count
                        = recorded'[s]
  BY DEF OccurrencesAddUp
<1>0. /\ TypeOK /\ BusyWithSig /\ Orderly
      /\ incidents \in [Ids -> IncidentRow] /\ recorded \in [Signatures -> Nat]
      /\ \A s \in Signatures :
           incidents[<<s, "sig">>].count + incidents[<<s, "usig">>].count = recorded[s]
  BY OrderlyBefore, TypeParts DEF TypeInv, IncidentTypeOK, OccurrencesAddUp
<1>i. \A s \in Signatures : <<s, "sig">> \in Ids /\ <<s, "usig">> \in Ids
  BY DEF Ids, Kinds
<1> DEFINE Sums == \A s \in Signatures :
             incidents'[<<s, "sig">>].count + incidents'[<<s, "usig">>].count = recorded'[s]
<1>q. ASSUME UNCHANGED <<incidents, recorded>> PROVE Sums
  BY <1>0, <1>q
<1>1. ASSUME NEW p \in Processes, NEW outcome \in Outcomes, NEW id \in Ids, NEW lands \in BOOLEAN,
             RunEnds(p, outcome, id, lands)
      PROVE  Sums
  <2>1. /\ icopy[p] = incidents /\ lands = TRUE /\ job[p].sig \in Signatures
        /\ id \in RowsFor(incidents, job[p].sig, outcome)
    BY <1>0, <1>1, OrderlyWork, OrderlyWrite DEF RunEnds, BusyWithSig
  <2>2. id = <<job[p].sig, "sig">> \/ id = <<job[p].sig, "usig">>
    BY <2>1 DEF RowsFor, FindOpen, Kinds, KindOf
  <2>3. /\ incidents'[id] = Occurred(incidents[id], outcome, job[p].told)
        /\ \A k \in Ids : k # id => incidents'[k] = incidents[k]
    <3>1. PICK r : r = Occurred(incidents[id], outcome, job[p].told)
      OBVIOUS
    <3>2. TypeOK /\ icopy[p] = incidents /\ SaveIncident(p, id, r, TRUE)
      BY <1>0, <1>1, <2>1, <3>1 DEF RunEnds
    <3>3. incidents'[id] = r /\ \A k \in Ids : k # id => incidents'[k] = incidents[k]
      BY <1>1, <3>2, IncidentWritten
    <3> QED BY <3>1, <3>3
  <2>4. /\ incidents'[id].count = incidents[id].count + 1
        /\ \A k \in Ids : k # id => incidents'[k] = incidents[k]
    BY <1>0, <2>3 DEF Occurred
  <2>5. recorded' = [recorded EXCEPT ![job[p].sig] = @ + 1]
    BY <1>1 DEF RunEnds
  <2>6. \A k \in Ids : incidents[k].count \in Nat
    BY <1>0 DEF IncidentRow
  <2>7. ASSUME NEW s \in Signatures
        PROVE  incidents'[<<s, "sig">>].count + incidents'[<<s, "usig">>].count = recorded'[s]
    <3>1. CASE s = job[p].sig
      BY <1>0, <1>i, <2>1, <2>2, <2>4, <2>5, <2>6, <3>1
    <3>2. CASE s # job[p].sig
      <4>1. <<s, "sig">> # id /\ <<s, "usig">> # id
        BY <2>2, <3>2
      <4> QED BY <1>0, <1>i, <2>1, <2>4, <2>5, <3>2, <4>1
    <3> QED BY <3>1, <3>2
  <2> QED BY <2>7
<1>2. ASSUME NEW p \in Processes, NEW id \in Ids, NEW lands \in BOOLEAN, DrainCloses(p, id, lands)
      PROVE  Sums
  <2>1. icopy[p] = incidents /\ lands = TRUE
    BY <1>0, <1>2, OrderlyWork, OrderlyWrite DEF DrainCloses
  <2>2. /\ incidents'[id] = Marked(incidents[id])
        /\ \A k \in Ids : k # id => incidents'[k] = incidents[k]
        /\ recorded' = recorded
    <3>1. PICK r : r = Marked(incidents[id])
      OBVIOUS
    <3>2. TypeOK /\ icopy[p] = incidents /\ SaveIncident(p, id, r, TRUE)
      BY <1>0, <1>2, <2>1, <3>1 DEF DrainCloses
    <3>3. incidents'[id] = r /\ \A k \in Ids : k # id => incidents'[k] = incidents[k]
      BY <1>2, <3>2, IncidentWritten
    <3> QED BY <1>2, <3>1, <3>3 DEF DrainCloses
  <2>3. \A k \in Ids : incidents'[k].count = incidents[k].count
    BY <1>0, <2>2 DEF Marked, IncidentRow
  <2> QED BY <1>0, <1>i, <2>2, <2>3
<1>3. ASSUME NEW p \in Processes, Reset(p) PROVE Sums
  <2>1. \A k \in Ids : incidents'[k].count = 0
    BY <1>3 DEF Reset, ResetIncidents, NoIncidents, Absent
  <2>2. \A s \in Signatures : recorded'[s] = 0
    BY <1>3 DEF Reset
  <2>3. ASSUME NEW s \in Signatures
        PROVE  incidents'[<<s, "sig">>].count = 0 /\ incidents'[<<s, "usig">>].count = 0
    BY <1>i, <2>1
  <2>4. ASSUME NEW s \in Signatures
        PROVE  incidents'[<<s, "sig">>].count + incidents'[<<s, "usig">>].count = recorded'[s]
    BY <2>2, <2>3
  <2> QED BY <2>4
<1>4. ASSUME NEW p \in Processes, Begins(p) \/ Run(p) \/ Exit(p) \/ \E torn \in BOOLEAN : Crash(p, torn)
      PROVE  Sums
  BY <1>4, <1>q
     DEF Begins, Start, LoadIncidents, RunBegins, DrainBegins, Run, RunRefreshes, RunDefers, RunNotifies,
         Exit, Crash, Gone, store, hist
<1>5. ASSUME NEW p \in Processes,
             \/ \E s \in Signatures, w \in 1..opened, r \in {"ok", "throttled", "failed"} :
                  DrainSends(p, s, w, r)
             \/ \E lands \in BOOLEAN : DrainDefers(p, lands) \/ DrainCompletes(p, lands)
             \/ DrainFindsNothingOpen(p)
      PROVE  Sums
  BY <1>5, <1>q DEF DrainSends, DrainDefers, DrainCompletes, DrainFindsNothingOpen, store, hist
<1>6. ASSUME NEW w \in 1..opened, WindowPasses(w) PROVE Sums
  BY <1>6, <1>q DEF WindowPasses, store, hist
<1>7. ASSUME UNCHANGED vars PROVE Sums
  BY <1>7, <1>q DEF vars, store, hist
<1> HIDE DEF Sums
<1>8. ASSUME NEW p \in Processes, Ends(p) \/ Drain(p) \/ Stops(p) PROVE Sums
  BY <1>8, <1>1, <1>2, <1>3, <1>4, <1>5 DEF Ends, Drain, Stops
<1>9. Sums
  BY <1>4, <1>6, <1>7, <1>8 DEF Next
<1> QED BY <1>9 DEF Sums

-----------------------------------------------------------------------------
(* The retries: the row counts the deferrals, and stays pending while its   *)
(* retry is owed.  What is being settled is owed no more.                  *)

RowLedger(s) ==
  /\ retries[s].attempts = scheduled[s]
  /\ scheduled[s] <= MaxAttempts
  /\ owed[s] => retries[s].status = "pending"

RetryLedger ==
  Orderly => /\ \A s \in Signatures : RowLedger(s)
             /\ \A p \in Processes : pc[p] = "settle" => ~owed[job[p].sig]

\* A deferral in an orderly history, of a run or of a drain.
LEMMA DeferLedger ==
  ASSUME TypeOK, NEW p \in Processes, NEW s \in Signatures, rcopy[p] = retries,
         Defer(p, s, TRUE), Scheduling(p, s), \A t \in Signatures : RowLedger(t)
  PROVE  /\ \A t \in Signatures : RowLedger(t)'
         /\ \A t \in Signatures : t # s => owed'[t] = owed[t]
<1> DEFINE r == Deferred(retries[s], opened + 1)
<1>0. /\ scheduled \in [Signatures -> Nat] /\ owed \in [Signatures -> BOOLEAN]
      /\ retries \in [Signatures -> RetryRow] /\ opened \in Nat
  BY DEF TypeOK, RetryTypeOK
<1>1. /\ SaveRetry(p, s, r, TRUE)
      /\ scheduled' = [scheduled EXCEPT ![s] = IF r.status = "pending" THEN @ + 1 ELSE @]
      /\ owed' = [owed EXCEPT ![s] = (r.status = "pending")]
  BY DEF Defer, Scheduling
<1>2. r.attempts = IF r.status = "pending" THEN retries[s].attempts + 1 ELSE retries[s].attempts
  BY <1>0 DEF Deferred, RetryRow
<1>3. r.status = "pending" => retries[s].attempts + 1 <= MaxAttempts
  BY <1>0, RetryAssumption DEF Deferred, RetryRow
<1>4. PICK row : row = r
  OBVIOUS
<1> HIDE DEF r
<1>5. /\ retries'[s] = row
      /\ \A t \in Signatures : t # s => retries'[t] = retries[t]
  BY <1>1, <1>4, RetryWritten
<1>6. owed'[s] = (row.status = "pending") /\ \A t \in Signatures : t # s => owed'[t] = owed[t]
  BY <1>0, <1>1, <1>4, Zenon
<1>7. /\ scheduled'[s] = IF row.status = "pending" THEN scheduled[s] + 1 ELSE scheduled[s]
      /\ \A t \in Signatures : t # s => scheduled'[t] = scheduled[t]
  BY <1>0, <1>1, <1>4
<1>8. RowLedger(s)'
  BY <1>0, <1>2, <1>3, <1>4, <1>5, <1>6, <1>7 DEF RowLedger
<1>9. ASSUME NEW t \in Signatures, t # s PROVE RowLedger(t)'
  BY <1>5, <1>6, <1>7, <1>9 DEF RowLedger
<1> QED BY <1>6, <1>8, <1>9

LEMMA RetryLedgerStep ==
  TypeInv /\ AgreeInv /\ RetryLedger /\ [Next]_vars => RetryLedger'
<1> SUFFICES ASSUME TypeInv, AgreeInv, RetryLedger, [Next]_vars, Orderly'
             PROVE  /\ \A s \in Signatures : RowLedger(s)'
                    /\ \A p \in Processes : pc'[p] = "settle" => ~owed'[job'[p].sig]
  BY DEF RetryLedger
<1> DEFINE Kept == /\ \A s \in Signatures : RowLedger(s)'
                   /\ \A p \in Processes : pc'[p] = "settle" => ~owed'[job'[p].sig]
<1>0. /\ TypeOK /\ BusyWithSig /\ Orderly
      /\ \A s \in Signatures : RowLedger(s)
      /\ \A p \in Processes : pc[p] = "settle" => ~owed[job[p].sig]
  BY OrderlyBefore DEF TypeInv, RetryLedger
<1>d. /\ DOMAIN pc = Processes /\ DOMAIN job = Processes
      /\ scheduled \in [Signatures -> Nat] /\ owed \in [Signatures -> BOOLEAN]
      /\ retries \in [Signatures -> RetryRow]
      /\ \A p \in Processes : job[p] \in JobUpTo(opened)
  BY <1>0, Domains, TypeParts DEF TypeOK, RetryTypeOK
\* While one process moves the others are down.
<1>a. ASSUME NEW p \in Processes, Moves(p), pc[p] # "down", \A s \in Signatures : RowLedger(s)',
             pc'[p] = "settle" => ~owed'[job'[p].sig]
      PROVE  Kept
  <2>1. ASSUME NEW q \in Processes, q # p PROVE pc'[q] = "down"
    BY <1>0, <1>a, <2>1, OthersKeep DEF AgreeInv, Alive, Others, Orderly
  <2> QED BY <1>a, <2>1
<1>q. ASSUME NEW p \in Processes, Moves(p), UNCHANGED <<retries, scheduled, owed>>,
             pc'[p] # "settle"
      PROVE  Kept
  <2>1. \A s \in Signatures : RowLedger(s)'
    BY <1>0, <1>q DEF RowLedger
  <2>2. ASSUME NEW q \in Processes, q # p, pc'[q] = "settle" PROVE ~owed'[job'[q].sig]
    BY <1>0, <1>q, <2>2, OthersKeep DEF Others
  <2> QED BY <1>q, <2>1, <2>2
<1>1. ASSUME NEW p \in Processes, Begins(p) PROVE Kept
  <2>1. UNCHANGED <<retries, scheduled, owed>> /\ pc'[p] # "settle"
    BY <1>d, <1>1 DEF Begins, Start, LoadRetries, RunBegins, DrainBegins, Reload, queue, hist
  <2> QED BY <1>1, <1>q, <2>1 DEF Moves
<1>2. ASSUME NEW p \in Processes, NEW ok \in BOOLEAN, RunRefreshes(p, ok) PROVE Kept
  BY <1>2, <1>q DEF RunRefreshes, Reload, Moves, Run
<1>3. ASSUME NEW p \in Processes, RunNotifies(p) PROVE Kept
  BY <1>3, <1>q DEF RunNotifies, Moves, Run, queue
<1>4. ASSUME NEW p \in Processes, NEW lands \in BOOLEAN, RunDefers(p, lands) PROVE Kept
  <2>1. lands = TRUE /\ rcopy[p] = retries /\ job[p].sig \in Signatures
    BY <1>0, <1>4, OrderlyWork, OrderlyWrite DEF RunDefers, BusyWithSig
  <2>2. PICK s \in Signatures : s = job[p].sig
    BY <2>1
  <2>3. Defer(p, s, TRUE) /\ Scheduling(p, s) /\ pc'[p] = "run"
    BY <1>4, <2>1, <2>2 DEF RunDefers
  <2>4. \A t \in Signatures : RowLedger(t)'
    BY <1>0, <2>1, <2>3, DeferLedger
  <2> QED BY <1>4, <1>a, <2>3, <2>4 DEF RunDefers, Moves, Run
<1>5. ASSUME NEW p \in Processes, Ends(p) PROVE Kept
  <2>1. UNCHANGED <<retries, scheduled, owed>> /\ pc'[p] # "settle"
    BY <1>d, <1>5 DEF Ends, RunEnds, queue
  <2> QED BY <1>5, <1>q, <2>1 DEF Moves
<1>6. ASSUME NEW p \in Processes, NEW s \in Signatures, NEW w \in 1..opened,
             NEW r \in {"ok", "throttled", "failed"}, DrainSends(p, s, w, r)
      PROVE  Kept
  <2>1. retries' = retries /\ scheduled' = scheduled /\ job'[p].sig = s /\ pc[p] # "down"
    BY <1>d, <1>6 DEF DrainSends, queue, JobUpTo
  <2>2. ~owed'[s] /\ \A t \in Signatures : owed'[t] => owed[t]
    <3>1. owed' = [owed EXCEPT ![s] = FALSE]
      BY <1>6 DEF DrainSends
    <3> QED BY <1>d, <1>6, <3>1, Zenon
  <2>3. \A t \in Signatures : RowLedger(t)'
    BY <1>0, <2>1, <2>2 DEF RowLedger
  <2> QED BY <1>6, <1>a, <2>1, <2>2, <2>3 DEF Moves, Drain
<1>7. ASSUME NEW p \in Processes, NEW lands \in BOOLEAN, DrainDefers(p, lands) PROVE Kept
  <2>1. lands = TRUE /\ rcopy[p] = retries /\ job[p].sig \in Signatures
    BY <1>0, <1>7, OrderlyWork, OrderlyWrite DEF DrainDefers, BusyWithSig
  <2>2. PICK s \in Signatures : s = job[p].sig
    BY <2>1
  <2>3. Defer(p, s, TRUE) /\ Scheduling(p, s) /\ pc'[p] # "settle"
    BY <1>d, <1>7, <2>1, <2>2 DEF DrainDefers, NextRow
  <2>4. \A t \in Signatures : RowLedger(t)'
    BY <1>0, <2>1, <2>3, DeferLedger
  <2> QED BY <1>7, <1>a, <2>3, <2>4 DEF DrainDefers, Moves, Drain
<1>8. ASSUME NEW p \in Processes, NEW lands \in BOOLEAN, DrainCompletes(p, lands) PROVE Kept
  <2>1. /\ lands = TRUE /\ rcopy[p] = retries /\ job[p].sig \in Signatures /\ ~owed[job[p].sig]
        /\ pc[p] = "settle"
    BY <1>0, <1>8, OrderlyWork, OrderlyWrite DEF DrainCompletes, BusyWithSig
  <2>2. PICK s \in Signatures : s = job[p].sig
    BY <2>1
  <2>3. pc'[p] # "settle" /\ scheduled' = scheduled /\ owed' = owed /\ Complete(p, s, TRUE)
    BY <1>d, <1>8, <2>1, <2>2 DEF DrainCompletes, NextRow
  <2>4. /\ retries'[s].attempts = retries[s].attempts
        /\ \A t \in Signatures : t # s => retries'[t] = retries[t]
    <3>1. CASE rcopy[p][s].status = "none"
      BY <2>3, <3>1 DEF Complete
    <3>2. CASE rcopy[p][s].status # "none"
      <4>1. PICK row : row = Completed(retries[s])
        OBVIOUS
      <4>2. SaveRetry(p, s, row, TRUE)
        BY <2>1, <2>3, <3>2, <4>1 DEF Complete
      <4>3. retries'[s] = row /\ \A t \in Signatures : t # s => retries'[t] = retries[t]
        BY <1>0, <2>1, <4>2, RetryWritten
      <4>4. row.attempts = retries[s].attempts
        BY <1>d, <4>1 DEF Completed, RetryRow
      <4> QED BY <4>3, <4>4
    <3> QED BY <3>1, <3>2
  <2>5. \A t \in Signatures : RowLedger(t)'
    BY <1>0, <2>1, <2>2, <2>3, <2>4 DEF RowLedger
  <2> QED BY <1>8, <1>a, <2>1, <2>3, <2>5 DEF Moves, Drain
<1>9. ASSUME NEW p \in Processes,
             \/ \E id \in Ids, lands \in BOOLEAN : DrainCloses(p, id, lands)
             \/ DrainFindsNothingOpen(p)
      PROVE  Kept
  <2>1. UNCHANGED <<retries, scheduled, owed>> /\ pc'[p] # "settle"
    BY <1>d, <1>9 DEF DrainCloses, DrainFindsNothingOpen, NextRow, queue, hist
  <2> QED BY <1>9, <1>q, <2>1 DEF Moves, Drain
<1>10. ASSUME NEW p \in Processes, Exit(p) \/ \E torn \in BOOLEAN : Crash(p, torn) PROVE Kept
  <2>1. retries' = retries
    BY <1>10 DEF Exit, Crash, Orderly
  <2>2. UNCHANGED <<scheduled, owed>> /\ pc'[p] # "settle"
    BY <1>d, <1>10 DEF Exit, Crash, Gone
  <2> QED BY <1>10, <1>q, <2>1, <2>2 DEF Moves, Stops
<1>11. ASSUME NEW p \in Processes, Reset(p) PROVE Kept
  <2>1. /\ \A s \in Signatures : retries'[s].attempts = 0 /\ scheduled'[s] = 0 /\ ~owed'[s]
        /\ pc'[p] = "idle" /\ pc[p] # "down"
    BY <1>11 DEF Reset, ResetRetries, NoRetries, NoRow, procs
  <2>2. \A s \in Signatures : RowLedger(s)'
    BY <2>1, RetryAssumption DEF RowLedger
  <2> QED BY <1>11, <1>a, <2>1, <2>2 DEF Moves, Stops
<1>12. ASSUME NEW w \in 1..opened, WindowPasses(w) PROVE Kept
  BY <1>0, <1>12 DEF WindowPasses, WindowEnds, RowLedger, procs, hist
<1>13. ASSUME UNCHANGED vars PROVE Kept
  BY <1>0, <1>13 DEF vars, queue, RowLedger, procs, hist
<1> HIDE DEF Kept
<1>14. ASSUME NEW p \in Processes, Run(p) \/ Drain(p) \/ Stops(p) PROVE Kept
  BY <1>14, <1>2, <1>3, <1>4, <1>6, <1>7, <1>8, <1>9, <1>10, <1>11 DEF Run, Drain, Stops
<1>15. Kept
  BY <1>1, <1>5, <1>12, <1>13, <1>14 DEF Next
<1> QED BY <1>15 DEF Kept

-----------------------------------------------------------------------------
(* Refreshes keep out of the windows.                                      *)

LEMMA RefreshStep ==
  ASSUME TypeInv, JobInv, AgreeInv, [Next]_vars, Orderly,
         NEW p \in Processes, Refreshes(p)
  PROVE  ~IsDeferred(retries[job'[p].sig])
<1>0. /\ TypeOK /\ DOMAIN pc = Processes /\ DOMAIN job = Processes
      /\ \A q \in Processes : job[q] \in JobUpTo(opened)
  BY Domains, TypeParts DEF TypeInv
\* The job of p is rewritten by p alone, and only these two steps refresh.
<1>n. ASSUME job'[p].refreshed = job[p].refreshed \/ job'[p].refreshed = FALSE,
             pc'[p] # "settle" \/ pc[p] # "drain"
      PROVE  FALSE
  BY <1>n DEF Refreshes
<1>1. ASSUME NEW q \in Processes, q # p, Moves(q) PROVE FALSE
  BY <1>0, <1>1, <1>n, OthersKeep DEF Others
<1>2. ASSUME Begins(p) PROVE FALSE
  <2>1. CASE \E loaded, clients \in SUBSET Stores : Start(p, loaded, clients)
    BY <1>n, <2>1 DEF Start
  <2>2. ASSUME NEW s \in Signatures, NEW k \in {"none", "open", "announced"}, RunBegins(p, s, k)
        PROVE  FALSE
    <3>1. job'[p] = [NoJob EXCEPT !.sig = s, !.known = k] /\ pc[p] # "drain"
      BY <1>0, <2>2 DEF RunBegins
    <3>2. job'[p].refreshed = FALSE
      BY <3>1 DEF NoJob
    <3> QED BY <1>n, <3>1, <3>2
  <2>3. CASE DrainBegins(p)
    <3>1. job'[p] = [job[p] EXCEPT !.due = {<<s, Fresh(p)[s].window>> : s \in DueRows(p)}]
      BY <1>0, <2>3 DEF DrainBegins
    <3>2. job'[p].refreshed = job[p].refreshed
      BY <1>0, <3>1 DEF JobUpTo
    <3> QED BY <1>n, <2>3, <3>2 DEF DrainBegins
  <2> QED BY <1>2, <2>1, <2>2, <2>3 DEF Begins
<1>3. ASSUME NEW ok \in BOOLEAN, RunRefreshes(p, ok) PROVE ~IsDeferred(retries[job'[p].sig])
  <2>1. rcopy[p] = retries
    BY <1>3, OrderlyWork DEF RunRefreshes
  <2>2. CASE IsDeferred(Fresh(p)[job[p].sig])
    BY <1>3, <1>n, <2>2 DEF RunRefreshes
  <2>3. CASE ~IsDeferred(Fresh(p)[job[p].sig])
    <3>1. job'[p].sig = job[p].sig
      BY <1>0, <1>3 DEF RunRefreshes, JobUpTo
    <3> QED BY <2>1, <2>3, <3>1 DEF Fresh
  <2> QED BY <2>2, <2>3
<1>4. ASSUME \/ \E lands \in BOOLEAN : RunDefers(p, lands)
             \/ RunNotifies(p)
      PROVE  FALSE
  BY <1>0, <1>4, <1>n DEF RunDefers, RunNotifies, JobUpTo
<1>5. ASSUME Ends(p) PROVE FALSE
  BY <1>0, <1>5, <1>n DEF Ends, RunEnds, NoJob
<1>6. ASSUME NEW s \in Signatures, NEW w \in 1..opened, NEW r \in {"ok", "throttled", "failed"},
             DrainSends(p, s, w, r)
      PROVE  ~IsDeferred(retries[job'[p].sig])
  <2>1. job'[p].sig = s
    BY <1>0, <1>6 DEF DrainSends, JobUpTo
  <2>2. w \in over /\ Pending(rcopy[p][s], w)
    <3>1. OwnInv(p) /\ <<s, w>> \in job[p].due /\ w \in Nat
      BY <1>0, <1>6, TypeParts DEF JobInv, DrainSends, RetryTypeOK
    <3> QED BY <1>6, <3>1 DEF OwnInv
  <2>3. rcopy[p] = retries
    BY <1>6, OrderlyWork DEF DrainSends
  <2> QED BY <2>1, <2>2, <2>3 DEF Pending, IsDeferred
<1>7. ASSUME \/ \E lands \in BOOLEAN : DrainDefers(p, lands) \/ DrainCompletes(p, lands)
             \/ \E id \in Ids, lands \in BOOLEAN : DrainCloses(p, id, lands)
             \/ DrainFindsNothingOpen(p)
      PROVE  FALSE
  <2>1. NextRow(p) => job'[p].refreshed = FALSE
    BY <1>0 DEF NextRow, NoJob
  <2> QED
    BY <1>7, <1>n, <2>1 DEF DrainDefers, DrainCompletes, DrainCloses, DrainFindsNothingOpen
<1>8. ASSUME Stops(p) PROVE FALSE
  <2>1. ASSUME Gone(p) PROVE FALSE
    <3>1. job'[p] = NoJob /\ pc'[p] = "down"
      BY <1>0, <2>1 DEF Gone
    <3> QED BY <1>n, <3>1 DEF NoJob
  <2>2. ASSUME Reset(p) PROVE FALSE
    BY <1>n, <2>2 DEF Reset, procs
  <2> QED BY <1>8, <2>1, <2>2 DEF Stops, Exit, Crash
<1>9. ASSUME NEW w \in 1..opened, WindowPasses(w) PROVE FALSE
  BY <1>9, <1>n DEF WindowPasses, procs
<1>10. ASSUME UNCHANGED vars PROVE FALSE
  BY <1>10, <1>n DEF vars, procs
<1>11. ASSUME Moves(p) PROVE ~IsDeferred(retries[job'[p].sig])
  BY <1>11, <1>2, <1>3, <1>4, <1>5, <1>6, <1>7, <1>8 DEF Moves, Run, Drain
<1>12. (\E q \in Processes : Moves(q)) \/ (\E w \in 1..opened : WindowPasses(w)) \/ UNCHANGED vars
  BY DEF Next, Moves
<1> QED BY <1>1, <1>9, <1>10, <1>11, <1>12

-----------------------------------------------------------------------------
(* A repair closes what it is about, unless a drain is about to.           *)

Closing(s) == \E p \in Processes : pc[p] = "close" /\ job[p].sig = s

Single(s) == \E id \in {s} \X Kinds : incidents[id] = Absent

RepairInv ==
  (Orderly /\ faults = 0) =>
    \A s \in Signatures :
      (fixed[s] # "nothing" /\ ~Closing(s) /\ Single(s)) => FindOpen(incidents, s) = {}

\* Another row of the signature is the absent one, so closing this one closes all.
LEMMA OneRowLeft ==
  ASSUME NEW rows, NEW s \in Signatures, NEW id \in {s} \X Kinds, rows[id].status = "resolved",
         \E k \in {s} \X Kinds : rows[k] = Absent
  PROVE  FindOpen(rows, s) = {}
<1>1. PICK k \in {s} \X Kinds : rows[k] = Absent
  OBVIOUS
<1>2. rows[k].status = "absent" /\ k # id
  BY <1>1 DEF Absent
<1>3. \A j \in {s} \X Kinds : j = id \/ j = k
  BY <1>2 DEF Kinds
<1> QED BY <1>2, <1>3 DEF FindOpen

LEMMA FaultsGrow ==
  ASSUME TypeOK, [Next]_vars
  PROVE  faults \in Nat /\ faults' \in {faults, faults + 1}
<1>0. faults \in Nat
  BY TypeParts
<1>1. ASSUME NEW p \in Processes, Moves(p) PROVE faults' \in {faults, faults + 1}
  <2>1. CASE Begins(p)
    BY <2>1 DEF Begins, Start, RunBegins, DrainBegins, hist
  <2>2. CASE Run(p) \/ Ends(p)
    BY <2>2 DEF Run, RunRefreshes, RunDefers, RunNotifies, Ends, RunEnds, Writes
  <2>3. CASE Drain(p)
    BY <2>3 DEF Drain, DrainSends, DrainDefers, DrainCompletes, DrainCloses,
                DrainFindsNothingOpen, Writes, hist
  <2>4. CASE Stops(p)
    BY <2>4 DEF Stops, Exit, Crash, Reset
  <2> QED BY <1>1, <2>1, <2>2, <2>3, <2>4 DEF Moves
<1>2. ASSUME NEW w \in 1..opened, WindowPasses(w) PROVE faults' = faults
  BY <1>2 DEF WindowPasses, hist
<1>3. CASE UNCHANGED vars
  BY <1>0, <1>3 DEF vars, hist
<1> QED BY <1>0, <1>1, <1>2, <1>3 DEF Next, Moves

LEMMA RepairStep ==
  TypeInv /\ AgreeInv /\ RepairInv /\ [Next]_vars => RepairInv'
<1> DEFINE Closed(s) == (fixed'[s] # "nothing" /\ ~Closing(s)' /\ Single(s)')
                           => FindOpen(incidents', s) = {}
           Before(s) == (fixed[s] # "nothing" /\ ~Closing(s) /\ Single(s))
                           => FindOpen(incidents, s) = {}
<1> SUFFICES ASSUME TypeInv, AgreeInv, RepairInv, [Next]_vars, Orderly', faults' = 0
             PROVE  \A s \in Signatures : Closed(s)
  BY DEF RepairInv
<1>0. /\ TypeOK /\ BusyWithSig /\ Orderly /\ faults = 0
      /\ \A s \in Signatures : Before(s)
  BY OrderlyBefore, FaultsGrow DEF TypeInv, RepairInv
<1>d. /\ DOMAIN pc = Processes /\ DOMAIN job = Processes
      /\ incidents \in [Ids -> IncidentRow]
      /\ fixed \in [Signatures -> {"run", "drain", "nothing"}]
      /\ \A s \in Signatures : {s} \X Kinds \subseteq Ids
  BY <1>0, Domains, TypeParts DEF IncidentTypeOK, Ids
\* A signature the step is not about.
<1>k. ASSUME NEW s \in Signatures, fixed'[s] = fixed[s], Closing(s) => Closing(s)',
             \A id \in {s} \X Kinds : incidents'[id] = incidents[id]
      PROVE  Closed(s)
  BY <1>0, <1>k DEF Single, FindOpen
<1>c. ASSUME NEW p \in Processes, Moves(p), NEW s \in Signatures, pc[p] # "close" \/ job[p].sig # s
      PROVE  Closing(s) => Closing(s)'
  BY <1>0, <1>c, OthersKeep DEF Others, Closing
<1>q. ASSUME NEW p \in Processes, Moves(p), pc[p] # "close", UNCHANGED <<incidents, fixed>>
      PROVE  \A s \in Signatures : Closed(s)
  <2>1. ASSUME NEW s \in Signatures PROVE Closing(s) => Closing(s)'
    BY <1>c, <1>q
  <2> HIDE DEF Closed
  <2> QED BY <1>k, <1>q, <2>1
<1>1. ASSUME NEW p \in Processes, Begins(p) PROVE \A s \in Signatures : Closed(s)
  <2>1. pc[p] # "close" /\ UNCHANGED <<incidents, fixed>>
    BY <1>1 DEF Begins, Start, LoadIncidents, RunBegins, DrainBegins, store, hist
  <2> HIDE DEF Closed
  <2> QED BY <1>1, <1>q, <2>1 DEF Moves
<1>2. ASSUME NEW p \in Processes, Run(p) PROVE \A s \in Signatures : Closed(s)
  <2>1. pc[p] # "close" /\ UNCHANGED <<incidents, fixed>>
    BY <1>2 DEF Run, RunRefreshes, RunDefers, RunNotifies, store
  <2> HIDE DEF Closed
  <2> QED BY <1>2, <1>q, <2>1 DEF Moves
<1>3. ASSUME NEW p \in Processes, NEW outcome \in Outcomes, NEW id \in Ids, NEW lands \in BOOLEAN,
             RunEnds(p, outcome, id, lands)
      PROVE  \A s \in Signatures : Closed(s)
  <2>1. /\ icopy[p] = incidents /\ lands = TRUE /\ job[p].sig \in Signatures
        /\ id \in RowsFor(incidents, job[p].sig, outcome) /\ pc[p] = "run"
    BY <1>0, <1>3, OrderlyWork, OrderlyWrite DEF RunEnds, BusyWithSig
  <2>2. id \in {job[p].sig} \X Kinds
    BY <2>1 DEF RowsFor, FindOpen, Kinds, KindOf
  <2>3. /\ incidents'[id] = Occurred(incidents[id], outcome, job[p].told)
        /\ \A k \in Ids : k # id => incidents'[k] = incidents[k]
    <3>1. PICK r : r = Occurred(incidents[id], outcome, job[p].told)
      OBVIOUS
    <3>2. SaveIncident(p, id, r, TRUE)
      BY <1>3, <2>1, <3>1 DEF RunEnds
    <3>3. incidents'[id] = r /\ \A k \in Ids : k # id => incidents'[k] = incidents[k]
      BY <1>0, <1>3, <2>1, <3>2, IncidentWritten
    <3> QED BY <3>1, <3>3
  <2>4. fixed' = [fixed EXCEPT ![job[p].sig] = IF outcome = "resolved" THEN "run" ELSE "nothing"]
    BY <1>3 DEF RunEnds
  <2>5. ASSUME NEW s \in Signatures, s = job[p].sig PROVE Closed(s)
    <3>1. CASE outcome = "resolved"
      <4>1. incidents'[id].status = "resolved"
        BY <2>3, <3>1 DEF Occurred, StatusFor
      <4> QED BY <2>2, <2>5, <4>1, OneRowLeft DEF Single
    <3>2. CASE outcome # "resolved"
      BY <1>d, <2>1, <2>4, <2>5, <3>2
    <3> QED BY <3>1, <3>2
  <2>6. ASSUME NEW s \in Signatures, s # job[p].sig PROVE Closed(s)
    <3>1. fixed'[s] = fixed[s] /\ (\A k \in {s} \X Kinds : incidents'[k] = incidents[k])
      BY <1>d, <2>2, <2>3, <2>4, <2>6
    <3>2. Closing(s) => Closing(s)'
      BY <1>3, <1>c, <2>1 DEF Moves, Ends
    <3> HIDE DEF Closed
    <3> QED BY <1>k, <3>1, <3>2
  <2> HIDE DEF Closed
  <2> QED BY <2>5, <2>6
<1>4. ASSUME NEW p \in Processes,
             \/ \E s \in Signatures, w \in 1..opened, r \in {"ok", "throttled", "failed"} :
                  DrainSends(p, s, w, r)
             \/ \E lands \in BOOLEAN : DrainDefers(p, lands)
      PROVE  \A s \in Signatures : Closed(s)
  <2>1. pc[p] # "close" /\ UNCHANGED <<incidents, fixed>>
    BY <1>4 DEF DrainSends, DrainDefers, store
  <2> HIDE DEF Closed
  <2> QED BY <1>4, <1>q, <2>1 DEF Moves, Drain
<1>5. ASSUME NEW p \in Processes, NEW lands \in BOOLEAN, DrainCompletes(p, lands)
      PROVE  \A s \in Signatures : Closed(s)
  <2>1. pc[p] = "settle" /\ incidents' = incidents /\ Moves(p)
    BY <1>5 DEF DrainCompletes, store, Moves, Drain
  <2>2. CASE job[p].result # "ok"
    <3>1. fixed' = fixed
      BY <1>5, <2>2 DEF DrainCompletes
    <3> HIDE DEF Closed
    <3> QED BY <1>5, <1>q, <2>1, <3>1
  <2>3. CASE job[p].result = "ok"
    <3>1. /\ pc'[p] = "close" /\ job' = job
          /\ fixed' = [fixed EXCEPT ![job[p].sig] = "drain"]
      BY <1>d, <1>5, <2>3 DEF DrainCompletes
    <3>2. ASSUME NEW s \in Signatures, s = job[p].sig PROVE Closed(s)
      BY <3>1, <3>2 DEF Closing
    <3>3. ASSUME NEW s \in Signatures, s # job[p].sig PROVE Closed(s)
      <4>1. fixed'[s] = fixed[s]
        BY <1>d, <3>1, <3>3
      <4>2. Closing(s) => Closing(s)'
        BY <1>c, <1>5, <2>1
      <4> HIDE DEF Closed
      <4> QED BY <1>k, <2>1, <4>1, <4>2
    <3> HIDE DEF Closed
    <3> QED BY <3>2, <3>3
  <2> QED BY <2>2, <2>3
<1>6. ASSUME NEW p \in Processes, NEW id \in Ids, NEW lands \in BOOLEAN, DrainCloses(p, id, lands)
      PROVE  \A s \in Signatures : Closed(s)
  <2>1. /\ icopy[p] = incidents /\ lands = TRUE /\ pc[p] = "close" /\ fixed' = fixed
        /\ id \in {job[p].sig} \X Kinds
    <3>1. icopy[p] = incidents /\ lands = TRUE
      BY <1>0, <1>6, OrderlyWork, OrderlyWrite DEF DrainCloses
    <3>2. pc[p] = "close" /\ fixed' = fixed /\ id \in FindOpen(icopy[p], job[p].sig)
      BY <1>6 DEF DrainCloses
    <3> QED BY <3>1, <3>2 DEF FindOpen
  <2>2. /\ incidents'[id].status = "resolved"
        /\ \A k \in Ids : k # id => incidents'[k] = incidents[k]
    <3>1. PICK r : r = Marked(incidents[id])
      OBVIOUS
    <3>2. TypeOK /\ icopy[p] = incidents /\ SaveIncident(p, id, r, TRUE)
      BY <1>0, <1>6, <2>1, <3>1 DEF DrainCloses
    <3>3. incidents'[id] = r /\ \A k \in Ids : k # id => incidents'[k] = incidents[k]
      BY <1>6, <3>2, IncidentWritten
    <3>4. r.status = "resolved"
      BY <1>d, <1>6, <3>1 DEF Marked, IncidentRow
    <3> QED BY <3>3, <3>4
  <2>3. ASSUME NEW s \in Signatures, s = job[p].sig PROVE Closed(s)
    BY <2>1, <2>2, <2>3, OneRowLeft DEF Single
  <2>4. ASSUME NEW s \in Signatures, s # job[p].sig PROVE Closed(s)
    <3>1. \A k \in {s} \X Kinds : incidents'[k] = incidents[k]
      BY <1>d, <2>1, <2>2, <2>4
    <3>2. Closing(s) => Closing(s)'
      BY <1>6, <1>c, <2>4 DEF Moves, Drain
    <3> HIDE DEF Closed
    <3> QED BY <1>k, <2>1, <3>1, <3>2
  <2> HIDE DEF Closed
  <2> QED BY <2>3, <2>4
<1>7. ASSUME NEW p \in Processes, DrainFindsNothingOpen(p) PROVE \A s \in Signatures : Closed(s)
  <2>1. /\ FindOpen(incidents, job[p].sig) = {} /\ pc[p] = "close"
        /\ UNCHANGED <<incidents, fixed>>
    BY <1>0, <1>7, OrderlyWork DEF DrainFindsNothingOpen, store, hist
  <2>2. ASSUME NEW s \in Signatures, s = job[p].sig PROVE Closed(s)
    BY <2>1, <2>2
  <2>3. ASSUME NEW s \in Signatures, s # job[p].sig PROVE Closed(s)
    <3>1. Closing(s) => Closing(s)'
      BY <1>7, <1>c, <2>3 DEF Moves, Drain
    <3> HIDE DEF Closed
    <3> QED BY <1>k, <2>1, <3>1
  <2> HIDE DEF Closed
  <2> QED BY <2>2, <2>3
<1>8. ASSUME NEW p \in Processes, Exit(p) PROVE \A s \in Signatures : Closed(s)
  <2>1. pc[p] # "close" /\ UNCHANGED <<incidents, fixed>>
    BY <1>8 DEF Exit, Gone
  <2> HIDE DEF Closed
  <2> QED BY <1>8, <1>q, <2>1 DEF Moves, Stops
<1>9. ASSUME NEW p \in Processes, NEW torn \in BOOLEAN, Crash(p, torn) PROVE FALSE
  BY <1>0, <1>9 DEF Crash
<1>10. ASSUME NEW p \in Processes, Reset(p) PROVE \A s \in Signatures : Closed(s)
  BY <1>10 DEF Reset
<1>11. ASSUME NEW w \in 1..opened, WindowPasses(w) PROVE \A s \in Signatures : Closed(s)
  BY <1>0, <1>11 DEF WindowPasses, store, procs, hist, Closing, Single
<1>12. ASSUME UNCHANGED vars PROVE \A s \in Signatures : Closed(s)
  BY <1>0, <1>12 DEF vars, store, procs, hist, Closing, Single
<1> HIDE DEF Closed
<1>13. ASSUME NEW p \in Processes, Ends(p) \/ Drain(p) \/ Stops(p)
       PROVE  \A s \in Signatures : Closed(s)
  BY <1>13, <1>3, <1>4, <1>5, <1>6, <1>7, <1>8, <1>9, <1>10 DEF Ends, Drain, Stops
<1> QED BY <1>1, <1>2, <1>11, <1>12, <1>13 DEF Next

-----------------------------------------------------------------------------
(* What a step of process p does to the retry rows, whichever step it is.  *)

\* It reads at most the file.
Reads(p) ==
  /\ UNCHANGED <<retries, performed, opened>>
  /\ rcopy'[p] \in {rcopy[p], Fresh(p)} /\ attached'[p] = attached[p]
  /\ pc[p] \notin {"down", "settle"} /\ pc'[p] \notin {"down", "settle"}

\* It starts, with what it could load.
Loads(p) ==
  /\ UNCHANGED <<retries, performed, opened>>
  /\ rcopy'[p] \in {retries, NoRetries}
  /\ "retries" \notin attached'[p] => rcopy'[p] = NoRetries
  /\ pc[p] # "settle" /\ pc'[p] \notin {"down", "settle"}

\* It forgets its copy: it is gone, or has reset the stores.  One that was settling a
\* row has crashed.
Empties(p) ==
  /\ UNCHANGED <<performed, opened>>
  /\ retries' \in {retries, NoRetries} /\ rcopy'[p] = NoRetries
  /\ pc'[p] # "settle"
  /\ pc[p] = "settle" => faults' = faults + 1

\* It sends the retry of s, whose window was w.
Sends(p, s, w) ==
  /\ UNCHANGED <<retries, opened>>
  /\ rcopy'[p] = rcopy[p] /\ attached'[p] = attached[p]
  /\ performed' = [performed EXCEPT ![w].times = @ + 1]
  /\ Pending(rcopy[p][s], w)
  /\ pc[p] = "drain" /\ pc'[p] = "settle" /\ job'[p].sig = s

\* It saves the row of s: done with, or waiting for a window of its own.  That is the
\* row it was settling, if it was settling one.
Saves(p, s, r, lands) ==
  /\ SaveRetry(p, s, r, lands) /\ Writes(p, "retries", lands)
  /\ IF r.status = "pending"
     THEN /\ r.window = opened + 1 /\ opened' = opened + 1
          /\ performed' = Append(performed, [sig |-> s, times |-> 0])
     ELSE UNCHANGED <<performed, opened>>
  /\ attached'[p] = attached[p]
  /\ pc[p] # "down" /\ pc'[p] \notin {"down", "settle"}
  /\ pc[p] = "settle" => job[p].sig = s

LEMMA DeferSaves ==
  ASSUME TypeOK, NEW p \in Processes, NEW s \in Signatures, NEW lands \in BOOLEAN,
         Defer(p, s, lands), Scheduling(p, s), Writes(p, "retries", lands),
         attached'[p] = attached[p], pc[p] # "down",
         pc'[p] \notin {"down", "settle"},
         pc[p] = "settle" => job[p].sig = s
  PROVE  \E r \in RetryRow : Saves(p, s, r, lands)
<1> DEFINE d == Deferred(rcopy[p][s], opened + 1)
<1>1. d \in RetryRow /\ (d.status = "pending" => d.window = opened + 1)
  <2>1. rcopy[p][s] \in RetryRow /\ opened + 1 \in Nat
    BY TypeParts DEF RetryTypeOK
  <2>2. d \in RetryRow
    BY <2>1, RowTypes
  <2>3. d.status = "pending" => d.window = opened + 1
    BY <2>1 DEF Deferred, RetryRow
  <2> QED BY <2>2, <2>3
<1>2. /\ SaveRetry(p, s, d, lands)
      /\ opened' = IF d.status = "pending" THEN opened + 1 ELSE opened
      /\ performed' = IF d.status = "pending" THEN Append(performed, [sig |-> s, times |-> 0])
                      ELSE performed
  BY DEF Defer, Scheduling
<1> HIDE DEF d
<1> QED BY <1>1, <1>2 DEF Saves

LEMMA QueueMoves ==
  ASSUME TypeInv, JobInv, NEW p \in Processes, Moves(p)
  PROVE  \/ Reads(p) \/ Loads(p) \/ Empties(p)
         \/ \E s \in Signatures, w \in 1..opened : Sends(p, s, w)
         \/ \E s \in Signatures, r \in RetryRow, lands \in BOOLEAN : Saves(p, s, r, lands)
<1>0. /\ TypeOK /\ BusyWithSig /\ OwnInv(p) /\ opened \in Nat
      /\ DOMAIN pc = Processes /\ DOMAIN job = Processes
      /\ DOMAIN attached = Processes /\ DOMAIN rcopy = Processes
      /\ job[p] \in JobUpTo(opened)
  BY Domains, TypeParts DEF TypeInv, JobInv, RetryTypeOK
<1>1. ASSUME NEW loaded \in SUBSET Stores, NEW clients \in SUBSET Stores, Start(p, loaded, clients)
      PROVE  Loads(p)
  BY <1>0, <1>1 DEF Start, LoadRetries, Loads
<1>2. ASSUME NEW s \in Signatures, NEW k \in {"none", "open", "announced"}, RunBegins(p, s, k)
      PROVE  Reads(p)
  BY <1>0, <1>2 DEF RunBegins, Reads, queue
<1>3. ASSUME DrainBegins(p) PROVE Reads(p)
  BY <1>0, <1>3 DEF DrainBegins, Reload, Reads, hist
<1>4. ASSUME NEW ok \in BOOLEAN, RunRefreshes(p, ok) PROVE Reads(p)
  BY <1>0, <1>4 DEF RunRefreshes, Reload, Reads
<1>5. ASSUME NEW lands \in BOOLEAN, RunDefers(p, lands)
      PROVE  \E s \in Signatures, r \in RetryRow : Saves(p, s, r, lands)
  BY <1>0, <1>5, DeferSaves DEF RunDefers, BusyWithSig
<1>6. ASSUME RunNotifies(p) PROVE Reads(p)
  BY <1>0, <1>6 DEF RunNotifies, Reads, queue
<1>7. ASSUME NEW outcome \in Outcomes, NEW id \in Ids, NEW lands \in BOOLEAN,
             RunEnds(p, outcome, id, lands)
      PROVE  Reads(p)
  BY <1>0, <1>7 DEF RunEnds, Reads, queue
<1>8. ASSUME NEW s \in Signatures, NEW w \in 1..opened, NEW r \in {"ok", "throttled", "failed"},
             DrainSends(p, s, w, r)
      PROVE  Sends(p, s, w)
  <2>1. <<s, w>> \in job[p].due /\ w \in Nat
    BY <1>0, <1>8 DEF DrainSends
  <2>2. Pending(rcopy[p][s], w)
    BY <1>0, <2>1 DEF OwnInv
  <2>3. job'[p].sig = s
    BY <1>0, <1>8 DEF DrainSends, JobUpTo
  <2> QED BY <1>0, <1>8, <2>2, <2>3 DEF DrainSends, Sends, queue
<1>9. ASSUME NEW lands \in BOOLEAN, DrainDefers(p, lands)
      PROVE  \E s \in Signatures, r \in RetryRow : Saves(p, s, r, lands)
  <2>1. pc'[p] \notin {"down", "settle"}
    BY <1>0, <1>9 DEF DrainDefers, NextRow
  <2> QED BY <1>0, <1>9, <2>1, DeferSaves DEF DrainDefers, BusyWithSig
<1>10. ASSUME NEW lands \in BOOLEAN, DrainCompletes(p, lands)
       PROVE  \E s \in Signatures, r \in RetryRow : Saves(p, s, r, lands)
  <2> DEFINE c == Completed(rcopy[p][job[p].sig])
  <2>1. /\ job[p].sig \in Signatures /\ rcopy[p][job[p].sig].status = "pending"
        /\ rcopy[p][job[p].sig] \in RetryRow
    BY <1>0, <1>10, TypeParts DEF DrainCompletes, BusyWithSig, OwnInv, RetryTypeOK
  <2>2. c \in RetryRow /\ c.status = "done"
    BY <2>1, RowTypes DEF Completed, RetryRow
  <2>3. pc'[p] \notin {"down", "settle"}
    BY <1>0, <1>10 DEF DrainCompletes, NextRow
  <2>4. SaveRetry(p, job[p].sig, c, lands)
    BY <1>10, <2>1 DEF DrainCompletes, Complete
  <2>5. /\ UNCHANGED <<performed, opened>> /\ Writes(p, "retries", lands) /\ pc[p] = "settle"
        /\ attached' = attached
    BY <1>10 DEF DrainCompletes, Complete
  <2> HIDE DEF c
  <2>6. Saves(p, job[p].sig, c, lands)
    BY <2>2, <2>3, <2>4, <2>5 DEF Saves
  <2> QED BY <2>1, <2>2, <2>6
<1>11. ASSUME NEW id \in Ids, NEW lands \in BOOLEAN, DrainCloses(p, id, lands) PROVE Reads(p)
  BY <1>0, <1>11 DEF DrainCloses, NextRow, Reads, queue
<1>12. ASSUME DrainFindsNothingOpen(p) PROVE Reads(p)
  BY <1>0, <1>12 DEF DrainFindsNothingOpen, NextRow, Reads, queue, hist
<1>13. ASSUME Stops(p) PROVE Empties(p)
  <2>1. CASE Exit(p)
    BY <1>0, <2>1 DEF Exit, Gone, Empties
  <2>2. CASE \E torn \in BOOLEAN : Crash(p, torn)
    BY <1>0, <2>2 DEF Crash, Gone, Empties
  <2>3. CASE Reset(p)
    BY <1>0, <2>3 DEF Reset, ResetRetries, Empties, procs
  <2> QED BY <1>13, <2>1, <2>2, <2>3 DEF Stops
<1>14. CASE Begins(p) \/ Run(p) \/ Ends(p)
  BY <1>14, <1>1, <1>2, <1>3, <1>4, <1>5, <1>6, <1>7 DEF Begins, Run, Ends
<1>15. CASE Drain(p)
  BY <1>15, <1>8, <1>9, <1>10, <1>11, <1>12 DEF Drain
<1> QED BY <1>13, <1>14, <1>15 DEF Moves

-----------------------------------------------------------------------------
(* The invariants together, and what they say of a history.                *)

LedgerInv ==
  TypeInv /\ JobInv /\ AgreeInv /\ OccurrencesAddUp /\ RetryLedger /\ RepairInv

LEMMA LedgerInit == Init => LedgerInv
<1> SUFFICES ASSUME Init PROVE LedgerInv
  OBVIOUS
<1>0. /\ incidents = NoIncidents /\ retries = NoRetries
      /\ \A p \in Processes : pc[p] = "down" /\ job[p] = NoJob
      /\ \A s \in Signatures : recorded[s] = 0 /\ scheduled[s] = 0 /\ owed[s] = FALSE
                               /\ fixed[s] = "nothing"
  BY DEF Init, IncidentInit, RetryInit
<1>1. TypeInv
  BY <1>0, TypeInit DEF TypeInv, BusyWithSig
<1>2. JobInv
  <2>1. ASSUME NEW p \in Processes PROVE OwnInv(p)
    <3>1. pc[p] = "down" /\ job[p] = NoJob
      BY <1>0, <2>1
    <3>2. job[p].due = {}
      BY <3>1 DEF NoJob
    <3> QED BY <3>1, <3>2 DEF OwnInv
  <2> QED BY <2>1 DEF JobInv
<1>3. AgreeInv
  BY <1>0 DEF AgreeInv, Alive
<1>4. OccurrencesAddUp
  <2>1. ASSUME NEW s \in Signatures
        PROVE  incidents[<<s, "sig">>].count + incidents[<<s, "usig">>].count = recorded[s]
    BY <1>0 DEF NoIncidents, Ids, Kinds, Absent
  <2> QED BY <2>1 DEF OccurrencesAddUp
<1>5. RetryLedger
  <2>1. ASSUME NEW s \in Signatures PROVE RowLedger(s)
    BY <1>0, RetryAssumption DEF RowLedger, NoRetries, NoRow
  <2> QED BY <1>0, <2>1 DEF RetryLedger
<1>6. RepairInv
  BY <1>0 DEF RepairInv
<1> QED BY <1>1, <1>2, <1>3, <1>4, <1>5, <1>6 DEF LedgerInv

LEMMA LedgerStep == LedgerInv /\ [Next]_vars => LedgerInv'
<1> SUFFICES ASSUME LedgerInv, [Next]_vars PROVE LedgerInv'
  OBVIOUS
<1>1. TypeInv'
  BY TypeStep DEF LedgerInv
<1>2. JobInv'
  BY <1>1, JobStep DEF LedgerInv
<1> QED BY <1>1, <1>2, AgreeStep, OccurrencesStep, RetryLedgerStep, RepairStep DEF LedgerInv

LEMMA LedgerHolds == Spec => []LedgerInv
BY LedgerInit, LedgerStep, PTL DEF Spec

\* Every terminal outcome is on record exactly once, over any number of restarts and
\* crashes, for every number of processes, signatures and runs.
THEOREM OutcomesAreCounted == Spec => []OccurrencesAddUp
<1>1. LedgerInv => OccurrencesAddUp
  BY DEF LedgerInv
<1> QED BY <1>1, LedgerHolds, PTL

\* A postponed refresh stays pending in the storage until it is sent or given up.
THEOREM PostponedIsKept == Spec => []OwedIsPending
<1>1. LedgerInv => OwedIsPending
  BY DEF LedgerInv, RetryLedger, RowLedger, OwedIsPending
<1> QED BY <1>1, LedgerHolds, PTL

\* A signature is deferred at most MaxAttempts times, for every MaxAttempts, and the
\* row counts what happened.
THEOREM DeferralsAreBounded == Spec => []PatienceIsBounded
<1>1. LedgerInv => PatienceIsBounded
  BY DEF LedgerInv, RetryLedger, RowLedger, PatienceIsBounded
<1> QED BY <1>1, LedgerHolds, PTL

\* A repair leaves no open incident behind once nobody is about to close it, as long
\* as the signature has one incident and nothing has failed.
THEOREM RepairsClose == Spec => []RepairClosesTheIncident
<1>1. LedgerInv => RepairClosesTheIncident
  <2> SUFFICES ASSUME LedgerInv, Orderly, faults = 0, NEW s \in Signatures, Settled(s),
                      \E id \in {s} \X Kinds : incidents[id] = Absent
               PROVE  FindOpen(incidents, s) = {}
    BY DEF RepairClosesTheIncident
  <2>1. fixed[s] # "nothing" /\ ~Closing(s) /\ Single(s)
    BY DEF Settled, Closing, Single
  <2> QED BY <2>1 DEF LedgerInv, RepairInv
<1> QED BY <1>1, LedgerHolds, PTL

\* No step of a run or of a drain sends a refresh while the window it was postponed
\* to lies ahead.
THEOREM PostponedIsNotAnticipated == Spec => NoRefreshInTheWindow
<1>1. ASSUME LedgerInv, [Next]_vars
      PROVE  [\A p \in Processes :
                (Orderly /\ Refreshes(p)) => ~IsDeferred(retries[job'[p].sig])]_vars
  BY <1>1, RefreshStep DEF LedgerInv
<1> QED BY <1>1, LedgerHolds, PTL DEF Spec, NoRefreshInTheWindow

-----------------------------------------------------------------------------
(* How often a retry is sent.  Who holds a window's row as pending may send *)
(* it (a waiter), and is a settler until it has saved what came of it.     *)
(* While the storage has the row pending too, more may load it, so the     *)
(* sends are charged to settlers and faults; once it has not, the waiters  *)
(* that are left are all there will be.  Settlers and waiters are alive,   *)
(* and each process alive beside the first has joined another.             *)

Holds(p, w)    == Pending(rcopy[p][performed[w].sig], w)
OnRecord(w)    == Pending(retries[performed[w].sig], w)
Settling(p, w) == Holds(p, w) /\ pc[p] = "settle" /\ job[p].sig = performed[w].sig

Living      == {p \in Processes : Alive(p)}
Settlers(w) == {p \in Processes : Settling(p, w)}
Waiters(w)  == {p \in Processes : Holds(p, w) /\ ~Settling(p, w)}

\* The window of a pending row has been opened, for that row.
WindowsOf(rows, windows, sent) ==
  \A s \in Signatures :
    rows[s].status = "pending" =>
      rows[s].window \in 1..windows /\ sent[rows[s].window].sig = s

WindowInv ==
  /\ WindowsOf(retries, opened, performed)
  /\ \A p \in Processes : WindowsOf(rcopy[p], opened, performed)

\* A process without a client has nothing in its copy that is also on record.
PrivateInv ==
  \A p \in Processes, w \in 1..opened :
    (Alive(p) /\ "retries" \notin attached[p] /\ Holds(p, w)) => ~OnRecord(w)

\* A process that is down holds nothing, and each but one of those alive has joined.
BandInv ==
  /\ \A p \in Processes : ~Alive(p) => rcopy[p] = NoRetries
  /\ Cardinality(Living) <= 1 + joins

\* times sends are paid for.
Paid(on, times, budget, joined, settlers, waiters) ==
  IF on THEN times <= budget + Cardinality(settlers)
  ELSE times + Cardinality(waiters) <= budget + 1 + joined

SendInv ==
  (backend = "table" \/ ~overlapped) =>
    \A w \in 1..opened :
      Paid(OnRecord(w), performed[w].times, faults, joins, Settlers(w), Waiters(w))

\* Two disjoint groups of a band of processes are together no more than the band.
LEMMA TwoGroups ==
  ASSUME IsFiniteSet(Processes), NEW L \in SUBSET Processes, NEW S \in SUBSET L,
         NEW W \in SUBSET L, S \cap W = {}
  PROVE  /\ Cardinality(S) \in Nat /\ Cardinality(W) \in Nat /\ Cardinality(L) \in Nat
         /\ Cardinality(S) + Cardinality(W) <= Cardinality(L)
<1>0. IsFiniteSet(L)
  BY FS_Subset
<1>1. IsFiniteSet(S) /\ IsFiniteSet(W) /\ IsFiniteSet(S \cup W)
      /\ Cardinality(S \cup W) <= Cardinality(L)
  BY <1>0, FS_Subset
<1>2. Cardinality(S) \in Nat /\ Cardinality(W) \in Nat /\ Cardinality(L) \in Nat
      /\ Cardinality(S \cup W) \in Nat
  BY <1>0, <1>1, FS_CardinalityType
<1>3. Cardinality(S \cap W) = 0
  BY FS_EmptySet
<1>4. Cardinality(S \cup W) = Cardinality(S) + Cardinality(W) - Cardinality(S \cap W)
  BY <1>1, FS_Union
<1> QED BY <1>1, <1>2, <1>3, <1>4

\* A step in which nothing is sent: whoever ceases to settle a row still on record is
\* charged to a fault, and nobody starts to wait for one that is not.
LEMMA StillPaid ==
  ASSUME IsFiniteSet(Processes), NEW p \in Processes,
         NEW L \in SUBSET Processes, NEW S \in SUBSET L, NEW W2 \in SUBSET L,
         NEW W \in SUBSET Processes, NEW S2 \in SUBSET Processes,
         NEW on \in BOOLEAN, NEW on2 \in BOOLEAN,
         NEW t \in Nat, NEW f \in Nat, NEW f2 \in Nat, f2 = f \/ f2 = f + 1,
         NEW j \in Nat, NEW j2 \in Nat, j <= j2, Cardinality(L) <= 1 + j2,
         Paid(on, t, f, j, S, W),
         S \cap W2 = {}, S \subseteq S2 \cup {p}, on2 => on, ~on => W2 \subseteq W,
         (p \in S /\ p \notin S2 /\ on2) => f2 = f + 1
  PROVE  Paid(on2, t, f2, j2, S2, W2)
<1>0. /\ IsFiniteSet(S) /\ IsFiniteSet(W) /\ IsFiniteSet(S2) /\ IsFiniteSet(W2)
      /\ Cardinality(S) \in Nat /\ Cardinality(W) \in Nat /\ Cardinality(S2) \in Nat
      /\ Cardinality(W2) \in Nat /\ Cardinality(L) \in Nat
  <2>1. S \in SUBSET Processes /\ W2 \in SUBSET Processes
    OBVIOUS
  <2> QED BY <2>1, FS_Subset, FS_CardinalityType
<1>1. CASE ~on
  <2>1. Cardinality(W2) <= Cardinality(W)
    BY <1>0, <1>1, FS_Subset
  <2> QED BY <1>0, <1>1, <2>1 DEF Paid
<1>2. CASE on /\ ~on2
  <2>1. Cardinality(S) + Cardinality(W2) <= Cardinality(L)
    BY TwoGroups
  <2>2. t <= f + Cardinality(S)
    BY <1>2 DEF Paid
  <2>3. t + Cardinality(W2) <= f2 + 1 + j2
    BY <1>0, <2>1, <2>2
  <2> QED BY <1>2, <2>3 DEF Paid
<1>3. CASE on /\ on2
  <2>1. CASE S \subseteq S2
    <3>1. Cardinality(S) <= Cardinality(S2)
      BY <1>0, <2>1, FS_Subset
    <3> QED BY <1>0, <1>3, <3>1 DEF Paid
  <2>2. CASE ~(S \subseteq S2)
    <3>1. p \in S /\ p \notin S2
      BY <2>2
    <3>2. S \ {p} \subseteq S2
      OBVIOUS
    <3>3. Cardinality(S \ {p}) = Cardinality(S) - 1
      BY <1>0, <3>1, FS_RemoveElement
    <3>4. Cardinality(S \ {p}) <= Cardinality(S2)
      BY <1>0, <3>2, FS_Subset
    <3>5. f2 = f + 1
      BY <1>3, <3>1
    <3> QED BY <1>0, <1>3, <3>3, <3>4, <3>5 DEF Paid
  <2> QED BY <2>1, <2>2
<1> QED BY <1>1, <1>2, <1>3

\* A send turns a waiter into a settler.
LEMMA SendPaid ==
  ASSUME IsFiniteSet(Processes), NEW p \in Processes,
         NEW S \in SUBSET Processes, NEW W \in SUBSET Processes,
         NEW on \in BOOLEAN, NEW t \in Nat, NEW f \in Nat, NEW j \in Nat,
         Paid(on, t, f, j, S, W), p \in W, p \notin S
  PROVE  Paid(on, t + 1, f, j, S \cup {p}, W \ {p})
<1>0. /\ IsFiniteSet(S) /\ IsFiniteSet(W)
      /\ Cardinality(S) \in Nat /\ Cardinality(W) \in Nat
  BY FS_Subset, FS_CardinalityType
<1>1. Cardinality(S \cup {p}) = Cardinality(S) + 1
  BY <1>0, FS_AddElement
<1>2. Cardinality(W \ {p}) = Cardinality(W) - 1
  BY <1>0, FS_RemoveElement
<1> QED BY <1>0, <1>1, <1>2 DEF Paid

\* The storage configured stays the same.
LEMMA BackendKept == TypeOK /\ [Next]_vars => backend' = backend
<1> SUFFICES ASSUME TypeOK, [Next]_vars PROVE backend' = backend
  OBVIOUS
<1>1. ASSUME NEW p \in Processes, Moves(p) PROVE backend' = backend
  <2>1. CASE \E loaded, clients \in SUBSET Stores : Start(p, loaded, clients)
    BY <2>1 DEF Start, LoadIncidents
  <2>2. CASE (\E s \in Signatures, known \in {"none", "open", "announced"} : RunBegins(p, s, known))
             \/ DrainBegins(p) \/ Run(p) \/ Ends(p)
    <3>1. backend' = backend
      BY <2>2 DEF RunBegins, DrainBegins, Run, RunRefreshes, RunDefers, RunNotifies, Ends, RunEnds,
                  SaveIncident, store, hist
    <3> QED BY <3>1
  <2>3. CASE Drain(p)
    <3>1. backend' = backend
      BY <2>3 DEF Drain, DrainSends, DrainDefers, DrainCompletes, DrainCloses,
                  DrainFindsNothingOpen, SaveIncident, store, hist
    <3> QED BY <3>1
  <2>4. CASE Stops(p)
    BY <2>4 DEF Stops, Exit, Crash, Reset, ResetIncidents, Gone
  <2> QED BY <1>1, <2>1, <2>2, <2>3, <2>4 DEF Moves, Begins
<1>2. ASSUME NEW w \in 1..opened, WindowPasses(w) PROVE backend' = backend
  BY <1>2 DEF WindowPasses, store, hist
<1>3. CASE UNCHANGED vars
  BY <1>3 DEF vars, hist, store
<1> QED BY <1>1, <1>2, <1>3 DEF Next, Moves

\* What a send does to the windows' history, and what a save does.
LEMMA SentWindows ==
  ASSUME TypeOK, NEW p, NEW s, NEW w \in 1..opened, Sends(p, s, w)
  PROVE  /\ opened \in Nat /\ opened' = opened
         /\ \A v \in 1..opened : performed'[v].sig = performed[v].sig
         /\ \A v \in 1..opened : v # w => performed'[v].times = performed[v].times
         /\ performed'[w].times = performed[w].times + 1
<1>1. /\ opened \in Nat /\ performed \in [1..opened -> [sig : Signatures, times : Nat]]
  BY DEF TypeOK, RetryTypeOK
<1>2. performed' = [performed EXCEPT ![w] = [performed[w] EXCEPT !.times = @ + 1]]
  BY DEF Sends
<1>3. \A v \in 1..opened : v # w => performed'[v] = performed[v]
  BY <1>1, <1>2
<1>4. performed'[w] = [performed[w] EXCEPT !.times = @ + 1]
  BY <1>1, <1>2
<1>5. performed[w] \in [sig : Signatures, times : Nat]
  BY <1>1
<1>6. performed'[w].sig = performed[w].sig /\ performed'[w].times = performed[w].times + 1
  BY <1>4, <1>5
<1> QED BY <1>1, <1>3, <1>6 DEF Sends

LEMMA SavedWindows ==
  ASSUME TypeOK, NEW p, NEW s \in Signatures, NEW r, NEW lands, Saves(p, s, r, lands)
  PROVE  /\ opened \in Nat /\ opened' \in {opened, opened + 1}
         /\ \A v \in 1..opened : performed'[v] = performed[v]
         /\ opened' = opened + 1 => performed'[opened + 1].times = 0
         /\ r.status = "pending" => /\ r.window = opened + 1 /\ opened' = opened + 1
                                    /\ performed'[opened + 1].sig = s
<1> DEFINE Send == [sig : Signatures, times : Nat]
           x == [sig |-> s, times |-> 0]
<1>1. opened \in Nat /\ performed \in [1..opened -> Send]
  BY DEF TypeOK, RetryTypeOK
<1>2. x \in Send /\ x.times = 0 /\ x.sig = s
  OBVIOUS
<1>3. IF r.status = "pending"
      THEN r.window = opened + 1 /\ opened' = opened + 1 /\ performed' = Append(performed, x)
      ELSE UNCHANGED <<performed, opened>>
  BY DEF Saves
<1> HIDE DEF Send, x
<1>4. /\ \A i \in 1..opened : Append(performed, x)[i] = performed[i]
      /\ Append(performed, x)[opened + 1] = x
  BY <1>1, <1>2, WindowAppended
<1>5. CASE r.status = "pending"
  BY <1>1, <1>2, <1>3, <1>4, <1>5
<1>6. CASE r.status # "pending"
  BY <1>1, <1>3, <1>6
<1> QED BY <1>5, <1>6

\* The rows a save leaves, unless other processes are at the file: one row changes, in
\* the copy at once and on disk if the write lands.
LEMMA SavedRows ==
  ASSUME TypeOK, AgreeInv, NEW p \in Processes, NEW s \in Signatures, NEW r, NEW lands,
         Saves(p, s, r, lands), backend = "table" \/ ~overlapped
  PROVE  /\ rcopy'[p][s] = r /\ \A t \in Signatures : t # s => rcopy'[p][t] = rcopy[p][t]
         /\ retries'[s] = IF lands THEN r ELSE retries[s]
         /\ \A t \in Signatures : t # s => retries'[t] = retries[t]
<1>0. /\ retries \in [Signatures -> RetryRow] /\ rcopy \in [Processes -> [Signatures -> RetryRow]]
  BY DEF TypeOK, RetryTypeOK
<1>1. /\ rcopy' = [rcopy EXCEPT ![p] = [rcopy[p] EXCEPT ![s] = r]]
      /\ retries' = IF lands THEN Written(retries, rcopy'[p], s) ELSE retries
  BY DEF Saves, SaveRetry
<1>2. rcopy'[p][s] = r /\ \A t \in Signatures : t # s => rcopy'[p][t] = rcopy[p][t]
  BY <1>0, <1>1
<1>3. CASE backend = "table"
  BY <1>0, <1>1, <1>2, <1>3 DEF Written
<1>4. CASE backend # "table"
  <2>1. rcopy[p] = retries
    <3>1. backend = "json" /\ ~overlapped /\ Alive(p)
      BY <1>4 DEF TypeOK, IncidentTypeOK, Saves, Alive
    <3> QED BY <3>1 DEF AgreeInv, CopyInv, Exact, Sound
  <2>2. Written(retries, rcopy'[p], s) = rcopy'[p]
    BY <1>4 DEF TypeOK, IncidentTypeOK, Written
  <2> QED BY <1>0, <1>1, <1>2, <2>1, <2>2
<1> QED BY <1>2, <1>3, <1>4

LEMMA WindowStep == TypeInv /\ JobInv /\ WindowInv /\ [Next]_vars => WindowInv'
<1> SUFFICES ASSUME TypeInv, JobInv, WindowInv, [Next]_vars PROVE WindowInv'
  OBVIOUS
<1>0. /\ TypeOK /\ opened \in Nat /\ WindowsOf(retries, opened, performed)
      /\ \A p \in Processes : WindowsOf(rcopy[p], opened, performed)
      /\ retries \in [Signatures -> RetryRow] /\ rcopy \in [Processes -> [Signatures -> RetryRow]]
  BY DEF TypeInv, TypeOK, RetryTypeOK, WindowInv
<1> DEFINE Fits(rows) == WindowsOf(rows, opened', performed')
           Grows == /\ opened' \in {opened, opened + 1}
                    /\ \A v \in 1..opened : performed'[v].sig = performed[v].sig
<1>1. ASSUME Grows, NEW rows, WindowsOf(rows, opened, performed) PROVE Fits(rows)
  BY <1>0, <1>1 DEF WindowsOf
<1>2. Fits(NoRetries)
  BY DEF WindowsOf, NoRetries, NoRow
<1>3. ASSUME Grows, NEW p \in Processes, Others(p), Fits(retries'), Fits(rcopy'[p])
      PROVE  WindowInv'
  <2>1. ASSUME NEW q \in Processes PROVE Fits(rcopy'[q])
    <3>1. CASE q = p
      BY <1>3, <3>1
    <3>2. CASE q # p
      <4>1. rcopy'[q] = rcopy[q]
        BY <1>3, <3>2 DEF Others
      <4> QED BY <1>0, <1>1, <1>3, <4>1
    <3> QED BY <3>1, <3>2
  <2> QED BY <1>3, <2>1 DEF WindowInv
<1>4. ASSUME UNCHANGED <<performed, opened>> PROVE Grows
  BY <1>4
<1>5. ASSUME NEW p \in Processes, Moves(p) PROVE WindowInv'
  <2>0. Others(p)
    BY <1>0, <1>5, OthersKeep
  <2>1. CASE Reads(p)
    <3>1. Grows /\ retries' = retries /\ rcopy'[p] \in {rcopy[p], retries}
      BY <1>4, <2>1 DEF Reads, Fresh
    <3>2. Fits(retries') /\ Fits(rcopy'[p])
      BY <1>0, <1>1, <3>1
    <3> QED BY <1>3, <2>0, <3>1, <3>2
  <2>2. CASE Loads(p) \/ Empties(p)
    <3>1. /\ Grows /\ retries' \in {retries, NoRetries} /\ rcopy'[p] \in {retries, NoRetries}
      BY <1>4, <2>2 DEF Loads, Empties
    <3>2. Fits(retries') /\ Fits(rcopy'[p])
      BY <1>0, <1>1, <1>2, <3>1
    <3> QED BY <1>3, <2>0, <3>1, <3>2
  <2>3. ASSUME NEW s \in Signatures, NEW w \in 1..opened, Sends(p, s, w) PROVE WindowInv'
    <3>1. Grows
      BY <1>0, <2>3, SentWindows
    <3>2. Fits(retries') /\ Fits(rcopy'[p])
      BY <1>0, <1>1, <2>3, <3>1 DEF Sends
    <3> QED BY <1>3, <2>0, <3>1, <3>2
  <2>4. ASSUME NEW s \in Signatures, NEW r \in RetryRow, NEW lands \in BOOLEAN, Saves(p, s, r, lands)
        PROVE  WindowInv'
    <3>1. /\ Grows
          /\ r.status = "pending" => r.window \in 1..opened' /\ performed'[r.window].sig = s
      <4>1. /\ opened' \in {opened, opened + 1}
            /\ \A v \in 1..opened : performed'[v] = performed[v]
            /\ r.status = "pending" => /\ r.window = opened + 1 /\ opened' = opened + 1
                                       /\ performed'[opened + 1].sig = s
        BY <1>0, <2>4, SavedWindows
      <4> QED BY <1>0, <4>1
    <3>2. ASSUME NEW rows \in [Signatures -> RetryRow], Fits(rows)
          PROVE  Fits([rows EXCEPT ![s] = r])
      BY <3>1, <3>2 DEF WindowsOf
    <3>3. rcopy'[p] = [rcopy[p] EXCEPT ![s] = r]
      BY <1>0, <2>4 DEF Saves, SaveRetry
    <3>4. Fits(rcopy'[p])
      BY <1>0, <1>1, <3>1, <3>2, <3>3
    <3>5. retries' \in {retries, rcopy'[p], [retries EXCEPT ![s] = r]}
      BY <1>0, <2>4, <3>3 DEF Saves, SaveRetry, Written
    <3>6. Fits(retries')
      BY <1>0, <1>1, <3>1, <3>2, <3>4, <3>5
    <3> QED BY <1>3, <2>0, <3>1, <3>4, <3>6
  <2> QED BY <1>5, <2>1, <2>2, <2>3, <2>4, QueueMoves
<1>6. ASSUME UNCHANGED <<retries, rcopy, opened, performed>> PROVE WindowInv'
  BY <1>0, <1>6 DEF WindowInv
<1>7. ASSUME NEW w \in 1..opened, WindowPasses(w) PROVE WindowInv'
  BY <1>6, <1>7 DEF WindowPasses, WindowEnds, hist
<1>8. CASE UNCHANGED vars
  BY <1>6, <1>8 DEF vars, queue, hist
<1> QED BY <1>5, <1>7, <1>8 DEF Next, Moves

\* No row waits for a window that has not been opened.
LEMMA NoLaterWindow ==
  ASSUME NEW rows, NEW windows \in Nat, NEW sent, WindowsOf(rows, windows, sent),
         NEW s \in Signatures
  PROVE  ~Pending(rows[s], windows + 1)
BY DEF WindowsOf, Pending

\* What a step of p does to the row of a window that is open already: it never puts the
\* row on record again, gives it to p only from the record, and takes it from a p that
\* was settling it.
LEMMA OldWindow ==
  ASSUME TypeInv, JobInv, AgreeInv, WindowInv, PrivateInv, backend = "table" \/ ~overlapped,
         NEW p \in Processes, Moves(p), NEW w \in 1..opened
  PROVE  /\ performed'[w].sig = performed[w].sig
         /\ OnRecord(w)' => OnRecord(w)
         /\ Holds(p, w)' => (Holds(p, w) /\ ~Settling(p, w)) \/ OnRecord(w)
         /\ ("retries" \notin attached'[p] /\ backend = "table" /\ Holds(p, w)')
              => Alive(p) /\ "retries" \notin attached[p] /\ Holds(p, w)
         /\ Settling(p, w) => ~Holds(p, w)' /\ (OnRecord(w)' => faults' = faults + 1)
<1> DEFINE Sig == performed[w].sig
           Kept == /\ performed'[w].sig = Sig
                   /\ Pending(retries'[Sig], w) => Pending(retries[Sig], w)
                   /\ Pending(rcopy'[p][Sig], w)
                        => (Holds(p, w) /\ ~Settling(p, w)) \/ OnRecord(w)
                   /\ ("retries" \notin attached'[p] /\ backend = "table"
                         /\ Pending(rcopy'[p][Sig], w))
                        => Alive(p) /\ "retries" \notin attached[p] /\ Holds(p, w)
                   /\ Settling(p, w) => /\ ~Pending(rcopy'[p][Sig], w)
                                        /\ Pending(retries'[Sig], w) => faults' = faults + 1
<1>0. /\ TypeOK /\ OwnInv(p) /\ opened \in Nat /\ Sig \in Signatures /\ w \in Nat
      /\ retries \in [Signatures -> RetryRow] /\ rcopy \in [Processes -> [Signatures -> RetryRow]]
  BY DEF TypeInv, JobInv, TypeOK, RetryTypeOK
<1>n. ~Pending(NoRetries[Sig], w)
  BY <1>0 DEF NoRetries, NoRow, Pending
<1>1. ASSUME Reads(p) PROVE Kept
  <2>1. /\ performed' = performed /\ retries' = retries /\ attached'[p] = attached[p]
        /\ Alive(p) /\ ~Settling(p, w)
        /\ rcopy'[p] = rcopy[p] \/ (backend = "json" /\ rcopy'[p] = retries)
    BY <1>1 DEF Reads, Fresh, Alive, Settling
  <2> QED BY <2>1 DEF Holds, OnRecord
<1>2. ASSUME Loads(p) PROVE Kept
  <2>1. /\ performed' = performed /\ retries' = retries /\ ~Settling(p, w)
        /\ rcopy'[p] \in {retries, NoRetries}
        /\ "retries" \notin attached'[p] => rcopy'[p] = NoRetries
    BY <1>2 DEF Loads, Settling
  <2> QED BY <1>n, <2>1 DEF OnRecord
<1>3. ASSUME Empties(p) PROVE Kept
  <2>1. /\ performed' = performed /\ retries' \in {retries, NoRetries} /\ rcopy'[p] = NoRetries
        /\ Settling(p, w) => faults' = faults + 1
    BY <1>3 DEF Empties, Settling
  <2> QED BY <1>n, <2>1
<1>4. ASSUME NEW s \in Signatures, NEW v \in 1..opened, Sends(p, s, v) PROVE Kept
  <2>1. /\ retries' = retries /\ rcopy'[p] = rcopy[p] /\ attached'[p] = attached[p]
        /\ ~Settling(p, w) /\ Alive(p)
    BY <1>4 DEF Sends, Settling, Alive
  <2>2. performed'[w].sig = Sig
    BY <1>0, <1>4, SentWindows
  <2> QED BY <2>1, <2>2 DEF Holds
<1>5. ASSUME NEW s \in Signatures, NEW r \in RetryRow, NEW lands \in BOOLEAN, Saves(p, s, r, lands)
      PROVE  Kept
  <2>1. performed'[w].sig = Sig /\ ~Pending(r, w)
    <3>1. performed'[w] = performed[w] /\ (r.status = "pending" => r.window = opened + 1)
      BY <1>0, <1>5, SavedWindows
    <3> QED BY <1>0, <3>1 DEF Pending
  <2>2. /\ rcopy'[p][s] = r /\ \A t \in Signatures : t # s => rcopy'[p][t] = rcopy[p][t]
        /\ retries'[s] = IF lands THEN r ELSE retries[s]
        /\ \A t \in Signatures : t # s => retries'[t] = retries[t]
    BY <1>0, <1>5, SavedRows
  <2>3. /\ attached'[p] = attached[p] /\ Alive(p) /\ Writes(p, "retries", lands)
        /\ Settling(p, w) => Sig = s
    BY <1>5 DEF Saves, Settling, Alive
  <2>4. Pending(retries'[Sig], w) => Pending(retries[Sig], w)
    BY <1>0, <2>1, <2>2
  <2>5. Pending(rcopy'[p][Sig], w) => Sig # s /\ Holds(p, w)
    BY <1>0, <2>1, <2>2 DEF Holds
  <2>6. ASSUME Settling(p, w), Pending(retries'[Sig], w) PROVE faults' = faults + 1
    <3>1. ~lands /\ OnRecord(w) /\ Holds(p, w)
      BY <2>1, <2>2, <2>3, <2>4, <2>6 DEF OnRecord, Settling
    <3>2. "retries" \in attached[p]
      BY <2>3, <3>1 DEF PrivateInv
    <3> QED BY <2>3, <3>1, <3>2 DEF Writes
  <2> QED BY <2>1, <2>3, <2>4, <2>5, <2>6
<1> HIDE DEF Kept
<1>6. Kept
  BY <1>1, <1>2, <1>3, <1>4, <1>5, QueueMoves
<1>7. performed'[w].sig = Sig
  BY <1>6 DEF Kept
<1>8. /\ OnRecord(w)' = Pending(retries'[Sig], w)
      /\ Holds(p, w)' = Pending(rcopy'[p][Sig], w)
  BY <1>7 DEF OnRecord, Holds, Pending
<1>9. OnRecord(w) = Pending(retries[Sig], w)
  BY DEF OnRecord
<1> QED BY <1>6, <1>8, <1>9 DEF Kept

LEMMA PrivateStep ==
  ASSUME TypeInv, JobInv, AgreeInv, AgreeInv', WindowInv, PrivateInv, [Next]_vars
  PROVE  PrivateInv'
<1>0. /\ TypeOK /\ TypeOK' /\ opened \in Nat /\ backend' = backend
  BY TypeStep, BackendKept DEF TypeInv, TypeOK, RetryTypeOK
<1> SUFFICES ASSUME NEW q \in Processes, NEW w \in 1..opened', Alive(q)', "retries" \notin attached'[q],
                    Holds(q, w)', OnRecord(w)'
             PROVE  FALSE
  BY DEF PrivateInv
<1>1. backend = "table"
  <2>1. ~Sound'
    BY DEF AgreeInv, CopyInv, Stores
  <2> QED BY <1>0, <2>1 DEF Sound, TypeOK, IncidentTypeOK
<1>2. ASSUME NEW p \in Processes, Moves(p), w \in 1..opened PROVE FALSE
  <2>1. /\ performed'[w].sig = performed[w].sig /\ (OnRecord(w)' => OnRecord(w))
        /\ ("retries" \notin attached'[p] /\ backend = "table" /\ Holds(p, w)')
             => Alive(p) /\ "retries" \notin attached[p] /\ Holds(p, w)
    BY <1>1, <1>2, OldWindow
  <2>2. CASE q = p
    BY <1>1, <1>2, <2>1, <2>2 DEF PrivateInv
  <2>3. CASE q # p
    <3>1. Others(p)
      BY <1>0, <1>2, OthersKeep
    <3>2. pc'[q] = pc[q] /\ attached'[q] = attached[q] /\ rcopy'[q] = rcopy[q]
      BY <2>3, <3>1 DEF Others
    <3>3. Alive(q) /\ "retries" \notin attached[q] /\ Holds(q, w)
      BY <2>1, <3>2 DEF Alive, Holds
    <3> QED BY <1>2, <2>1, <3>3 DEF PrivateInv
  <2> QED BY <2>2, <2>3
<1>3. ASSUME NEW p \in Processes, Moves(p), w \notin 1..opened PROVE FALSE
  <2>1. opened' # opened
    BY <1>3
  <2>2. PICK s \in Signatures, r \in RetryRow, lands \in BOOLEAN : Saves(p, s, r, lands)
    BY <1>3, <2>1, QueueMoves DEF Reads, Loads, Empties, Sends
  <2>3. /\ w = opened + 1 /\ performed'[w].sig = s
    <3>1. /\ opened' \in {opened, opened + 1}
          /\ r.status = "pending" => performed'[opened + 1].sig = s
      BY <1>0, <2>2, SavedWindows
    <3>2. r.status = "pending"
      BY <2>1, <2>2 DEF Saves
    <3> QED BY <1>0, <1>3, <3>1, <3>2
  <2>4. Pending(rcopy'[q][s], opened + 1) /\ Pending(retries'[s], opened + 1)
    BY <2>3 DEF Holds, OnRecord
  <2>5. /\ ~Pending(retries[s], opened + 1) /\ ~Pending(rcopy[q][s], opened + 1)
    BY <1>0, NoLaterWindow DEF WindowInv
  <2>6. q = p
    <3>1. Others(p)
      BY <1>0, <1>3, OthersKeep
    <3> QED BY <2>4, <2>5, <3>1 DEF Others
  <2>7. lands = TRUE
    <3>1. retries'[s] = IF lands THEN r ELSE retries[s]
      BY <1>0, <1>1, <2>2, SavedRows
    <3> QED BY <2>4, <2>5, <3>1
  <2>8. "retries" \notin attached[p]
    BY <2>2, <2>6 DEF Saves
  <2> QED BY <2>2, <2>7, <2>8 DEF Saves, Writes
<1>4. CASE UNCHANGED <<pc, attached, retries, rcopy, opened, performed>>
  BY <1>4 DEF PrivateInv, Alive, Holds, OnRecord
<1>5. ASSUME NEW v \in 1..opened, WindowPasses(v) PROVE FALSE
  BY <1>4, <1>5 DEF WindowPasses, WindowEnds, procs, hist
<1>6. CASE UNCHANGED vars
  BY <1>4, <1>6 DEF vars, queue, procs, hist
<1> QED BY <1>2, <1>3, <1>5, <1>6 DEF Next, Moves

\* Who sends the retry of a window was waiting for it, and now settles it.
LEMMA SenderSettles ==
  ASSUME TypeOK, WindowInv, NEW p \in Processes, NEW s \in Signatures, NEW w \in 1..opened,
         Sends(p, s, w)
  PROVE  /\ Holds(p, w) /\ ~Settling(p, w) /\ Settling(p, w)' /\ OnRecord(w)' = OnRecord(w)
<1>1. performed'[w].sig = performed[w].sig
  BY SentWindows
<1>2. performed[w].sig = s /\ Pending(rcopy[p][s], w)
  <2>1. Pending(rcopy[p][s], w)
    BY DEF Sends
  <2>2. WindowsOf(rcopy[p], opened, performed)
    BY DEF WindowInv
  <2> QED BY <2>1, <2>2 DEF WindowsOf, Pending
<1>3. /\ rcopy'[p] = rcopy[p] /\ retries' = retries
      /\ pc[p] = "drain" /\ pc'[p] = "settle" /\ job'[p].sig = s
  BY DEF Sends
<1>4. Holds(p, w) /\ ~Settling(p, w)
  BY <1>2, <1>3 DEF Holds, Settling
<1>5. Settling(p, w)'
  BY <1>1, <1>2, <1>3 DEF Holds, Settling
<1>6. OnRecord(w)' = OnRecord(w)
  BY <1>1, <1>3 DEF OnRecord
<1> QED BY <1>4, <1>5, <1>6

LEMMA BandStep ==
  ASSUME IsFiniteSet(Processes), TypeInv, JobInv, BandInv, [Next]_vars
  PROVE  BandInv'
<1>0. /\ TypeOK /\ joins \in Nat /\ joins' \in {joins, joins + 1}
      /\ DOMAIN pc = Processes /\ DOMAIN rcopy = Processes
  BY JoinsGrow, Domains DEF TypeInv
<1>l. Living \in SUBSET Processes /\ Living' \in SUBSET Processes
  BY DEF Living
<1>f. /\ IsFiniteSet(Living) /\ IsFiniteSet(Living')
      /\ Cardinality(Living) \in Nat /\ Cardinality(Living') \in Nat
  BY <1>l, FS_Subset, FS_CardinalityType
\* A process that stays as alive as it was, or goes.
<1>1. ASSUME NEW p \in Processes, Others(p), Alive(p)' => Alive(p),
             ~Alive(p)' => rcopy'[p] = NoRetries
      PROVE  BandInv'
  <2>1. \A q \in Processes : Alive(q)' => Alive(q)
    BY <1>1 DEF Others, Alive
  <2>2. Living' \subseteq Living
    BY <2>1 DEF Living
  <2>3. Cardinality(Living') <= Cardinality(Living)
    BY <1>f, <2>2, FS_Subset
  <2>4. Cardinality(Living') <= 1 + joins'
    BY <1>0, <1>f, <2>3 DEF BandInv
  <2>5. \A q \in Processes : ~Alive(q)' => rcopy'[q] = NoRetries
    BY <1>1 DEF Others, Alive, BandInv
  <2> QED BY <2>4, <2>5 DEF BandInv
<1>2. ASSUME NEW p \in Processes, Moves(p), pc[p] = "down" PROVE BandInv'
  <2>0. Others(p)
    BY <1>0, <1>2, OthersKeep
  <2>1. PICK loaded \in SUBSET Stores, clients \in SUBSET Stores : Start(p, loaded, clients)
    BY <1>2 DEF Moves, Begins, RunBegins, DrainBegins, Run, RunRefreshes, RunDefers,
                RunNotifies, Ends, RunEnds, Drain, DrainSends, DrainDefers, DrainCompletes,
                DrainCloses, DrainFindsNothingOpen, Stops, Exit, Crash, Reset
  <2>2. /\ joins' = IF \A q \in Processes : pc[q] = "down" THEN joins ELSE joins + 1
        /\ pc'[p] = "idle"
    BY <1>0, <2>1 DEF Start
  <2>3. Living' = Living \cup {p} /\ p \notin Living
    BY <1>2, <2>0, <2>2 DEF Living, Alive, Others
  <2>4. Cardinality(Living') = Cardinality(Living) + 1
    BY <1>f, <2>3, FS_AddElement
  <2>5. Cardinality(Living') <= 1 + joins'
    <3>1. CASE \A q \in Processes : pc[q] = "down"
      <4>1. Living = {}
        BY <3>1 DEF Living, Alive
      <4>2. Cardinality(Living) = 0
        BY <4>1, FS_EmptySet
      <4> QED BY <1>0, <2>2, <2>4, <3>1, <4>2
    <3>2. CASE ~\A q \in Processes : pc[q] = "down"
      BY <1>0, <1>f, <2>2, <2>4, <3>2 DEF BandInv
    <3> QED BY <3>1, <3>2
  <2>6. \A q \in Processes : ~Alive(q)' => rcopy'[q] = NoRetries
    BY <2>0, <2>2 DEF Others, Alive, BandInv
  <2> QED BY <2>5, <2>6 DEF BandInv
<1>3. ASSUME NEW p \in Processes, Moves(p), pc[p] # "down" PROVE BandInv'
  <2>0. Others(p)
    BY <1>0, <1>3, OthersKeep
  <2>1. ASSUME ~Alive(p)' PROVE rcopy'[p] = NoRetries
    <3>1. CASE Reads(p) \/ Loads(p)
      BY <2>1, <3>1 DEF Reads, Loads, Alive
    <3>2. CASE Empties(p)
      BY <3>2 DEF Empties
    <3>3. CASE \E s \in Signatures, w \in 1..opened : Sends(p, s, w)
      BY <2>1, <3>3 DEF Sends, Alive
    <3>4. CASE \E s \in Signatures, r \in RetryRow, lands \in BOOLEAN : Saves(p, s, r, lands)
      BY <2>1, <3>4 DEF Saves, Alive
    <3> QED BY <1>3, <3>1, <3>2, <3>3, <3>4, QueueMoves
  <2> QED BY <1>1, <1>3, <2>0, <2>1 DEF Alive
<1>4. ASSUME UNCHANGED <<pc, rcopy, joins>> PROVE BandInv'
  BY <1>4 DEF BandInv, Living, Alive
<1>5. ASSUME NEW w \in 1..opened, WindowPasses(w) PROVE BandInv'
  BY <1>4, <1>5 DEF WindowPasses, WindowEnds, procs, hist
<1>6. CASE UNCHANGED vars
  BY <1>4, <1>6 DEF vars, queue, procs, hist
<1> QED BY <1>2, <1>3, <1>5, <1>6 DEF Next, Moves

\* Who holds a window's row is alive.
LEMMA HoldersLive ==
  TypeOK /\ BandInv => \A q \in Processes, w \in 1..opened : Holds(q, w) => q \in Living
<1> SUFFICES ASSUME TypeOK, BandInv, NEW q \in Processes, NEW w \in 1..opened, Holds(q, w),
                    ~Alive(q)
             PROVE  FALSE
  BY DEF Living
<1>1. performed[w].sig \in Signatures
  BY DEF TypeOK
<1>2. rcopy[q] = NoRetries
  BY DEF BandInv
<1> QED BY <1>1, <1>2 DEF Holds, Pending, NoRetries, NoRow

LEMMA HoldersLiveAfter ==
  TypeOK' /\ BandInv' =>
    \A q \in Processes, w \in 1..opened' : Holds(q, w)' => q \in Living'
<1> SUFFICES ASSUME TypeOK', BandInv', NEW q \in Processes, NEW w \in 1..opened',
                    Holds(q, w)', ~Alive(q)'
             PROVE  FALSE
  BY DEF Living
<1>1. performed'[w].sig \in Signatures
  BY DEF TypeOK
<1>2. rcopy'[q] = NoRetries
  BY DEF BandInv
<1> QED BY <1>1, <1>2 DEF Holds, Pending, NoRetries, NoRow

LEMMA SendStep ==
  ASSUME IsFiniteSet(Processes), TypeInv, JobInv, AgreeInv, WindowInv, PrivateInv, BandInv,
         BandInv', SendInv, [Next]_vars
  PROVE  SendInv'
<1> DEFINE Balanced(w) ==
             Paid(OnRecord(w), performed[w].times, faults, joins, Settlers(w), Waiters(w))'
<1> SUFFICES ASSUME backend' = "table" \/ ~overlapped', NEW w \in 1..opened'
             PROVE  Balanced(w)
  BY DEF SendInv
<1>0. /\ TypeOK /\ TypeOK' /\ opened \in Nat /\ (backend = "table" \/ ~overlapped)
      /\ \A v \in 1..opened :
           Paid(OnRecord(v), performed[v].times, faults, joins, Settlers(v), Waiters(v))
      /\ \A v \in 1..opened : performed[v].times \in Nat
      /\ faults \in Nat /\ faults' \in {faults, faults + 1} /\ w \in Nat
      /\ joins \in Nat /\ joins' \in {joins, joins + 1}
  <2>1. TypeOK /\ TypeOK'
    BY TypeStep DEF TypeInv
  <2>2. backend = "table" \/ ~overlapped
    BY <2>1, BackendKept, JoinsGrow
  <2>3. \A v \in 1..opened : performed[v].times \in Nat
    BY <2>1 DEF TypeOK
  <2>4. opened \in Nat /\ opened' \in Nat
    BY <2>1 DEF TypeOK, RetryTypeOK
  <2> QED BY <2>1, <2>2, <2>3, <2>4, FaultsGrow, JoinsGrow DEF SendInv
<1> DEFINE on == OnRecord(w)  on2 == OnRecord(w)'
           t == performed[w].times  t2 == performed'[w].times
           S == Settlers(w)  S2 == Settlers(w)'
           W == Waiters(w)   W2 == Waiters(w)'
<1>s. /\ S \in SUBSET Processes /\ S2 \in SUBSET Processes
      /\ W \in SUBSET Processes /\ W2 \in SUBSET Processes
      /\ on \in BOOLEAN /\ on2 \in BOOLEAN /\ S \cap W = {} /\ S2 \cap W2 = {}
  BY DEF Settlers, Waiters, OnRecord, Pending
<1>l. /\ Living \in SUBSET Processes /\ Living' \in SUBSET Processes
      /\ Cardinality(Living) \in Nat /\ Cardinality(Living') \in Nat
      /\ Cardinality(Living) <= 1 + joins /\ Cardinality(Living') <= 1 + joins'
  <2>1. Living \in SUBSET Processes /\ Living' \in SUBSET Processes
    BY DEF Living
  <2> QED BY <2>1, FS_Subset, FS_CardinalityType DEF BandInv
<1>w. S2 \subseteq Living' /\ W2 \subseteq Living'
  <2>1. \A q \in Processes : Holds(q, w)' => q \in Living'
    BY <1>0, HoldersLiveAfter
  <2> QED BY <2>1 DEF Settlers, Waiters, Settling
<1>b. Balanced(w) = Paid(on2, t2, faults', joins', S2, W2)
  BY DEF Paid
<1>1. ASSUME NEW p \in Processes, Moves(p), w \in 1..opened PROVE Balanced(w)
  <2>1. /\ performed'[w].sig = performed[w].sig /\ (on2 => on)
        /\ Holds(p, w)' => (Holds(p, w) /\ ~Settling(p, w)) \/ on
        /\ Settling(p, w) => ~Holds(p, w)' /\ (on2 => faults' = faults + 1)
    BY <1>0, <1>1, OldWindow
  <2>2. ASSUME NEW q \in Processes, q # p
        PROVE  Holds(q, w)' = Holds(q, w) /\ Settling(q, w)' = Settling(q, w)
    <3>1. pc'[q] = pc[q] /\ job'[q] = job[q] /\ rcopy'[q] = rcopy[q]
      BY <1>0, <1>1, <2>2, OthersKeep DEF Others
    <3> QED BY <2>1, <3>1 DEF Holds, Settling
  <2>3. /\ \A q \in Processes : q \in S <=> Settling(q, w)
        /\ \A q \in Processes : q \in S2 <=> Settling(q, w)'
        /\ \A q \in Processes : q \in W <=> Holds(q, w) /\ ~Settling(q, w)
        /\ \A q \in Processes : q \in W2 <=> Holds(q, w)' /\ ~Settling(q, w)'
    BY DEF Settlers, Waiters
  <2>4. /\ S \cap W2 = {} /\ S \subseteq S2 \cup {p} /\ (~on => W2 \subseteq W)
        /\ (p \in S /\ p \notin S2 /\ on2) => faults' = faults + 1
    <3> HIDE DEF on, on2, S, S2, W, W2
    <3>1. S \cap W2 = {}
      <4>1. ASSUME NEW q \in Processes, q \in S, q \in W2 PROVE FALSE
        BY <2>1, <2>2, <2>3, <4>1
      <4> QED BY <1>s, <4>1
    <3>2. S \subseteq S2 \cup {p}
      BY <1>s, <2>2, <2>3
    <3>3. ASSUME ~on PROVE W2 \subseteq W
      BY <1>s, <2>1, <2>2, <2>3, <3>3
    <3> QED BY <2>1, <2>3, <3>1, <3>2, <3>3
  <2>5. Paid(on, t, faults, joins, S, W) /\ t \in Nat
    BY <1>0, <1>1
  <2>6. CASE t2 = t
    <3>1. PICK L \in SUBSET Processes :
            S \subseteq L /\ W2 \subseteq L /\ Cardinality(L) <= 1 + joins'
      <4>1. S \subseteq Living
        <5>1. \A q \in Processes : Holds(q, w) => q \in Living
          BY <1>0, <1>1, HoldersLive
        <5> QED BY <5>1 DEF Settlers, Settling
      <4>2. Living \subseteq Living' \/ Living' \subseteq Living
        <5>1. Others(p)
          BY <1>0, <1>1, OthersKeep
        <5> QED BY <5>1 DEF Living, Alive, Others
      <4> HIDE DEF S, S2, W, W2
      <4>3. CASE Living \subseteq Living'
        BY <1>l, <1>w, <4>1, <4>3
      <4>4. CASE Living' \subseteq Living
        BY <1>0, <1>l, <1>w, <4>1, <4>4
      <4> QED BY <4>2, <4>3, <4>4
    <3>2. Paid(on2, t, faults', joins', S2, W2)
      <4> HIDE DEF on, on2, S, S2, W, W2, t
      <4>1. /\ faults \in Nat /\ faults' \in Nat /\ (faults' = faults \/ faults' = faults + 1)
            /\ joins \in Nat /\ joins' \in Nat /\ joins <= joins'
        BY <1>0
      <4>2. on2 => on
        BY <2>1
      <4>3. S \in SUBSET L /\ W2 \in SUBSET L
        BY <3>1
      <4> QED BY <1>1, <1>s, <2>4, <2>5, <3>1, <4>1, <4>2, <4>3, StillPaid
    <3> QED BY <1>b, <2>6, <3>2
  <2>7. ASSUME NEW s \in Signatures, Sends(p, s, w) PROVE Balanced(w)
    <3>1. Holds(p, w) /\ ~Settling(p, w) /\ Settling(p, w)' /\ on2 = on
      BY <1>0, <1>1, <2>7, SenderSettles
    <3>2. t2 = t + 1
      BY <1>0, <1>1, <2>7, SentWindows
    <3> HIDE DEF on, on2, S, S2, W, W2, t, t2
    <3>3. p \in W /\ p \notin S
      BY <2>3, <3>1
    <3>4. S2 = S \cup {p}
      BY <1>s, <2>2, <2>3, <3>1
    <3>5. W2 = W \ {p}
      BY <1>s, <2>2, <2>3, <3>1
    <3>6. Paid(on, t + 1, faults, joins, S \cup {p}, W \ {p})
      BY <1>0, <1>s, <2>5, <3>3, SendPaid
    <3>7. Paid(on2, t2, faults, joins, S2, W2)
      BY <3>1, <3>2, <3>4, <3>5, <3>6
    <3>8. Paid(on2, t2, faults', joins', S2, W2)
      <4>1. Cardinality(S2) \in Nat /\ Cardinality(W2) \in Nat /\ t2 \in Nat
        BY <1>s, <2>5, <3>2, FS_Subset, FS_CardinalityType
      <4> QED BY <1>0, <3>7, <4>1 DEF Paid
    <3> QED BY <1>b, <3>8
  <2>8. t2 = t \/ \E s \in Signatures : Sends(p, s, w)
    <3>1. CASE Reads(p) \/ Loads(p) \/ Empties(p)
      BY <3>1 DEF Reads, Loads, Empties
    <3>2. ASSUME NEW s \in Signatures, NEW v \in 1..opened, Sends(p, s, v), v # w PROVE t2 = t
      BY <1>0, <1>1, <3>2, SentWindows
    <3>3. ASSUME NEW s \in Signatures, NEW r \in RetryRow, NEW lands \in BOOLEAN,
                 Saves(p, s, r, lands)
          PROVE  t2 = t
      <4>1. performed'[w] = performed[w]
        BY <1>0, <1>1, <3>3, SavedWindows
      <4> QED BY <4>1
    <3> HIDE DEF t, t2
    <3> QED BY <1>1, <3>1, <3>2, <3>3, QueueMoves
  <2> QED BY <2>6, <2>7, <2>8
<1>2. ASSUME NEW p \in Processes, Moves(p), w \notin 1..opened PROVE Balanced(w)
  <2>1. opened' # opened
    BY <1>2
  <2>2. PICK s \in Signatures, r \in RetryRow, lands \in BOOLEAN : Saves(p, s, r, lands)
    BY <1>2, <2>1, QueueMoves DEF Reads, Loads, Empties, Sends
  <2>3. t2 = 0
    <3>1. /\ opened' \in {opened, opened + 1}
          /\ opened' = opened + 1 => performed'[opened + 1].times = 0
      BY <1>0, <2>2, SavedWindows
    <3>2. w = opened + 1 /\ opened' = opened + 1
      BY <1>0, <1>2, <2>1, <3>1
    <3> QED BY <3>1, <3>2
  <2>4. /\ Cardinality(S2) \in Nat /\ Cardinality(W2) \in Nat
        /\ Cardinality(S2) + Cardinality(W2) <= Cardinality(Living')
    <3> HIDE DEF S2, W2
    <3>1. S2 \in SUBSET Living' /\ W2 \in SUBSET Living'
      BY <1>w
    <3> QED BY <1>s, <1>l, <3>1, TwoGroups
  <2>5. Paid(on2, t2, faults', joins', S2, W2)
    BY <1>0, <1>l, <2>3, <2>4 DEF Paid
  <2> QED BY <1>b, <2>5
<1>3. ASSUME UNCHANGED <<pc, job, retries, rcopy, opened, performed, faults, joins>>
      PROVE  Balanced(w)
  <2>1. w \in 1..opened /\ t2 = t /\ on2 = on /\ S2 = S /\ W2 = W
        /\ faults' = faults /\ joins' = joins
    BY <1>3 DEF OnRecord, Settlers, Waiters, Settling, Holds
  <2> QED BY <1>0, <1>b, <2>1
<1>4. ASSUME NEW v \in 1..opened, WindowPasses(v) PROVE Balanced(w)
  BY <1>3, <1>4 DEF WindowPasses, WindowEnds, procs, hist
<1>5. CASE UNCHANGED vars
  BY <1>3, <1>5 DEF vars, queue, procs, hist
<1> HIDE DEF Balanced
<1> QED BY <1>1, <1>2, <1>4, <1>5 DEF Next, Moves

SendsInv ==
  TypeInv /\ JobInv /\ AgreeInv /\ WindowInv /\ PrivateInv /\ BandInv /\ SendInv

\* A postponed retry is sent once, once more for each process that was started beside a
\* living one, and once more for each fault; for any number of processes, windows, joins
\* and faults, in the table store, and in the JSON store as long as no process joined
\* another.
THEOREM RetriesAreSentSeldom ==
  ASSUME IsFiniteSet(Processes)
  PROVE  Spec => []RetriesAreBounded
<1>1. Init => SendsInv
  <2> SUFFICES ASSUME Init PROVE WindowInv /\ PrivateInv /\ BandInv /\ SendInv
    BY LedgerInit DEF LedgerInv, SendsInv
  <2>0. /\ opened = 0 /\ joins = 0 /\ retries = NoRetries
        /\ \A p \in Processes : rcopy[p] = NoRetries /\ pc[p] = "down"
    BY DEF Init, RetryInit
  <2>1. WindowInv
    BY <2>0 DEF WindowInv, WindowsOf, NoRetries, NoRow
  <2>2. PrivateInv /\ SendInv
    BY <2>0 DEF PrivateInv, SendInv
  <2>3. BandInv
    <3>1. Living = {}
      BY <2>0 DEF Living, Alive
    <3>2. Cardinality(Living) = 0
      BY <3>1, FS_EmptySet
    <3> QED BY <2>0, <3>2 DEF BandInv
  <2> QED BY <2>1, <2>2, <2>3
<1>2. SendsInv /\ [Next]_vars => SendsInv'
  <2> SUFFICES ASSUME SendsInv, [Next]_vars PROVE SendsInv'
    OBVIOUS
  <2>0. TypeInv /\ JobInv /\ AgreeInv /\ WindowInv /\ PrivateInv /\ BandInv /\ SendInv
    BY DEF SendsInv
  <2>1. TypeInv' /\ AgreeInv'
    BY <2>0, TypeStep, AgreeStep
  <2>2. JobInv' /\ WindowInv'
    BY <2>0, <2>1, JobStep, WindowStep
  <2>3. PrivateInv' /\ BandInv'
    BY <2>0, <2>1, PrivateStep, BandStep
  <2>4. SendInv'
    BY <2>0, <2>3, SendStep
  <2> QED BY <2>1, <2>2, <2>3, <2>4 DEF SendsInv
<1>3. SendsInv => RetriesAreBounded
  <2> SUFFICES ASSUME SendsInv, backend = "table" \/ ~overlapped, NEW w \in 1..opened
               PROVE  performed[w].times <= 1 + joins + faults
    BY DEF RetriesAreBounded
  <2>1. /\ Paid(OnRecord(w), performed[w].times, faults, joins, Settlers(w), Waiters(w))
        /\ faults \in Nat /\ joins \in Nat /\ performed[w].times \in Nat
        /\ Cardinality(Living) <= 1 + joins
    BY DEF SendsInv, SendInv, BandInv, TypeInv, TypeOK
  <2>2. /\ Settlers(w) \in SUBSET Living /\ Waiters(w) \in SUBSET Living
        /\ Settlers(w) \cap Waiters(w) = {} /\ Living \in SUBSET Processes
    <3>1. \A q \in Processes : Holds(q, w) => q \in Living
      BY HoldersLive DEF SendsInv, TypeInv
    <3> QED BY <3>1 DEF Settlers, Waiters, Settling, Living
  <2>3. /\ Cardinality(Settlers(w)) \in Nat /\ Cardinality(Waiters(w)) \in Nat
        /\ Cardinality(Living) \in Nat
        /\ Cardinality(Settlers(w)) + Cardinality(Waiters(w)) <= Cardinality(Living)
    BY <2>2, TwoGroups
  <2> QED BY <2>1, <2>3 DEF Paid
<1> QED BY <1>1, <1>2, <1>3, PTL DEF Spec
=============================================================================
