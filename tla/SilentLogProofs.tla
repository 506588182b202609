--------------------------- MODULE SilentLogProofs ---------------------------
(***************************************************************************)
(* What sweeps that come one after the other may say, for any thresholds,  *)
(* models and faults.                                                      *)
(*                                                                         *)
(* As long as the log is kept, one sweep at most is at work, everything it *)
(* wrote has landed, and its copies are what the stores hold; so the       *)
(* counters of the row are those of the readings themselves.               *)
(***************************************************************************)
EXTENDS SilentScanProofs, Integers

LogRecord == [kept : BOOLEAN, streak : Kinds, n : 0..Confirmations, blind : Int,
              told : SUBSET Signature, twice : BOOLEAN]

Early == {"ready", "refused", "taking", "sweeping"}

\* The row counts what the log has seen: the suspicion is the streak, and a query that is
\* still to be refused is within the limit.
RowInv ==
  /\ row.kind = log.streak
  /\ row.kind # "none" => row.suspects = log.n
  /\ row.breaker = "due" => log.blind <= MaxErrors - 1
  /\ row.errors < MaxErrors => row.breaker = "closed" /\ log.blind <= row.errors

SameReadings(s) ==
  /\ copy[s].rows = row.rows /\ copy[s].shape = row.shape
  /\ copy[s].kind = row.kind /\ copy[s].suspects = row.suspects

\* What the sweep at work has in hand.
WorkInv(s) ==
  /\ online[s] /\ sweep[s].known = incidents
  /\ sweep[s].at \in Early \cup {"asked"} => copy[s] = row
  /\ sweep[s].at = "asked" => row.breaker = "closed" /\ log.blind <= MaxErrors - 1
  /\ sweep[s].at = "judged" =>
       /\ SameReadings(s)
       /\ copy[s].errors = 0 /\ copy[s].breaker = "closed"
       /\ sweep[s].sig.kind = "none" => ~Collapsed(copy[s].rows, sweep[s].rows)
  /\ sweep[s].at = "releasing" /\ sweep[s].status = "confirmed" =>
       log.streak = sweep[s].sig.kind /\ log.n = Confirmations
  /\ sweep[s].at = "posting" => sweep[s].sig \notin incidents

\* Every card told is recorded, or about to be.
ToldInv ==
  \A sig \in log.told \ incidents :
    \E s \in Sweeps : sweep[s].at = "recording" /\ sweep[s].told /\ sweep[s].sig = sig

KeptInv ==
  /\ \A s, t \in AtWork : s = t
  /\ RowInv /\ ToldInv
  /\ \A s \in AtWork : WorkInv(s)

LogInv ==
  /\ log \in LogRecord
  /\ ~log.twice
  /\ log.blind <= MaxErrors
  /\ log.kept => KeptInv

-----------------------------------------------------------------------------
(* Steps in general.                                                       *)

LEMMA FreshLogs ==
  /\ NewLog \in LogRecord /\ NoLog \in LogRecord
  /\ ~NewLog.twice /\ NewLog.blind = 0 /\ NewLog.told = {}
  /\ NewLog.streak = "none" /\ NewLog.n = 0
  /\ ~NoLog.kept /\ ~NoLog.twice /\ NoLog.blind = 0
<1>1. 0 \in 0..Confirmations
  BY HealthAssumption
<1>2. NewLog \in LogRecord
  BY <1>1 DEF NewLog, LogRecord, Kinds
<1>3. /\ ~NewLog.twice /\ NewLog.blind = 0 /\ NewLog.told = {}
      /\ NewLog.streak = "none" /\ NewLog.n = 0
  BY DEF NewLog
<1>4. NoLog \in LogRecord /\ ~NoLog.kept /\ ~NoLog.twice /\ NoLog.blind = 0
  BY <1>2, <1>3 DEF NoLog, LogRecord
<1> QED
  BY <1>2, <1>3, <1>4

\* A log that ended promises nothing more.
LEMMA LostLog ==
  ASSUME log' = NoLog
  PROVE  LogInv'
<1>1. log' \in LogRecord'
  BY FreshLogs DEF LogRecord, Kinds, Signature
<1> QED
  BY <1>1, FreshLogs, HealthAssumption DEF LogInv

LEMMA EndedLog ==
  ASSUME LogInv, ~log.kept, log' \in {log, NoLog}
  PROVE  LogInv'
<1>1. CASE log' = log
  BY <1>1 DEF LogInv, LogRecord, Kinds, Signature
<1> QED
  BY <1>1, LostLog

\* A call that fails ends the log; one that lands writes what happened.
LEMMA CallsLog ==
  ASSUME NEW lands \in BOOLEAN, NEW entry, Calls(lands, entry)
  PROVE  /\ log' = NoLog \/ (lands /\ log.kept /\ log' = entry)
         /\ ~log.kept => log' = NoLog
BY DEF Calls, Writes

\* The log is kept, and so is what it stands for.
LEMMA KeptLog ==
  ASSUME LogInv, log.kept, log' \in LogRecord, ~log'.twice, log'.blind <= MaxErrors, KeptInv'
  PROVE  LogInv'
BY DEF LogInv, LogRecord, Kinds, Signature

\* One sweep is at work, and only it moves.
LEMMA OneMoves ==
  ASSUME NEW s \in Sweeps, AtWork \subseteq {s},
         \A t \in Sweeps \ {s} : sweep'[t] = sweep[t],
         RowInv', ToldInv', sweep'[s].at # "idle" => WorkInv(s)'
  PROVE  KeptInv'
<1>1. AtWork' \subseteq {s}
  BY DEF AtWork
<1>2. \A t \in AtWork' : WorkInv(t)'
  BY <1>1, Zenon DEF AtWork
<1> QED
  BY <1>1, <1>2, Zenon DEF KeptInv

LEMMA Alone ==
  ASSUME KeptInv, NEW s \in Sweeps, sweep[s].at # "idle"
  PROVE  AtWork \subseteq {s} /\ WorkInv(s)
BY Zenon DEF KeptInv, AtWork

\* Nothing is told, and no card is on its way to the store.
LEMMA ToldStays ==
  ASSUME KeptInv, NEW s \in Sweeps, AtWork \subseteq {s}, sweep[s].at # "recording",
         log'.told = log.told, incidents' = incidents
  PROVE  ToldInv'
<1>1. log.told \subseteq incidents
  BY DEF KeptInv, ToldInv, AtWork
<1> QED
  BY <1>1 DEF ToldInv

LEMMA RowStays ==
  ASSUME RowInv, UNCHANGED <<row, log>>
  PROVE  RowInv'
BY DEF RowInv

\* A step of the one sweep at work, after which its record is w.
LEMMA StepLog ==
  ASSUME IInv, LogInv, log.kept, NEW s \in Sweeps, sweep[s].at # "idle",
         NEW w, sweep' = [sweep EXCEPT ![s] = w],
         log' \in LogRecord, ~log'.twice, log'.blind <= MaxErrors,
         RowInv', ToldInv', w.at # "idle" => WorkInv(s)'
  PROVE  LogInv'
<1>1. KeptInv
  BY DEF LogInv
<1>2. sweep'[s] = w /\ \A t \in Sweeps \ {s} : sweep'[t] = sweep[t]
  BY DEF IInv, TypeInv, SweepInv
<1>3. KeptInv'
  BY <1>1, <1>2, Alone, OneMoves
<1> QED
  BY <1>3, KeptLog

\* A step of the one sweep at work that writes no log and no row, and tells nobody.
LEMMA QuietLog ==
  ASSUME IInv, LogInv, log.kept, NEW s \in Sweeps, sweep[s].at \notin {"idle", "recording"},
         NEW w, sweep' = [sweep EXCEPT ![s] = w], UNCHANGED <<row, incidents, log>>,
         w.at # "idle" => WorkInv(s)'
  PROVE  LogInv'
<1>1. KeptInv /\ AtWork \subseteq {s}
  BY Alone DEF LogInv
<1>2. RowInv' /\ ToldInv'
  BY <1>1, RowStays, ToldStays DEF KeptInv
<1>3. log' \in LogRecord /\ ~log'.twice /\ log'.blind <= MaxErrors
  BY DEF LogInv
<1> QED
  BY <1>2, <1>3, StepLog

LEMMA EndsLog ==
  ASSUME IInv, LogInv, NEW s \in Sweeps, sweep[s].at \notin {"idle", "recording"}, Ends(s),
         UNCHANGED <<row, incidents, log>>
  PROVE  LogInv'
<1>1. CASE ~log.kept
  BY <1>1, EndedLog
<1>2. CASE log.kept
  <2>1. Idle.at = "idle" /\ sweep' = [sweep EXCEPT ![s] = Idle]
    BY DEF Idle, Ends
  <2> QED
    BY <1>2, <2>1, QuietLog
<1> QED
  BY <1>1, <1>2

\* A call that fails loses the log; so only what lands while it is kept is left to show.
LEMMA LandsLog ==
  ASSUME LogInv, NEW lands \in BOOLEAN, NEW entry, Calls(lands, entry),
         lands /\ log.kept /\ log' = entry => LogInv'
  PROVE  LogInv'
BY CallsLog, LostLog

-----------------------------------------------------------------------------
(* The steps of a sweep.                                                   *)

\* A sweep that has not read its row for good yet.
LEMMA EarlyLog ==
  ASSUME IInv, LogInv, NEW s \in Sweeps, sweep[s].at \in Early, NEW at \in Early, Goes(s, at),
         UNCHANGED <<row, copy, online, incidents, log>>
  PROVE  LogInv'
<1> DEFINE w == [sweep[s] EXCEPT !.at = at]
<1>1. CASE ~log.kept
  BY <1>1, EndedLog
<1>2. CASE log.kept
  <2>1. WorkInv(s) /\ sweep[s].at \notin {"idle", "recording"}
    BY <1>2, Alone DEF LogInv, Early
  <2>2. sweep[s] \in Working
    BY DEF IInv, TypeInv, SweepInv
  <2>3. w.at = at /\ w.known = sweep[s].known
    BY <2>2 DEF Working
  <2>4. sweep' = [sweep EXCEPT ![s] = w] /\ sweep'[s] = w
    BY DEF Goes, IInv, TypeInv, SweepInv
  <2> HIDE DEF w
  <2>5. WorkInv(s)'
    BY <2>1, <2>3, <2>4 DEF WorkInv, Early
  <2> QED
    BY <1>2, <2>1, <2>4, <2>5, QuietLog
<1> QED
  BY <1>1, <1>2

LEMMA WakeLog ==
  ASSUME IInv, LogInv, NEW s \in Sweeps, NEW opened \in BOOLEAN, NEW seen \in BOOLEAN,
         Wake(s, opened, seen)
  PROVE  LogInv'
<1> DEFINE entry == IF AtWork = {} THEN log ELSE NoLog
           w == [Idle EXCEPT !.at = "ready", !.known = incidents]
<1>1. Calls(seen, entry) /\ UNCHANGED <<row, incidents>>
  BY DEF Wake, LoadHealth
<1>2. ASSUME seen, log.kept, log' = entry
      PROVE  LogInv'
  <2>1. CASE AtWork # {}
    BY <1>2, <2>1, LostLog
  <2>2. CASE AtWork = {}
    <3>1. UNCHANGED <<row, incidents, log>> /\ online'[s] /\ copy'[s] = row
      BY <1>2, <2>2 DEF Wake, LoadHealth, IInv, TypeInv, HealthTypeOK
    <3>2. sweep' = [sweep EXCEPT ![s] = w]
      BY DEF Wake
    <3>3. w.at = "ready" /\ w.known = incidents
      BY DEF Idle
    <3> HIDE DEF w
    <3>4. sweep'[s] = w /\ \A t \in Sweeps \ {s} : sweep'[t] = sweep[t]
      BY <3>2 DEF IInv, TypeInv, SweepInv
    <3>5. WorkInv(s)'
      BY <3>1, <3>3, <3>4 DEF WorkInv
    <3>6. RowInv' /\ ToldInv'
      BY <1>2, <2>2, <3>1, RowStays DEF LogInv, KeptInv, ToldInv, AtWork
    <3>7. KeptInv'
      BY <2>2, <3>4, <3>5, <3>6, OneMoves
    <3> QED
      BY <1>2, <3>1, <3>7, KeptLog DEF LogInv
  <2> QED
    BY <2>1, <2>2
<1> HIDE DEF entry
<1> QED
  BY <1>1, <1>2, LandsLog

LEMMA AskLeaseLog ==
  ASSUME IInv, LogInv, NEW s \in Sweeps, AskLease(s)
  PROVE  LogInv'
<1>1. /\ UNCHANGED <<row, copy, online, incidents, log>> /\ sweep[s].at \in Early
      /\ Goes(s, "sweeping") \/ Goes(s, "refused")
  BY DEF AskLease, health, hist, Early
<1>2. "sweeping" \in Early /\ "refused" \in Early
  BY DEF Early
<1> QED
  BY <1>1, <1>2, EarlyLog

LEMMA LookAtLeaseLog ==
  ASSUME IInv, LogInv, NEW s \in Sweeps, LookAtLease(s)
  PROVE  LogInv'
<1>1. UNCHANGED <<row, incidents, log>> /\ sweep[s].at = "refused"
  BY DEF LookAtLease, hist
<1>2. Ends(s) \/ (Goes(s, "taking") /\ UNCHANGED <<copy, online>>)
  BY DEF LookAtLease
<1>3. "refused" \in Early /\ "taking" \in Early
  BY DEF Early
<1> QED
  BY <1>1, <1>2, <1>3, EarlyLog, EndsLog

LEMMA TakeOverLog ==
  ASSUME IInv, LogInv, NEW s \in Sweeps, TakeOver(s)
  PROVE  LogInv'
<1>1. UNCHANGED <<row, incidents, log>> /\ sweep[s].at = "taking"
  BY DEF TakeOver, hist
<1>2. Ends(s) \/ (Goes(s, "sweeping") /\ UNCHANGED <<copy, online>>)
  BY Zenon DEF TakeOver
<1>3. "taking" \in Early /\ "sweeping" \in Early
  BY DEF Early
<1> QED
  BY <1>1, <1>2, <1>3, EarlyLog, EndsLog

\* A step of the scan: it may write the row, and nobody is told.
LEMMA ScanLog ==
  ASSUME IInv, LogInv, log.kept, NEW s \in Sweeps, sweep[s].at \notin {"idle", "recording"},
         NEW w, sweep' = [sweep EXCEPT ![s] = w], incidents' = incidents,
         log' \in LogRecord, log'.told = log.told, ~log'.twice, log'.blind <= MaxErrors,
         RowInv', w.at # "idle" => WorkInv(s)'
  PROVE  LogInv'
<1>1. KeptInv /\ AtWork \subseteq {s}
  BY Alone DEF LogInv
<1>2. ToldInv'
  BY <1>1, ToldStays
<1> QED
  BY <1>2, StepLog

\* What a sweep about to scan knows is the row, whichever storage it has.
LEMMA ReadsRow ==
  ASSUME IInv, LogInv, log.kept, NEW s \in Sweeps, sweep[s].at = "sweeping"
  PROVE  /\ Known(s) = row /\ online[s] /\ sweep[s].known = incidents
         /\ row \in ProbeState /\ log \in LogRecord /\ RowInv
<1>1. WorkInv(s) /\ RowInv
  BY Alone DEF LogInv, KeptInv
<1>2. copy[s] = row
  BY <1>1 DEF WorkInv, Early
<1> QED
  BY <1>1, <1>2 DEF WorkInv, Known, IInv, TypeInv, HealthTypeOK, LogInv

LEMMA BeginLog ==
  ASSUME IInv, LogInv, NEW s \in Sweeps, NEW lands \in BOOLEAN, Begin(s, lands)
  PROVE  LogInv'
<1>1. Calls(lands, log) /\ sweep[s].at = "sweeping" /\ UNCHANGED <<incidents, online>>
  BY DEF Begin
<1>2. ASSUME lands, log.kept, log' = log
      PROVE  LogInv'
  <2> DEFINE asks   == [sweep[s] EXCEPT !.at = "asked"]
             parks  == [sweep[s] EXCEPT !.at = "releasing", !.status = "parked", !.sig = Parked]
             closed == [row EXCEPT !.breaker = "closed"]
             armed  == [row EXCEPT !.breaker = "armed"]
  <2>1. /\ Known(s) = row /\ online[s] /\ sweep[s].known = incidents
        /\ row \in ProbeState /\ log \in LogRecord /\ RowInv
    BY <1>1, <1>2, ReadsRow
  <2>2. /\ row.errors \in 0..MaxErrors /\ log.blind \in Int /\ MaxErrors \in Nat
        /\ ~log.twice /\ log.blind <= MaxErrors /\ copy \in [Sweeps -> ProbeState]
        /\ sweep[s] \in Working
    BY <2>1, HealthAssumption
    DEF ProbeState, LogRecord, LogInv, IInv, TypeInv, HealthTypeOK, SweepInv
  <2>3. /\ asks.at = "asked" /\ asks.known = incidents
        /\ parks.at = "releasing" /\ parks.status = "parked" /\ parks.known = incidents
    BY <2>1, <2>2 DEF Working
  <2>4. \A state \in {closed, armed} :
          state.kind = row.kind /\ state.suspects = row.suspects /\ state.errors = row.errors
    BY <2>1 DEF ProbeState
  <2>5. closed.breaker = "closed" /\ armed.breaker = "armed"
    BY <2>1 DEF ProbeState
  <2>6. \/ /\ Breaker(row) = "closed"
           /\ copy' = [copy EXCEPT ![s] = row] /\ row' = row
           /\ sweep' = [sweep EXCEPT ![s] = asks]
        \/ /\ Breaker(row) = "due"
           /\ copy' = [copy EXCEPT ![s] = closed] /\ row' = closed
           /\ sweep' = [sweep EXCEPT ![s] = asks]
        \/ /\ Breaker(row) = "arms"
           /\ row' = armed
           /\ sweep' = [sweep EXCEPT ![s] = parks]
        \/ /\ Breaker(row) = "armed"
           /\ row' = row
           /\ sweep' = [sweep EXCEPT ![s] = parks]
    BY <1>2, <2>1, Zenon DEF Begin, SaveHealth, Goes, Finds
  <2>7. /\ Breaker(row) = "closed" => row.errors < MaxErrors
        /\ Breaker(row) # "closed" => row.errors = MaxErrors
        /\ Breaker(row) = "due" => row.breaker = "due"
    BY <2>1, <2>2 DEF Breaker, ProbeState
  <2> HIDE DEF asks, parks, closed, armed
  <2>8. ASSUME sweep' = [sweep EXCEPT ![s] = asks]
        PROVE  sweep'[s] = asks
    BY <2>8 DEF IInv, TypeInv, SweepInv
  <2>9. ASSUME sweep' = [sweep EXCEPT ![s] = parks]
        PROVE  sweep'[s] = parks
    BY <2>9 DEF IInv, TypeInv, SweepInv
  <2>10. ASSUME RowInv', sweep' = [sweep EXCEPT ![s] = asks], copy'[s] = row',
                row'.breaker = "closed", log.blind <= MaxErrors - 1
         PROVE  LogInv'
    <3>1. WorkInv(s)'
      BY <1>1, <1>2, <2>1, <2>3, <2>8, <2>10 DEF WorkInv, Early
    <3> QED
      BY <1>1, <1>2, <2>1, <2>2, <2>10, <3>1, ScanLog
  <2>11. ASSUME RowInv', sweep' = [sweep EXCEPT ![s] = parks]
         PROVE  LogInv'
    <3>1. WorkInv(s)'
      BY <1>1, <1>2, <2>1, <2>3, <2>9, <2>11 DEF WorkInv, Early
    <3> QED
      BY <1>1, <1>2, <2>1, <2>2, <2>11, <3>1, ScanLog
  <2>12. CASE Breaker(row) = "closed"
    <3>1. /\ row' = row /\ copy'[s] = row /\ sweep' = [sweep EXCEPT ![s] = asks]
          /\ row.errors < MaxErrors
      BY <2>2, <2>6, <2>7, <2>12
    <3>2. RowInv'
      BY <1>2, <2>1, <3>1, RowStays
    <3>3. row'.breaker = "closed" /\ log.blind <= MaxErrors - 1
      BY <2>1, <2>2, <3>1 DEF RowInv
    <3> QED
      BY <2>10, <3>1, <3>2, <3>3
  <2>13. CASE Breaker(row) = "due"
    <3>1. /\ row' = closed /\ copy'[s] = closed /\ sweep' = [sweep EXCEPT ![s] = asks]
          /\ row.errors = MaxErrors /\ row.breaker = "due"
      BY <2>2, <2>6, <2>7, <2>13
    <3>2. RowInv' /\ log.blind <= MaxErrors - 1
      BY <1>2, <2>1, <2>2, <2>4, <2>5, <3>1 DEF RowInv
    <3> QED
      BY <2>5, <2>10, <3>1, <3>2
  <2>14. CASE Breaker(row) = "arms"
    <3>1. /\ row' = armed /\ sweep' = [sweep EXCEPT ![s] = parks]
          /\ row.errors = MaxErrors
      BY <2>6, <2>7, <2>14
    <3>2. RowInv'
      BY <1>2, <2>1, <2>2, <2>4, <2>5, <3>1 DEF RowInv
    <3> QED
      BY <2>11, <3>1, <3>2
  <2>15. CASE Breaker(row) = "armed"
    <3>1. row' = row /\ sweep' = [sweep EXCEPT ![s] = parks]
      BY <2>6, <2>15
    <3>2. RowInv'
      BY <1>2, <2>1, <3>1, RowStays
    <3> QED
      BY <2>11, <3>1, <3>2
  <2> QED
    BY <2>6, <2>12, <2>13, <2>14, <2>15
<1> QED
  BY <1>1, <1>2, LandsLog

LEMMA ProbeFailsLog ==
  ASSUME IInv, LogInv, NEW s \in Sweeps, NEW lands \in BOOLEAN, ProbeFails(s, lands)
  PROVE  LogInv'
<1> DEFINE entry == [log EXCEPT !.blind = @ + 1]
<1>1. /\ Calls(lands, entry) /\ sweep[s].at = "asked" /\ UNCHANGED <<incidents, online>>
  BY DEF ProbeFails
<1>2. ASSUME lands, log.kept, log' = entry
      PROVE  LogInv'
  <2> DEFINE w   == [sweep[s] EXCEPT !.at = "releasing", !.status = "detector_fault",
                                     !.sig = NoSignature]
             new == [row EXCEPT !.errors = Atmost(@ + 1, MaxErrors)]
  <2>1. WorkInv(s) /\ RowInv
    BY <1>1, <1>2, Alone DEF LogInv, KeptInv
  <2>2. /\ copy[s] = row /\ online[s] /\ sweep[s].known = incidents
        /\ row.breaker = "closed" /\ log.blind <= MaxErrors - 1
    BY <1>1, <2>1 DEF WorkInv
  <2>3. /\ row \in ProbeState /\ sweep[s] \in Working /\ log \in LogRecord /\ ~log.twice
        /\ MaxErrors \in Nat
    BY HealthAssumption DEF IInv, TypeInv, SweepInv, HealthTypeOK, LogInv
  <2>4. row.errors \in 0..MaxErrors /\ log.blind \in Int
    BY <2>3 DEF ProbeState, LogRecord
  <2>5. /\ w.at = "releasing" /\ w.status = "detector_fault" /\ w.known = incidents
    BY <2>2, <2>3 DEF Working
  <2>6. /\ new.kind = row.kind /\ new.suspects = row.suspects /\ new.breaker = "closed"
        /\ new.errors = Atmost(row.errors + 1, MaxErrors)
    BY <2>2, <2>3 DEF ProbeState
  <2>7. /\ log' \in LogRecord /\ log'.blind = log.blind + 1 /\ ~log'.twice
        /\ log'.told = log.told /\ log'.streak = log.streak /\ log'.n = log.n
    BY <1>2, <2>3, <2>4 DEF LogRecord
  <2>8. row' = new /\ sweep' = [sweep EXCEPT ![s] = w] /\ sweep'[s] = w
    BY <1>2, <2>2 DEF ProbeFails, SaveHealth, Finds, IInv, TypeInv, SweepInv
  <2> HIDE DEF w, new, entry
  <2>9. RowInv'
    BY <2>1, <2>2, <2>3, <2>4, <2>6, <2>7, <2>8 DEF RowInv, Atmost
  <2>10. WorkInv(s)'
    BY <1>1, <2>2, <2>5, <2>8 DEF WorkInv, Early
  <2>11. log'.blind <= MaxErrors
    BY <2>2, <2>3, <2>4, <2>7
  <2> QED
    BY <1>1, <1>2, <2>7, <2>8, <2>9, <2>10, <2>11, ScanLog
<1> HIDE DEF entry
<1> QED
  BY <1>1, <1>2, LandsLog

\* Only data that has not collapsed is judged to be well.
LEMMA WellJudged ==
  ASSUME NEW state \in ProbeState, NEW m \in Models, Judge(state, m).kind = "none"
  PROVE  ~Collapsed(state.rows, m.rows)
<1>1. m.age \in Nat
  BY ModelFields
<1>2. /\ [NoSignature EXCEPT !.kind = "stale", !.age = m.age].kind = "stale"
      /\ [NoSignature EXCEPT !.kind = "row_collapse", !.rows = m.rows, !.base = state.rows].kind
           = "row_collapse"
  BY DEF NoSignature
<1>3. m.age > 0 => Judge(state, m) = [NoSignature EXCEPT !.kind = "stale", !.age = m.age]
  BY <1>1 DEF Judge
<1>4. m.age = 0 /\ Collapsed(state.rows, m.rows) =>
        Judge(state, m) =
          [NoSignature EXCEPT !.kind = "row_collapse", !.rows = m.rows, !.base = state.rows]
  BY <1>1 DEF Judge
<1>5. ~(m.age > 0) /\ ~(m.age = 0 /\ Collapsed(state.rows, m.rows))
  BY <1>2, <1>3, <1>4, Zenon
<1> QED
  BY <1>1, <1>5

LEMMA ProbeAnswersLog ==
  ASSUME IInv, LogInv, NEW s \in Sweeps, ProbeAnswers(s)
  PROVE  LogInv'
<1>1. /\ sweep[s].at = "asked" /\ UNCHANGED <<row, incidents, online, log>>
  BY DEF ProbeAnswers, hist
<1>2. CASE log.kept
  <2> DEFINE sig == Judge(copy[s], model)
             w   == [sweep[s] EXCEPT !.at = "judged", !.rows = model.rows, !.sig = sig]
             new == [copy[s] EXCEPT !.errors = 0, !.breaker = "closed"]
  <2>1. WorkInv(s)
    BY <1>1, <1>2, Alone DEF LogInv
  <2>2. copy[s] = row /\ online[s] /\ sweep[s].known = incidents
    BY <1>1, <2>1 DEF WorkInv
  <2>3. copy[s] \in ProbeState /\ sweep[s] \in Working /\ model \in Models
    BY DEF IInv, TypeInv, SweepInv, HealthTypeOK, RestInv
  <2>4. sig.kind = "none" => ~Collapsed(row.rows, model.rows)
    BY <2>2, <2>3, WellJudged
  <2>5. /\ w.at = "judged" /\ w.rows = model.rows /\ w.sig = sig /\ w.known = incidents
    BY <2>2, <2>3 DEF Working
  <2>6. /\ new.errors = 0 /\ new.breaker = "closed" /\ new.rows = row.rows
        /\ new.shape = row.shape /\ new.kind = row.kind /\ new.suspects = row.suspects
    BY <2>2, <2>3 DEF ProbeState
  <2>7. /\ sweep' = [sweep EXCEPT ![s] = w] /\ copy' = [copy EXCEPT ![s] = new]
    BY Zenon DEF ProbeAnswers
  <2>8. sweep'[s] = w /\ copy'[s] = new
    BY <2>7 DEF IInv, TypeInv, SweepInv, HealthTypeOK
  <2> HIDE DEF sig, w, new
  <2>9. SameReadings(s)'
    BY <1>1, <2>6, <2>8 DEF SameReadings
  <2>10. sweep'[s].sig.kind = "none" => ~Collapsed(copy'[s].rows, sweep'[s].rows)
    BY <2>4, <2>5, <2>6, <2>8
  <2>11. WorkInv(s)'
    BY <1>1, <2>2, <2>5, <2>6, <2>8, <2>9, <2>10, Zenon DEF WorkInv, Early
  <2> QED
    BY <1>1, <1>2, <2>7, <2>11, QuietLog
<1> QED
  BY <1>1, <1>2, EndedLog

\* What the schema check makes of a row: its baseline loses no column.
LEMMA SchemaRead ==
  ASSUME NEW state \in ProbeState, NEW m \in Models
  PROVE  LET read == SchemaCheck(state, m.shape).state IN
         /\ read \in ProbeState /\ state.shape \subseteq read.shape
         /\ read.rows = state.rows /\ read.kind = state.kind
         /\ read.suspects = state.suspects /\ read.errors = state.errors
         /\ read.breaker = state.breaker
<1> DEFINE read == SchemaCheck(state, m.shape).state
<1>1. read = state \/ (state.shape \subseteq m.shape /\ read = [state EXCEPT !.shape = m.shape])
  BY DEF SchemaCheck
<1>2. m.shape \subseteq Columns
  BY ModelFields
<1> HIDE DEF read
<1> SUFFICES /\ read \in ProbeState /\ state.shape \subseteq read.shape
             /\ read.rows = state.rows /\ read.kind = state.kind
             /\ read.suspects = state.suspects /\ read.errors = state.errors
             /\ read.breaker = state.breaker
  BY DEF read
<1> QED
  BY <1>1, <1>2 DEF ProbeState

\* What _record_healthy and _record_suspect make of it.
LEMMA Verdicts ==
  ASSUME NEW read \in ProbeState, NEW kind \in Kinds, NEW rows \in Nat
  PROVE  /\ LET new == Healthy(read, rows) IN
              /\ new \in ProbeState /\ new.shape = read.shape /\ new.kind = "none"
              /\ new.errors = read.errors /\ new.breaker = read.breaker /\ new.rows = rows
         /\ LET new == Suspect(read, kind) IN
              /\ new \in ProbeState /\ new.shape = read.shape /\ new.kind = kind
              /\ new.errors = read.errors /\ new.breaker = read.breaker /\ new.rows = read.rows
              /\ new.suspects = Atmost((IF read.kind = kind THEN read.suspects ELSE 0) + 1,
                                       Confirmations)
<1> DEFINE n == Atmost((IF read.kind = kind THEN read.suspects ELSE 0) + 1, Confirmations)
<1>1. Healthy(read, rows) \in ProbeState /\ Suspect(read, kind) \in ProbeState
  BY RowFields
<1>2. /\ Healthy(read, rows) = [read EXCEPT !.rows = rows, !.suspects = 0, !.kind = "none"]
      /\ Suspect(read, kind) = [read EXCEPT !.suspects = n, !.kind = kind]
  BY DEF Healthy, Suspect
<1> HIDE DEF n
<1>3. LET new == [read EXCEPT !.rows = rows, !.suspects = 0, !.kind = "none"] IN
        /\ new.shape = read.shape /\ new.kind = "none"
        /\ new.errors = read.errors /\ new.breaker = read.breaker /\ new.rows = rows
  BY DEF ProbeState
<1>4. LET new == [read EXCEPT !.suspects = n, !.kind = kind] IN
        /\ new.shape = read.shape /\ new.kind = kind /\ new.suspects = n
        /\ new.errors = read.errors /\ new.breaker = read.breaker /\ new.rows = read.rows
  BY DEF ProbeState
<1> QED
  BY <1>1, <1>2, <1>3, <1>4 DEF n

\* What a sweep that judged its reading writes, and what it goes on with.
Concluding(s, lands, kind, new, w) ==
  /\ sweep' = [sweep EXCEPT ![s] = w] /\ SaveHealth(s, new, lands)
  /\ Calls(lands, [log EXCEPT !.blind = 0, !.streak = kind,
                              !.n = Atmost((IF log.streak = kind THEN @ ELSE 0) + 1,
                                           Confirmations)])
  /\ w.at = "releasing" /\ w.known = sweep[s].known /\ w.sig.kind = kind
  /\ w.status = "confirmed" => kind # "none" /\ new.suspects >= Confirmations
  /\ copy[s].shape \subseteq new.shape /\ new.kind = kind
  /\ new.errors = copy[s].errors /\ new.breaker = copy[s].breaker
  /\ kind = "none" => sweep[s].sig.kind = "none" /\ new.rows = sweep[s].rows
  /\ kind # "none" =>
       /\ new.rows = copy[s].rows
       /\ new.suspects = Atmost((IF copy[s].kind = kind THEN copy[s].suspects ELSE 0) + 1,
                                Confirmations)

LEMMA Concludes ==
  ASSUME IInv, NEW s \in Sweeps, NEW readable \in BOOLEAN, NEW lands \in BOOLEAN,
         Conclude(s, readable, lands)
  PROVE  \E kind \in Kinds, new \in ProbeState, w \in Working :
           Concluding(s, lands, kind, new, w)
<1> DEFINE check == IF readable THEN SchemaCheck(copy[s], model.shape)
                    ELSE [gone |-> {}, state |-> copy[s]]
           sig == IF sweep[s].sig.kind = "none" /\ check.gone # {}
                  THEN [NoSignature EXCEPT !.kind = "schema_drift", !.gone = check.gone]
                  ELSE sweep[s].sig
           kind == sig.kind
           new == IF kind = "none" THEN Healthy(check.state, sweep[s].rows)
                  ELSE Suspect(check.state, kind)
           status == IF kind = "none" THEN "healthy"
                     ELSE IF new.suspects >= Confirmations THEN "confirmed" ELSE "suspect"
           w == [sweep[s] EXCEPT !.at = "releasing", !.status = status, !.sig = sig]
           entry == [log EXCEPT !.blind = 0, !.streak = kind,
                                !.n = Atmost((IF log.streak = kind THEN @ ELSE 0) + 1,
                                             Confirmations)]
<1>1. /\ sweep' = [sweep EXCEPT ![s] = w] /\ SaveHealth(s, new, lands)
      /\ Calls(lands, entry) /\ sweep[s].at = "judged"
  BY Zenon DEF Conclude, Finds
<1>2. sweep[s] \in Working /\ copy[s] \in ProbeState /\ model \in Models
  BY DEF IInv, TypeInv, SweepInv, RestInv, HealthTypeOK
<1>3. sweep[s].rows \in Nat /\ sweep[s].sig \in Signature /\ sweep[s].sig.kind \in Kinds
  BY <1>1, <1>2, ModelFields DEF Working, IInv, TypeInv, SweepInv
<1>4. check.gone \subseteq Columns
  BY <1>2, ModelFields DEF SchemaCheck, ProbeState
<1>5. sig \in Signature /\ kind \in Kinds /\ (kind = "none" => sweep[s].sig.kind = "none")
  <2> HIDE DEF check
  <2>1. [NoSignature EXCEPT !.kind = "schema_drift", !.gone = check.gone] \in Signature
    BY <1>4, Signatures DEF Signature, Kinds
  <2>2. [NoSignature EXCEPT !.kind = "schema_drift", !.gone = check.gone].kind = "schema_drift"
    BY DEF NoSignature
  <2> QED
    BY <1>3, <2>1, <2>2 DEF Kinds
<1>6. /\ status \in {"healthy", "confirmed", "suspect"}
      /\ status = "confirmed" => kind # "none" /\ new.suspects >= Confirmations
  OBVIOUS
<1>7. /\ new \in ProbeState /\ copy[s].shape \subseteq new.shape /\ new.kind = kind
      /\ new.errors = copy[s].errors /\ new.breaker = copy[s].breaker
      /\ kind = "none" => new.rows = sweep[s].rows
      /\ kind # "none" =>
           /\ new.rows = copy[s].rows
           /\ new.suspects = Atmost((IF copy[s].kind = kind THEN copy[s].suspects ELSE 0) + 1,
                                    Confirmations)
  <2> DEFINE read == check.state
  <2>1. read = copy[s] \/ read = SchemaCheck(copy[s], model.shape).state
    OBVIOUS
  <2> HIDE DEF read
  <2>2. /\ read \in ProbeState /\ copy[s].shape \subseteq read.shape
        /\ read.rows = copy[s].rows /\ read.kind = copy[s].kind
        /\ read.suspects = copy[s].suspects /\ read.errors = copy[s].errors
        /\ read.breaker = copy[s].breaker
    BY <1>2, <2>1, SchemaRead
  <2>3. new = IF kind = "none" THEN Healthy(read, sweep[s].rows) ELSE Suspect(read, kind)
    BY DEF read
  <2> HIDE DEF kind, new
  <2> QED
    BY <1>3, <1>5, <2>2, <2>3, Verdicts
<1> HIDE DEF check, kind, new, status
<1>8. /\ w \in Working /\ w.at = "releasing" /\ w.known = sweep[s].known
      /\ w.status = status /\ w.sig = sig
  <2> HIDE DEF sig
  <2> QED
    BY <1>2, <1>5, <1>6 DEF Working, Places, Statuses
<1>9. w.sig.kind = kind
  BY <1>8 DEF kind
<1> HIDE DEF w, sig
<1> QED
  BY <1>1, <1>5, <1>6, <1>7, <1>8, <1>9, Zenon DEF Concluding

LEMMA Counted ==
  ASSUME NEW entry \in LogRecord, NEW kind \in Kinds, NEW n \in 0..Confirmations
  PROVE  [entry EXCEPT !.blind = 0, !.streak = kind, !.n = n] \in LogRecord
<1> DEFINE blind  == [entry EXCEPT !.blind = 0]
           streak == [blind EXCEPT !.streak = kind]
<1>1. blind \in LogRecord
  BY DEF LogRecord
<1>2. [entry EXCEPT !.blind = 0, !.streak = kind, !.n = n] = [streak EXCEPT !.n = n]
  OBVIOUS
<1> HIDE DEF blind
<1>3. streak \in LogRecord
  BY <1>1 DEF LogRecord
<1> HIDE DEF streak
<1>4. [streak EXCEPT !.n = n] \in LogRecord
  BY <1>3 DEF LogRecord
<1> QED
  BY <1>2, <1>4

LEMMA ConcludeLog ==
  ASSUME IInv, LogInv, NEW s \in Sweeps, NEW readable \in BOOLEAN, NEW lands \in BOOLEAN,
         Conclude(s, readable, lands)
  PROVE  LogInv'
<1>1. PICK kind \in Kinds, new \in ProbeState, w \in Working :
        Concluding(s, lands, kind, new, w)
  BY Concludes
<1>2. sweep[s].at = "judged" /\ UNCHANGED <<incidents, online>>
  BY DEF Conclude
<1> DEFINE n == Atmost((IF log.streak = kind THEN log.n ELSE 0) + 1, Confirmations)
           entry == [log EXCEPT !.blind = 0, !.streak = kind, !.n = n]
<1>3. Calls(lands, entry)
  BY <1>1, Zenon DEF Concluding
<1>4. ASSUME lands, log.kept, log' = entry
      PROVE  LogInv'
  <2>1. WorkInv(s) /\ RowInv
    BY <1>2, <1>4, Alone DEF LogInv, KeptInv
  <2>2. /\ copy[s].kind = row.kind /\ copy[s].suspects = row.suspects
        /\ copy[s].errors = 0 /\ copy[s].breaker = "closed"
        /\ online[s] /\ sweep[s].known = incidents
    BY <1>2, <2>1 DEF WorkInv, SameReadings
  <2>3. log \in LogRecord /\ ~log.twice /\ MaxErrors \in Nat /\ Confirmations \in Nat
    BY HealthAssumption DEF LogInv
  <2>4. n \in 0..Confirmations
    BY <2>3, Limits DEF LogRecord
  <2>5. kind # "none" => new.suspects = n
    BY <1>1, <2>1, <2>2 DEF RowInv, Concluding
  <2> HIDE DEF n
  <2>6. /\ log' \in LogRecord /\ log'.blind = 0 /\ ~log'.twice /\ log'.told = log.told
        /\ log'.streak = kind /\ log'.n = n
    <3>1. entry \in LogRecord
      BY <2>3, <2>4, Counted
    <3>2. /\ entry.blind = 0 /\ ~entry.twice /\ entry.told = log.told
          /\ entry.streak = kind /\ entry.n = n
      BY <2>3 DEF LogRecord
    <3> HIDE DEF entry
    <3> QED
      BY <1>4, <3>1, <3>2
  <2>7. row' = new /\ sweep'[s] = w
    BY <1>1, <1>4, <2>2 DEF Concluding, SaveHealth, IInv, TypeInv, SweepInv
  <2>8. RowInv'
    BY <1>1, <2>2, <2>5, <2>6, <2>7 DEF RowInv, Concluding
  <2>9. w.status = "confirmed" => log'.streak = w.sig.kind /\ log'.n = Confirmations
    BY <1>1, <2>3, <2>4, <2>5, <2>6 DEF Concluding
  <2>10. WorkInv(s)'
    BY <1>1, <1>2, <2>2, <2>7, <2>9 DEF WorkInv, Early, Concluding
  <2>11. log'.blind <= MaxErrors
    BY <2>3, <2>6
  <2> QED
    BY <1>1, <1>2, <1>4, <2>6, <2>8, <2>10, <2>11, ScanLog
    DEF Concluding
<1> HIDE DEF entry
<1> QED
  BY <1>3, <1>4, LandsLog

-----------------------------------------------------------------------------
(* Saying what was found.                                                  *)

LEMMA LeavesLog ==
  ASSUME IInv, LogInv, NEW s \in Sweeps, sweep[s].at \in {"releasing", "deleting"}, Leaves(s),
         UNCHANGED <<row, incidents, log>>
  PROVE  LogInv'
<1>1. CASE ~log.kept
  BY <1>1, EndedLog
<1>2. CASE log.kept
  <2>1. CASE Ends(s)
    BY <2>1, EndsLog
  <2>2. CASE ~Ends(s)
    <3>1. PICK at \in {"recording", "posting"} :
            /\ Goes(s, at) /\ UNCHANGED online
            /\ at = "posting" => sweep[s].sig \notin sweep[s].known
      BY <2>2, Zenon DEF Leaves
    <3> DEFINE w == [sweep[s] EXCEPT !.at = at]
    <3>2. WorkInv(s) /\ sweep[s] \in Working
      BY <1>2, Alone DEF LogInv, IInv, TypeInv, SweepInv
    <3>3. online[s] /\ sweep[s].known = incidents
      BY <3>2 DEF WorkInv
    <3>4. w.at = at /\ w.known = incidents /\ w.sig = sweep[s].sig
      BY <3>2, <3>3 DEF Working
    <3>5. sweep' = [sweep EXCEPT ![s] = w] /\ sweep'[s] = w
      BY <3>1 DEF Goes, IInv, TypeInv, SweepInv
    <3> HIDE DEF w
    <3>6. WorkInv(s)'
      BY <3>1, <3>3, <3>4, <3>5 DEF WorkInv, Early
    <3> QED
      BY <1>2, <3>5, <3>6, QuietLog
  <2> QED
    BY <2>1, <2>2
<1> QED
  BY <1>1, <1>2

LEMMA ReleaseLog ==
  ASSUME IInv, LogInv, NEW s \in Sweeps, Release(s)
  PROVE  LogInv'
<1>1. sweep[s].at = "releasing" /\ UNCHANGED <<row, incidents, log>>
  BY DEF Release, hist
<1>2. CASE Leaves(s)
  BY <1>1, <1>2, LeavesLog
<1>3. CASE Goes(s, "deleting") /\ UNCHANGED online
  <2>1. CASE ~log.kept
    BY <1>1, <2>1, EndedLog
  <2>2. CASE log.kept
    <3> DEFINE w == [sweep[s] EXCEPT !.at = "deleting"]
    <3>1. WorkInv(s) /\ sweep[s] \in Working
      BY <1>1, <2>2, Alone DEF LogInv, IInv, TypeInv, SweepInv
    <3>2. w.at = "deleting" /\ w.known = sweep[s].known
      BY <3>1 DEF Working
    <3>3. sweep' = [sweep EXCEPT ![s] = w] /\ sweep'[s] = w
      BY <1>3 DEF Goes, IInv, TypeInv, SweepInv
    <3> HIDE DEF w
    <3>4. WorkInv(s)'
      BY <1>1, <1>3, <3>1, <3>2, <3>3 DEF WorkInv, Early
    <3> QED
      BY <1>1, <2>2, <3>3, <3>4, QuietLog
  <2> QED
    BY <2>1, <2>2
<1> QED
  BY <1>2, <1>3, Zenon DEF Release

LEMMA DeleteLeaseLog ==
  ASSUME IInv, LogInv, NEW s \in Sweeps, DeleteLease(s)
  PROVE  LogInv'
BY LeavesLog DEF DeleteLease, hist

LEMMA PostLog ==
  ASSUME IInv, LogInv, NEW s \in Sweeps, NEW delivered \in BOOLEAN, Post(s, delivered)
  PROVE  LogInv'
<1> DEFINE entry == [log EXCEPT !.told = @ \cup {sweep[s].sig},
                                !.twice = @ \/ sweep[s].sig \in log.told]
           w     == [sweep[s] EXCEPT !.at = "recording", !.told = delivered]
<1>1. /\ sweep[s].at = "posting" /\ UNCHANGED <<row, copy, online, incidents>>
      /\ Writes(IF ~delivered THEN log ELSE entry)
  BY DEF Post, health
<1>2. CASE ~log.kept
  BY <1>1, <1>2, LostLog DEF Writes
<1>3. CASE log.kept
  <2>1. KeptInv /\ WorkInv(s) /\ AtWork \subseteq {s} /\ RowInv
    BY <1>1, <1>3, Alone DEF LogInv, KeptInv
  <2>2. online[s] /\ sweep[s].known = incidents /\ sweep[s].sig \notin incidents
    BY <1>1, <2>1 DEF WorkInv
  <2>3. log.told \subseteq incidents
    BY <1>1, <2>1 DEF KeptInv, ToldInv, AtWork
  <2>4. /\ sweep[s] \in Working /\ sweep[s].sig \in Signature
        /\ log \in LogRecord /\ ~log.twice /\ log.blind <= MaxErrors
    BY DEF IInv, TypeInv, SweepInv, Working, LogInv
  <2>5. w.at = "recording" /\ w.told = delivered /\ w.sig = sweep[s].sig /\ w.known = incidents
    BY <2>2, <2>4 DEF Working
  <2>6. sweep' = [sweep EXCEPT ![s] = w] /\ sweep'[s] = w
    BY DEF Post, IInv, TypeInv, SweepInv
  <2>7. sweep[s].sig \notin log.told
    BY <2>2, <2>3
  <2>8. /\ entry.kept = log.kept /\ entry.streak = log.streak /\ entry.n = log.n
        /\ entry.blind = log.blind /\ entry.told = log.told \cup {sweep[s].sig}
        /\ entry.twice = (log.twice \/ sweep[s].sig \in log.told)
    BY <2>4 DEF LogRecord
  <2>9. entry \in LogRecord /\ ~entry.twice
    <3> DEFINE told == [log EXCEPT !.told = @ \cup {sweep[s].sig}]
    <3>1. told \in LogRecord
      BY <2>4 DEF LogRecord
    <3>2. entry = [told EXCEPT !.twice = told.twice \/ sweep[s].sig \in log.told]
      BY <2>4 DEF LogRecord
    <3> HIDE DEF told
    <3>3. [told EXCEPT !.twice = told.twice \/ sweep[s].sig \in log.told] \in LogRecord
      BY <3>1 DEF LogRecord
    <3> HIDE DEF entry
    <3> QED
      BY <2>4, <2>7, <2>8, <3>2, <3>3
  <2>10. log' = IF delivered THEN entry ELSE log
    BY <1>1, <1>3 DEF Writes
  <2> HIDE DEF entry, w
  <2>11. /\ log' \in LogRecord /\ ~log'.twice /\ log'.blind = log.blind
         /\ log'.streak = log.streak /\ log'.n = log.n
         /\ log'.told \subseteq incidents \cup (IF delivered THEN {sweep[s].sig} ELSE {})
    BY <2>3, <2>4, <2>8, <2>9, <2>10
  <2>12. RowInv'
    BY <1>1, <2>1, <2>11 DEF RowInv
  <2>13. ToldInv'
    BY <1>1, <2>5, <2>6, <2>11 DEF ToldInv
  <2>14. WorkInv(s)'
    BY <1>1, <2>2, <2>5, <2>6 DEF WorkInv, Early
  <2> QED
    BY <1>1, <1>3, <2>4, <2>6, <2>11, <2>12, <2>13, <2>14, StepLog
<1> QED
  BY <1>2, <1>3

LEMMA RecordLog ==
  ASSUME IInv, LogInv, NEW s \in Sweeps, NEW lands \in BOOLEAN, Record(s, lands)
  PROVE  LogInv'
<1>1. Calls(lands, log) /\ sweep[s].at = "recording" /\ row' = row /\ Ends(s)
  BY DEF Record
<1>2. ASSUME lands, log.kept, log' = log
      PROVE  LogInv'
  <2>1. KeptInv /\ WorkInv(s) /\ AtWork \subseteq {s} /\ RowInv
    BY <1>1, <1>2, Alone DEF LogInv, KeptInv
  <2>2. sweep[s].known = incidents
    BY <2>1 DEF WorkInv
  <2>3. incidents' = Announced(s, incidents)
    BY <1>2, <2>2, Zenon DEF Record
  <2>4. log.told \subseteq incidents'
    BY <2>1, <2>3 DEF KeptInv, ToldInv, AtWork, Announced
  <2>5. ToldInv'
    BY <1>2, <2>4 DEF ToldInv
  <2>6. sweep' = [sweep EXCEPT ![s] = Idle] /\ Idle.at = "idle"
    BY <1>1 DEF Ends, Idle
  <2>7. RowInv'
    BY <1>1, <1>2, <2>1, RowStays
  <2> QED
    BY <1>1, <1>2, <2>5, <2>6, <2>7, StepLog DEF LogInv
<1> QED
  BY <1>1, <1>2, LandsLog

LEMMA CrashLog ==
  ASSUME IInv, LogInv, NEW s \in Sweeps, Crash(s)
  PROVE  LogInv'
<1>1. /\ Ends(s) /\ UNCHANGED <<row, incidents>> /\ sweep[s].at # "idle"
      /\ Writes(IF sweep[s].at = "recording" THEN NoLog ELSE log)
  BY DEF Crash
<1>2. log' = NoLog \/ (sweep[s].at # "recording" /\ log' = log)
  BY <1>1 DEF Writes
<1> QED
  BY <1>1, <1>2, LostLog, EndsLog

-----------------------------------------------------------------------------
(* Everything else.                                                        *)

\* A step that touches neither the probe nor a sweep.
LEMMA StaysLog ==
  ASSUME LogInv, UNCHANGED <<row, copy, online, sweep, incidents, log>>
  PROVE  LogInv'
<1>1. CASE ~log.kept
  BY <1>1, EndedLog
<1>2. CASE log.kept
  <2>1. KeptInv
    BY <1>2 DEF LogInv
  <2>2. RowInv' /\ ToldInv' /\ AtWork' = AtWork
    BY <2>1, RowStays DEF KeptInv, ToldInv, AtWork
  <2>3. \A s \in Sweeps : WorkInv(s) => WorkInv(s)'
    BY Zenon DEF WorkInv, SameReadings, Early
  <2>4. KeptInv'
    BY <2>1, <2>2, <2>3, Zenon DEF KeptInv, AtWork
  <2> QED
    BY <1>2, <2>4, KeptLog DEF LogInv
<1> QED
  BY <1>1, <1>2

\* An operator's command, alone.
LEMMA CommandLog ==
  ASSUME LogInv, NEW entry, Command(entry), sweep' = sweep,
         log.kept /\ AtWork = {} /\ log' = entry =>
           entry \in LogRecord /\ ~entry.twice /\ entry.blind <= MaxErrors /\ RowInv' /\ ToldInv'
  PROVE  LogInv'
<1>1. log' = NoLog \/ (log.kept /\ AtWork = {} /\ log' = entry)
  BY DEF Command, Writes
<1>2. CASE log.kept /\ AtWork = {} /\ log' = entry
  <2>1. AtWork' = {}
    BY <1>2 DEF AtWork
  <2>2. KeptInv'
    BY <1>2, <2>1, Zenon DEF KeptInv
  <2> QED
    BY <1>2, <2>2, KeptLog
<1> QED
  BY <1>1, <1>2, LostLog

LEMMA AcceptLog ==
  ASSUME IInv, LogInv, Accept
  PROVE  LogInv'
<1> DEFINE entry == [log EXCEPT !.streak = "none", !.n = 0]
<1>1. /\ Command(entry) /\ UNCHANGED <<sweep, incidents>>
      /\ row' = [row EXCEPT !.suspects = 0, !.kind = "none", !.shape = {}]
  BY DEF Accept
<1>2. ASSUME log.kept, AtWork = {}, log' = entry
      PROVE  entry \in LogRecord /\ ~entry.twice /\ entry.blind <= MaxErrors /\ RowInv' /\ ToldInv'
  <2>1. /\ row \in ProbeState /\ log \in LogRecord /\ ~log.twice /\ log.blind <= MaxErrors
        /\ RowInv /\ log.told \subseteq incidents
    BY <1>2 DEF IInv, TypeInv, HealthTypeOK, LogInv, KeptInv, ToldInv, AtWork
  <2>2. entry \in LogRecord
    <3> DEFINE streak == [log EXCEPT !.streak = "none"]
    <3>1. streak \in LogRecord
      BY <2>1 DEF LogRecord, Kinds
    <3>2. entry = [streak EXCEPT !.n = 0] /\ 0 \in 0..Confirmations
      BY HealthAssumption
    <3> HIDE DEF streak
    <3> QED
      BY <3>1, <3>2 DEF LogRecord
  <2>3. /\ entry.streak = "none" /\ entry.blind = log.blind /\ entry.told = log.told
        /\ entry.twice = log.twice
    BY <2>1 DEF LogRecord
  <2>4. row'.kind = "none" /\ row'.breaker = row.breaker /\ row'.errors = row.errors
    BY <1>1, <2>1 DEF ProbeState
  <2> HIDE DEF entry
  <2>5. RowInv'
    BY <1>2, <2>1, <2>3, <2>4 DEF RowInv
  <2>6. ToldInv'
    BY <1>1, <1>2, <2>1, <2>3 DEF ToldInv
  <2> QED
    BY <2>1, <2>2, <2>3, <2>5, <2>6
<1> HIDE DEF entry
<1> QED
  BY <1>1, <1>2, CommandLog

LEMMA ResetLog ==
  ASSUME IInv, LogInv, Reset
  PROVE  LogInv'
<1>1. Command(NewLog) /\ row' = NoState /\ incidents' = {} /\ sweep' = sweep
  BY DEF Reset
<1>2. ASSUME log' = NewLog
      PROVE  RowInv' /\ ToldInv'
  BY <1>1, <1>2, FreshLogs, HealthAssumption DEF RowInv, ToldInv, NoState
<1>3. NewLog \in LogRecord /\ ~NewLog.twice /\ NewLog.blind <= MaxErrors
  BY FreshLogs, HealthAssumption
<1> QED
  BY <1>1, <1>2, <1>3, CommandLog

LEMMA CooldownLog ==
  ASSUME IInv, LogInv, CooldownPasses
  PROVE  LogInv'
<1> DEFINE blind == Atmost(log.blind, MaxErrors - 1)
           entry == [log EXCEPT !.told = @ \ {Parked}, !.blind = blind]
           w(s)  == [sweep[s] EXCEPT !.known = @ \ {Parked}]
<1>1. /\ Writes(entry) /\ incidents' = incidents \ {Parked} /\ online' = online
      /\ row' = Due(row) /\ copy' = [s \in Sweeps |-> Due(copy[s])]
      /\ sweep' = [s \in Sweeps |-> w(s)]
  BY DEF CooldownPasses
<1>2. CASE ~log.kept
  BY <1>1, <1>2, LostLog DEF Writes
<1>3. CASE log.kept
  <2>1. KeptInv /\ RowInv /\ ToldInv
    BY <1>3 DEF LogInv, KeptInv
  <2>2. /\ log \in LogRecord /\ ~log.twice /\ log.blind <= MaxErrors
        /\ row \in ProbeState /\ copy \in [Sweeps -> ProbeState]
        /\ sweep \in [Sweeps -> Working] /\ MaxErrors \in Nat
    BY HealthAssumption DEF LogInv, IInv, TypeInv, HealthTypeOK, SweepInv
  <2>3. /\ blind \in Int /\ blind <= MaxErrors - 1 /\ blind <= log.blind
        /\ row.errors \in 0..MaxErrors /\ log.blind \in Int
    BY <2>2 DEF LogRecord, ProbeState, Atmost
  <2> HIDE DEF blind
  <2>4. entry \in LogRecord
    <3> DEFINE told == [log EXCEPT !.told = @ \ {Parked}]
    <3>1. told \in LogRecord
      BY <2>2 DEF LogRecord
    <3>2. entry = [told EXCEPT !.blind = blind]
      OBVIOUS
    <3> HIDE DEF told
    <3> QED
      BY <2>3, <3>1, <3>2 DEF LogRecord
  <2>5. /\ entry.streak = log.streak /\ entry.n = log.n /\ entry.twice = log.twice
        /\ entry.blind = blind /\ entry.told = log.told \ {Parked} /\ entry.kept = log.kept
    BY <2>2 DEF LogRecord
  <2>6. log' = entry
    BY <1>1, <1>3 DEF Writes
  <2>7. ASSUME NEW state \in ProbeState
        PROVE  /\ Due(state).kind = state.kind /\ Due(state).suspects = state.suspects
               /\ Due(state).errors = state.errors /\ Due(state).rows = state.rows
               /\ Due(state).shape = state.shape
               /\ state.breaker = "closed" => Due(state).breaker = "closed"
    BY <2>7 DEF Due, ProbeState
  <2>8. ASSUME NEW s \in Sweeps
        PROVE  /\ sweep'[s].known = sweep[s].known \ {Parked} /\ sweep'[s].at = sweep[s].at
               /\ sweep'[s].sig = sweep[s].sig /\ sweep'[s].status = sweep[s].status
               /\ sweep'[s].rows = sweep[s].rows /\ sweep'[s].told = sweep[s].told
    <3>1. sweep'[s] = [sweep[s] EXCEPT !.known = @ \ {Parked}] /\ sweep[s] \in Working
      BY <1>1, <2>2
    <3> QED
      BY <3>1 DEF Working
  <2> HIDE DEF entry, w
  <2>9. RowInv'
    BY <1>1, <2>1, <2>2, <2>3, <2>5, <2>6, <2>7 DEF RowInv
  <2>10. ToldInv'
    BY <1>1, <2>1, <2>5, <2>6, <2>8 DEF ToldInv
  <2>11. AtWork' = AtWork
    BY <2>8 DEF AtWork
  <2>12. ASSUME NEW s \in Sweeps, WorkInv(s)
         PROVE  WorkInv(s)'
    <3>1. copy'[s] = Due(copy[s]) /\ copy[s] \in ProbeState
      BY <1>1, <2>2
    <3>2. online'[s] /\ sweep'[s].known = incidents'
      BY <1>1, <2>8, <2>12 DEF WorkInv
    <3>3. sweep[s].at \in Early \cup {"asked"} => copy'[s] = row'
      BY <1>1, <2>12, <3>1 DEF WorkInv
    <3>4. sweep[s].at = "asked" => row'.breaker = "closed" /\ log'.blind <= MaxErrors - 1
      BY <1>1, <2>2, <2>3, <2>5, <2>6, <2>7, <2>12 DEF WorkInv
    <3>5. SameReadings(s) => SameReadings(s)'
      BY <1>1, <2>2, <2>7, <3>1 DEF SameReadings
    <3>6. sweep[s].at = "judged" =>
            /\ SameReadings(s)' /\ copy'[s].errors = 0 /\ copy'[s].breaker = "closed"
            /\ sweep[s].sig.kind = "none" => ~Collapsed(copy'[s].rows, sweep[s].rows)
      BY <2>7, <2>12, <3>1, <3>5 DEF WorkInv
    <3>7. /\ sweep[s].at = "releasing" /\ sweep[s].status = "confirmed" =>
               log'.streak = sweep[s].sig.kind /\ log'.n = Confirmations
          /\ sweep[s].at = "posting" => sweep[s].sig \notin incidents'
      BY <1>1, <2>5, <2>6, <2>12 DEF WorkInv
    <3> QED
      BY <2>8, <3>2, <3>3, <3>4, <3>6, <3>7, Zenon DEF WorkInv, Early
  <2>13. KeptInv'
    BY <2>1, <2>9, <2>10, <2>11, <2>12, Zenon DEF KeptInv, AtWork
  <2>14. log'.blind <= MaxErrors
    BY <2>2, <2>3, <2>5, <2>6
  <2> QED
    BY <1>3, <2>2, <2>4, <2>5, <2>6, <2>13, <2>14, KeptLog
<1> QED
  BY <1>2, <1>3

-----------------------------------------------------------------------------

LEMMA InitLog == Init => LogInv
<1> SUFFICES ASSUME Init
             PROVE  LogInv
  OBVIOUS
<1>1. /\ row = NoState /\ sweep = [s \in Sweeps |-> Idle] /\ incidents = {} /\ log = NewLog
      /\ Idle.at = "idle"
  BY DEF Init, HealthInit, Idle
<1>2. AtWork = {}
  BY <1>1 DEF AtWork
<1>3. RowInv /\ ToldInv
  BY <1>1, FreshLogs, HealthAssumption DEF RowInv, ToldInv, NoState
<1>4. KeptInv
  BY <1>2, <1>3, Zenon DEF KeptInv
<1> QED
  BY <1>1, <1>4, FreshLogs, HealthAssumption DEF LogInv

LEMMA NextLog == IInv /\ LogInv /\ [Next]_vars => LogInv'
<1> SUFFICES ASSUME IInv, LogInv, [Next]_vars
             PROVE  LogInv'
  OBVIOUS
<1>1. ASSUME NEW s \in Sweeps, SweepStep(s)
      PROVE  LogInv'
  BY <1>1, WakeLog, BeginLog, ProbeFailsLog, AskLeaseLog, LookAtLeaseLog, TakeOverLog,
     ProbeAnswersLog, ConcludeLog, ReleaseLog, DeleteLeaseLog, PostLog, RecordLog, Zenon
  DEF SweepStep
<1>2. ASSUME ModelChanges \/ LeaseExpires \/ UNCHANGED vars
      PROVE  LogInv'
  <2>1. UNCHANGED <<row, copy, online, sweep, incidents, log>>
    BY <1>2 DEF ModelChanges, LeaseExpires, vars, health, hist
  <2> QED
    BY <2>1, StaysLog
<1> QED
  BY <1>1, <1>2, CrashLog, CooldownLog, AcceptLog, ResetLog, Zenon DEF Next

\* As long as sweeps come one after the other and nothing is lost, the row of the probe
\* counts what was read, and every card told is recorded or about to be.
THEOREM LogInvariant == Spec => []LogInv
<1>1. IInv /\ LogInv /\ IInv' /\ [Next]_vars => LogInv'
  BY NextLog
<1> QED
  BY InitLog, <1>1, Invariant, PTL DEF Spec

\* Sweeps that come one after the other confirm only what the latest readings agree on
\* (silent_failures.py:532-576), for any thresholds and any number of readings.
THEOREM ConfirmsInARow == Spec => []ConfirmedInARow
<1>1. LogInv => ConfirmedInARow
  <2> SUFFICES ASSUME LogInv, log.kept, NEW s \in Sweeps,
                      sweep[s].at = "releasing", sweep[s].status = "confirmed"
               PROVE  log.streak = sweep[s].sig.kind /\ log.n = Confirmations
    BY DEF ConfirmedInARow
  <2>1. WorkInv(s)
    BY Alone DEF LogInv
  <2> QED
    BY <2>1 DEF WorkInv
<1> QED
  BY <1>1, LogInvariant, PTL

\* A model that cannot be queried is asked max_consecutive_errors times and then once per
\* cooldown (silent_failures.py:462-470), whatever that number is.
THEOREM HammersNot == Spec => []NoHammering
<1>1. LogInv => NoHammering
  BY DEF LogInv, NoHammering
<1> QED
  BY <1>1, LogInvariant, PTL

\* One wrongness, worded one way, is announced by one card (runner.py:430-433), as long as
\* no card is lost between its delivery and its record.
THEOREM AnnouncesOnce == Spec => []AnnouncedOnce
<1>1. LogInv => AnnouncedOnce
  BY DEF LogInv, AnnouncedOnce
<1> QED
  BY <1>1, LogInvariant, PTL

-----------------------------------------------------------------------------
(* The baselines.                                                          *)

\* What a sweep judged to be well has not collapsed; and one that has not strayed measures
\* against the baselines of the storage.
MeasuredInv(s) ==
  /\ sweep[s].at = "judged" /\ sweep[s].sig.kind = "none" =>
       ~Collapsed(copy[s].rows, sweep[s].rows)
  /\ sweep[s].at \in Early \cup {"asked", "judged"} /\ s \notin strayed =>
       Baselines(copy[s]) = Baselines(row)

BaseInv == \A s \in Sweeps : MeasuredInv(s)

\* One sweep moves; the others stay with what they remember, or stray.
LEMMA OneMeasures ==
  ASSUME BaseInv, NEW s \in Sweeps,
         \A t \in Sweeps \ {s} : sweep'[t] = sweep[t] /\ copy'[t] = copy[t],
         \A t \in AtWork \ {s} :
           t \notin strayed' => t \notin strayed /\ Baselines(row') = Baselines(row),
         MeasuredInv(s)'
  PROVE  BaseInv'
<1>1. ASSUME NEW t \in Sweeps \ {s} PROVE MeasuredInv(t)'
  <2>1. MeasuredInv(t) /\ sweep'[t] = sweep[t] /\ copy'[t] = copy[t]
    BY DEF BaseInv
  <2>2. CASE sweep[t].at \in Early \cup {"asked", "judged"} /\ t \notin strayed'
    <3>1. t \in AtWork
      BY <2>2 DEF AtWork, Early
    <3> QED
      BY <2>1, <2>2, <3>1 DEF MeasuredInv, Early
  <2>3. CASE ~(sweep[t].at \in Early \cup {"asked", "judged"} /\ t \notin strayed')
    BY <2>1, <2>3 DEF MeasuredInv, Early
  <2> QED
    BY <2>2, <2>3
<1> QED
  BY <1>1, Zenon DEF BaseInv

\* It reads no further, and writes nothing.
LEMMA QuietMeasures ==
  ASSUME IInv, BaseInv, NEW s \in Sweeps, NEW w, sweep' = [sweep EXCEPT ![s] = w],
         UNCHANGED <<row, strayed>>, \A t \in Sweeps \ {s} : copy'[t] = copy[t],
         \/ w.at \notin Early \cup {"asked", "judged"}
         \/ w.at \in Early /\ sweep[s].at \in Early /\ copy'[s] = copy[s]
  PROVE  BaseInv'
<1>1. sweep'[s] = w /\ \A t \in Sweeps \ {s} : sweep'[t] = sweep[t]
  BY DEF IInv, TypeInv, SweepInv
<1>2. MeasuredInv(s)
  BY DEF BaseInv
<1>3. MeasuredInv(s)'
  BY <1>1, <1>2 DEF MeasuredInv, Early
<1> QED
  BY <1>1, <1>3, OneMeasures

LEMMA ForgetsOwn ==
  ASSUME IInv, NEW s \in Sweeps, ForgetHealth(s)
  PROVE  \A t \in Sweeps \ {s} : copy'[t] = copy[t]
BY DEF ForgetHealth, IInv, TypeInv, HealthTypeOK

LEMMA GoesMeasures ==
  ASSUME IInv, BaseInv, NEW s \in Sweeps, UNCHANGED <<row, strayed>>,
         \/ Ends(s) /\ ForgetHealth(s)
         \/ Goes(s, "recording") /\ copy' = copy
         \/ Goes(s, "posting") /\ copy' = copy
         \/ Goes(s, "deleting") /\ copy' = copy
         \/ sweep[s].at \in Early /\ Goes(s, "sweeping") /\ copy' = copy
         \/ sweep[s].at \in Early /\ Goes(s, "refused") /\ copy' = copy
         \/ sweep[s].at \in Early /\ Goes(s, "taking") /\ copy' = copy
  PROVE  BaseInv'
<1>1. sweep[s] \in Working
  BY DEF IInv, TypeInv, SweepInv
<1>2. ASSUME NEW at, Goes(s, at), copy' = copy,
             \/ at \in {"recording", "posting", "deleting"}
             \/ at \in {"sweeping", "refused", "taking"} /\ sweep[s].at \in Early
      PROVE  BaseInv'
  <2> DEFINE w == [sweep[s] EXCEPT !.at = at]
  <2>1. w.at = at /\ sweep' = [sweep EXCEPT ![s] = w]
    BY <1>1, <1>2 DEF Working, Goes
  <2> HIDE DEF w
  <2>2. \/ w.at \notin Early \cup {"asked", "judged"}
        \/ w.at \in Early /\ sweep[s].at \in Early /\ copy'[s] = copy[s]
    BY <1>2, <2>1 DEF Early
  <2> QED
    BY <1>2, <2>1, <2>2, QuietMeasures
<1>3. ASSUME Ends(s), ForgetHealth(s) PROVE BaseInv'
  <2>1. Idle.at \notin Early \cup {"asked", "judged"} /\ sweep' = [sweep EXCEPT ![s] = Idle]
    BY <1>3 DEF Idle, Early, Ends
  <2> QED
    BY <1>3, <2>1, ForgetsOwn, QuietMeasures
<1> QED
  BY <1>2, <1>3, Zenon

LEMMA WakeMeasures ==
  ASSUME IInv, BaseInv, NEW s \in Sweeps, NEW opened \in BOOLEAN, NEW seen \in BOOLEAN,
         Wake(s, opened, seen)
  PROVE  BaseInv'
<1> DEFINE w == [Idle EXCEPT !.at = "ready", !.known = incidents]
<1>1. /\ sweep' = [sweep EXCEPT ![s] = w] /\ row' = row
      /\ copy' = [copy EXCEPT ![s] = IF seen THEN row ELSE NoState]
      /\ strayed' = IF seen THEN strayed \ {s} ELSE strayed \cup {s}
  BY DEF Wake, LoadHealth
<1>2. w.at = "ready"
  BY DEF Idle
<1> HIDE DEF w
<1>3. /\ sweep'[s] = w /\ copy'[s] = IF seen THEN row ELSE NoState
      /\ \A t \in Sweeps \ {s} : sweep'[t] = sweep[t] /\ copy'[t] = copy[t]
  BY <1>1 DEF IInv, TypeInv, SweepInv, HealthTypeOK
<1>4. MeasuredInv(s)'
  BY <1>1, <1>2, <1>3 DEF MeasuredInv, Early
<1> QED
  BY <1>1, <1>3, <1>4, OneMeasures

\* A row with another breaker or more errors has the same baselines.
LEMMA SameBaselines ==
  ASSUME NEW state \in ProbeState, NEW breaker, NEW errors
  PROVE  /\ Baselines([state EXCEPT !.breaker = breaker]) = Baselines(state)
         /\ Baselines([state EXCEPT !.errors = errors]) = Baselines(state)
         /\ Baselines([state EXCEPT !.errors = errors, !.breaker = breaker]) = Baselines(state)
BY DEF Baselines, ProbeState

\* What _scan writes before its query has the baselines it read.
LEMMA BeginWrites ==
  ASSUME IInv, NEW s \in Sweeps, NEW lands \in BOOLEAN, Begin(s, lands)
  PROVE  /\ Baselines(copy'[s]) = Baselines(Known(s)) \/ copy'[s] = Known(s)
         /\ Baselines(row') \in {Baselines(row), Baselines(Known(s))}
         /\ \A t \in Sweeps \ {s} : copy'[t] = copy[t] /\ sweep'[t] = sweep[t]
         /\ sweep'[s].at # "judged"
<1> DEFINE state == Known(s)
           asks  == [sweep[s] EXCEPT !.at = "asked"]
           parks == [sweep[s] EXCEPT !.at = "releasing", !.status = "parked", !.sig = Parked]
<1>1. state \in ProbeState /\ copy \in [Sweeps -> ProbeState] /\ sweep \in [Sweeps -> Working]
  BY KnownRow DEF IInv, TypeInv, HealthTypeOK, SweepInv
<1> HIDE DEF state
<1>2. PICK new \in {state, [state EXCEPT !.breaker = "closed"], [state EXCEPT !.breaker = "armed"]} :
        copy' = [copy EXCEPT ![s] = new] /\ (row' = row \/ row' = new)
  BY Zenon DEF Begin, SaveHealth, state
<1>3. Baselines(new) = Baselines(state)
  <2>1. \A b : Baselines([state EXCEPT !.breaker = b]) = Baselines(state)
    BY <1>1, SameBaselines
  <2>2. /\ Baselines([state EXCEPT !.breaker = "closed"]) = Baselines(state)
        /\ Baselines([state EXCEPT !.breaker = "armed"]) = Baselines(state)
    BY <2>1
  <2> QED
    BY <1>2, <2>2
<1>4. asks.at = "asked" /\ parks.at = "releasing"
  BY <1>1 DEF Working
<1>5. sweep' = [sweep EXCEPT ![s] = asks] \/ sweep' = [sweep EXCEPT ![s] = parks]
  BY Zenon DEF Begin, Goes, Finds
<1> HIDE DEF asks, parks
<1>6. /\ \A t \in Sweeps \ {s} : copy'[t] = copy[t] /\ sweep'[t] = sweep[t]
      /\ copy'[s] = new /\ (sweep'[s] = asks \/ sweep'[s] = parks)
  BY <1>1, <1>2, <1>5
<1> QED
  BY <1>2, <1>3, <1>4, <1>6 DEF state

LEMMA BeginMeasures ==
  ASSUME IInv, BaseInv, NEW s \in Sweeps, NEW lands \in BOOLEAN, Begin(s, lands)
  PROVE  BaseInv'
<1>1. /\ Baselines(copy'[s]) = Baselines(Known(s))
      /\ Baselines(row') \in {Baselines(row), Baselines(Known(s))}
      /\ \A t \in Sweeps \ {s} : copy'[t] = copy[t] /\ sweep'[t] = sweep[t]
      /\ sweep'[s].at # "judged"
  BY BeginWrites
<1>2. sweep[s].at = "sweeping" /\ MeasuredInv(s)
  BY DEF Begin, BaseInv
<1>3. CASE backend = "json"
  <2>1. Known(s) = row /\ strayed' = strayed \ {s}
    BY <1>3 DEF Known, Begin
  <2>2. Baselines(row') = Baselines(row)
    BY <1>1, <2>1
  <2>3. MeasuredInv(s)'
    BY <1>1, <2>1, <2>2 DEF MeasuredInv, Baselines
  <2> QED
    BY <1>1, <2>1, <2>2, <2>3, OneMeasures
<1>4. CASE backend # "json"
  <2>1. Known(s) = copy[s] /\ Strays(s)
    BY <1>4 DEF Known, Begin
  <2>2. s \notin strayed' => Baselines(row') = Baselines(copy'[s])
    <3>1. s \notin strayed' => s \notin strayed
      BY <2>1 DEF Strays
    <3>2. s \notin strayed => Baselines(copy[s]) = Baselines(row)
      BY <1>2 DEF MeasuredInv, Early
    <3> QED
      BY <1>1, <2>1, <3>1, <3>2
  <2>3. MeasuredInv(s)'
    BY <1>1, <2>2 DEF MeasuredInv, Baselines
  <2>4. \A t \in AtWork \ {s} :
          t \notin strayed' => t \notin strayed /\ Baselines(row') = Baselines(row)
    BY <2>1 DEF Strays
  <2> QED
    BY <1>1, <2>3, <2>4, OneMeasures
<1> QED
  BY <1>3, <1>4

\* A sweep that has read what it came for.
LEMMA WritesMeasures ==
  ASSUME IInv, BaseInv, NEW s \in Sweeps, NEW w, sweep' = [sweep EXCEPT ![s] = w],
         w.at = "releasing", NEW state, NEW lands, SaveHealth(s, state, lands), Strays(s)
  PROVE  BaseInv'
<1>1. /\ sweep'[s] = w
      /\ \A t \in Sweeps \ {s} : sweep'[t] = sweep[t] /\ copy'[t] = copy[t]
  BY DEF SaveHealth, IInv, TypeInv, SweepInv, HealthTypeOK
<1>2. MeasuredInv(s)'
  BY <1>1 DEF MeasuredInv, Early
<1>3. \A t \in AtWork \ {s} :
        t \notin strayed' => t \notin strayed /\ Baselines(row') = Baselines(row)
  BY DEF Strays
<1> QED
  BY <1>1, <1>2, <1>3, OneMeasures

LEMMA ProbeFailsMeasures ==
  ASSUME IInv, BaseInv, NEW s \in Sweeps, NEW lands \in BOOLEAN, ProbeFails(s, lands)
  PROVE  BaseInv'
<1> DEFINE w == [sweep[s] EXCEPT !.at = "releasing", !.status = "detector_fault",
                                 !.sig = NoSignature]
           new == [copy[s] EXCEPT !.errors = Atmost(@ + 1, MaxErrors)]
<1>1. w.at = "releasing"
  BY DEF IInv, TypeInv, SweepInv, Working
<1>2. sweep' = [sweep EXCEPT ![s] = w] /\ SaveHealth(s, new, lands) /\ Strays(s)
  BY Zenon DEF ProbeFails, Finds
<1> HIDE DEF w, new
<1> QED
  BY <1>1, <1>2, WritesMeasures

LEMMA ProbeAnswersMeasures ==
  ASSUME IInv, BaseInv, NEW s \in Sweeps, ProbeAnswers(s)
  PROVE  BaseInv'
<1> DEFINE sig == Judge(copy[s], model)
           w   == [sweep[s] EXCEPT !.at = "judged", !.rows = model.rows, !.sig = sig]
           new == [copy[s] EXCEPT !.errors = 0, !.breaker = "closed"]
<1>1. copy[s] \in ProbeState /\ sweep[s] \in Working /\ model \in Models
  BY DEF IInv, TypeInv, SweepInv, HealthTypeOK, RestInv
<1>2. sig.kind = "none" => ~Collapsed(copy[s].rows, model.rows)
  BY <1>1, WellJudged
<1>3. w.at = "judged" /\ w.rows = model.rows /\ w.sig = sig
  BY <1>1 DEF Working
<1>4. Baselines(new) = Baselines(copy[s]) /\ new.rows = copy[s].rows
  BY <1>1 DEF ProbeState, Baselines
<1>5. /\ sweep' = [sweep EXCEPT ![s] = w] /\ copy' = [copy EXCEPT ![s] = new]
      /\ UNCHANGED <<row, strayed>> /\ sweep[s].at = "asked"
  BY Zenon DEF ProbeAnswers, hist
<1> HIDE DEF sig, w, new
<1>6. /\ sweep'[s] = w /\ copy'[s] = new
      /\ \A t \in Sweeps \ {s} : sweep'[t] = sweep[t] /\ copy'[t] = copy[t]
  BY <1>5 DEF IInv, TypeInv, SweepInv, HealthTypeOK
<1>7. s \notin strayed => Baselines(copy[s]) = Baselines(row)
  BY <1>5 DEF BaseInv, MeasuredInv
<1>8. MeasuredInv(s)'
  BY <1>2, <1>3, <1>4, <1>5, <1>6, <1>7 DEF MeasuredInv, Baselines
<1> QED
  BY <1>5, <1>6, <1>8, OneMeasures

LEMMA ConcludeMeasures ==
  ASSUME IInv, BaseInv, NEW s \in Sweeps, NEW readable \in BOOLEAN, NEW lands \in BOOLEAN,
         Conclude(s, readable, lands)
  PROVE  BaseInv'
<1>1. PICK kind \in Kinds, new \in ProbeState, w \in Working :
        Concluding(s, lands, kind, new, w)
  BY Concludes
<1>2. Strays(s)
  BY Zenon DEF Conclude
<1> QED
  BY <1>1, <1>2, WritesMeasures DEF Concluding

LEMMA CooldownMeasures ==
  ASSUME IInv, BaseInv, CooldownPasses
  PROVE  BaseInv'
<1> DEFINE w(s) == [sweep[s] EXCEPT !.known = @ \ {Parked}]
<1>1. /\ row' = Due(row) /\ copy' = [s \in Sweeps |-> Due(copy[s])]
      /\ sweep' = [s \in Sweeps |-> w(s)] /\ strayed' = strayed
  BY DEF CooldownPasses
<1>2. ASSUME NEW state \in ProbeState
      PROVE  Baselines(Due(state)) = Baselines(state) /\ Due(state).rows = state.rows
  BY <1>2 DEF Due, ProbeState, Baselines
<1>3. /\ row \in ProbeState /\ copy \in [Sweeps -> ProbeState] /\ sweep \in [Sweeps -> Working]
  BY DEF IInv, TypeInv, HealthTypeOK, SweepInv
<1>4. ASSUME NEW s \in Sweeps
      PROVE  /\ sweep'[s].at = sweep[s].at /\ sweep'[s].sig = sweep[s].sig
             /\ sweep'[s].rows = sweep[s].rows
  <2>1. sweep'[s] = [sweep[s] EXCEPT !.known = @ \ {Parked}] /\ sweep[s] \in Working
    BY <1>1, <1>3
  <2> QED
    BY <2>1 DEF Working
<1> HIDE DEF w
<1>5. ASSUME NEW s \in Sweeps PROVE MeasuredInv(s)'
  <2>1. MeasuredInv(s) /\ copy'[s] = Due(copy[s]) /\ copy[s] \in ProbeState
    BY <1>1, <1>3 DEF BaseInv
  <2>2. /\ Baselines(copy'[s]) = Baselines(copy[s]) /\ copy'[s].rows = copy[s].rows
        /\ Baselines(row') = Baselines(row)
    BY <1>1, <1>2, <1>3, <2>1
  <2> QED
    BY <1>1, <1>4, <2>1, <2>2 DEF MeasuredInv, Early, Baselines
<1> QED
  BY <1>5, Zenon DEF BaseInv

\* An operator's command leaves whoever is at work astray.
LEMMA CommandMeasures ==
  ASSUME BaseInv, UNCHANGED <<sweep, copy>>, strayed' = strayed \cup AtWork
  PROVE  BaseInv'
<1>1. ASSUME NEW s \in Sweeps PROVE MeasuredInv(s)'
  <2>1. MeasuredInv(s) /\ (sweep[s].at # "idle" => s \in strayed')
    BY DEF BaseInv, AtWork
  <2> QED
    BY <2>1 DEF MeasuredInv, Early
<1> QED
  BY <1>1, Zenon DEF BaseInv

LEMMA StepMeasures ==
  ASSUME IInv, BaseInv, NEW s \in Sweeps, SweepStep(s)
  PROVE  BaseInv'
<1>1. ASSUME \E opened, seen \in BOOLEAN : Wake(s, opened, seen) PROVE BaseInv'
  BY <1>1, WakeMeasures
<1>2. ASSUME \E lands \in BOOLEAN : Begin(s, lands) \/ ProbeFails(s, lands) PROVE BaseInv'
  BY <1>2, BeginMeasures, ProbeFailsMeasures
<1>3. ASSUME AskLease(s) \/ LookAtLease(s) \/ TakeOver(s) PROVE BaseInv'
  <2>1. UNCHANGED <<row, strayed>> /\ sweep[s].at \in Early
    BY <1>3, Zenon DEF AskLease, LookAtLease, TakeOver, health, hist, Early
  <2>2. \/ Ends(s) /\ ForgetHealth(s)
        \/ Goes(s, "sweeping") /\ copy' = copy
        \/ Goes(s, "refused") /\ copy' = copy
        \/ Goes(s, "taking") /\ copy' = copy
    BY <1>3, Zenon DEF AskLease, LookAtLease, TakeOver, health
  <2> QED
    BY <2>1, <2>2, GoesMeasures
<1>4. ASSUME Release(s) \/ DeleteLease(s) PROVE BaseInv'
  <2>1. UNCHANGED <<row, strayed>>
    BY <1>4 DEF Release, DeleteLease, hist
  <2>2. \/ Ends(s) /\ ForgetHealth(s)
        \/ Goes(s, "recording") /\ copy' = copy
        \/ Goes(s, "posting") /\ copy' = copy
        \/ Goes(s, "deleting") /\ copy' = copy
    BY <1>4, Zenon DEF Release, DeleteLease, Leaves
  <2> QED
    BY <2>1, <2>2, GoesMeasures
<1>5. ASSUME NEW lands \in BOOLEAN, Post(s, lands) PROVE BaseInv'
  <2> DEFINE w == [sweep[s] EXCEPT !.at = "recording", !.told = lands]
  <2>1. sweep' = [sweep EXCEPT ![s] = w] /\ UNCHANGED <<row, copy, strayed>>
    BY <1>5 DEF Post, health
  <2>2. w.at \notin Early \cup {"asked", "judged"}
    BY DEF IInv, TypeInv, SweepInv, Working, Early
  <2> HIDE DEF w
  <2> QED
    BY <2>1, <2>2, QuietMeasures
<1>6. ASSUME NEW lands \in BOOLEAN, Record(s, lands) PROVE BaseInv'
  <2>1. Ends(s) /\ ForgetHealth(s) /\ UNCHANGED <<row, strayed>>
    BY <1>6 DEF Record
  <2> QED
    BY <2>1, GoesMeasures
<1> QED
  BY <1>1, <1>2, <1>3, <1>4, <1>5, <1>6, ProbeAnswersMeasures, ConcludeMeasures, Zenon
  DEF SweepStep

LEMMA NextMeasures == IInv /\ BaseInv /\ [Next]_vars => BaseInv'
<1> SUFFICES ASSUME IInv, BaseInv, [Next]_vars
             PROVE  BaseInv'
  OBVIOUS
<1>1. ASSUME ModelChanges \/ LeaseExpires \/ UNCHANGED vars PROVE BaseInv'
  <2>1. UNCHANGED <<row, copy, sweep, strayed>>
    BY <1>1 DEF ModelChanges, LeaseExpires, vars, health, hist
  <2> QED
    BY <2>1 DEF BaseInv, MeasuredInv, Baselines, Early, Collapsed
<1>2. ASSUME Accept \/ Reset PROVE BaseInv'
  BY <1>2, CommandMeasures DEF Accept, Reset
<1>3. ASSUME NEW s \in Sweeps, Crash(s) PROVE BaseInv'
  BY <1>3, GoesMeasures DEF Crash
<1> QED
  BY <1>1, <1>2, <1>3, StepMeasures, CooldownMeasures, Zenon DEF Next

LEMMA InitMeasures == Init => BaseInv
<1> SUFFICES ASSUME Init, NEW s \in Sweeps PROVE MeasuredInv(s)
  BY Zenon DEF BaseInv
<1>1. sweep[s].at = "idle"
  BY DEF Init, Idle
<1>2. sweep[s].at \notin Early \cup {"asked", "judged"}
  BY <1>1 DEF Early
<1> QED
  BY <1>1, <1>2 DEF MeasuredInv

LEMMA SameYardstick ==
  ASSUME Baselines(row') = Baselines(row)
  PROVE  Yardstick
BY DEF Yardstick, Baselines

\* What the step of a sweep that has not strayed makes of the baselines.
LEMMA StepYardstick ==
  ASSUME IInv, BaseInv, NEW s \in Sweeps, SweepStep(s), s \notin strayed
  PROVE  Yardstick
<1>0. MeasuredInv(s) /\ copy[s] \in ProbeState
  BY DEF BaseInv, IInv, TypeInv, HealthTypeOK
<1>1. ASSUME row' = row PROVE Yardstick
  BY <1>1, SameYardstick DEF Baselines
<1>2. ASSUME NEW lands \in BOOLEAN, Begin(s, lands) PROVE Yardstick
  <2>1. Baselines(row') \in {Baselines(row), Baselines(Known(s))}
    BY <1>2, BeginWrites
  <2>2. Baselines(Known(s)) = Baselines(row)
    BY <1>0, <1>2 DEF Known, Begin, MeasuredInv, Early
  <2> QED
    BY <2>1, <2>2, SameYardstick
<1>3. ASSUME NEW lands \in BOOLEAN, ProbeFails(s, lands) PROVE Yardstick
  <2> DEFINE errors == Atmost(copy[s].errors + 1, MaxErrors)
  <2>1. row' = row \/ row' = [copy[s] EXCEPT !.errors = errors]
    BY <1>3 DEF ProbeFails, SaveHealth
  <2> HIDE DEF errors
  <2>2. Baselines(copy[s]) = Baselines(row)
    BY <1>0, <1>3 DEF ProbeFails, MeasuredInv, Early
  <2>3. \A e : Baselines([copy[s] EXCEPT !.errors = e]) = Baselines(copy[s])
    BY <1>0, SameBaselines
  <2>4. row' = row => Baselines(row') = Baselines(row)
    BY DEF Baselines
  <2>5. Baselines(row') = Baselines(row)
    BY <2>1, <2>2, <2>3, <2>4
  <2> QED
    BY <2>5, SameYardstick
<1>4. ASSUME NEW readable \in BOOLEAN, NEW lands \in BOOLEAN, Conclude(s, readable, lands)
      PROVE  Yardstick
  <2>1. PICK kind \in Kinds, new \in ProbeState, w \in Working :
          Concluding(s, lands, kind, new, w)
    BY <1>4, Concludes
  <2>2. /\ copy[s].rows = row.rows /\ copy[s].shape = row.shape
        /\ sweep[s].sig.kind = "none" => ~Collapsed(row.rows, sweep[s].rows)
    BY <1>0, <1>4 DEF Conclude, MeasuredInv, Early, Baselines
  <2>3. row' = row \/ row' = new
    BY <2>1, Zenon DEF Concluding, SaveHealth
  <2>4. row.shape \subseteq new.shape /\ (new.rows # row.rows => ~Collapsed(row.rows, new.rows))
    BY <2>1, <2>2 DEF Concluding
  <2> QED
    BY <2>3, <2>4 DEF Yardstick
<1>5. \/ \E lands \in BOOLEAN : Begin(s, lands) \/ ProbeFails(s, lands)
      \/ \E readable, lands \in BOOLEAN : Conclude(s, readable, lands)
      \/ row' = row
  BY Zenon DEF SweepStep, Wake, LoadHealth, AskLease, health, LookAtLease, TakeOver,
     ProbeAnswers, Release, DeleteLease, Post, Record
<1> QED
  BY <1>1, <1>2, <1>3, <1>4, <1>5

\* A sweep moves itself only.
LEMMA StepMovesOne ==
  ASSUME IInv, NEW s \in Sweeps, SweepStep(s), NEW t \in Sweeps, t # s
  PROVE  sweep'[t] = sweep[t]
<1>1. \E w : sweep' = [sweep EXCEPT ![s] = w]
  BY Zenon DEF SweepStep, Wake, Begin, ProbeFails, AskLease, LookAtLease, TakeOver, ProbeAnswers,
     Conclude, Release, DeleteLease, Leaves, Post, Record, Goes, Ends, Finds
<1> QED
  BY <1>1 DEF IInv, TypeInv, SweepInv

\* A sweep never learns the failure it is looking for (semantic_health.py:10-14): whatever
\* the model does, whichever writes are lost and whoever else sweeps, it replaces no baseline
\* by one that lacks a column or has collapsed, provided its listing showed it the stored
\* baselines and nobody moved them since.  Without the first it does: find_blind_sweep.
THEOREM NeverLearnsFailure == Spec => YardstickHolds
<1>1. IInv /\ BaseInv /\ [Next]_vars =>
        [\A s \in Sweeps \ strayed : sweep'[s] # sweep[s] => Yardstick]_vars
  <2> SUFFICES ASSUME IInv, BaseInv, Next, NEW s \in Sweeps \ strayed, sweep'[s] # sweep[s]
               PROVE  Yardstick
    OBVIOUS
  <2>1. ASSUME NEW t \in Sweeps, SweepStep(t)
        PROVE  Yardstick
    <3>1. t = s
      BY <2>1, StepMovesOne
    <3> QED
      BY <2>1, <3>1, StepYardstick
  <2>2. ASSUME CooldownPasses
        PROVE  Yardstick
    <3>1. row' = Due(row) /\ row \in ProbeState
      BY <2>2 DEF CooldownPasses, IInv, TypeInv, HealthTypeOK
    <3>2. Baselines(row') = Baselines(row)
      BY <3>1 DEF Due, ProbeState, Baselines
    <3> QED
      BY <3>2, SameYardstick
  <2>3. ASSUME NEW t \in Sweeps, Crash(t)
        PROVE  Yardstick
    BY <2>3, SameYardstick DEF Crash, Baselines
  <2>4. ~ModelChanges /\ ~LeaseExpires /\ ~Accept /\ ~Reset
    BY DEF ModelChanges, LeaseExpires, Accept, Reset
  <2> QED
    BY <2>1, <2>2, <2>3, <2>4, Zenon DEF Next
<1>2. Spec => []BaseInv
  <2>1. IInv /\ BaseInv /\ IInv' /\ [Next]_vars => BaseInv'
    BY NextMeasures
  <2> QED
    BY InitMeasures, <2>1, Invariant, PTL DEF Spec
<1> QED
  BY <1>1, <1>2, Invariant, PTL DEF Spec, YardstickHolds
=============================================================================
