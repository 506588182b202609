--------------------------- MODULE FreshnessProofs ---------------------------
(***************************************************************************)
(* What _check_staleness decides, for every lag, grace, calendar, date and *)
(* time: it misses nothing that is overdue, it is exact for a model loaded *)
(* every day, and the false alarms of the others are of one kind.          *)
(***************************************************************************)
EXTENDS Freshness, TLAPS

\* The dates the comparison works on are whole numbers.
LEMMA DatesAreInt ==
  ASSUME Lag \in Nat, Grace \in Nat, NEW t \in Int
  PROVE  Deadline(t) \in Int /\ Day(t) \in Int /\ Deadline(t) <= Day(t)
<1>1. t - (Lag * 60 + Grace) \in Int /\ t - (Lag * 60 + Grace) <= t
  OBVIOUS
<1>2. ASSUME NEW a \in Int, NEW b \in Int, a <= b
      PROVE  a \div 1440 \in Int /\ a \div 1440 <= b \div 1440
  BY <1>2
<1> QED
  BY <1>1, <1>2 DEF Deadline, Day

\* Nothing is missed: if the data of an expected day is later than the lag and the grace
\* allow, the reading is stale, whatever the calendar (silent_failures.py:328-367).
THEOREM OverdueIsStale ==
  ASSUME Lag \in Nat, Grace \in Nat, NEW date \in Int, NEW t \in Int,
         Overdue(date, t)
  PROVE  Stale(date, t)
<1>1. PICK d \in date + 1 .. Deadline(t) : Loads(d)
  BY DEF Overdue
<1>2. d \in Int /\ date < d /\ d <= Deadline(t) /\ d <= Day(t)
  BY <1>1, DatesAreInt
<1>3. date < Deadline(t)
  BY <1>2, DatesAreInt
<1>4. ASSUME LoadDays # {}
      PROVE  d \in ExpectedLoads(date, Day(t))
  <2>1. Weekday(d) \in LoadDays
    BY <1>1, <1>4 DEF Loads
  <2>2. d \in date + 1 .. Day(t)
    BY <1>2, DatesAreInt
  <2> QED
    BY <2>1, <2>2 DEF ExpectedLoads
<1> QED
  BY <1>3, <1>4 DEF Stale

\* Without load_weekdays the comparison is exact: a reading is stale just when a day's data
\* is overdue (silent_failures.py:339-349).
THEOREM DailyIsExact ==
  ASSUME Lag \in Nat, Grace \in Nat, LoadDays = {}, NEW date \in Int, NEW t \in Int
  PROVE  Stale(date, t) <=> Overdue(date, t)
<1>1. ASSUME Stale(date, t)
      PROVE  Overdue(date, t)
  <2>1. date < Deadline(t)
    BY <1>1 DEF Stale
  <2>2. Deadline(t) \in date + 1 .. Deadline(t)
    BY <2>1, DatesAreInt
  <2>3. Loads(Deadline(t))
    BY DEF Loads
  <2> QED
    BY <2>2, <2>3 DEF Overdue
<1> QED
  BY <1>1, OverdueIsStale

\* With load_weekdays a false alarm is raised only for a load that is expected by today and
\* not yet due: on the first load day after a pause, before its lag and grace are over
\* (silent_failures.py:187-203, 351-361).
THEOREM FalseAlarmsAreEarly ==
  ASSUME Lag \in Nat, Grace \in Nat, NEW date \in Int, NEW t \in Int,
         Stale(date, t), ~Overdue(date, t)
  PROVE  \E d \in Deadline(t) + 1 .. Day(t) : Loads(d)
<1>1. LoadDays # {}
  BY DailyIsExact
<1>2. PICK d \in ExpectedLoads(date, Day(t)) : TRUE
  BY <1>1 DEF Stale
<1>3. d \in date + 1 .. Day(t) /\ Loads(d)
  BY <1>2 DEF ExpectedLoads, Loads
<1>4. ~(d \in date + 1 .. Deadline(t))
  BY <1>3 DEF Overdue
<1>5. d \in Deadline(t) + 1 .. Day(t)
  BY <1>3, <1>4, DatesAreInt
<1> QED
  BY <1>3, <1>5
=============================================================================
