------------------------------ MODULE Freshness ------------------------------
(***************************************************************************)
(* Is the newest data late?  _check_staleness and _expected_loads_between  *)
(* of detectors/silent_failures.py, which compare the business date a      *)
(* model's data reaches with the calendar of its loads, and a feed to try  *)
(* them on.                                                                *)
(*                                                                         *)
(* Time is in minutes, a date is the number of its day, day 0 a Monday.    *)
(***************************************************************************)
EXTENDS Integers

CONSTANTS
  Lag,        \* expected_lag_hours
  Grace,      \* grace_minutes
  LoadDays    \* load_weekdays, Monday = 1; none given means every day

Day(t)     == t \div 1440
Weekday(d) == (d % 7) + 1

\* load_weekdays, with its default.
Loads(d) == LoadDays = {} \/ Weekday(d) \in LoadDays

\* What load_weekdays counts: days after the watermark, today included.
ExpectedLoads(mark, today) == {d \in mark + 1 .. today : Weekday(d) \in LoadDays}

Deadline(now) == Day(now - (Lag * 60 + Grace))

Stale(mark, now) ==
  /\ mark < Deadline(now)
  /\ LoadDays # {} => ExpectedLoads(mark, Day(now)) # {}

\* The data of some expected day is later than the lag and the grace allow.
Overdue(mark, now) == \E d \in mark + 1 .. Deadline(now) : Loads(d)

-----------------------------------------------------------------------------
(* A feed that is never overdue, read every Tick minutes.                  *)

CONSTANTS Tick, Start, End

VARIABLES now, mark

FeedInit ==
  /\ now = Start
  /\ mark \in Day(Start) - 7 .. Day(Start)
  /\ Loads(mark) /\ ~Overdue(mark, now)

\* The load of the next expected day arrives, on that day or until it is overdue.
Load ==
  /\ \E d \in mark + 1 .. Day(now) :
       /\ Loads(d)
       /\ \A e \in mark + 1 .. d - 1 : ~Loads(e)
       /\ mark' = d
  /\ UNCHANGED now

TimePasses ==
  /\ now + Tick <= End
  /\ now' = now + Tick
  /\ ~Overdue(mark, now')
  /\ UNCHANGED mark

FeedSpec == FeedInit /\ [][Load \/ TimePasses]_<<now, mark>>

\* Claimed: what is legitimately behind because no load was expected is not called stale,
\* a weekday-only feed read on a Monday for one (silent_failures.py:352-356).
OnTimeIsNotStale == ~Stale(mark, now)
=============================================================================
