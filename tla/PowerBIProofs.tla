---------------------------- MODULE PowerBIProofs ----------------------------
(***************************************************************************)
(* The client's answer and the assessment of the history, for any numbers  *)
(* of rows read, of refreshes and of faults, and any threshold.            *)
(*                                                                         *)
(* The inductive invariant says which failures count against the schedule: *)
(* of the scheduled refreshes that failed since the last scheduled one     *)
(* that completed, all but those before a cancelled one or before the      *)
(* re-arming.  It holds because a scheduled refresh that runs is the       *)
(* newest of the scheduled ones, and because none runs while the schedule  *)
(* is off.  Of the client it says that the refresh it waits for is its     *)
(* own, and, if no other has come up, the only one it has not seen before. *)
(***************************************************************************)
EXTENDS PowerBIProps, FiniteSetTheorems, TLAPS

BySchedule(n) == runs[n].trigger = "scheduled"

RunningIsNewest ==
  \A n, m \in Ids :
    BySchedule(n) /\ BySchedule(m) /\ runs[n].status = "Unknown" => m <= n

\* The failures that no success has made good.
Unforgiven ==
  {n \in Ids : /\ BySchedule(n) /\ Failure(runs[n])
               /\ \A m \in Ids : BySchedule(m) /\ m >= n => runs[m].status # "Completed"}

OverCancelled(n) == \E m \in Ids : BySchedule(m) /\ m >= n /\ runs[m].status = "Cancelled"

StrikesAreFailures == strikes \subseteq Unforgiven

FailuresAreStrikes == \A n \in Unforgiven : n \in strikes \/ n <= rearmed \/ OverCancelled(n)

OffMeansStruck ==
  ~enabled => /\ Cardinality(strikes) >= Threshold
              /\ \A n \in Ids : BySchedule(n) => runs[n].status # "Unknown"

ServiceInv == RunningIsNewest /\ StrikesAreFailures /\ FailuresAreStrikes /\ OffMeansStruck

KnowsItsOwn ==
  /\ call.at = "sending" => (call.alone => Ids \subseteq call.prior)
  /\ call.at \in {"waiting", "reading"} =>
       /\ call.own \in Ids
       /\ call.target \in {0, call.own}
       /\ call.alone => Ids \subseteq call.prior \cup {call.own}

IInv == TypeOK /\ ServiceInv /\ KnowsItsOwn /\ OutcomeIsOwn

USE ThresholdAssumption, ClientAssumption

-----------------------------------------------------------------------------
(* What can be said of a list, and of a refresh that joins it.             *)

\* Reading more rows than there are shows them all.
LEMMA FewRowsAreAll ==
  ASSUME NEW k \in Nat, NEW L \in Nat, Cardinality(1..L) <= k
  PROVE  Newest(k, 1..L) = 1..L
<1>1. SUFFICES ASSUME NEW n \in 1..L
               PROVE  Cardinality({m \in 1..L : m > n}) < k
  BY DEF Newest
<1>2. IsFiniteSet(1..L) /\ Cardinality(1..L) = L
  BY FS_Interval
<1>3. {m \in 1..L : m > n} = (n+1)..L
  OBVIOUS
<1>4. Cardinality((n+1)..L) = IF n+1 > L THEN 0 ELSE L - (n+1) + 1
  BY FS_Interval
<1>5. Cardinality((n+1)..L) < L /\ L <= k
  BY <1>2, <1>4
<1>6. Cardinality((n+1)..L) < k
  BY <1>4, <1>5
<1> QED
  BY <1>3, <1>6, Zenon

\* A list that shows a refresh shows every newer one that can be seen.
LEMMA NewestIsClosed ==
  ASSUME NEW k \in Nat, NEW seen \in SUBSET Nat, IsFiniteSet(seen),
         NEW n \in Newest(k, seen), NEW m \in seen, m >= n
  PROVE  m \in Newest(k, seen)
<1>0. n \in Nat /\ m \in Nat /\ \A j \in seen : j \in Nat
  BY DEF Newest
<1>1. {j \in seen : j > m} \subseteq {j \in seen : j > n}
  <2>1. \A j \in seen : j > m => j > n
    BY <1>0
  <2> QED
    BY <2>1, Zenon
<1>2. IsFiniteSet({j \in seen : j > n})
  BY FS_Subset
<1>3. /\ Cardinality({j \in seen : j > m}) <= Cardinality({j \in seen : j > n})
      /\ Cardinality({j \in seen : j > m}) \in Nat
      /\ Cardinality({j \in seen : j > n}) \in Nat
  BY <1>1, <1>2, FS_Subset, FS_CardinalityType
<1>4. Cardinality({j \in seen : j > n}) < k
  BY DEF Newest
<1> QED
  BY <1>3, <1>4 DEF Newest

\* A refresh that joins leaves the others as they were and is under way.
LEMMA JoinsLast ==
  ASSUME TypeOK, NEW trigger \in Triggers, Joins(trigger)
  PROVE  /\ runs' \in Seq(Refresh)
         /\ Ids' = Ids \cup {Len(runs) + 1}
         /\ Len(runs') = Len(runs) + 1
         /\ \A n \in Ids : runs'[n] = runs[n]
         /\ runs'[Len(runs) + 1] = [trigger |-> trigger, status |-> "Unknown"]
<1>1. runs \in Seq(Refresh) /\ [trigger |-> trigger, status |-> "Unknown"] \in Refresh
  BY DEF TypeOK, Refresh, Statuses
<1> QED
  BY <1>1 DEF Joins, Ids

-----------------------------------------------------------------------------
(* The service: which failures count against the schedule.                 *)

ServiceOK ==
  /\ runs \in Seq(Refresh)
  /\ listed \subseteq Ids
  /\ \A n \in Ids \ listed : runs[n].status = "Unknown"
  /\ enabled \in BOOLEAN
  /\ strikes \subseteq Ids
  /\ rearmed \in 0..Len(runs)

\* A refresh that joins has neither failed nor completed.
LEMMA JoinsKeepsService ==
  ASSUME TypeOK, ServiceInv, NEW trigger \in Triggers, Joins(trigger),
         trigger = "scheduled" =>
           enabled /\ \A n \in Ids : BySchedule(n) => runs[n].status # "Unknown",
         UNCHANGED <<listed, enabled, strikes, rearmed>>
  PROVE  ServiceOK' /\ ServiceInv'
<1> DEFINE new == Len(runs) + 1
<1>0. ServiceOK /\ Len(runs) \in Nat
  BY DEF TypeOK, ServiceOK
<1>1. /\ runs' \in Seq(Refresh)
      /\ Ids' = Ids \cup {new}
      /\ \A n \in Ids : runs'[n] = runs[n] /\ n \in Nat /\ n < new
      /\ runs'[new].trigger = trigger /\ runs'[new].status = "Unknown"
      /\ new \in Nat
  <2>1. \A n \in Ids : n \in Nat /\ n < new
    BY <1>0 DEF Ids
  <2>2. new \in Nat
    BY <1>0
  <2>3. /\ runs' \in Seq(Refresh)
        /\ Ids' = Ids \cup {new}
        /\ \A n \in Ids : runs'[n] = runs[n]
        /\ runs'[new] = [trigger |-> trigger, status |-> "Unknown"]
    BY JoinsLast
  <2> QED
    BY <2>1, <2>2, <2>3
<1> HIDE DEF new
<1>2. ServiceOK'
  <2>1. /\ listed' \subseteq Ids' /\ strikes' \subseteq Ids' /\ enabled' \in BOOLEAN
        /\ rearmed' \in 0..Len(runs')
    <3>1. Len(runs') = Len(runs) + 1
      BY JoinsLast
    <3> QED
      BY <1>0, <1>1, <3>1 DEF ServiceOK
  <2>2. \A n \in Ids' \ listed' : runs'[n].status = "Unknown"
    BY <1>0, <1>1 DEF ServiceOK
  <2> QED
    BY <1>1, <2>1, <2>2 DEF ServiceOK
<1>3. \A n \in Ids : BySchedule(n)' = BySchedule(n)
  BY <1>1 DEF BySchedule
<1>4. RunningIsNewest'
  <2> SUFFICES ASSUME NEW n \in Ids', NEW m \in Ids',
                      BySchedule(n)', BySchedule(m)', runs'[n].status = "Unknown"
               PROVE  m <= n
    BY DEF RunningIsNewest, BySchedule
  <2>1. CASE n = new
    BY <1>1, <2>1
  <2>2. CASE n \in Ids /\ m \in Ids
    BY <1>1, <1>3, <2>2 DEF ServiceInv, RunningIsNewest
  <2>3. CASE n \in Ids /\ m = new
    <3>1. trigger = "scheduled"
      BY <1>1, <2>3 DEF BySchedule
    <3> QED
      BY <1>1, <1>3, <2>3, <3>1
  <2> QED
    BY <1>1, <2>1, <2>2, <2>3
<1>5. \A n : n \in Unforgiven' <=> n \in Unforgiven
  <2>1. ASSUME NEW n \in Unforgiven
        PROVE  n \in Unforgiven'
    BY <1>1, <1>3 DEF Unforgiven, Failure, BySchedule
  <2>2. ASSUME NEW n \in Unforgiven'
        PROVE  n \in Unforgiven
    <3>1. n \in Ids' /\ BySchedule(n)' /\ Failure(runs[n])'
      BY <2>2 DEF Unforgiven
    <3>2. n \in Ids
      BY <1>1, <3>1 DEF Failure
    <3> QED
      BY <1>1, <1>3, <2>2, <3>2 DEF Unforgiven, Failure, BySchedule
  <2> QED
    BY <2>1, <2>2
<1>6. StrikesAreFailures' /\ FailuresAreStrikes'
  <2>1. \A n : OverCancelled(n) => OverCancelled(n)'
    BY <1>1, <1>3 DEF OverCancelled
  <2> QED
    BY <1>5, <2>1 DEF ServiceInv, StrikesAreFailures, FailuresAreStrikes
<1>7. OffMeansStruck'
  <2> SUFFICES ASSUME ~enabled'
               PROVE  /\ Cardinality(strikes') >= Threshold
                      /\ \A n \in Ids' : BySchedule(n)' => runs'[n].status # "Unknown"
    BY DEF OffMeansStruck, BySchedule
  <2>1. ~enabled /\ trigger # "scheduled"
    OBVIOUS
  <2>2. Cardinality(strikes') >= Threshold
    BY <2>1 DEF ServiceInv, OffMeansStruck
  <2>3. \A n \in Ids' : BySchedule(n)' => runs'[n].status # "Unknown"
    BY <1>1, <1>3, <2>1 DEF ServiceInv, OffMeansStruck, BySchedule
  <2> QED
    BY <2>2, <2>3
<1> QED
  BY <1>2, <1>4, <1>5, <1>6, <1>7 DEF ServiceInv

\* What a refresh that ends changes of the others: nothing.
LEMMA FinishKeepsService ==
  ASSUME TypeOK, ServiceInv, NEW n \in Ids, NEW status \in Ended, Finish(n, status)
  PROVE  ServiceOK' /\ ServiceInv'
<1>1. /\ n \in listed /\ runs[n].status = "Unknown"
      /\ runs' \in Seq(Refresh) /\ Len(runs') = Len(runs)
      /\ Ids' = Ids /\ listed' = listed
      /\ \A m \in Ids : m # n => runs'[m] = runs[m]
      /\ runs'[n].status = status /\ runs'[n].trigger = runs[n].trigger
      /\ \A m \in Ids : runs[m].status \in Statuses /\ m \in Nat
  <2>1. runs \in Seq(Refresh) /\ status \in Statuses /\ Len(runs) \in Nat
    BY DEF TypeOK, Ended
  <2> DEFINE row == [runs[n] EXCEPT !.status = status]
  <2>2. n \in 1..Len(runs)
    BY DEF Ids
  <2>3. runs[n] \in Refresh
    BY <2>1, <2>2
  <2>4. row \in Refresh /\ row.status = status /\ row.trigger = runs[n].trigger
    BY <2>1, <2>3 DEF Refresh
  <2>5. runs' = [runs EXCEPT ![n] = row]
    BY DEF Finish
  <2> HIDE DEF row
  <2>6. /\ runs' \in Seq(Refresh) /\ Len(runs') = Len(runs)
        /\ \A m \in 1..Len(runs) : m # n => runs'[m] = runs[m]
        /\ runs'[n] = row
    BY <2>1, <2>2, <2>4, <2>5
  <2>7. \A m \in Ids : runs[m].status \in Statuses /\ m \in Nat
    <3> SUFFICES ASSUME NEW m \in 1..Len(runs)
                 PROVE  runs[m].status \in Statuses /\ m \in Nat
      BY DEF Ids
    <3>1. runs[m] \in Refresh /\ m \in Nat
      BY <2>1
    <3> QED
      BY <3>1 DEF Refresh
  <2>8. n \in listed /\ runs[n].status = "Unknown" /\ listed' = listed
    BY DEF Finish
  <2> QED
    BY <2>4, <2>6, <2>7, <2>8 DEF Ids
<1>2. \A m \in Ids : BySchedule(m)' = BySchedule(m)
  BY <1>1 DEF BySchedule
<1>3. status # "Unknown"
  BY DEF Ended
<1>4. RunningIsNewest'
  <2> SUFFICES ASSUME NEW i \in Ids', NEW m \in Ids',
                      BySchedule(i)', BySchedule(m)', runs'[i].status = "Unknown"
               PROVE  m <= i
    BY DEF RunningIsNewest, BySchedule
  <2>1. i # n
    BY <1>1, <1>3
  <2> QED
    BY <1>1, <1>2, <2>1 DEF ServiceInv, RunningIsNewest
<1>5. \A m \in Ids : OverCancelled(m) => OverCancelled(m)'
  <2> SUFFICES ASSUME NEW m \in Ids, NEW i \in Ids,
                      BySchedule(i), i >= m, runs[i].status = "Cancelled"
               PROVE  OverCancelled(m)'
    BY DEF OverCancelled
  <2>1. i # n
    BY <1>1
  <2> QED
    BY <1>1, <1>2, <2>1 DEF OverCancelled
<1>6. StrikesAreFailures' /\ FailuresAreStrikes'
  <2>0. rearmed' = rearmed /\ Unforgiven \subseteq Ids /\ Unforgiven' \subseteq Ids
    BY <1>1 DEF Finish, Unforgiven
  <2>1. CASE ~BySchedule(n)
    <3>1. strikes' = strikes
      BY <2>1 DEF Finish, BySchedule
    <3>2. Unforgiven' = Unforgiven
      <4>1. \A m \in Ids : BySchedule(m) => m # n /\ runs'[m] = runs[m]
        BY <1>1, <2>1
      <4>2. \A m : m \in Unforgiven => m \in Unforgiven'
        BY <1>1, <1>2, <4>1 DEF Unforgiven, Failure, BySchedule
      <4>3. \A m : m \in Unforgiven' => m \in Unforgiven
        BY <1>1, <1>2, <4>1 DEF Unforgiven, Failure, BySchedule
      <4> QED
        BY <4>2, <4>3
    <3> QED
      BY <1>5, <2>0, <3>1, <3>2 DEF ServiceInv, StrikesAreFailures, FailuresAreStrikes
  <2>2. CASE BySchedule(n) /\ status = "Completed"
    <3>1. strikes' = {}
      BY <2>2 DEF Finish, BySchedule
    <3>2. ASSUME NEW m \in Unforgiven'
          PROVE  FALSE
      <4>1. m \in Ids /\ BySchedule(m) /\ m <= n
        BY <1>1, <1>2, <2>2, <3>2 DEF Unforgiven, ServiceInv, RunningIsNewest
      <4> QED
        BY <1>1, <1>2, <2>2, <3>2, <4>1 DEF Unforgiven
    <3> QED
      BY <3>1, <3>2 DEF StrikesAreFailures, FailuresAreStrikes
  <2>3. CASE BySchedule(n) /\ status = "Cancelled"
    <3>1. strikes' \subseteq strikes
      BY <2>3 DEF Finish, BySchedule
    <3>2. \A m : m \in Unforgiven => m \in Unforgiven'
      BY <1>1, <1>2, <2>3 DEF Unforgiven, Failure, BySchedule
    <3>3. ASSUME NEW m \in Unforgiven'
          PROVE  OverCancelled(m)'
      <4>1. m \in Ids /\ BySchedule(m) /\ m <= n
        BY <1>1, <1>2, <2>3, <3>3 DEF Unforgiven, ServiceInv, RunningIsNewest
      <4> QED
        BY <1>1, <1>2, <2>3, <4>1 DEF OverCancelled
    <3> QED
      BY <3>1, <3>2, <3>3 DEF ServiceInv, StrikesAreFailures, FailuresAreStrikes
  <2>4. CASE BySchedule(n) /\ status \notin {"Completed", "Cancelled"}
    <3>1. strikes' = strikes \cup {n}
      BY <2>4 DEF Finish, BySchedule
    <3>2. status \in {"Failed", "Disabled"}
      BY <2>4 DEF Ended, Statuses
    <3>3. \A m \in Ids : runs'[m].status = "Completed" <=> runs[m].status = "Completed"
      BY <1>1, <2>4
    <3>4. \A m \in Ids : Failure(runs[m])' <=> (Failure(runs[m]) \/ m = n)
      BY <1>1, <3>2 DEF Failure
    <3>5. \A m \in Ids : BySchedule(m) /\ m >= n => runs[m].status # "Completed"
      <4> SUFFICES ASSUME NEW m \in Ids, BySchedule(m), m >= n
                   PROVE  runs[m].status # "Completed"
        OBVIOUS
      <4>1. m = n
        BY <1>1, <2>4 DEF ServiceInv, RunningIsNewest
      <4> QED
        BY <1>1, <4>1
    <3>6. \A m : m \in Unforgiven' => m \in Unforgiven \cup {n}
      BY <1>1, <1>2, <3>3, <3>4 DEF Unforgiven
    <3>7. \A m : m \in Unforgiven => m \in Unforgiven'
      BY <1>1, <1>2, <3>3, <3>4 DEF Unforgiven
    <3>8. n \in Unforgiven'
      BY <1>1, <1>2, <2>4, <3>3, <3>4, <3>5 DEF Unforgiven
    <3> QED
      BY <1>5, <2>0, <3>1, <3>6, <3>7, <3>8 DEF ServiceInv, StrikesAreFailures, FailuresAreStrikes
  <2> QED
    BY <2>1, <2>2, <2>3, <2>4
<1>7. ServiceOK'
  <2>1. strikes' \subseteq Ids'
    BY <1>6 DEF StrikesAreFailures, Unforgiven
  <2>2. enabled' \in BOOLEAN /\ rearmed' \in 0..Len(runs')
    BY <1>1 DEF Finish, TypeOK
  <2> QED
    BY <1>1, <2>1, <2>2 DEF ServiceOK, TypeOK
<1>8. OffMeansStruck'
  <2> SUFFICES ASSUME ~enabled'
               PROVE  /\ Cardinality(strikes') >= Threshold
                      /\ \A m \in Ids' : BySchedule(m)' => runs'[m].status # "Unknown"
    BY DEF OffMeansStruck, BySchedule
  <2>1. CASE ~enabled
    <3>1. ~BySchedule(n)
      BY <1>1, <2>1 DEF ServiceInv, OffMeansStruck
    <3>2. strikes' = strikes
      BY <3>1 DEF Finish, BySchedule
    <3>3. \A m \in Ids' : BySchedule(m)' => runs'[m].status # "Unknown"
      BY <1>1, <1>2, <2>1, <3>1 DEF ServiceInv, OffMeansStruck
    <3> QED
      BY <2>1, <3>2, <3>3 DEF ServiceInv, OffMeansStruck
  <2>2. CASE enabled
    <3>1. ~(strikes' \subseteq strikes) /\ ~(Cardinality(strikes') < Threshold)
      BY <2>2 DEF Finish
    <3>2. BySchedule(n)
      BY <3>1 DEF Finish, BySchedule
    <3>3. IsFiniteSet(strikes') /\ Cardinality(strikes') \in Nat
      <4>1. IsFiniteSet(Ids)
        BY FS_Interval DEF Ids, TypeOK
      <4> QED
        BY <1>1, <1>7, <4>1, FS_Subset, FS_CardinalityType DEF ServiceOK
    <3>4. ASSUME NEW m \in Ids', BySchedule(m)', runs'[m].status = "Unknown"
          PROVE  FALSE
      <4>1. m # n /\ m \in Ids /\ BySchedule(m) /\ runs[m].status = "Unknown"
        BY <1>1, <1>2, <1>3, <3>4
      <4>2. m <= n /\ n <= m
        BY <1>1, <3>2, <4>1 DEF ServiceInv, RunningIsNewest
      <4> QED
        BY <1>1, <4>1, <4>2
    <3> QED
      BY <3>1, <3>3, <3>4 DEF ThresholdAssumption
  <2> QED
    BY <2>1, <2>2 DEF TypeOK
<1> QED
  BY <1>4, <1>5, <1>6, <1>7, <1>8 DEF ServiceInv

-----------------------------------------------------------------------------
(* The client: what it waits for is its own.                               *)

ClientOK ==
  /\ call \in Call
  /\ answer \in [status : {"none", "Completed", "Failed", "Disabled", "Throttled", "Unknown", "raised"},
                 of : {"none", "own", "past", "other"}, sure : BOOLEAN]
  /\ faults \in Nat

ClientInv == KnowsItsOwn /\ OutcomeIsOwn

LEMMA TypeParts == TypeOK <=> ServiceOK /\ ClientOK
  BY DEF TypeOK, ServiceOK, ClientOK

LEMMA ServiceStands ==
  ASSUME ServiceOK, ServiceInv, UNCHANGED service
  PROVE  ServiceOK' /\ ServiceInv'
  BY DEF service, ServiceOK, ServiceInv, RunningIsNewest, StrikesAreFailures,
         FailuresAreStrikes, Unforgiven, OverCancelled, OffMeansStruck,
         BySchedule, Ids

\* No refresh goes away, so what the client knows stays of its kind.
LEMMA ClientStands ==
  ASSUME TypeOK, ClientInv, Ids \subseteq Ids', Len(runs') \in Nat, Len(runs') >= Len(runs),
         UNCHANGED <<answer, faults>>,
         \/ UNCHANGED call /\ Ids' = Ids
         \/ call' = [call EXCEPT !.alone = FALSE]
         \/ call.at # "idle" /\ Ids' = Ids /\ call' = [call EXCEPT !.late = TRUE]
  PROVE  ClientOK' /\ ClientInv'
<1>1. Len(runs) \in Nat /\ call \in Call
  BY DEF TypeOK
<1>2. call' \in Call'
  <2>1. /\ SUBSET Ids \subseteq SUBSET Ids'
        /\ 0..Len(runs) \subseteq 0..Len(runs')
    BY <1>1
  <2>2. call \in Call'
    BY <1>1, <2>1 DEF Call
  <2> QED
    BY <2>2 DEF Call
<1>3. ClientOK'
  BY <1>2 DEF TypeOK, ClientOK
<1>4. OutcomeIsOwn'
  BY DEF ClientInv, OutcomeIsOwn
<1>5. KnowsItsOwn'
  BY <1>1 DEF ClientInv, KnowsItsOwn, Call
<1> QED
  BY <1>3, <1>4, <1>5 DEF ClientInv

\* An answer that tells no end leaves the client with nothing to know.
LEMMA ReturnsEmptyHanded ==
  ASSUME TypeOK, Len(runs') \in Nat, faults' \in Nat,
         NEW status \in {"Throttled", "Failed", "Unknown", "raised"}, Returns(status, "none")
  PROVE  ClientOK' /\ ClientInv'
<1>1. (call.target # 0 \/ call.alone) \in BOOLEAN
  BY DEF TypeOK, Call
<1>2. call' \in Call'
  BY DEF Returns, Idle, Call
<1>3. ClientOK'
  BY <1>1, <1>2 DEF Returns, ClientOK
<1> QED
  BY <1>3 DEF Returns, Idle, ClientInv, OutcomeIsOwn, KnowsItsOwn

\* The rows read before sending, when they are all there are.
LEMMA ReadPriorKeeps ==
  ASSUME TypeOK, ReadPrior
  PROVE  ClientOK' /\ ClientInv'
<1>1. Len(runs) \in Nat /\ Ids' = Ids /\ runs' = runs
  BY DEF TypeOK, ReadPrior, service, Ids
<1>2. Newest(PriorTop, listed) \subseteq Ids
  BY DEF Newest, TypeOK
<1>3. call' \in Call'
  <2>1. /\ Newest(PriorTop, listed) \in SUBSET Ids'
        /\ {n \in listed : runs[n].status \in Ended} \in SUBSET Ids'
        /\ (listed = Ids /\ Cardinality(Ids) <= PriorTop) \in BOOLEAN
        /\ 0 \in 0..Len(runs')
    BY <1>1, <1>2 DEF TypeOK
  <2> QED
    BY <2>1 DEF ReadPrior, Idle, Call
<1>4. ClientOK'
  BY <1>3 DEF ReadPrior, Nothing, ClientOK, TypeOK
<1>5. OutcomeIsOwn'
  BY DEF ReadPrior, Nothing, OutcomeIsOwn
<1>6. ASSUME listed = Ids, Cardinality(Ids) <= PriorTop
      PROVE  Newest(PriorTop, listed) = Ids
  BY <1>1, <1>6, FewRowsAreAll DEF Ids, ClientAssumption
<1>7. KnowsItsOwn'
  BY <1>1, <1>6 DEF ReadPrior, Idle, KnowsItsOwn
<1> QED
  BY <1>4, <1>5, <1>7 DEF ClientInv

LEMMA AcceptedKeeps ==
  ASSUME TypeOK, ClientInv, NEW named \in BOOLEAN, Accepted(named)
  PROVE  ClientOK' /\ ClientInv'
<1> DEFINE new == Len(runs) + 1
<1>1. Len(runs) \in Nat /\ call \in Call
  BY DEF TypeOK
<1>2. Ids' = Ids \cup {new} /\ Len(runs') = new
  BY JoinsLast DEF Accepted, Triggers
<1>3. new \in 0..Len(runs') /\ new \in Ids' /\ new # 0 /\ 0 \in 0..Len(runs')
  BY <1>1, <1>2
<1> HIDE DEF new
<1>4. call' = [call EXCEPT !.at = "waiting", !.own = new, !.target = IF named THEN new ELSE 0]
  BY DEF Accepted, new
<1>5. call' \in Call'
  BY <1>1, <1>2, <1>3, <1>4 DEF Call
<1>6. ClientOK'
  BY <1>5 DEF Accepted, ClientOK, TypeOK
<1>7. OutcomeIsOwn'
  BY DEF Accepted, ClientInv, OutcomeIsOwn
<1>8. call.alone => Ids \subseteq call.prior
  BY DEF Accepted, ClientInv, KnowsItsOwn
<1>9. KnowsItsOwn'
  BY <1>1, <1>2, <1>3, <1>4, <1>8 DEF KnowsItsOwn, Call
<1> QED
  BY <1>6, <1>7, <1>9 DEF ClientInv

\* A row that the loop takes for the refresh that was sent is that refresh.
LEMMA CandidateIsOwn ==
  ASSUME TypeOK, KnowsItsOwn, call.at = "reading", NEW n \in Candidates,
         call.target # 0 \/ call.alone
  PROVE  Whose(n) = "own"
<1>1. n \in Ids
  BY DEF Candidates, Newest, TypeOK
<1>2. call.target # 0 => n = call.target
  BY DEF Candidates
<1>3. call.target = 0 => n \notin call.prior
  BY DEF Candidates
<1> QED
  BY <1>1, <1>2, <1>3 DEF KnowsItsOwn, Whose

LEMMA PollKeeps ==
  ASSUME TypeOK, ClientInv, Poll
  PROVE  ClientOK' /\ ClientInv'
<1>1. Len(runs) \in Nat /\ Ids' = Ids /\ runs' = runs /\ call \in Call
  BY DEF TypeOK, Poll, service, Ids
<1>2. CASE call' = [call EXCEPT !.at = "waiting"] /\ answer' = answer
  <2>1. call' \in Call'
    BY <1>1, <1>2 DEF Call
  <2>2. KnowsItsOwn' /\ OutcomeIsOwn'
    BY <1>1, <1>2 DEF Poll, ClientInv, KnowsItsOwn, OutcomeIsOwn, Call
  <2> QED
    BY <1>2, <2>1, <2>2 DEF Poll, ClientOK, ClientInv, TypeOK
<1>3. ASSUME NEW n \in Candidates,
             runs[n].status \in {"Completed", "Failed", "Disabled"},
             Returns(runs[n].status, Whose(n))
      PROVE  ClientOK' /\ ClientInv'
  <2>1. (call.target # 0 \/ call.alone) \in BOOLEAN /\ Whose(n) \in {"own", "past", "other"}
    BY <1>1 DEF Call, Whose
  <2>2. call' \in Call'
    BY <1>1, <1>3 DEF Returns, Idle, Call
  <2>3. ClientOK'
    BY <1>3, <2>1, <2>2 DEF Returns, Poll, ClientOK, TypeOK
  <2>4. call.target # 0 \/ call.alone => Whose(n) = "own"
    BY CandidateIsOwn DEF Poll, ClientInv
  <2> QED
    BY <1>3, <2>3, <2>4 DEF Returns, Idle, ClientInv, OutcomeIsOwn, KnowsItsOwn
<1> QED
  BY <1>2, <1>3 DEF Poll

-----------------------------------------------------------------------------
(* The inductive invariant.                                                *)

LEMMA Inv == IInv <=> ServiceOK /\ ClientOK /\ ServiceInv /\ ClientInv
  BY TypeParts DEF IInv, ClientInv

LEMMA InvNext == IInv' <=> ServiceOK' /\ ClientOK' /\ ServiceInv' /\ ClientInv'
  BY DEF IInv, TypeOK, ServiceOK, ClientOK, ClientInv

LEMMA InitInv == Init => IInv
<1> SUFFICES ASSUME Init PROVE IInv
  OBVIOUS
<1>1. runs = <<>> /\ Len(runs) = 0 /\ Ids = {}
  BY DEF Init, Ids
<1>2. ServiceOK
  BY <1>1 DEF Init, ServiceOK
<1>3. ClientOK
  BY <1>1 DEF Init, Idle, Nothing, ClientOK, Call
<1>4. ServiceInv
  BY <1>1 DEF Init, ServiceInv, RunningIsNewest, StrikesAreFailures,
         FailuresAreStrikes, Unforgiven, OverCancelled, OffMeansStruck
<1>5. ClientInv
  BY DEF Init, Idle, Nothing, ClientInv, KnowsItsOwn, OutcomeIsOwn
<1> QED
  BY <1>2, <1>3, <1>4, <1>5, Inv

LEMMA NextInv == IInv /\ [Next]_vars => IInv'
<1> SUFFICES ASSUME IInv, [Next]_vars
             PROVE  IInv'
  OBVIOUS
<1> USE Inv, InvNext
<1>0. /\ TypeOK /\ ServiceOK /\ ClientOK /\ ServiceInv /\ ClientInv
      /\ runs \in Seq(Refresh) /\ Len(runs) \in Nat
  BY DEF IInv, ServiceOK
<1>1. CASE UNCHANGED vars
  BY <1>0, <1>1 DEF vars, service, IInv, TypeOK, ServiceInv, RunningIsNewest, StrikesAreFailures,
         FailuresAreStrikes, Unforgiven, OverCancelled,
         OffMeansStruck, BySchedule, Ids, Call, KnowsItsOwn, OutcomeIsOwn
<1>2. CASE ReadPrior
  BY <1>0, <1>2, ServiceStands, ReadPriorKeeps DEF ReadPrior
<1>3. ASSUME NEW named \in BOOLEAN, Accepted(named)
      PROVE  IInv'
  <2>1. ServiceOK' /\ ServiceInv'
    BY <1>0, <1>3, JoinsKeepsService DEF Accepted, Triggers
  <2>2. ClientOK' /\ ClientInv'
    BY <1>0, <1>3, AcceptedKeeps
  <2> QED
    BY <2>1, <2>2
<1>4. ASSUME NEW status \in {"Throttled", "Failed"}, Rejected(status)
      PROVE  IInv'
  <2>1. ServiceOK' /\ ServiceInv'
    BY <1>0, <1>4, ServiceStands DEF Rejected
  <2>2. Len(runs') \in Nat /\ faults' \in Nat
    BY <1>0, <1>4 DEF Rejected, service, ClientOK
  <2>3. ClientOK' /\ ClientInv'
    BY <1>0, <1>4, <2>2, ReturnsEmptyHanded DEF Rejected
  <2> QED
    BY <2>1, <2>3
<1>5. ASSUME NEW landed \in BOOLEAN, SendRaises(landed)
      PROVE  IInv'
  <2>1. ServiceOK' /\ ServiceInv'
    <3>1. CASE landed
      BY <1>0, <1>5, <3>1, JoinsKeepsService DEF SendRaises, Triggers
    <3>2. CASE ~landed
      BY <1>0, <1>5, <3>2, ServiceStands DEF SendRaises, service
    <3> QED
      BY <3>1, <3>2
  <2>2. Len(runs') \in Nat /\ faults' \in Nat
    BY <1>0, <1>5, <2>1 DEF SendRaises, Fault, ServiceOK, ClientOK
  <2>3. ClientOK' /\ ClientInv'
    BY <1>0, <1>5, <2>2, ReturnsEmptyHanded DEF SendRaises
  <2> QED
    BY <2>1, <2>3
<1>6. CASE ReadRaises
  <2>1. ServiceOK' /\ ServiceInv'
    BY <1>0, <1>6, ServiceStands DEF ReadRaises
  <2>2. Len(runs') \in Nat /\ faults' \in Nat
    BY <1>0, <1>6 DEF ReadRaises, Fault, service, ClientOK
  <2>3. ClientOK' /\ ClientInv'
    BY <1>0, <1>6, <2>2, ReturnsEmptyHanded DEF ReadRaises
  <2> QED
    BY <2>1, <2>3
<1>7. CASE Sleep
  <2>1. ServiceOK' /\ ServiceInv'
    BY <1>0, <1>7, ServiceStands DEF Sleep
  <2>2. call \in Call /\ runs' = runs /\ Ids' = Ids
    BY <1>0, <1>7 DEF Sleep, service, ClientOK, Ids
  <2>3. call' \in Call'
    BY <1>7, <2>2 DEF Sleep, Call
  <2>4. ClientOK'
    BY <1>0, <1>7, <2>3 DEF Sleep, ClientOK
  <2>5. ClientInv'
    BY <1>0, <1>7, <2>2 DEF Sleep, ClientInv, KnowsItsOwn, OutcomeIsOwn, Call
  <2> QED
    BY <2>1, <2>4, <2>5
<1>8. CASE Poll
  <2>1. ServiceOK' /\ ServiceInv'
    BY <1>0, <1>8, ServiceStands DEF Poll
  <2> QED
    BY <1>0, <1>8, <2>1, PollKeeps
<1>9. CASE TimeOut
  <2>1. ServiceOK' /\ ServiceInv'
    BY <1>0, <1>9, ServiceStands DEF TimeOut
  <2>2. Len(runs') \in Nat /\ faults' \in Nat
    BY <1>0, <1>9 DEF TimeOut, service, ClientOK
  <2>3. ClientOK' /\ ClientInv'
    BY <1>0, <1>9, <2>2, ReturnsEmptyHanded DEF TimeOut
  <2> QED
    BY <2>1, <2>3
<1>10. ASSUME NEW trigger \in Triggers, OthersRefresh(trigger)
       PROVE  IInv'
  <2>1. ServiceOK' /\ ServiceInv'
    BY <1>0, <1>10, JoinsKeepsService DEF OthersRefresh, BySchedule
  <2>2. Ids \subseteq Ids' /\ Len(runs') \in Nat /\ Len(runs') >= Len(runs)
    <3>1. Ids' = Ids \cup {Len(runs) + 1} /\ Len(runs') = Len(runs) + 1
      BY <1>0, <1>10, JoinsLast DEF OthersRefresh
    <3> QED
      BY <1>0, <3>1
  <2>3. ClientOK' /\ ClientInv'
    BY <1>0, <1>10, <2>2, ClientStands DEF OthersRefresh
  <2> QED
    BY <2>1, <2>3
<1>11. ASSUME NEW n \in Ids, Appear(n)
       PROVE  IInv'
  <2>1. runs' = runs /\ Ids' = Ids /\ UNCHANGED <<enabled, strikes, rearmed, call, answer, faults>>
    BY <1>11 DEF Appear, Ids
  <2>2. ServiceOK'
    BY <1>0, <1>11, <2>1 DEF Appear, ServiceOK
  <2>3. ServiceInv'
    BY <1>0, <2>1 DEF ServiceInv, RunningIsNewest, StrikesAreFailures,
         FailuresAreStrikes, Unforgiven, OverCancelled, OffMeansStruck, BySchedule
  <2>4. ClientOK' /\ ClientInv'
    BY <1>0, <2>1, ClientStands
  <2> QED
    BY <2>2, <2>3, <2>4
<1>12. ASSUME NEW n \in Ids, NEW status \in Ended, Finish(n, status)
       PROVE  IInv'
  <2>1. ServiceOK' /\ ServiceInv'
    BY <1>0, <1>12, FinishKeepsService
  <2>2. Ids' = Ids /\ Len(runs') = Len(runs) /\ UNCHANGED <<call, answer, faults>>
    BY <1>0, <1>12 DEF Finish, Ids
  <2>3. ClientOK' /\ ClientInv'
    BY <1>0, <2>2, ClientStands
  <2> QED
    BY <2>1, <2>3
<1>13. CASE Rearm
  <2>1. /\ runs' = runs /\ Ids' = Ids /\ enabled' = TRUE /\ strikes' = {} /\ rearmed' = Len(runs)
        /\ UNCHANGED <<listed, call, answer, faults>>
    BY <1>13 DEF Rearm, Ids
  <2>2. ServiceOK'
    BY <1>0, <2>1 DEF ServiceOK
  <2>3. RunningIsNewest' /\ OffMeansStruck'
    BY <1>0, <2>1 DEF ServiceInv, RunningIsNewest, OffMeansStruck, BySchedule
  <2>4. StrikesAreFailures' /\ FailuresAreStrikes'
    <3>1. \A n \in Unforgiven' : n <= rearmed'
      BY <1>0, <2>1 DEF Unforgiven, Ids
    <3> QED
      BY <2>1, <3>1 DEF StrikesAreFailures, FailuresAreStrikes
  <2>5. ClientOK' /\ ClientInv'
    BY <1>0, <2>1, ClientStands
  <2> QED
    BY <2>2, <2>3, <2>4, <2>5 DEF ServiceInv
<1>14. CASE DeadlinePasses
  <2>1. ServiceOK' /\ ServiceInv'
    BY <1>0, <1>14, ServiceStands DEF DeadlinePasses
  <2>2. Ids' = Ids /\ runs' = runs
    BY <1>14 DEF DeadlinePasses, service, Ids
  <2>3. ClientOK' /\ ClientInv'
    BY <1>0, <1>14, <2>2, ClientStands DEF DeadlinePasses
  <2> QED
    BY <2>1, <2>3
<1> QED
  BY <1>1, <1>2, <1>3, <1>4, <1>5, <1>6, <1>7, <1>8, <1>9, <1>10, <1>11, <1>12, <1>13, <1>14
  DEF Next, Sends, Polls, Others

THEOREM Invariant == Spec => []IInv
  BY InitInv, NextInv, PTL DEF Spec

-----------------------------------------------------------------------------
(* What follows.                                                           *)

\* Every variable always holds a value of its kind, and an outcome is one of those a caller
\* knows.
THEOREM TypeCorrect == Spec => []TypeOK
  BY Invariant, PTL DEF IInv

\* The outcome reported is that of the refresh the client sent, if the reply named it or
\* if no other came up and none was out of sight.
THEOREM OutcomeCorrect == Spec => []OutcomeIsOwn
  BY Invariant, PTL DEF IInv

\* The scheduled refreshes the assessment counts are strikes or older than the re-arming;
\* and unless one is under way or was cancelled, it counts every strike it reads.
LEMMA CountIsStrikes ==
  ASSUME IInv, NEW k \in Nat
  PROVE  LET rows == Newest(k, listed)
         IN  /\ \A n \in Consecutive(runs, rows) \ strikes : n <= rearmed
             /\ Undecided(rows) = {} => strikes \cap rows \subseteq Consecutive(runs, rows)
<1> DEFINE rows == Newest(k, listed)
<1>1. /\ listed \subseteq Ids /\ rows \subseteq listed
      /\ Ids \subseteq Nat /\ IsFiniteSet(Ids)
  BY FS_Interval DEF IInv, TypeOK, Newest, Ids
<1>2. listed \subseteq Nat /\ IsFiniteSet(listed)
  BY <1>1, FS_Subset
<1>3. ASSUME NEW n \in rows, NEW m \in listed, m >= n
      PROVE  m \in rows
  BY <1>2, <1>3, NewestIsClosed
<1>4. \A m \in Ids \ listed : runs[m].status = "Unknown"
  BY DEF IInv, TypeOK
<1> HIDE DEF rows
<1>5. ASSUME NEW n \in Consecutive(runs, rows), n \notin strikes
      PROVE  n <= rearmed
  <2>1. n \in rows /\ n \in Ids /\ BySchedule(n) /\ Failure(runs[n])
    <3>1. n \in rows /\ BySchedule(n)
      BY DEF Consecutive, Scheduled, BySchedule
    <3>2. n \in Ids /\ n \in Nat /\ n >= n
      BY <1>1, <3>1
    <3>3. Failure(runs[n])
      BY <3>1, <3>2 DEF Consecutive, Scheduled, BySchedule
    <3> QED
      BY <3>1, <3>2, <3>3
  <2>2. ASSUME NEW m \in Ids, BySchedule(m), m >= n
        PROVE  runs[m].status \notin {"Completed", "Cancelled"}
    <3>1. CASE m \in listed
      BY <1>3, <2>1, <2>2, <3>1 DEF Consecutive, Scheduled, BySchedule, Failure
    <3>2. CASE m \notin listed
      BY <1>4, <3>2
    <3> QED
      BY <3>1, <3>2
  <2>3. n \in Unforgiven /\ ~OverCancelled(n)
    BY <2>1, <2>2 DEF Unforgiven, OverCancelled
  <2> QED
    BY <1>5, <2>3 DEF IInv, ServiceInv, FailuresAreStrikes
<1>6. ASSUME Undecided(rows) = {}, NEW n \in strikes, n \in rows
      PROVE  n \in Consecutive(runs, rows)
  <2>1. n \in Ids /\ BySchedule(n) /\ Failure(runs[n]) /\ n \in Unforgiven
    BY DEF IInv, ServiceInv, StrikesAreFailures, Unforgiven
  <2>2. ASSUME NEW m \in Scheduled(runs, rows), m >= n
        PROVE  Failure(runs[m])
    <3>1. m \in Ids /\ BySchedule(m) /\ m \in rows
      BY <1>1, <2>2 DEF Scheduled, BySchedule
    <3>2. runs[m].status # "Completed"
      BY <2>1, <2>2, <3>1 DEF Unforgiven
    <3>3. runs[m].status \notin {"Unknown", "Cancelled"}
      BY <1>6, <2>2 DEF Undecided
    <3>4. runs[m].status \in Statuses
      <4>1. runs \in Seq(Refresh) /\ m \in 1..Len(runs)
        BY <3>1 DEF IInv, TypeOK, Ids
      <4>2. runs[m] \in Refresh
        BY <4>1
      <4> QED
        BY <4>2 DEF Refresh
    <3> QED
      BY <3>2, <3>3, <3>4 DEF Statuses, Failure
  <2> QED
    BY <1>6, <2>1, <2>2 DEF Consecutive, Scheduled, BySchedule
<1>7. Undecided(rows) = {} => strikes \cap rows \subseteq Consecutive(runs, rows)
  BY <1>6
<1> QED
  BY <1>5, <1>7 DEF rows

\* However many rows are read, every failure the assessment counts counts against the
\* schedule or is older than its last re-arming, and it misses none of those it reads
\* unless it reads a scheduled refresh that is under way or was cancelled.
THEOREM RiskCorrect == Spec => []RiskIsExact
<1>1. IInv => RiskIsExact
  <2> SUFFICES ASSUME IInv, NEW k \in 1..MaxRuns
               PROVE  LET rows  == Newest(k, listed)
                          count == Consecutive(runs, rows)
                      IN  /\ \A n \in count \ strikes : n <= rearmed
                          /\ Undecided(rows) = {} => strikes \cap rows \subseteq count
    BY DEF RiskIsExact
  <2>1. k \in Nat
    BY DEF ClientAssumption
  <2> QED
    BY <2>1, CountIsStrikes
<1> QED
  BY <1>1, Invariant, PTL

\* A list is shown in full to who asks for more rows than it has.
LEMMA AllRows ==
  ASSUME IInv
  PROVE  \E k \in Nat : Newest(k, listed) = listed
<1>1. listed \subseteq Ids /\ IsFiniteSet(Ids)
  <2>1. listed \subseteq Ids /\ Len(runs) \in Nat
    BY DEF IInv, TypeOK
  <2> QED
    BY <2>1, FS_Interval DEF Ids
<1>2. IsFiniteSet(listed) /\ Cardinality(listed) \in Nat
  BY <1>1, FS_Subset, FS_CardinalityType
<1>3. Newest(Cardinality(listed) + 1, listed) = listed
  <2> SUFFICES ASSUME NEW n \in listed
               PROVE  Cardinality({m \in listed : m > n}) < Cardinality(listed) + 1
    BY DEF Newest
  <2>1. {m \in listed : m > n} \subseteq listed
    OBVIOUS
  <2>2. /\ Cardinality({m \in listed : m > n}) <= Cardinality(listed)
        /\ IsFiniteSet({m \in listed : m > n})
    BY <1>2, <2>1, FS_Subset
  <2>3. Cardinality({m \in listed : m > n}) \in Nat
    BY <2>2, FS_CardinalityType
  <2> QED
    BY <1>2, <2>2, <2>3
<1> QED
  BY <1>2, <1>3

\* A schedule that is off, or one failure away from it, is said to be at risk unless a
\* scheduled refresh is under way or was cancelled.
THEOREM SilenceCorrect == Spec => []SilenceIsForetold
<1>1. IInv => SilenceIsForetold
  <2> SUFFICES ASSUME IInv, Undecided(listed) = {}, enabled => OnTheBrink
               PROVE  AtRisk(runs, listed)
    BY DEF SilenceIsForetold
  <2> DEFINE count == Consecutive(runs, listed)
  <2>1. strikes \subseteq listed
    <3>1. \A n \in Ids \ listed : runs[n].status = "Unknown"
      BY DEF IInv, TypeOK
    <3> QED
      BY <3>1 DEF IInv, ServiceInv, StrikesAreFailures, Unforgiven, Failure
  <2>2. strikes \subseteq count
    BY <2>1, AllRows, CountIsStrikes
  <2>3. IsFiniteSet(count)
    <3>1. count \subseteq Ids /\ Len(runs) \in Nat
      BY DEF IInv, TypeOK, Consecutive, Scheduled
    <3>2. IsFiniteSet(Ids)
      BY <3>1, FS_Interval DEF Ids
    <3> QED
      BY <3>1, <3>2, FS_Subset
  <2>4. /\ Cardinality(strikes) <= Cardinality(count)
        /\ Cardinality(strikes) \in Nat /\ Cardinality(count) \in Nat
    BY <2>2, <2>3, FS_Subset, FS_CardinalityType
  <2>5. Cardinality(strikes) + 1 >= Threshold
    <3>1. CASE enabled
      BY <3>1 DEF OnTheBrink
    <3>2. CASE ~enabled
      BY <2>4, <3>2 DEF IInv, ServiceInv, OffMeansStruck, ThresholdAssumption
    <3> QED
      BY <3>1, <3>2 DEF IInv, TypeOK
  <2> QED
    BY <2>4, <2>5 DEF AtRisk, ThresholdAssumption
<1> QED
  BY <1>1, Invariant, PTL
=============================================================================
