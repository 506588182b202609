------------------------- MODULE MailboxSweepProofs -------------------------
(***************************************************************************)
(* The safety of the sweeps for every finite number of processes, every set *)
(* of messages and every number and kind of faults.                        *)
(***************************************************************************)
EXTENDS MailboxSweepProps, FiniteSetTheorems, TLAPS

-----------------------------------------------------------------------------
(* Type correctness.                                                       *)

LEMMA NewestAreMail == ASSUME NEW mail, NEW n PROVE Newest(mail, n) \subseteq mail
  BY DEF Newest

LEMMA FetchedAreAlerts == ASSUME NEW w PROVE Fetched(w) \subseteq Alerts \cap Mail
  BY NewestAreMail DEF Fetched, Accepts

\* Every move of the loop leaves a well-formed sweep.
MoveOK ==
  /\ pc' \in [Workers -> Stages]
  /\ hand' \in [Workers -> Alerts \cup {None}]
  /\ todo' \in [Workers -> SUBSET Alerts]
  /\ \A w \in Workers : (hand'[w] = None) <=> (pc'[w] \in {"idle", "fetch"})

LEMMA GoToOK ==
  ASSUME TypeOK, NEW w \in Workers, NEW stage \in Stages,
         (pc[w] \in {"idle", "fetch"}) <=> (stage \in {"idle", "fetch"}), GoTo(w, stage)
  PROVE  MoveOK
  BY DEF TypeOK, GoTo, MoveOK

LEMMA EndSweepOK ==
  ASSUME TypeOK, NEW w \in Workers, EndSweep(w)
  PROVE  MoveOK
  BY DEF TypeOK, EndSweep, MoveOK, Stages

LEMMA TakeUpOK ==
  ASSUME TypeOK, NEW w \in Workers, NEW requests \in SUBSET Alerts, TakeUp(w, requests)
  PROVE  MoveOK
  <1>1. PICK m \in Newest(requests, 1) :
          /\ pc' = [pc EXCEPT ![w] = "claim"]
          /\ hand' = [hand EXCEPT ![w] = m]
          /\ todo' = [todo EXCEPT ![w] = requests \ {m}]
    BY DEF TakeUp
  <1>2. m \in Alerts /\ m # None
    BY NewestAreMail, SweepAssumption
  <1>3. QED
    BY <1>1, <1>2 DEF TypeOK, MoveOK, Stages

LEMMA NextRequestOK ==
  ASSUME TypeOK, NEW w \in Workers, NextRequest(w)
  PROVE  MoveOK
  BY EndSweepOK, TakeUpOK DEF NextRequest, TypeOK

LEMMA WriteRowOK ==
  ASSUME ClaimTypeOK, NEW m \in Messages, NEW state \in {"free", "live", "expired"},
         WriteRow(m, state)
  PROVE  ClaimTypeOK'
  BY DEF ClaimTypeOK, WriteRow

\* The request in hand is an alert, past the fetch.
LEMMA InHand ==
  ASSUME TypeOK, NEW w \in Workers, pc[w] \notin {"idle", "fetch"}
  PROVE  hand[w] \in Messages /\ hand[w] \in Alerts
  BY SweepAssumption DEF TypeOK

LEMMA FaultOK ==
  ASSUME TypeOK, NEW kind, Fault(kind)
  PROVE  faults' \in Nat
  BY DEF TypeOK, Fault

LEMMA TypeInit == Init => TypeOK
<1> SUFFICES ASSUME Init PROVE TypeOK
  OBVIOUS
<1>1. claimants \subseteq Workers /\ faults \in Nat
  BY SweepAssumption DEF Init, ClaimClients
<1> QED BY <1>1 DEF Init, ClaimInit, TypeOK, ClaimTypeOK, Stages

LEMMA TypeStep == TypeOK /\ [Next]_vars => TypeOK'
<1> SUFFICES ASSUME TypeOK, [Next]_vars PROVE TypeOK'
  OBVIOUS
<1> DEFINE Rest ==
  /\ ClaimTypeOK'
  /\ mailbox' \in Seq(Messages)
  /\ copy' \in [Workers -> SUBSET Messages]
  /\ claimants' \subseteq Workers
  /\ logging' \subseteq Workers
  /\ processed' \subseteq Messages
  /\ recorded' \subseteq Messages
  /\ runs' \in [Messages -> Nat]
  /\ overruns' \in [Messages -> Nat]
  /\ faults' \in Nat
<1>join. ASSUME MoveOK, Rest PROVE TypeOK'
  BY <1>join DEF TypeOK, MoveOK
<1> HIDE DEF Rest
<1>1. ASSUME NEW w \in Workers, StartSweep(w) PROVE TypeOK'
  <2>1. MoveOK
    BY <1>1, GoToOK DEF StartSweep, LoadProcessed, Stages
  <2>2. faults' \in Nat
    BY <1>1, FaultOK DEF StartSweep, LoadProcessed, TypeOK
  <2>3. copy' \in [Workers -> SUBSET Messages]
    BY <1>1 DEF StartSweep, LoadProcessed, TypeOK
  <2>4. Rest
    BY <1>1, <2>2, <2>3 DEF StartSweep, LoadProcessed, TypeOK, ClaimTypeOK, claims, clients, Rest
  <2> QED BY <2>1, <2>4, <1>join
<1>2. ASSUME NEW w \in Workers, Fetch(w) PROVE TypeOK'
  <2>1. MoveOK
    BY <1>2, EndSweepOK, TakeUpOK, FetchedAreAlerts DEF Fetch
  <2>2. Rest
    BY <1>2 DEF Fetch, TypeOK, ClaimTypeOK, claims, clients, Rest
  <2> QED BY <2>1, <2>2, <1>join
<1>3. ASSUME NEW w \in Workers, (FetchFails(w) \/ MailRefused(w)) PROVE TypeOK'
  <2>1. MoveOK
    BY <1>3, EndSweepOK DEF FetchFails, MailRefused, LeavesUnread
  <2>2. faults' \in Nat
    BY <1>3, FaultOK DEF FetchFails, MailRefused, LeavesUnread
  <2>3. Rest
    BY <1>3, <2>2 DEF FetchFails, MailRefused, LeavesUnread, TypeOK, ClaimTypeOK, claims, clients, Rest
  <2> QED BY <2>1, <2>3, <1>join
<1>4. ASSUME NEW w \in Workers, TakeClaim(w) PROVE TypeOK'
  <2>1. MoveOK
    BY <1>4, GoToOK, NextRequestOK DEF TakeClaim, Stages
  <2>2. ClaimTypeOK'
    BY <1>4, InHand, WriteRowOK DEF TakeClaim, CreateEntity, TypeOK, ClaimTypeOK, claims
  <2>3. Rest
    BY <1>4, <2>2 DEF TakeClaim, clients, TypeOK, Rest
  <2> QED BY <2>1, <2>3, <1>join
<1>5. ASSUME NEW w \in Workers, ReadClaim(w) PROVE TypeOK'
  <2>1. MoveOK
    BY <1>5, GoToOK, NextRequestOK DEF ReadClaim, Stages
  <2>2. hand[w] \in Messages
    BY <1>5, InHand DEF ReadClaim
  <2>3. ASSUME SeesExpired(w, hand[w]) PROVE ClaimTypeOK'
    <3>1. stealers' \in [Messages -> SUBSET Workers]
      BY <2>2, <2>3 DEF SeesExpired, TypeOK, ClaimTypeOK
    <3> QED BY <2>3, <3>1 DEF SeesExpired, TypeOK, ClaimTypeOK
  <2>4. ASSUME UNCHANGED claims PROVE ClaimTypeOK'
    BY <2>4 DEF TypeOK, ClaimTypeOK, claims
  <2>5. ClaimTypeOK'
    BY <1>5, <2>3, <2>4 DEF ReadClaim
  <2>6. Rest
    BY <1>5, <2>5 DEF ReadClaim, clients, TypeOK, Rest
  <2> QED BY <2>1, <2>6, <1>join
<1>6. ASSUME NEW w \in Workers, StealClaim(w) PROVE TypeOK'
  <2>1. MoveOK
    BY <1>6, GoToOK, NextRequestOK DEF StealClaim, Stages
  <2>2. ClaimTypeOK'
    BY <1>6, InHand, WriteRowOK DEF StealClaim, UpdateEntity, TypeOK, ClaimTypeOK, claims
  <2>3. Rest
    BY <1>6, <2>2 DEF StealClaim, clients, TypeOK, Rest
  <2> QED BY <2>1, <2>3, <1>join
<1>7. ASSUME NEW w \in Workers, ClaimFails(w) PROVE TypeOK'
  <2>1. MoveOK
    BY <1>7, NextRequestOK DEF ClaimFails
  <2>2. ClaimTypeOK'
    BY <1>7, InHand, WriteRowOK
       DEF ClaimFails, CreateEntity, UpdateEntity, TypeOK, ClaimTypeOK, claims
  <2>3. faults' \in Nat
    BY <1>7, FaultOK DEF ClaimFails
  <2>4. Rest
    BY <1>7, <2>2, <2>3 DEF ClaimFails, clients, TypeOK, Rest
  <2> QED BY <2>1, <2>4, <1>join
<1>8. ASSUME NEW w \in Workers, RunEnds(w) PROVE TypeOK'
  <2>1. MoveOK
    BY <1>8, GoToOK DEF RunEnds, Stages
  <2>2. runs' \in [Messages -> Nat]
    BY <1>8, InHand DEF RunEnds, TypeOK
  <2>3. Rest
    BY <1>8, <2>2 DEF RunEnds, TypeOK, ClaimTypeOK, claims, clients, Rest
  <2> QED BY <2>1, <2>3, <1>join
<1>9. ASSUME NEW w \in Workers, RunRaises(w) PROVE TypeOK'
  <2>1. MoveOK
    BY <1>9, GoToOK DEF RunRaises, Stages
  <2>2. faults' \in Nat
    BY <1>9, FaultOK DEF RunRaises
  <2>3. Rest
    BY <1>9, <2>2 DEF RunRaises, TypeOK, ClaimTypeOK, claims, clients, Rest
  <2> QED BY <2>1, <2>3, <1>join
<1>10. ASSUME NEW w \in Workers, Record(w) PROVE TypeOK'
  <2>1. MoveOK
    BY <1>10, GoToOK DEF Record, Stages
  <2>2. faults' \in Nat
    BY <1>10, FaultOK DEF Record, TypeOK
  <2>3. Rest
    BY <1>10, <2>2, InHand DEF Record, TypeOK, ClaimTypeOK, claims, clients, Rest
  <2> QED BY <2>1, <2>3, <1>join
<1>11. ASSUME NEW w \in Workers, Mark(w) PROVE TypeOK'
  <2>1. MoveOK
    BY <1>11, GoToOK DEF Mark, Stages
  <2>2. faults' \in Nat
    BY <1>11, FaultOK DEF Mark, TypeOK
  <2>3. Rest
    BY <1>11, <2>2, InHand DEF Mark, TypeOK, ClaimTypeOK, claims, clients, Rest
  <2> QED BY <2>1, <2>3, <1>join
<1>12. ASSUME NEW w \in Workers, Release(w) PROVE TypeOK'
  <2>1. MoveOK
    BY <1>12, EndSweepOK, NextRequestOK DEF Release
  <2>2. ClaimTypeOK'
    BY <1>12, InHand, WriteRowOK DEF Release, DeleteEntity, TypeOK, ClaimTypeOK, claims
  <2>3. faults' \in Nat
    BY <1>12, FaultOK DEF Release, TypeOK
  <2>4. Rest
    BY <1>12, <2>2, <2>3 DEF Release, clients, TypeOK, Rest
  <2> QED BY <2>1, <2>4, <1>join
<1>13. ASSUME NEW w \in Workers, Crash(w) PROVE TypeOK'
  <2>1. MoveOK
    BY <1>13, EndSweepOK DEF Crash
  <2>2. faults' \in Nat
    BY <1>13, FaultOK DEF Crash
  <2>3. Rest
    BY <1>13, <2>2 DEF Crash, TypeOK, ClaimTypeOK, claims, clients, Rest
  <2> QED BY <2>1, <2>3, <1>join
<1>14. ASSUME NEW m \in Messages, Arrive(m) PROVE TypeOK'
  BY <1>14 DEF Arrive, TypeOK, ClaimTypeOK, claims, clients, sweep
<1>15. ASSUME NEW m \in Messages, LeaseExpires(m) PROVE TypeOK'
  BY <1>15 DEF LeaseExpires, Expire, TypeOK, ClaimTypeOK, clients, sweep
<1>17. ASSUME NEW m \in Messages, LeaseOverruns(m) PROVE TypeOK'
  <2>1. faults' \in Nat
    BY <1>17, FaultOK DEF LeaseOverruns
  <2>2. overruns' \in [Messages -> Nat]
    BY <1>17 DEF LeaseOverruns, TypeOK
  <2> QED
    BY <1>17, <2>1, <2>2 DEF LeaseOverruns, Expire, TypeOK, ClaimTypeOK, clients, sweep
<1>16. CASE UNCHANGED vars
  BY <1>16 DEF vars, claims, clients, sweep, TypeOK, ClaimTypeOK
<1> QED
  BY <1>1, <1>2, <1>3, <1>4, <1>5, <1>6, <1>7, <1>8, <1>9, <1>10, <1>11, <1>12,
     <1>13, <1>14, <1>15, <1>16, <1>17 DEF Next, Sweep

\* Every variable holds a value of its kind, and a sweep past its fetch has an
\* alert in hand.
THEOREM SweepTypeCorrect == Spec => []TypeOK
<1> QED BY TypeInit, TypeStep, PTL DEF Spec

-----------------------------------------------------------------------------
(* Mutual exclusion.  A row that is live accounts for one process at work   *)
(* on its message, and every lease that ran out under one for one more;     *)
(* the only ETags worth anything are those of expired rows.  So a claim is  *)
(* won only from a row that accounts for nobody, and deleting the row of    *)
(* somebody else costs no more than the process that deletes it.            *)

Excess ==
  \A m \in Messages :
    Cardinality(AtWorkOn(m)) <= overruns[m] + (IF row[m] = "live" THEN 1 ELSE 0)

Thieves == \A m \in Messages : stealers[m] # {} => row[m] = "expired"

ClaimInv == TypeOK /\ Excess /\ Thieves

LEMMA Counted ==
  ASSUME NEW A \in SUBSET Workers, NEW B \in SUBSET Workers
  PROVE  /\ Cardinality(A) \in Nat /\ Cardinality(B) \in Nat
         /\ B \subseteq A => Cardinality(B) <= Cardinality(A)
         /\ \A w \in Workers : B \subseteq A \cup {w} => Cardinality(B) <= Cardinality(A) + 1
         /\ \A w \in A : B \subseteq A \ {w} => Cardinality(B) <= Cardinality(A) - 1
<1>1. IsFiniteSet(A) /\ IsFiniteSet(B)
  BY SweepAssumption, FS_Subset
<1>2. Cardinality(A) \in Nat /\ Cardinality(B) \in Nat
  BY <1>1, FS_CardinalityType
<1>3. B \subseteq A => Cardinality(B) <= Cardinality(A)
  BY <1>1, FS_Subset
<1>4. ASSUME NEW w \in Workers, B \subseteq A \cup {w} PROVE Cardinality(B) <= Cardinality(A) + 1
  <2>1. /\ IsFiniteSet(A \cup {w})
        /\ Cardinality(A \cup {w}) = IF w \in A THEN Cardinality(A) ELSE Cardinality(A) + 1
    BY <1>1, FS_AddElement
  <2>2. Cardinality(B) <= Cardinality(A \cup {w})
    BY <1>4, <2>1, FS_Subset
  <2> QED BY <1>2, <2>1, <2>2
<1>5. ASSUME NEW w \in A, B \subseteq A \ {w} PROVE Cardinality(B) <= Cardinality(A) - 1
  <2>1. IsFiniteSet(A \ {w}) /\ Cardinality(A \ {w}) = Cardinality(A) - 1
    BY <1>1, FS_RemoveElement
  <2>2. Cardinality(B) <= Cardinality(A \ {w})
    BY <1>5, <2>1, FS_Subset
  <2> QED BY <2>1, <2>2
<1> QED BY <1>2, <1>3, <1>4, <1>5

\* The same, of the processes at work on a message before and after a step.
LEMMA WorkCounted ==
  ASSUME NEW m \in Messages
  PROVE  /\ Cardinality(AtWorkOn(m)) \in Nat /\ Cardinality(AtWorkOn(m)') \in Nat
         /\ AtWorkOn(m)' \subseteq AtWorkOn(m)
              => Cardinality(AtWorkOn(m)') <= Cardinality(AtWorkOn(m))
         /\ \A w \in Workers : AtWorkOn(m)' \subseteq AtWorkOn(m) \cup {w}
              => Cardinality(AtWorkOn(m)') <= Cardinality(AtWorkOn(m)) + 1
         /\ \A w \in AtWorkOn(m) : AtWorkOn(m)' \subseteq AtWorkOn(m) \ {w}
              => Cardinality(AtWorkOn(m)') <= Cardinality(AtWorkOn(m)) - 1
<1>1. AtWorkOn(m) \in SUBSET Workers /\ AtWorkOn(m)' \in SUBSET Workers
  BY DEF AtWorkOn
<1> QED BY <1>1, Counted

\* Nobody shares a message unless a lease has run out under a live run.
LEMMA AloneAtWork ==
  ASSUME ClaimInv, NEW m \in Messages, overruns[m] = 0,
         NEW v \in Workers, NEW w \in Workers, Working(v, m), Working(w, m)
  PROVE  v = w
<1>1. v \in AtWorkOn(m) /\ w \in AtWorkOn(m) /\ AtWorkOn(m) \in SUBSET Workers
  BY DEF AtWorkOn
<1>2. Cardinality(AtWorkOn(m)) <= 1
  <2>1. Cardinality(AtWorkOn(m)) <= overruns[m] + (IF row[m] = "live" THEN 1 ELSE 0)
    BY DEF ClaimInv, Excess
  <2>2. Cardinality(AtWorkOn(m)) \in Nat
    BY WorkCounted
  <2> QED BY <2>1, <2>2
<1>3. SUFFICES ASSUME v # w PROVE FALSE
  OBVIOUS
<1> DEFINE A == AtWorkOn(m)
<1> HIDE DEF A
<1>4. IsFiniteSet(A \ {w}) /\ IsFiniteSet(A) /\ Cardinality(A \ {w}) = Cardinality(A) - 1
      /\ Cardinality(A) <= 1 /\ Cardinality(A) \in Nat
  BY <1>1, <1>2, SweepAssumption, FS_Subset, FS_RemoveElement, FS_CardinalityType DEF A
<1>5. v \in A \ {w}
  BY <1>1, <1>3 DEF A
<1>6. Cardinality(A \ {w}) # 0 /\ Cardinality(A \ {w}) \in Nat
  BY <1>4, <1>5, FS_EmptySet, FS_CardinalityType
<1> QED BY <1>4, <1>6

\* The steps, by what they do to who works on what.
NoNewWork == \A v \in Workers, m \in Messages : Working(v, m)' => Working(v, m)

OnlyNewWork(w, m) ==
  \A v \in Workers, k \in Messages : Working(v, k)' => Working(v, k) \/ (v = w /\ k = m)

LEMMA GoToNoWork ==
  ASSUME TypeOK, NEW w \in Workers, NEW stage, GoTo(w, stage),
         pc[w] \in AtWork \/ stage \notin AtWork
  PROVE  NoNewWork
  BY DEF TypeOK, GoTo, NoNewWork, Working

LEMMA EndSweepNoWork ==
  ASSUME TypeOK, NEW w \in Workers, EndSweep(w)
  PROVE  NoNewWork
  BY DEF TypeOK, EndSweep, NoNewWork, Working, AtWork

LEMMA TakeUpNoWork ==
  ASSUME TypeOK, NEW w \in Workers, NEW requests, TakeUp(w, requests)
  PROVE  NoNewWork /\ pc'[w] = "claim"
  BY DEF TypeOK, TakeUp, NoNewWork, Working, AtWork

LEMMA NextRequestNoWork ==
  ASSUME TypeOK, NEW w \in Workers, NextRequest(w)
  PROVE  NoNewWork /\ pc'[w] \notin AtWork
  <1>1. CASE EndSweep(w)
    BY <1>1, EndSweepNoWork DEF EndSweep, TypeOK, AtWork
  <1>2. CASE TakeUp(w, todo[w])
    BY <1>2, TakeUpNoWork DEF AtWork
  <1> QED BY <1>1, <1>2 DEF NextRequest

\* Nobody new is at work.
LEMMA FewerAtWork ==
  ASSUME NoNewWork, NEW m \in Messages
  PROVE  AtWorkOn(m)' \subseteq AtWorkOn(m) /\ Cardinality(AtWorkOn(m)') <= Cardinality(AtWorkOn(m))
<1>1. AtWorkOn(m)' \subseteq AtWorkOn(m)
  BY DEF NoNewWork, AtWorkOn
<1> QED BY <1>1, WorkCounted

LEMMA CalmStep ==
  ASSUME ClaimInv, TypeOK', UNCHANGED claims, UNCHANGED overruns, NoNewWork
  PROVE  ClaimInv'
<1>1. row' = row /\ stealers' = stealers /\ overruns' = overruns /\ overruns \in [Messages -> Nat]
  BY DEF claims, ClaimInv, TypeOK
<1>2. ASSUME NEW m \in Messages
      PROVE  Cardinality(AtWorkOn(m)') <= overruns'[m] + (IF row'[m] = "live" THEN 1 ELSE 0)
  <2>1. Cardinality(AtWorkOn(m)) <= overruns[m] + (IF row[m] = "live" THEN 1 ELSE 0)
    BY DEF ClaimInv, Excess
  <2>2. /\ Cardinality(AtWorkOn(m)') <= Cardinality(AtWorkOn(m))
        /\ Cardinality(AtWorkOn(m)) \in Nat /\ Cardinality(AtWorkOn(m)') \in Nat
    BY FewerAtWork, WorkCounted
  <2> QED BY <1>1, <2>1, <2>2
<1>3. Thieves'
  BY <1>1 DEF ClaimInv, Thieves
<1> QED BY <1>2, <1>3 DEF ClaimInv, Excess

LEMMA WinningStep ==
  ASSUME ClaimInv, TypeOK', UNCHANGED overruns, NEW w \in Workers, NEW m \in Messages,
         row[m] # "live", WriteRow(m, "live"), OnlyNewWork(w, m)
  PROVE  ClaimInv'
<1>1. /\ row' = [row EXCEPT ![m] = "live"]
      /\ stealers' = [stealers EXCEPT ![m] = {}]
      /\ row \in [Messages -> {"free", "live", "expired"}]
      /\ stealers \in [Messages -> SUBSET Workers]
      /\ overruns' = overruns /\ overruns \in [Messages -> Nat]
  BY DEF ClaimInv, TypeOK, ClaimTypeOK, WriteRow
<1>2. ASSUME NEW k \in Messages
      PROVE  Cardinality(AtWorkOn(k)') <= overruns'[k] + (IF row'[k] = "live" THEN 1 ELSE 0)
  <2>1. Cardinality(AtWorkOn(k)) <= overruns[k] + (IF row[k] = "live" THEN 1 ELSE 0)
    BY DEF ClaimInv, Excess
  <2>2. Cardinality(AtWorkOn(k)) \in Nat /\ Cardinality(AtWorkOn(k)') \in Nat
    BY WorkCounted
  <2>3. CASE k = m
    <3>1. AtWorkOn(k)' \subseteq AtWorkOn(k) \cup {w}
      BY <2>3 DEF OnlyNewWork, AtWorkOn
    <3>2. Cardinality(AtWorkOn(k)') <= Cardinality(AtWorkOn(k)) + 1
      BY <3>1, WorkCounted
    <3> QED BY <1>1, <2>1, <2>2, <2>3, <3>2
  <2>4. CASE k # m
    <3>1. AtWorkOn(k)' \subseteq AtWorkOn(k)
      BY <2>4 DEF OnlyNewWork, AtWorkOn
    <3>2. Cardinality(AtWorkOn(k)') <= Cardinality(AtWorkOn(k))
      BY <3>1, WorkCounted
    <3> QED BY <1>1, <2>1, <2>2, <2>4, <3>2
  <2> QED BY <2>3, <2>4
<1>3. Thieves'
  BY <1>1 DEF ClaimInv, Thieves
<1> QED BY <1>2, <1>3 DEF ClaimInv, Excess

LEMMA DeletingStep ==
  ASSUME ClaimInv, TypeOK', UNCHANGED overruns, NEW w \in Workers, NEW m \in Messages,
         Working(w, m), ~Working(w, m)', DeleteEntity(m), NoNewWork
  PROVE  ClaimInv'
<1>1. /\ row' = [row EXCEPT ![m] = "free"]
      /\ stealers' = [stealers EXCEPT ![m] = {}]
      /\ row \in [Messages -> {"free", "live", "expired"}]
      /\ stealers \in [Messages -> SUBSET Workers]
      /\ overruns' = overruns /\ overruns \in [Messages -> Nat]
  BY DEF ClaimInv, TypeOK, ClaimTypeOK, WriteRow, DeleteEntity
<1>2. ASSUME NEW k \in Messages
      PROVE  Cardinality(AtWorkOn(k)') <= overruns'[k] + (IF row'[k] = "live" THEN 1 ELSE 0)
  <2>1. Cardinality(AtWorkOn(k)) <= overruns[k] + (IF row[k] = "live" THEN 1 ELSE 0)
    BY DEF ClaimInv, Excess
  <2>2. Cardinality(AtWorkOn(k)) \in Nat /\ Cardinality(AtWorkOn(k)') \in Nat
    BY WorkCounted
  <2>3. CASE k = m
    <3>1. w \in AtWorkOn(k) /\ AtWorkOn(k)' \subseteq AtWorkOn(k) \ {w}
      <4>1. w \in AtWorkOn(k) /\ w \notin AtWorkOn(k)'
        BY <2>3 DEF AtWorkOn
      <4> QED BY <4>1, FewerAtWork
    <3>2. Cardinality(AtWorkOn(k)') <= Cardinality(AtWorkOn(k)) - 1
      BY <3>1, WorkCounted
    <3> QED BY <1>1, <2>1, <2>2, <2>3, <3>2
  <2>4. CASE k # m
    <3>1. Cardinality(AtWorkOn(k)') <= Cardinality(AtWorkOn(k))
      BY FewerAtWork
    <3> QED BY <1>1, <2>1, <2>2, <2>4, <3>1
  <2> QED BY <2>3, <2>4
<1>3. Thieves'
  BY <1>1 DEF ClaimInv, Thieves
<1> QED BY <1>2, <1>3 DEF ClaimInv, Excess

\* A lease runs out, under nobody or under somebody.
LEMMA ExpiringStep ==
  ASSUME ClaimInv, TypeOK', NEW m \in Messages, Expire(m), UNCHANGED sweep,
         \/ overruns' = overruns /\ \A w \in Workers : ~Working(w, m)
         \/ overruns' = [overruns EXCEPT ![m] = @ + 1]
  PROVE  ClaimInv'
<1>1. /\ row[m] = "live" /\ row' = [row EXCEPT ![m] = "expired"] /\ stealers' = stealers
      /\ row \in [Messages -> {"free", "live", "expired"}]
      /\ overruns \in [Messages -> Nat]
  BY DEF ClaimInv, TypeOK, ClaimTypeOK, Expire
<1>2. NoNewWork
  BY DEF sweep, NoNewWork, Working
<1>3. ASSUME NEW k \in Messages
      PROVE  Cardinality(AtWorkOn(k)') <= overruns'[k] + (IF row'[k] = "live" THEN 1 ELSE 0)
  <2>1. Cardinality(AtWorkOn(k)) <= overruns[k] + (IF row[k] = "live" THEN 1 ELSE 0)
    BY DEF ClaimInv, Excess
  <2>2. /\ Cardinality(AtWorkOn(k)) \in Nat /\ Cardinality(AtWorkOn(k)') \in Nat
        /\ Cardinality(AtWorkOn(k)') <= Cardinality(AtWorkOn(k))
    BY <1>2, FewerAtWork, WorkCounted
  <2>3. CASE overruns' = overruns /\ \A w \in Workers : ~Working(w, m)
    <3>1. CASE k = m
      <4>1. AtWorkOn(k) = {}
        BY <2>3, <3>1 DEF AtWorkOn
      <4>2. Cardinality(AtWorkOn(k)) = 0
        BY <4>1, FS_EmptySet
      <4> QED BY <1>1, <2>2, <2>3, <3>1, <4>2
    <3>2. CASE k # m
      BY <1>1, <2>1, <2>2, <2>3, <3>2
    <3> QED BY <3>1, <3>2
  <2>4. CASE overruns' = [overruns EXCEPT ![m] = @ + 1]
    <3>1. overruns'[k] = overruns[k] + (IF k = m THEN 1 ELSE 0)
      BY <1>1, <2>4
    <3>2. row'[k] = IF k = m THEN "expired" ELSE row[k]
      BY <1>1
    <3> QED BY <1>1, <2>1, <2>2, <3>1, <3>2
  <2> QED BY <2>3, <2>4
<1>4. Thieves'
  BY <1>1 DEF ClaimInv, TypeOK, ClaimTypeOK, Thieves
<1> QED BY <1>3, <1>4 DEF ClaimInv, Excess

LEMMA ClaimsBegin == Init => ClaimInv
<1> SUFFICES ASSUME Init PROVE Excess /\ Thieves
  BY TypeInit DEF ClaimInv
<1>1. ASSUME NEW m \in Messages PROVE AtWorkOn(m) = {} /\ overruns[m] = 0 /\ row[m] = "free"
  BY DEF Init, ClaimInit, AtWorkOn, Working, AtWork
<1>2. Excess
  BY <1>1, FS_EmptySet DEF Excess
<1> QED BY <1>2 DEF Init, ClaimInit, Thieves

LEMMA ClaimStep == ClaimInv /\ [Next]_vars => ClaimInv'
<1> SUFFICES ASSUME ClaimInv, [Next]_vars PROVE ClaimInv'
  OBVIOUS
<1>t. TypeOK /\ TypeOK'
  BY TypeStep DEF ClaimInv
<1>1. ASSUME NEW w \in Workers, StartSweep(w) PROVE ClaimInv'
  <2>1. NoNewWork
    BY <1>1, <1>t, GoToNoWork DEF StartSweep, LoadProcessed, AtWork
  <2> QED BY <1>1, <1>t, <2>1, CalmStep DEF StartSweep, LoadProcessed
<1>2. ASSUME NEW w \in Workers, Fetch(w) PROVE ClaimInv'
  <2>1. NoNewWork
    BY <1>2, <1>t, EndSweepNoWork, TakeUpNoWork DEF Fetch
  <2> QED BY <1>2, <1>t, <2>1, CalmStep DEF Fetch
<1>3. ASSUME NEW w \in Workers, (FetchFails(w) \/ MailRefused(w)) PROVE ClaimInv'
  <2>1. NoNewWork
    BY <1>3, <1>t, EndSweepNoWork DEF FetchFails, MailRefused, LeavesUnread
  <2> QED BY <1>3, <1>t, <2>1, CalmStep DEF FetchFails, MailRefused, LeavesUnread
<1>4. ASSUME NEW w \in Workers, TakeClaim(w) PROVE ClaimInv'
  <2>0. UNCHANGED overruns
    BY <1>4 DEF TakeClaim
  <2>1. hand[w] \in Messages
    BY <1>4, <1>t, InHand DEF TakeClaim
  <2>2. CASE CreateEntity(hand[w]) /\ GoTo(w, "run")
    <3>1. OnlyNewWork(w, hand[w])
      BY <2>2, <1>t DEF TypeOK, GoTo, OnlyNewWork, Working
    <3> QED BY <2>0, <2>1, <2>2, <3>1, <1>t, WinningStep DEF CreateEntity
  <2>3. CASE GoTo(w, "read") /\ UNCHANGED claims
    <3>1. NoNewWork
      BY <2>3, <1>t, GoToNoWork DEF AtWork
    <3> QED BY <2>0, <2>3, <3>1, <1>t, CalmStep
  <2>4. CASE NextRequest(w) /\ UNCHANGED claims
    BY <2>4, <2>0, <1>t, NextRequestNoWork, CalmStep
  <2> QED BY <1>4, <2>2, <2>3, <2>4 DEF TakeClaim
<1>5. ASSUME NEW w \in Workers, ReadClaim(w) PROVE ClaimInv'
  <2>0. UNCHANGED overruns
    BY <1>5 DEF ReadClaim
  <2>1. hand[w] \in Messages
    BY <1>5, <1>t, InHand DEF ReadClaim
  <2>2. CASE SeesExpired(w, hand[w]) /\ GoTo(w, "update")
    <3>1. NoNewWork
      BY <2>2, <1>t, GoToNoWork DEF AtWork
    <3>2. Thieves'
      BY <2>1, <2>2 DEF SeesExpired, ClaimInv, Thieves, TypeOK, ClaimTypeOK
    <3>3. ASSUME NEW m \in Messages
          PROVE  Cardinality(AtWorkOn(m)') <= overruns'[m] + (IF row'[m] = "live" THEN 1 ELSE 0)
      <4>1. Cardinality(AtWorkOn(m)) <= overruns[m] + (IF row[m] = "live" THEN 1 ELSE 0)
        BY DEF ClaimInv, Excess
      <4>2. /\ Cardinality(AtWorkOn(m)') <= Cardinality(AtWorkOn(m))
            /\ Cardinality(AtWorkOn(m)) \in Nat /\ Cardinality(AtWorkOn(m)') \in Nat
        BY <3>1, FewerAtWork, WorkCounted
      <4>3. row' = row /\ overruns' = overruns /\ overruns[m] \in Nat
        BY <2>0, <2>2, <1>t DEF SeesExpired, TypeOK
      <4> QED BY <4>1, <4>2, <4>3
    <3> QED BY <3>2, <3>3, <1>t DEF ClaimInv, Excess
  <2>3. CASE NextRequest(w) /\ UNCHANGED claims
    BY <2>0, <2>3, <1>t, NextRequestNoWork, CalmStep
  <2> QED BY <1>5, <2>2, <2>3 DEF ReadClaim
<1>6. ASSUME NEW w \in Workers, StealClaim(w) PROVE ClaimInv'
  <2>0. UNCHANGED overruns
    BY <1>6 DEF StealClaim
  <2>1. hand[w] \in Messages
    BY <1>6, <1>t, InHand DEF StealClaim
  <2>2. CASE UpdateEntity(w, hand[w]) /\ GoTo(w, "run")
    <3>1. OnlyNewWork(w, hand[w])
      BY <2>2, <1>t DEF TypeOK, GoTo, OnlyNewWork, Working
    <3>2. row[hand[w]] # "live"
      BY <2>1, <2>2 DEF UpdateEntity, ClaimInv, Thieves
    <3> QED BY <2>0, <2>1, <2>2, <3>1, <3>2, <1>t, WinningStep DEF UpdateEntity
  <2>3. CASE NextRequest(w) /\ UNCHANGED claims
    BY <2>0, <2>3, <1>t, NextRequestNoWork, CalmStep
  <2> QED BY <1>6, <2>2, <2>3 DEF StealClaim
<1>7. ASSUME NEW w \in Workers, ClaimFails(w) PROVE ClaimInv'
  <2>0. UNCHANGED overruns
    BY <1>7 DEF ClaimFails
  <2>1. hand[w] \in Messages
    BY <1>7, <1>t, InHand DEF ClaimFails
  <2>2. NoNewWork
    BY <1>7, <1>t, NextRequestNoWork DEF ClaimFails
  <2>3. OnlyNewWork(w, hand[w])
    BY <2>2 DEF NoNewWork, OnlyNewWork
  <2>4. CASE UNCHANGED claims
    BY <2>0, <2>2, <2>4, <1>t, CalmStep
  <2>5. CASE CreateEntity(hand[w])
    BY <2>0, <2>1, <2>3, <2>5, <1>t, WinningStep DEF CreateEntity
  <2>6. CASE UpdateEntity(w, hand[w])
    <3>1. row[hand[w]] # "live"
      BY <2>1, <2>6 DEF UpdateEntity, ClaimInv, Thieves
    <3> QED BY <2>0, <2>1, <2>3, <2>6, <3>1, <1>t, WinningStep DEF UpdateEntity
  <2> QED BY <1>7, <2>4, <2>5, <2>6 DEF ClaimFails
<1>8. ASSUME NEW w \in Workers, RunEnds(w) PROVE ClaimInv'
  <2>1. NoNewWork
    BY <1>8, <1>t, GoToNoWork DEF RunEnds, AtWork
  <2> QED BY <1>8, <1>t, <2>1, CalmStep DEF RunEnds
<1>9. ASSUME NEW w \in Workers, RunRaises(w) PROVE ClaimInv'
  <2>1. NoNewWork
    BY <1>9, <1>t, GoToNoWork DEF RunRaises, AtWork
  <2> QED BY <1>9, <1>t, <2>1, CalmStep DEF RunRaises
<1>10. ASSUME NEW w \in Workers, Record(w) PROVE ClaimInv'
  <2>1. NoNewWork
    BY <1>10, <1>t, GoToNoWork DEF Record, AtWork
  <2> QED BY <1>10, <1>t, <2>1, CalmStep DEF Record
<1>11. ASSUME NEW w \in Workers, Mark(w) PROVE ClaimInv'
  <2>1. NoNewWork
    BY <1>11, <1>t, GoToNoWork DEF Mark, AtWork
  <2> QED BY <1>11, <1>t, <2>1, CalmStep DEF Mark
<1>12. ASSUME NEW w \in Workers, Release(w) PROVE ClaimInv'
  <2>0. UNCHANGED overruns
    BY <1>12 DEF Release
  <2>1. hand[w] \in Messages /\ Working(w, hand[w])
    BY <1>12, <1>t, InHand DEF Release, Working, AtWork
  <2>2. NoNewWork /\ pc'[w] \notin AtWork
    BY <1>12, <1>t, EndSweepNoWork, NextRequestNoWork DEF Release, EndSweep, TypeOK, AtWork
  <2>3. CASE DeleteEntity(hand[w])
    <3>1. ~Working(w, hand[w])'
      BY <2>2 DEF Working
    <3>2. ASSUME NEW m \in Messages, m = hand[w] PROVE ClaimInv'
      <4>1. Working(w, m) /\ ~Working(w, m)' /\ DeleteEntity(m)
        BY <2>1, <2>2, <2>3, <3>2 DEF Working
      <4> QED BY <2>0, <4>1, <2>2, <1>t, DeletingStep
    <3> QED BY <3>2, <2>1
  <2>4. CASE UNCHANGED claims
    BY <2>0, <2>2, <2>4, <1>t, CalmStep
  <2> QED BY <1>12, <2>3, <2>4 DEF Release
<1>13. ASSUME NEW w \in Workers, Crash(w) PROVE ClaimInv'
  <2>1. NoNewWork
    BY <1>13, <1>t, EndSweepNoWork DEF Crash
  <2> QED BY <1>13, <1>t, <2>1, CalmStep DEF Crash
<1>14. ASSUME NEW m \in Messages, Arrive(m) PROVE ClaimInv'
  <2>1. NoNewWork
    BY <1>14 DEF Arrive, sweep, NoNewWork, Working
  <2> QED BY <1>14, <1>t, <2>1, CalmStep DEF Arrive
<1>15. ASSUME NEW m \in Messages, LeaseExpires(m) \/ LeaseOverruns(m) PROVE ClaimInv'
  BY <1>15, <1>t, ExpiringStep DEF LeaseExpires, LeaseOverruns
<1>16. CASE UNCHANGED vars
  <2>1. NoNewWork
    BY <1>16 DEF vars, sweep, NoNewWork, Working
  <2> QED BY <1>16, <1>t, <2>1, CalmStep DEF vars
<1> QED
  BY <1>1, <1>2, <1>3, <1>4, <1>5, <1>6, <1>7, <1>8, <1>9, <1>10, <1>11, <1>12,
     <1>13, <1>14, <1>15, <1>16 DEF Next, Sweep

\* An alert is worked on by one process at a time, and by one more for every lease that
\* ran out under a live run: across crashes, steals, lost replies, failed deletes, and
\* deletes by a holder that was overtaken.
THEOREM WorkIsExclusive == Spec => []OneAtATime
<1>1. ASSUME ClaimInv PROVE OneAtATime
  <2>1. ASSUME NEW m \in Messages PROVE Cardinality(AtWorkOn(m)) <= 1 + overruns[m]
    <3>1. Cardinality(AtWorkOn(m)) <= overruns[m] + (IF row[m] = "live" THEN 1 ELSE 0)
      BY <1>1 DEF ClaimInv, Excess
    <3>2. overruns[m] \in Nat /\ Cardinality(AtWorkOn(m)) \in Nat
      BY <1>1, WorkCounted DEF ClaimInv, TypeOK
    <3> QED BY <3>1, <3>2
  <2> QED BY <2>1 DEF OneAtATime
<1> QED BY <1>1, ClaimsBegin, ClaimStep, PTL DEF Spec

-----------------------------------------------------------------------------
(* Refinement of the queue.  Besides the excess, a worker takes only mail    *)
(* that has arrived, and marks only what it has triaged.                   *)

FromMail == \A w \in Workers : todo[w] \subseteq Mail /\ (hand[w] = None \/ hand[w] \in Mail)

Triaged ==
  /\ \A m \in processed : runs[m] > 0
  /\ \A w \in Workers : pc[w] \in {"record", "mark"} => runs[hand[w]] > 0

QueueInv == ClaimInv /\ FromMail /\ Triaged

LEMMA GoToFromMail ==
  ASSUME FromMail, NEW w, NEW stage, GoTo(w, stage), UNCHANGED mailbox
  PROVE  FromMail'
  BY DEF FromMail, GoTo, Mail

LEMMA EndSweepFromMail ==
  ASSUME TypeOK, FromMail, NEW w \in Workers, EndSweep(w), UNCHANGED mailbox
  PROVE  FromMail'
  <1>1. Mail' = Mail
    BY DEF Mail
  <1>2. /\ hand' = [hand EXCEPT ![w] = None] /\ todo' = [todo EXCEPT ![w] = {}]
        /\ DOMAIN hand = Workers /\ DOMAIN todo = Workers
    BY DEF TypeOK, EndSweep
  <1> QED BY <1>1, <1>2 DEF FromMail

LEMMA TakeUpFromMail ==
  ASSUME TypeOK, FromMail, NEW w \in Workers, NEW requests \in SUBSET Mail,
         TakeUp(w, requests), UNCHANGED mailbox
  PROVE  FromMail'
  <1>1. PICK m \in Newest(requests, 1) :
          /\ hand' = [hand EXCEPT ![w] = m]
          /\ todo' = [todo EXCEPT ![w] = requests \ {m}]
    BY DEF TakeUp
  <1>2. m \in Mail /\ Mail' = Mail
    BY NewestAreMail DEF Mail
  <1> QED
    BY <1>1, <1>2 DEF TypeOK, FromMail

LEMMA NextRequestFromMail ==
  ASSUME TypeOK, FromMail, NEW w \in Workers, NextRequest(w), UNCHANGED mailbox
  PROVE  FromMail'
  BY EndSweepFromMail, TakeUpFromMail DEF NextRequest, FromMail

LEMMA FromMailStep ==
  ASSUME TypeOK, FromMail, [Next]_vars
  PROVE  FromMail'
<1>1. ASSUME NEW w \in Workers, Sweep(w) \/ Crash(w) PROVE FromMail'
  <2>1. UNCHANGED mailbox
    BY <1>1 DEF Sweep, StartSweep, LoadProcessed, Fetch, FetchFails, MailRefused, LeavesUnread, TakeClaim, ReadClaim, StealClaim,
                ClaimFails, RunEnds, RunRaises, Record, Mark, Release, Crash
  <2>2. CASE \E stage : GoTo(w, stage)
    BY <2>1, <2>2, GoToFromMail
  <2>3. CASE EndSweep(w) \/ NextRequest(w)
    BY <2>1, <2>3, EndSweepFromMail, NextRequestFromMail
  <2>4. CASE TakeUp(w, Fetched(w))
    BY <2>1, <2>4, TakeUpFromMail, FetchedAreAlerts
  <2> QED
    BY <1>1, <2>2, <2>3, <2>4
       DEF Sweep, StartSweep, LoadProcessed, Fetch, FetchFails, MailRefused, LeavesUnread, TakeClaim, ReadClaim, StealClaim,
           ClaimFails, RunEnds, RunRaises, Record, Mark, Release, Crash
<1>2. ASSUME NEW m \in Messages, Arrive(m) PROVE FromMail'
  <2>1. Mail \subseteq Mail'
    BY <1>2 DEF Arrive, Mail, TypeOK
  <2> QED
    BY <1>2, <2>1 DEF Arrive, sweep, FromMail
<1>3. ASSUME NEW m \in Messages, LeaseExpires(m) \/ LeaseOverruns(m) PROVE FromMail'
  BY <1>3 DEF LeaseExpires, LeaseOverruns, sweep, FromMail, Mail
<1>4. CASE UNCHANGED vars
  BY <1>4 DEF vars, sweep, FromMail, Mail
<1> QED
  BY <1>1, <1>2, <1>3, <1>4 DEF Next

LEMMA TriagedStep ==
  ASSUME TypeOK, Triaged, [Next]_vars
  PROVE  Triaged'
<1> DEFINE Later == {"record", "mark"}
<1>move. ASSUME NEW w \in Workers, UNCHANGED <<processed, runs>>,
                \/ \E stage \in Stages \ Later : GoTo(w, stage)
                \/ EndSweep(w) \/ NextRequest(w) \/ TakeUp(w, Fetched(w))
         PROVE  Triaged'
  <2>1. \A v \in Workers : pc'[v] \in Later => v # w
    BY <1>move DEF GoTo, EndSweep, NextRequest, TakeUp, TypeOK
  <2>2. \A v \in Workers \ {w} : pc'[v] = pc[v] /\ hand'[v] = hand[v]
    BY <1>move DEF GoTo, EndSweep, NextRequest, TakeUp, TypeOK
  <2> QED BY <1>move, <2>1, <2>2 DEF Triaged
<1>1. ASSUME NEW w \in Workers, Crash(w) PROVE Triaged'
  BY <1>1, <1>move DEF Crash
<1>2. ASSUME NEW w \in Workers, StartSweep(w) \/ Fetch(w) \/ (FetchFails(w) \/ MailRefused(w)) PROVE Triaged'
  BY <1>2, <1>move DEF StartSweep, LoadProcessed, Fetch, FetchFails, MailRefused, LeavesUnread, Stages
<1>3. ASSUME NEW w \in Workers,
             TakeClaim(w) \/ ReadClaim(w) \/ StealClaim(w) \/ ClaimFails(w)
      PROVE  Triaged'
  BY <1>3, <1>move DEF TakeClaim, ReadClaim, StealClaim, ClaimFails, Stages
<1>4. ASSUME NEW w \in Workers, RunEnds(w) PROVE Triaged'
  <2>1. /\ hand[w] \in Messages
        /\ runs' = [runs EXCEPT ![hand[w]] = @ + 1]
        /\ runs \in [Messages -> Nat]
        /\ processed \subseteq Messages
    BY <1>4, InHand DEF RunEnds, TypeOK
  <2>2. runs'[hand[w]] > 0 /\ \A m \in Messages : runs[m] > 0 => runs'[m] > 0
    BY <2>1
  <2>3. \A v \in Workers : pc[v] \in Later => hand[v] \in Messages
    BY InHand
  <2>4. pc' = [pc EXCEPT ![w] = "record"] /\ UNCHANGED <<hand, processed>>
    BY <1>4 DEF RunEnds, GoTo
  <2> QED BY <2>1, <2>2, <2>3, <2>4 DEF Triaged, TypeOK
<1>5. ASSUME NEW w \in Workers, RunRaises(w) PROVE Triaged'
  BY <1>5, <1>move DEF RunRaises, Stages
<1>6. ASSUME NEW w \in Workers, Record(w) PROVE Triaged'
  BY <1>6 DEF Record, GoTo, Triaged, TypeOK
<1>7. ASSUME NEW w \in Workers, Mark(w) PROVE Triaged'
  <2>1. runs[hand[w]] > 0
    BY <1>7 DEF Mark, Triaged
  <2> QED BY <1>7, <2>1 DEF Mark, GoTo, Triaged, TypeOK
<1>8. ASSUME NEW w \in Workers, Release(w) PROVE Triaged'
  BY <1>8, <1>move DEF Release
<1>9. ASSUME NEW m \in Messages, Arrive(m) \/ LeaseExpires(m) \/ LeaseOverruns(m) PROVE Triaged'
  BY <1>9 DEF Arrive, LeaseExpires, LeaseOverruns, sweep, Triaged
<1>10. CASE UNCHANGED vars
  BY <1>10 DEF vars, sweep, Triaged
<1> QED
  BY <1>1, <1>2, <1>3, <1>4, <1>5, <1>6, <1>7, <1>8, <1>9, <1>10 DEF Next, Sweep

LEMMA QueueInvariant == Spec => []QueueInv
<1>1. Init => QueueInv
  BY ClaimsBegin DEF Init, QueueInv, FromMail, Triaged, Mail
<1>2. QueueInv /\ [Next]_vars => QueueInv'
  BY ClaimStep, FromMailStep, TriagedStep DEF QueueInv, ClaimInv
<1> QED BY <1>1, <1>2, PTL DEF Spec

SameWork(v) == \A m \in Messages : Working(v, m)' <=> Working(v, m)

LEMMA HoldersUnchanged ==
  ASSUME \A v \in Workers : SameWork(v)
  PROVE  Holders' = Holders
  <1>1. ASSUME NEW m \in Messages PROVE AtWorkOn(m)' = AtWorkOn(m)
    BY DEF SameWork, AtWorkOn
  <1> QED BY <1>1 DEF Holders

LEMMA HoldersTake ==
  ASSUME NEW w \in Workers, NEW m \in Messages, \A v \in Workers \ {w} : SameWork(v),
         \A k \in Messages : ~Working(w, k), Working(w, m)'
  PROVE  w \notin Holders[m] /\ Holders' = [Holders EXCEPT ![m] = @ \cup {w}]
  <1>1. w \notin AtWorkOn(m) /\ AtWorkOn(m)' = AtWorkOn(m) \cup {w}
    BY DEF SameWork, AtWorkOn
  <1>2. ASSUME NEW k \in Messages, k # m PROVE AtWorkOn(k)' = AtWorkOn(k)
    <2>1. ~Working(w, k)'
      BY <1>2 DEF Working
    <2> QED BY <2>1 DEF SameWork, AtWorkOn
  <1> QED BY <1>1, <1>2 DEF Holders

LEMMA HoldersGiveBack ==
  ASSUME NEW w \in Workers, NEW m \in Messages, \A v \in Workers \ {w} : SameWork(v),
         Working(w, m), \A k \in Messages : ~Working(w, k)'
  PROVE  w \in Holders[m] /\ Holders' = [Holders EXCEPT ![m] = @ \ {w}]
  <1>1. w \in AtWorkOn(m) /\ AtWorkOn(m)' = AtWorkOn(m) \ {w}
    BY DEF SameWork, AtWorkOn
  <1>2. ASSUME NEW k \in Messages, k # m PROVE AtWorkOn(k)' = AtWorkOn(k)
    <2>1. ~Working(w, k)
      BY <1>2 DEF Working
    <2> QED BY <2>1 DEF SameWork, AtWorkOn
  <1> QED BY <1>1, <1>2 DEF Holders

\* What a move of the loop does to the work.
LEMMA OthersKeepWork ==
  ASSUME TypeOK, NEW w \in Workers,
         (\E stage : GoTo(w, stage)) \/ EndSweep(w) \/ (\E requests : TakeUp(w, requests))
  PROVE  \A v \in Workers \ {w} : SameWork(v)
  BY DEF TypeOK, GoTo, EndSweep, TakeUp, SameWork, Working

LEMMA IdleMove ==
  ASSUME TypeOK, NEW w \in Workers, pc[w] \notin AtWork,
         \/ \E stage \in Stages \ AtWork : GoTo(w, stage)
         \/ EndSweep(w) \/ (\E requests : TakeUp(w, requests))
  PROVE  \A v \in Workers : SameWork(v)
  <1>1. SameWork(w)
    BY DEF TypeOK, GoTo, EndSweep, TakeUp, SameWork, Working, AtWork
  <1> QED BY <1>1, OthersKeepWork

LEMMA BusyMove ==
  ASSUME TypeOK, NEW w \in Workers, NEW stage \in AtWork, pc[w] \in AtWork, GoTo(w, stage)
  PROVE  \A v \in Workers : SameWork(v)
  <1>1. SameWork(w)
    BY DEF TypeOK, GoTo, SameWork, Working
  <1> QED BY <1>1, OthersKeepWork

LEMMA Stutters ==
  ASSUME \A v \in Workers : SameWork(v), UNCHANGED <<mailbox, runs, overruns, processed>>
  PROVE  UNCHANGED Queue!qvars
  BY HoldersUnchanged DEF Queue!qvars, Mail

LEMMA WinIsTake ==
  ASSUME QueueInv, NEW w \in Workers, pc[w] \in {"claim", "update"}, row[hand[w]] # "live",
         GoTo(w, "run"), UNCHANGED <<mailbox, runs, overruns, processed>>
  PROVE  Queue!QNext
  <1>1. TypeOK /\ hand[w] \in Messages /\ hand[w] \in Mail
    BY InHand DEF QueueInv, ClaimInv, FromMail, TypeOK
  <1>2. Working(w, hand[w])' /\ \A k \in Messages : ~Working(w, k)
    BY <1>1 DEF GoTo, TypeOK, Working, AtWork
  <1>3. \A v \in Workers \ {w} : SameWork(v)
    BY <1>1, OthersKeepWork
  <1>4. ASSUME NEW m \in Messages, m = hand[w] PROVE Queue!Take(w, m)
    <2>1. Working(w, m)'
      BY <1>2, <1>4 DEF GoTo, Working
    <2>2. w \notin Holders[m] /\ Holders' = [Holders EXCEPT ![m] = @ \cup {w}]
      BY <1>2, <1>3, <2>1, HoldersTake
    <2>3. Cardinality(AtWorkOn(m)) <= overruns[m] + (IF row[m] = "live" THEN 1 ELSE 0)
      BY DEF QueueInv, ClaimInv, Excess
    <2>4. overruns[m] \in Nat /\ Holders[m] = AtWorkOn(m)
      BY <1>1 DEF TypeOK, Holders
    <2>5. Cardinality(Holders[m]) <= overruns[m]
      BY <1>4, <2>3, <2>4
    <2>6. UNCHANGED <<Mail, overruns, {k \in Messages : runs[k] > 0}, processed>>
      BY DEF Mail
    <2>7. Queue!Cardinality(Holders[m]) = Cardinality(Holders[m])
      BY DEF Queue!Cardinality, Cardinality
    <2> QED
      BY <1>1, <1>4, <2>2, <2>5, <2>6, <2>7 DEF Queue!Take
  <1> QED BY <1>1, <1>4 DEF Queue!QNext

LEMMA LeaveIsGiveBack ==
  ASSUME QueueInv, NEW w \in Workers, pc[w] \in AtWork,
         EndSweep(w) \/ NextRequest(w), UNCHANGED <<mailbox, runs, overruns, processed>>
  PROVE  Queue!QNext
  <1>1. TypeOK /\ hand[w] \in Messages
    BY InHand DEF QueueInv, ClaimInv, AtWork
  <1>2. pc'[w] \notin AtWork
    BY <1>1, NextRequestNoWork DEF EndSweep, TypeOK, AtWork
  <1>3. Working(w, hand[w]) /\ \A k \in Messages : ~Working(w, k)'
    BY <1>2 DEF Working
  <1>4. \A v \in Workers \ {w} : SameWork(v)
    BY <1>1, OthersKeepWork DEF NextRequest
  <1>5. Queue!GiveBack(w, hand[w])
    BY <1>1, <1>3, <1>4, HoldersGiveBack DEF Queue!GiveBack, Mail
  <1> QED BY <1>1, <1>5 DEF Queue!QNext

LEMMA QueueStep ==
  ASSUME QueueInv, [Next]_vars
  PROVE  [Queue!QNext]_Queue!qvars
<1>t. TypeOK
  BY DEF QueueInv, ClaimInv
<1>1. ASSUME NEW w \in Workers, StartSweep(w) \/ Fetch(w) \/ FetchFails(w) \/ MailRefused(w)
      PROVE  UNCHANGED Queue!qvars
  <2>1. \A v \in Workers : SameWork(v)
    BY <1>1, <1>t, IdleMove DEF StartSweep, LoadProcessed, Fetch, FetchFails, MailRefused, LeavesUnread, Stages, AtWork
  <2> QED BY <1>1, <1>t, <2>1, Stutters DEF StartSweep, LoadProcessed, Fetch, FetchFails, MailRefused, LeavesUnread
<1>2. ASSUME NEW w \in Workers, TakeClaim(w) PROVE [Queue!QNext]_Queue!qvars
  <2>1. CASE CreateEntity(hand[w]) /\ GoTo(w, "run")
    BY <1>2, <1>t, <2>1, WinIsTake DEF TakeClaim, CreateEntity
  <2>2. CASE GoTo(w, "read")
    <3>1. \A v \in Workers : SameWork(v)
      BY <1>2, <1>t, <2>2, IdleMove DEF TakeClaim, Stages, AtWork
    <3> QED BY <1>2, <1>t, <3>1, Stutters DEF TakeClaim
  <2>3. CASE NextRequest(w)
    <3>1. \A v \in Workers : SameWork(v)
      BY <1>2, <1>t, <2>3, IdleMove DEF TakeClaim, NextRequest, AtWork
    <3> QED BY <1>2, <1>t, <3>1, Stutters DEF TakeClaim
  <2> QED BY <1>2, <2>1, <2>2, <2>3 DEF TakeClaim
<1>3. ASSUME NEW w \in Workers, ReadClaim(w) \/ ClaimFails(w)
      PROVE  UNCHANGED Queue!qvars
  <2>1. \A v \in Workers : SameWork(v)
    BY <1>3, <1>t, IdleMove DEF ReadClaim, ClaimFails, NextRequest, Stages, AtWork
  <2> QED BY <1>3, <1>t, <2>1, Stutters DEF ReadClaim, ClaimFails
<1>4. ASSUME NEW w \in Workers, StealClaim(w) PROVE [Queue!QNext]_Queue!qvars
  <2>1. CASE UpdateEntity(w, hand[w]) /\ GoTo(w, "run")
    <3>1. row[hand[w]] # "live"
      <4>1. hand[w] \in Messages
        BY <1>4, <1>t, InHand DEF StealClaim
      <4> QED BY <2>1, <4>1 DEF UpdateEntity, QueueInv, ClaimInv, Thieves
    <3> QED BY <1>4, <1>t, <2>1, <3>1, WinIsTake DEF StealClaim
  <2>2. CASE NextRequest(w)
    <3>1. \A v \in Workers : SameWork(v)
      BY <1>4, <1>t, <2>2, IdleMove DEF StealClaim, NextRequest, AtWork
    <3> QED BY <1>4, <1>t, <3>1, Stutters DEF StealClaim
  <2> QED BY <1>4, <2>1, <2>2 DEF StealClaim
<1>5. ASSUME NEW w \in Workers, RunEnds(w) PROVE Queue!QNext
  <2>1. hand[w] \in Messages /\ w \in Holders[hand[w]]
    BY <1>5, <1>t, InHand DEF RunEnds, Working, AtWork, Holders, AtWorkOn
  <2>2. Holders' = Holders
    BY <1>5, <1>t, BusyMove, HoldersUnchanged DEF RunEnds, AtWork
  <2>3. {m \in Messages : runs'[m] > 0} = {m \in Messages : runs[m] > 0} \cup {hand[w]}
    BY <1>5, <1>t, <2>1 DEF RunEnds, TypeOK
  <2>4. ASSUME NEW m \in Messages, m = hand[w] PROVE Queue!Triage(w, m)
    BY <1>5, <2>1, <2>2, <2>3, <2>4 DEF Queue!Triage, RunEnds, Mail
  <2> QED BY <2>1, <2>4 DEF Queue!QNext
<1>6. ASSUME NEW w \in Workers, RunRaises(w) \/ Record(w) PROVE UNCHANGED Queue!qvars
  <2>1. \A v \in Workers : SameWork(v)
    <3>1. CASE RunRaises(w)
      <4>1. pc[w] \in AtWork /\ GoTo(w, "raised") /\ "raised" \in AtWork
        BY <3>1 DEF RunRaises, AtWork
      <4> QED BY <4>1, <1>t, BusyMove
    <3>2. CASE Record(w)
      <4>1. pc[w] \in AtWork /\ GoTo(w, "mark") /\ "mark" \in AtWork
        BY <3>2 DEF Record, AtWork
      <4> QED BY <4>1, <1>t, BusyMove
    <3> QED BY <1>6, <3>1, <3>2
  <2> QED BY <1>6, <1>t, <2>1, Stutters DEF RunRaises, Record
<1>7. ASSUME NEW w \in Workers, Mark(w) PROVE [Queue!QNext]_Queue!qvars
  <2>1. \A v \in Workers : SameWork(v)
    BY <1>7, <1>t, BusyMove DEF Mark, AtWork
  <2>2. CASE UNCHANGED processed
    BY <1>7, <1>t, <2>1, <2>2, Stutters DEF Mark
  <2>3. CASE processed' = processed \cup {hand[w]}
    <3>1. hand[w] \in Messages /\ w \in Holders[hand[w]] /\ runs[hand[w]] > 0
      BY <1>7, <1>t, InHand
         DEF Mark, Working, AtWork, QueueInv, Triaged, Holders, AtWorkOn
    <3>2. Holders' = Holders
      BY <2>1, HoldersUnchanged
    <3>3. Queue!Close(w, hand[w])
      BY <1>7, <2>3, <3>1, <3>2 DEF Queue!Close, Mark, Mail
    <3> QED BY <3>1, <3>3 DEF Queue!QNext
  <2> QED BY <1>7, <2>2, <2>3 DEF Mark
<1>8. ASSUME NEW w \in Workers, Release(w) PROVE Queue!QNext
  BY <1>8, <1>t, LeaveIsGiveBack DEF Release, AtWork
<1>9. ASSUME NEW w \in Workers, Crash(w) PROVE [Queue!QNext]_Queue!qvars
  <2>1. CASE pc[w] \in AtWork
    BY <1>9, <1>t, <2>1, LeaveIsGiveBack DEF Crash
  <2>2. CASE pc[w] \notin AtWork
    <3>1. \A v \in Workers : SameWork(v)
      BY <1>9, <1>t, <2>2, IdleMove DEF Crash
    <3> QED BY <1>9, <1>t, <3>1, Stutters DEF Crash
  <2> QED BY <2>1, <2>2
<1>10. ASSUME NEW m \in Messages, Arrive(m) PROVE Queue!QNext
  <2>1. Mail' = Mail \cup {m}
    <3>1. /\ mailbox \in Seq(Messages)
          /\ mailbox' = Append(mailbox, m)
      BY <1>10, <1>t DEF Arrive, TypeOK
    <3>2. Len(mailbox') = Len(mailbox) + 1 /\ mailbox'[Len(mailbox) + 1] = m
      BY <3>1
    <3>3. \A i \in 1..Len(mailbox) : mailbox'[i] = mailbox[i]
      BY <3>1
    <3>4. 1..(Len(mailbox) + 1) = 1..Len(mailbox) \cup {Len(mailbox) + 1}
      BY <3>1
    <3> QED BY <3>2, <3>3, <3>4 DEF Mail
  <2>2. \A v \in Workers : SameWork(v)
    BY <1>10 DEF Arrive, sweep, SameWork, Working
  <2>3. Queue!Offer(m)
    BY <1>10, <1>t, <2>1, <2>2, HoldersUnchanged DEF Queue!Offer, Arrive
  <2> QED BY <2>3 DEF Queue!QNext
<1>11. ASSUME NEW m \in Messages, LeaseExpires(m) PROVE UNCHANGED Queue!qvars
  <2>1. \A v \in Workers : SameWork(v)
    BY <1>11 DEF LeaseExpires, sweep, SameWork, Working
  <2> QED BY <1>11, <1>t, <2>1, Stutters DEF LeaseExpires
<1>13. ASSUME NEW m \in Messages, LeaseOverruns(m) PROVE Queue!QNext
  <2>1. \A v \in Workers : SameWork(v)
    BY <1>13 DEF LeaseOverruns, sweep, SameWork, Working
  <2>2. Holders[m] # {}
    BY <1>13 DEF LeaseOverruns, Holders, AtWorkOn
  <2>3. Queue!Lapse(m)
    BY <1>13, <2>1, <2>2, HoldersUnchanged DEF Queue!Lapse, LeaseOverruns, Mail
  <2> QED BY <2>3 DEF Queue!QNext
<1>12. CASE UNCHANGED vars
  <2>1. \A v \in Workers : SameWork(v)
    BY <1>12 DEF vars, sweep, SameWork, Working
  <2> QED BY <1>12, <1>t, <2>1, Stutters DEF vars
<1> QED
  BY <1>1, <1>2, <1>3, <1>4, <1>5, <1>6, <1>7, <1>8, <1>9, <1>10, <1>11, <1>12, <1>13
     DEF Next, Sweep

\* The sweeps implement the queue: an alert is taken by one process at a time, but for
\* the lapses of its holders, closed only by a holder and only after a triage of it
\* ended, and never lost, whatever faults occur.
THEOREM SweepsImplementQueue == Spec => ImplementsAlertQueue
<1>1. Init => Queue!QInit
  BY DEF Init, Queue!QInit, Holders, AtWorkOn, Working, AtWork, Mail
<1>2. QueueInv /\ [Next]_vars => [Queue!QNext]_Queue!qvars
  BY QueueStep
<1> QED
  BY <1>1, <1>2, QueueInvariant, PTL DEF Spec, ImplementsAlertQueue, Queue!QSpec

-----------------------------------------------------------------------------
(* Reruns.  Once a message is marked, only a sweep that did not see the     *)
(* mark may run it again, and no new one comes to be: each run uses one up. *)

Candidate(w, m) ==
  \/ pc[w] = "fetch" /\ m \notin copy[w]
  \/ m \in todo[w]
  \/ hand[w] = m /\ pc[w] \in {"claim", "read", "update", "run"}

Candidates(m) == {w \in Workers : Candidate(w, m)}

\* Before the mark: not run, or run once, by a process that has yet to mark it.
FirstRun(m) ==
  \/ runs[m] = 0
  \/ runs[m] = 1 /\ \E w \in Workers : hand[w] = m /\ pc[w] \in {"record", "mark"}

RerunInv ==
  faults = 0 =>
    /\ logging = Workers
    /\ \A m \in Messages : overruns[m] = 0
    /\ \A w \in Workers : hand[w] \notin todo[w]
    /\ \A m \in Messages :
         IF m \in processed
         THEN runs[m] + Cardinality(Candidates(m)) <= Cardinality(Workers)
         ELSE FirstRun(m)

OthersStay(w) ==
  \A v \in Workers \ {w} :
    pc'[v] = pc[v] /\ hand'[v] = hand[v] /\ todo'[v] = todo[v] /\ copy'[v] = copy[v]

LEMMA Moving ==
  ASSUME TypeOK, NEW w \in Workers, copy' = copy,
         (\E stage : GoTo(w, stage)) \/ EndSweep(w) \/ NextRequest(w)
  PROVE  OthersStay(w)
  BY DEF TypeOK, GoTo, EndSweep, NextRequest, TakeUp, OthersStay

\* Who takes up a request does so from those it had.
LEMMA Taken ==
  ASSUME TypeOK, NEW w \in Workers, NEW requests, TakeUp(w, requests)
  PROVE  /\ pc'[w] = "claim" /\ hand'[w] \in requests /\ todo'[w] = requests \ {hand'[w]}
         /\ \A v \in Workers \ {w} : pc'[v] = pc[v] /\ hand'[v] = hand[v] /\ todo'[v] = todo[v]
<1>1. PICK m \in Newest(requests, 1) :
        /\ pc' = [pc EXCEPT ![w] = "claim"]
        /\ hand' = [hand EXCEPT ![w] = m]
        /\ todo' = [todo EXCEPT ![w] = requests \ {m}]
  BY DEF TakeUp
<1>2. m \in requests
  BY NewestAreMail
<1> QED BY <1>1, <1>2 DEF TypeOK

\* The loop goes on with what was left of it.
LEMMA GoesOn ==
  ASSUME TypeOK, NEW w \in Workers, EndSweep(w) \/ NextRequest(w)
  PROVE  /\ pc'[w] \in {"idle", "claim"} /\ todo'[w] \subseteq todo[w]
         /\ hand'[w] = None \/ hand'[w] \in todo[w]
         /\ hand'[w] \notin todo'[w]
<1>1. CASE EndSweep(w)
  BY <1>1 DEF EndSweep, TypeOK
<1>2. CASE TakeUp(w, todo[w])
  BY <1>2, Taken
<1> QED BY <1>1, <1>2 DEF NextRequest

\* A step without a fault makes no candidate for what is marked, and is a move of the
\* loop, the end of a run, or a mark.
FaultlessMove(w) ==
  /\ OthersStay(w)
  /\ hand'[w] \notin todo'[w]
  /\ \A m \in processed : Candidate(w, m)' => Candidate(w, m)
  /\ \/ /\ UNCHANGED <<runs, processed>>
        /\ pc[w] \in {"record", "mark"} => pc'[w] = "mark" /\ hand'[w] = hand[w]
     \/ RunEnds(w)
     \/ Mark(w) /\ processed' = processed \cup {hand[w]}

LEMMA FaultlessSweep ==
  ASSUME TypeOK, NEW w \in Workers, hand[w] \notin todo[w], Sweep(w) \/ Crash(w), faults' = 0,
         logging = Workers
  PROVE  FaultlessMove(w)
<1>0. /\ hand[w] \notin todo[w] /\ faults \in Nat /\ processed \subseteq Messages
      /\ DOMAIN pc = Workers /\ DOMAIN hand = Workers /\ DOMAIN todo = Workers
      /\ DOMAIN copy = Workers /\ None \notin Messages
      /\ \A m \in processed : m # None
  BY SweepAssumption DEF TypeOK
<1>f. ASSUME NEW kind, Fault(kind) PROVE FALSE
  BY <1>0, <1>f DEF Fault
\* A step from a claim or after, to a stage or on with the loop.
<1>n. ASSUME EndSweep(w) \/ NextRequest(w), UNCHANGED <<copy, runs, processed>>,
             pc[w] \notin {"record", "mark"}
      PROVE  FaultlessMove(w)
  <2>1. OthersStay(w)
    BY <1>n, Moving
  <2>2. /\ pc'[w] \in {"idle", "claim"} /\ todo'[w] \subseteq todo[w]
        /\ hand'[w] = None \/ hand'[w] \in todo[w]
        /\ hand'[w] \notin todo'[w]
    BY <1>n, GoesOn
  <2>3. \A m \in processed : Candidate(w, m)' => Candidate(w, m)
    BY <1>0, <2>2 DEF Candidate
  <2> QED BY <1>n, <2>1, <2>2, <2>3 DEF FaultlessMove
<1>g. ASSUME NEW stage, GoTo(w, stage), UNCHANGED <<copy, runs, processed>>,
             \/ pc[w] \in {"claim", "read", "update"} /\ stage \in {"read", "update", "run"}
             \/ pc[w] = "record" /\ stage = "mark"
      PROVE  FaultlessMove(w)
  <2>1. OthersStay(w)
    BY <1>g, Moving
  <2>2. pc'[w] = stage /\ hand'[w] = hand[w] /\ todo'[w] = todo[w]
    BY <1>0, <1>g DEF GoTo
  <2>3. \A m \in processed : Candidate(w, m)' => Candidate(w, m)
    BY <1>g, <2>2 DEF Candidate
  <2> QED BY <1>0, <1>g, <2>1, <2>2, <2>3 DEF FaultlessMove
<1>1. CASE StartSweep(w)
  <2>1. copy' = [copy EXCEPT ![w] = processed]
    BY <1>1, <1>f DEF StartSweep, LoadProcessed
  <2>2. /\ pc' = [pc EXCEPT ![w] = "fetch"] /\ UNCHANGED <<hand, todo, runs, processed>>
        /\ pc[w] = "idle"
    BY <1>1 DEF StartSweep, GoTo
  <2>3. \A m \in processed : Candidate(w, m)' => Candidate(w, m)
    BY <1>0, <2>1, <2>2 DEF Candidate
  <2> QED BY <1>0, <2>1, <2>2, <2>3 DEF FaultlessMove, OthersStay
<1>2. CASE Fetch(w)
  <2>1. /\ copy' = [copy EXCEPT ![w] = {}] /\ UNCHANGED <<runs, processed>> /\ pc[w] = "fetch"
    BY <1>2 DEF Fetch
  <2>2. CASE EndSweep(w)
    <3>1. pc'[w] = "idle" /\ hand'[w] = None /\ todo'[w] = {}
      BY <1>0, <2>2 DEF EndSweep
    <3>2. OthersStay(w)
      BY <1>0, <2>1, <2>2 DEF EndSweep, OthersStay
    <3> QED BY <1>0, <2>1, <3>1, <3>2 DEF FaultlessMove, Candidate
  <2>3. CASE TakeUp(w, Fetched(w))
    <3>1. /\ pc'[w] = "claim" /\ hand'[w] \in Fetched(w)
          /\ todo'[w] = Fetched(w) \ {hand'[w]}
          /\ \A v \in Workers \ {w} : pc'[v] = pc[v] /\ hand'[v] = hand[v] /\ todo'[v] = todo[v]
      BY <2>3, Taken
    <3>2. \A m \in Fetched(w) : m \notin copy[w]
      BY NewestAreMail DEF Fetched
    <3>3. OthersStay(w)
      BY <1>0, <2>1, <3>1 DEF OthersStay
    <3>4. \A m \in processed : Candidate(w, m)' => Candidate(w, m)
      BY <2>1, <3>1, <3>2 DEF Candidate
    <3> QED BY <2>1, <3>1, <3>3, <3>4 DEF FaultlessMove
  <2> QED BY <1>2, <2>2, <2>3 DEF Fetch
<1>3. CASE FetchFails(w) \/ MailRefused(w) \/ ClaimFails(w) \/ RunRaises(w) \/ Crash(w)
  BY <1>3, <1>f DEF FetchFails, MailRefused, ClaimFails, RunRaises, Crash
<1>4. CASE TakeClaim(w)
  <2>1. /\ UNCHANGED <<copy, runs, processed>> /\ pc[w] = "claim"
        /\ GoTo(w, "run") \/ GoTo(w, "read") \/ NextRequest(w)
    BY <1>4 DEF TakeClaim
  <2> QED BY <1>g, <1>n, <2>1
<1>5. CASE ReadClaim(w)
  <2>1. /\ UNCHANGED <<copy, runs, processed>> /\ pc[w] = "read"
        /\ GoTo(w, "update") \/ NextRequest(w)
    BY <1>5 DEF ReadClaim
  <2> QED BY <1>g, <1>n, <2>1
<1>6. CASE StealClaim(w)
  <2>1. /\ UNCHANGED <<copy, runs, processed>> /\ pc[w] = "update"
        /\ GoTo(w, "run") \/ NextRequest(w)
    BY <1>6 DEF StealClaim
  <2> QED BY <1>g, <1>n, <2>1
<1>7. CASE RunEnds(w)
  <2>1. OthersStay(w)
    BY <1>7, Moving DEF RunEnds
  <2>2. pc'[w] = "record" /\ hand'[w] = hand[w] /\ todo'[w] = todo[w]
    BY <1>0, <1>7 DEF RunEnds, GoTo
  <2> QED BY <1>0, <1>7, <2>1, <2>2 DEF FaultlessMove, Candidate
<1>8. CASE Record(w)
  BY <1>8, <1>g DEF Record
<1>9. CASE Mark(w)
  <2>1. OthersStay(w)
    BY <1>9, Moving DEF Mark
  <2>2. pc'[w] = "release" /\ hand'[w] = hand[w] /\ todo'[w] = todo[w]
    BY <1>0, <1>9 DEF Mark, GoTo
  <2>3. processed' = processed \cup {hand[w]}
    BY <1>9, <1>f DEF Mark
  <2> QED BY <1>0, <1>9, <2>1, <2>2, <2>3 DEF FaultlessMove, Candidate
<1>10. CASE Release(w)
  BY <1>10, <1>n DEF Release
<1> QED
  BY <1>1, <1>2, <1>3, <1>4, <1>5, <1>6, <1>7, <1>8, <1>9, <1>10 DEF Sweep

LEMMA NoFaultBefore ==
  ASSUME TypeOK, [Next]_vars, faults' = 0
  PROVE  faults = 0 /\ overruns' = overruns /\ (logging = Workers => logging' = Workers)
<1>0. faults \in Nat /\ logging \subseteq Workers
  BY DEF TypeOK
<1>f. ASSUME NEW kind, Fault(kind) PROVE FALSE
  BY <1>0, <1>f DEF Fault
<1>1. ASSUME NEW w \in Workers, StartSweep(w)
      PROVE  faults' = faults /\ overruns' = overruns /\ logging' = logging \cup {w}
  BY <1>1, <1>f DEF StartSweep, LoadProcessed
<1>2. ASSUME NEW w \in Workers, Sweep(w) \/ Crash(w), ~StartSweep(w)
      PROVE  faults' = faults /\ overruns' = overruns /\ logging' = logging
  BY <1>2, <1>f DEF Sweep, Crash, Fetch, FetchFails, MailRefused, clients,
     TakeClaim, ReadClaim, StealClaim, ClaimFails, RunEnds, RunRaises, Record, Mark, Release
<1>3. ASSUME NEW m \in Messages, Arrive(m) \/ LeaseExpires(m) \/ LeaseOverruns(m)
      PROVE  faults' = faults /\ overruns' = overruns /\ logging' = logging
  BY <1>3, <1>f DEF Arrive, LeaseExpires, LeaseOverruns, clients
<1>4. CASE UNCHANGED vars
  BY <1>4 DEF vars, clients
<1>5. CASE \E w \in Workers : Sweep(w) \/ Crash(w)
  BY <1>0, <1>1, <1>2, <1>5
<1> QED BY <1>3, <1>4, <1>5 DEF Next

\* The processes that may still run m, counted.
LEMMA CandidatesCounted ==
  ASSUME NEW C \in SUBSET Workers
  PROVE  /\ IsFiniteSet(C) /\ Cardinality(C) \in Nat /\ Cardinality(Workers) \in Nat
         /\ \A D \in SUBSET C : Cardinality(D) <= Cardinality(C)
         /\ \A w \in C : Cardinality(C \ {w}) = Cardinality(C) - 1
<1>1. IsFiniteSet(C)
  BY SweepAssumption, FS_Subset
<1>2. Cardinality(C) \in Nat /\ Cardinality(Workers) \in Nat
  BY <1>1, SweepAssumption, FS_CardinalityType
<1>3. ASSUME NEW D \in SUBSET C PROVE Cardinality(D) <= Cardinality(C)
  BY <1>1, FS_Subset
<1>4. ASSUME NEW w \in C PROVE Cardinality(C \ {w}) = Cardinality(C) - 1
  BY <1>1, FS_RemoveElement
<1> QED BY <1>1, <1>2, <1>3, <1>4

LEMMA RerunStep ==
  ASSUME ClaimInv, RerunInv, [Next]_vars
  PROVE  RerunInv'
<1> DEFINE Bounded(m) ==
             IF m \in processed'
             THEN runs'[m] + Cardinality(Candidates(m)') <= Cardinality(Workers)
             ELSE FirstRun(m)'
           Apart == \A w \in Workers : hand'[w] \notin todo'[w]
<1> SUFFICES ASSUME faults' = 0 PROVE Apart /\ \A m \in Messages : Bounded(m)
  <2>1. TypeOK
    BY DEF ClaimInv
  <2>2. ASSUME faults' = 0
        PROVE  logging' = Workers /\ \A m \in Messages : overruns'[m] = 0
    BY <2>1, <2>2, NoFaultBefore DEF RerunInv
  <2> QED BY <2>2 DEF RerunInv
<1>0. /\ TypeOK /\ faults = 0 /\ logging = Workers /\ \A m \in Messages : overruns[m] = 0
      /\ \A w \in Workers : hand[w] \notin todo[w]
      /\ \A m \in Messages :
           IF m \in processed
           THEN runs[m] + Cardinality(Candidates(m)) <= Cardinality(Workers)
           ELSE FirstRun(m)
      /\ runs \in [Messages -> Nat] /\ Cardinality(Workers) \in Nat
  BY NoFaultBefore, SweepAssumption, FS_CardinalityType DEF ClaimInv, RerunInv, TypeOK
<1>1. ASSUME NEW w \in Workers, Sweep(w) \/ Crash(w), NEW m \in Messages PROVE Bounded(m)
  <2>0. FaultlessMove(w)
    BY <1>0, <1>1, FaultlessSweep
  <2> DEFINE C == Candidates(m)  D == Candidates(m)'
  <2>1. C \in SUBSET Workers /\ D \in SUBSET Workers
    BY DEF Candidates
  <2>2. \A v \in Workers : (v \in C <=> Candidate(v, m)) /\ (v \in D <=> Candidate(v, m)')
    BY DEF Candidates
  <2>3. \A v \in Workers \ {w} : Candidate(v, m)' <=> Candidate(v, m)
    BY <2>0 DEF FaultlessMove, OthersStay, Candidate
  <2>4. m \in processed => D \subseteq C
    BY <2>0, <2>1, <2>2, <2>3 DEF FaultlessMove
  <2>5. \A v \in Workers \ {w} : pc'[v] = pc[v] /\ hand'[v] = hand[v]
    BY <2>0 DEF FaultlessMove, OthersStay
  <2>6. CASE /\ UNCHANGED <<runs, processed>>
             /\ pc[w] \in {"record", "mark"} => pc'[w] = "mark" /\ hand'[w] = hand[w]
    <3>1. CASE m \in processed
      <4>1. Cardinality(D) <= Cardinality(C) /\ Cardinality(C) \in Nat /\ Cardinality(D) \in Nat
        <5> HIDE DEF C, D
        <5> QED BY <2>1, <2>4, <3>1, CandidatesCounted
      <4> QED BY <1>0, <2>6, <3>1, <4>1
    <3>2. CASE m \notin processed
      <4>1. FirstRun(m)
        BY <1>0, <3>2
      <4>2. FirstRun(m)'
        BY <2>5, <2>6, <4>1 DEF FirstRun
      <4> QED BY <2>6, <3>2, <4>2
    <3> QED BY <3>1, <3>2
  <2>7. CASE RunEnds(w)
    <3>1. /\ pc[w] = "run" /\ pc'[w] = "record" /\ hand'[w] = hand[w] /\ processed' = processed
          /\ todo'[w] = todo[w] /\ runs' = [runs EXCEPT ![hand[w]] = @ + 1]
          /\ hand[w] \in Messages
      BY <1>0, <2>7, InHand DEF RunEnds, GoTo, TypeOK
    <3>2. CASE hand[w] = m /\ m \in processed
      <4>1. runs'[m] = runs[m] + 1
        BY <1>0, <3>1, <3>2
      <4>2. w \in C /\ w \notin D
        BY <1>0, <2>2, <3>1, <3>2 DEF Candidate
      <4>3. /\ Cardinality(C) \in Nat /\ Cardinality(D) \in Nat
            /\ Cardinality(D) <= Cardinality(C) - 1
        <5> HIDE DEF C, D
        <5>1. D \in SUBSET (C \ {w})
          BY <2>4, <3>2, <4>2
        <5>2. Cardinality(C \ {w}) = Cardinality(C) - 1
          BY <2>1, <4>2, CandidatesCounted
        <5>3. Cardinality(D) <= Cardinality(C \ {w})
          BY <2>1, <5>1, CandidatesCounted
        <5>4. Cardinality(C) \in Nat /\ Cardinality(D) \in Nat
          BY <2>1, CandidatesCounted
        <5> QED BY <5>2, <5>3, <5>4
      <4>4. runs[m] + Cardinality(C) <= Cardinality(Workers)
        BY <1>0, <3>2
      <4> QED BY <1>0, <3>1, <3>2, <4>1, <4>3, <4>4
    <3>3. CASE hand[w] = m /\ m \notin processed
      <4>1. runs[m] = 0
        <5>1. ASSUME NEW v \in Workers, hand[v] = m, pc[v] \in {"record", "mark"} PROVE FALSE
          <6>1. Working(v, m) /\ Working(w, m)
            BY <3>1, <3>3, <5>1 DEF Working, AtWork
          <6>2. v = w
            BY <1>0, <6>1, AloneAtWork
          <6> QED BY <3>1, <5>1, <6>2
        <5> QED BY <1>0, <3>3, <5>1 DEF FirstRun
      <4>2. runs'[m] = 1
        BY <1>0, <3>1, <3>3, <4>1
      <4>3. FirstRun(m)'
        BY <3>1, <3>3, <4>2 DEF FirstRun
      <4> QED BY <3>1, <3>3, <4>3
    <3>4. CASE hand[w] # m
      <4>1. runs'[m] = runs[m]
        BY <1>0, <3>1, <3>4
      <4>2. CASE m \in processed
        <5>1. Cardinality(D) <= Cardinality(C) /\ Cardinality(C) \in Nat /\ Cardinality(D) \in Nat
          <6> HIDE DEF C, D
          <6> QED BY <2>1, <2>4, <4>2, CandidatesCounted
        <5> QED BY <1>0, <3>1, <4>1, <4>2, <5>1
      <4>3. CASE m \notin processed
        <5>1. FirstRun(m)
          BY <1>0, <4>3
        <5>2. FirstRun(m)'
          BY <2>5, <3>1, <3>4, <4>1, <5>1 DEF FirstRun
        <5> QED BY <3>1, <4>3, <5>2
      <4> QED BY <4>2, <4>3
    <3> QED BY <3>2, <3>3, <3>4
  <2>8. CASE Mark(w) /\ processed' = processed \cup {hand[w]}
    <3>1. /\ pc[w] = "mark" /\ pc'[w] = "release" /\ hand'[w] = hand[w] /\ todo'[w] = todo[w]
          /\ runs' = runs
      BY <1>0, <2>8 DEF Mark, GoTo, TypeOK
    <3>2. CASE m \in processed
      <4>1. Cardinality(D) <= Cardinality(C) /\ Cardinality(C) \in Nat /\ Cardinality(D) \in Nat
        <5> HIDE DEF C, D
        <5> QED BY <2>1, <2>4, <3>2, CandidatesCounted
      <4> QED BY <1>0, <2>8, <3>1, <3>2, <4>1
    <3>3. CASE m \notin processed /\ m = hand[w]
      <4>1. w \notin D
        BY <1>0, <2>2, <3>1, <3>3 DEF Candidate
      <4>2. Cardinality(D) <= Cardinality(Workers) - 1 /\ Cardinality(D) \in Nat
        <5> HIDE DEF D
        <5>1. D \in SUBSET (Workers \ {w})
          BY <2>1, <4>1
        <5>2. Cardinality(Workers \ {w}) = Cardinality(Workers) - 1
          BY CandidatesCounted
        <5>3. Cardinality(D) <= Cardinality(Workers \ {w}) /\ Cardinality(D) \in Nat
          BY <2>1, <5>1, CandidatesCounted
        <5> QED BY <5>2, <5>3
      <4>3. runs[m] <= 1
        BY <1>0, <3>3 DEF FirstRun
      <4> QED BY <1>0, <2>8, <3>1, <3>3, <4>2, <4>3
    <3>4. CASE m \notin processed /\ m # hand[w]
      <4>1. FirstRun(m) /\ m \notin processed'
        BY <1>0, <2>8, <3>4
      <4>2. FirstRun(m)'
        BY <2>5, <3>1, <3>4, <4>1 DEF FirstRun
      <4> QED BY <4>1, <4>2
    <3> QED BY <3>2, <3>3, <3>4
  <2> QED BY <2>0, <2>6, <2>7, <2>8 DEF FaultlessMove
<1>2. ASSUME NEW w \in Workers, Sweep(w) \/ Crash(w) PROVE Apart
  <2>1. FaultlessMove(w)
    BY <1>0, <1>2, FaultlessSweep
  <2> QED BY <1>0, <2>1 DEF FaultlessMove, OthersStay
<1>3. ASSUME UNCHANGED <<sweep, copy, processed, runs>>
      PROVE  Apart /\ \A m \in Messages : Bounded(m)
  <2>1. \A m \in Messages : Candidates(m)' = Candidates(m) /\ FirstRun(m)' = FirstRun(m)
    BY <1>3 DEF sweep, Candidates, Candidate, FirstRun
  <2> QED BY <1>0, <1>3, <2>1 DEF sweep
<1>4. ASSUME NEW m \in Messages, Arrive(m) \/ LeaseExpires(m) \/ LeaseOverruns(m)
      PROVE  UNCHANGED <<sweep, copy, processed, runs>>
  BY <1>4 DEF Arrive, LeaseExpires, LeaseOverruns
<1>5. CASE UNCHANGED vars
  BY <1>3, <1>5 DEF vars
<1> HIDE DEF Bounded, Apart
<1> QED BY <1>1, <1>2, <1>3, <1>4, <1>5 DEF Next

\* Without a fault, no alert is triaged more often than there are processes: whoever
\* triages it again had read the processed log before the mark.  For every finite number
\* of processes, and any mail.
THEOREM SweepsRerunSeldom == Spec => []RerunsAreBounded
<1> DEFINE Inv == ClaimInv /\ RerunInv
<1>1. Init => Inv
  <2> SUFFICES ASSUME Init PROVE RerunInv
    BY ClaimsBegin
  <2>1. \A m \in Messages : m \notin processed /\ FirstRun(m)
    BY DEF Init, FirstRun
  <2>2. \A w \in Workers : hand[w] \notin todo[w]
    BY DEF Init
  <2>3. logging = Workers /\ \A m \in Messages : overruns[m] = 0
    BY DEF Init
  <2> QED BY <2>1, <2>2, <2>3 DEF RerunInv
<1>2. Inv /\ [Next]_vars => Inv'
  BY ClaimStep, RerunStep
<1>3. Inv => RerunsAreBounded
  <2> SUFFICES ASSUME Inv, faults = 0, NEW m \in Messages
               PROVE  runs[m] <= Cardinality(Workers)
    BY DEF RerunsAreBounded
  <2>1. runs[m] \in Nat
    BY DEF ClaimInv, TypeOK
  <2>2. CASE m \in processed
    <3>1. Candidates(m) \in SUBSET Workers
      BY DEF Candidates
    <3>2. Cardinality(Candidates(m)) \in Nat /\ Cardinality(Workers) \in Nat
      BY <3>1, CandidatesCounted
    <3> QED BY <2>1, <2>2, <3>2 DEF RerunInv
  <2>3. CASE m \notin processed
    <3>1. Cardinality(Workers) \in Nat
      BY SweepAssumption, FS_CardinalityType
    <3>2. CASE runs[m] = 0
      BY <3>1, <3>2
    <3>3. CASE runs[m] # 0
      <4>1. runs[m] = 1 /\ Workers # {}
        BY <2>3, <3>3 DEF RerunInv, FirstRun
      <4>2. Cardinality(Workers) # 0
        BY <4>1, SweepAssumption, FS_EmptySet
      <4> QED BY <3>1, <4>1, <4>2
    <3> QED BY <3>2, <3>3
  <2> QED BY <2>2, <2>3
<1> QED BY <1>1, <1>2, <1>3, PTL DEF Spec
=============================================================================
