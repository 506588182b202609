--------------------------- MODULE SilentScanProofs ---------------------------
(***************************************************************************)
(* One sweep at a time holds the table, for any number of replicas, models *)
(* and faults.                                                             *)
(*                                                                         *)
(* A sweep that relies on the lease finds its own name in the lease row,   *)
(* live; one about to take the row over has read that it is its own or     *)
(* dead, and nobody wrote it since.  So of several that saw it dead the    *)
(* first wins, and the ETags of the others are worthless.                  *)
(***************************************************************************)
EXTENDS SilentScanProps, TLAPS

Places == {"idle", "ready", "refused", "taking", "sweeping", "asked", "judged",
           "releasing", "deleting", "posting", "recording"}
Statuses == {"none", "healthy", "suspect", "confirmed", "parked", "detector_fault"}

Working == [at : Places, rows : {0} \cup {m.rows : m \in Models}, sig : Signature,
            status : Statuses, known : SUBSET Signature, told : BOOLEAN]

SweepInv ==
  /\ sweep \in [Sweeps -> Working]
  /\ \A s \in Sweeps :
       /\ sweep[s].at = "idle" => copy[s] = NoState /\ ~online[s]
       /\ sweep[s].at = "judged" => sweep[s].sig.kind \in Kinds

RestInv ==
  /\ model \in Models
  /\ incidents \subseteq Signature
  /\ faults \in 0..MaxFaults

TypeInv == HealthTypeOK /\ SweepInv /\ RestInv

\* What the lease row means to the sweep that holds it, and to one that would take it.
LeaseInv ==
  /\ \A s \in Sweeps :
       /\ sweep[s].at = "deleting" => Shared(s)
       /\ held[s] => lease # NoLease /\ (lease.owner = Replica[s] \/ ~lease.live)
  /\ ~overran => \A s \in Holders : lease = [owner |-> Replica[s], live |-> TRUE]

IInv == TypeInv /\ LeaseInv

-----------------------------------------------------------------------------
(* Values.                                                                 *)

LEMMA Signatures == NoSignature \in Signature /\ Parked \in Signature
BY DEF NoSignature, Parked, Signature, Kinds

LEMMA Blank == NoState \in ProbeState
BY HealthAssumption DEF NoState, ProbeState, Kinds

LEMMA NoWork == Idle \in Working
BY Signatures DEF Idle, Working, Places, Statuses

LEMMA ModelFields ==
  ASSUME NEW m \in Models
  PROVE  /\ m.up \in BOOLEAN /\ m.age \in Nat /\ m.rows \in Nat /\ m.shape \subseteq Columns
BY SilentAssumption DEF ModelState

\* A counter below its limit stays within it.
LEMMA Limits ==
  ASSUME NEW limit \in Nat, NEW n \in 0..limit
  PROVE  Atmost(n + 1, limit) \in 0..limit /\ Atmost(0 + 1, limit) \in 0..limit
BY DEF Atmost

\* A row with some of its fields changed.
LEMMA RowFields ==
  ASSUME NEW state \in ProbeState
  PROVE  /\ \A b \in {"closed", "armed", "due"} : [state EXCEPT !.breaker = b] \in ProbeState
         /\ [state EXCEPT !.errors = 0, !.breaker = "closed"] \in ProbeState
         /\ [state EXCEPT !.errors = Atmost(@ + 1, MaxErrors)] \in ProbeState
         /\ \A shape \in SUBSET Columns : [state EXCEPT !.shape = shape] \in ProbeState
         /\ \A rows \in Nat : Healthy(state, rows) \in ProbeState
         /\ \A kind \in Kinds : Suspect(state, kind) \in ProbeState
<1>0. 0 \in 0..MaxErrors /\ 0 \in 0..Confirmations
  BY HealthAssumption
<1>1. /\ state.errors \in 0..MaxErrors /\ state.suspects \in 0..Confirmations
      /\ Atmost(state.errors + 1, MaxErrors) \in 0..MaxErrors
  BY Limits, HealthAssumption DEF ProbeState
<1>2. \A kind \in Kinds :
        Atmost((IF state.kind = kind THEN state.suspects ELSE 0) + 1, Confirmations)
          \in 0..Confirmations
  BY <1>1, Limits, HealthAssumption
<1>3. ASSUME NEW kind \in Kinds
      PROVE  Suspect(state, kind) \in ProbeState
  BY <1>2 DEF Suspect, ProbeState
<1>4. ASSUME NEW rows \in Nat
      PROVE  Healthy(state, rows) \in ProbeState
  BY <1>0 DEF Healthy, ProbeState, Kinds
<1>5. [state EXCEPT !.errors = Atmost(@ + 1, MaxErrors)] \in ProbeState
  BY <1>1 DEF ProbeState
<1>6. [state EXCEPT !.errors = 0, !.breaker = "closed"] \in ProbeState
  BY <1>0 DEF ProbeState
<1>7. \A shape \in SUBSET Columns : [state EXCEPT !.shape = shape] \in ProbeState
  BY DEF ProbeState
<1>8. \A b \in {"closed", "armed", "due"} : [state EXCEPT !.breaker = b] \in ProbeState
  BY DEF ProbeState
<1> QED
  BY <1>3, <1>4, <1>5, <1>6, <1>7, <1>8

-----------------------------------------------------------------------------
(* Steps.                                                                  *)

\* One sweep moves on, or ends and forgets.
LEMMA SweepMoves ==
  ASSUME SweepInv, NEW s \in Sweeps, NEW w \in Working, sweep' = [sweep EXCEPT ![s] = w],
         \A t \in Sweeps \ {s} : copy'[t] = copy[t] /\ online'[t] = online[t],
         w.at = "idle" => copy'[s] = NoState /\ ~online'[s],
         w.at = "judged" => w.sig.kind \in Kinds
  PROVE  /\ SweepInv'
         /\ sweep'[s] = w /\ \A t \in Sweeps \ {s} : sweep'[t] = sweep[t]
<1>1. sweep' \in [Sweeps -> Working]
  BY DEF SweepInv
<1>2. sweep'[s] = w /\ \A t \in Sweeps \ {s} : sweep'[t] = sweep[t]
  BY DEF SweepInv
<1>3. ASSUME NEW t \in Sweeps, sweep'[t].at = "idle"
      PROVE  copy'[t] = NoState /\ ~online'[t]
  BY <1>2, <1>3, Zenon DEF SweepInv
<1>4. ASSUME NEW t \in Sweeps, sweep'[t].at = "judged"
      PROVE  sweep'[t].sig.kind \in Kinds'
  BY <1>2, <1>4, Zenon DEF SweepInv, Kinds
<1> QED
  BY <1>1, <1>2, <1>3, <1>4, Zenon DEF SweepInv

LEMMA SweepGoes ==
  ASSUME SweepInv, NEW s \in Sweeps, NEW at \in Places \ {"idle", "judged"}, Goes(s, at),
         \A t \in Sweeps \ {s} : copy'[t] = copy[t] /\ online'[t] = online[t]
  PROVE  /\ SweepInv'
         /\ sweep'[s].at = at /\ \A t \in Sweeps \ {s} : sweep'[t] = sweep[t]
<1> DEFINE w == [sweep[s] EXCEPT !.at = at]
<1>1. w \in Working /\ w.at = at
  BY DEF SweepInv, Working, Places
<1>2. sweep' = [sweep EXCEPT ![s] = w]
  BY DEF Goes
<1> HIDE DEF w
<1>3. w.at # "idle" /\ w.at # "judged"
  BY <1>1
<1> QED
  BY <1>1, <1>2, <1>3, SweepMoves, Zenon

LEMMA SweepEnds ==
  ASSUME HealthTypeOK, SweepInv, NEW s \in Sweeps, Ends(s), ForgetHealth(s),
         UNCHANGED <<backend, row>>
  PROVE  /\ SweepInv'
         /\ sweep'[s].at = "idle" /\ \A t \in Sweeps \ {s} : sweep'[t] = sweep[t]
         /\ copy' \in [Sweeps -> ProbeState] /\ online' \in [Sweeps -> BOOLEAN]
         /\ \A t \in Sweeps \ {s} : online'[t] = online[t]
<1>1. /\ copy' = [copy EXCEPT ![s] = NoState] /\ copy \in [Sweeps -> ProbeState]
      /\ online' = [online EXCEPT ![s] = FALSE] /\ online \in [Sweeps -> BOOLEAN]
  BY DEF ForgetHealth, HealthTypeOK
<1>2. copy' \in [Sweeps -> ProbeState] /\ online' \in [Sweeps -> BOOLEAN]
  BY <1>1, Blank
<1>3. /\ copy'[s] = NoState /\ ~online'[s]
      /\ \A t \in Sweeps \ {s} : copy'[t] = copy[t] /\ online'[t] = online[t]
  BY <1>1, Zenon
<1>4. Idle.at = "idle" /\ Idle.at # "judged"
  BY DEF Idle
<1>5. sweep' = [sweep EXCEPT ![s] = Idle]
  BY DEF Ends
<1> QED
  BY <1>2, <1>3, <1>4, <1>5, NoWork, SweepMoves

\* A step that writes no lease and lets nobody into the table.
LEMMA LeaseStays ==
  ASSUME LeaseInv, UNCHANGED <<backend, lease, overran>>,
         \A t \in Sweeps :
           /\ held'[t] => held[t]
           /\ t \in Holders' => t \in Holders
           /\ sweep'[t].at = "deleting" => Shared(t)'
  PROVE  LeaseInv'
<1>1. ASSUME NEW t \in Sweeps
      PROVE  held'[t] => lease # NoLease /\ (lease.owner = Replica[t] \/ ~lease.live)
  BY Zenon DEF LeaseInv
<1>2. ASSUME ~overran, NEW t \in Holders'
      PROVE  lease = [owner |-> Replica[t], live |-> TRUE]
  <2>1. t \in Holders
    BY <1>2 DEF Holders
  <2> QED
    BY <1>2, <2>1 DEF LeaseInv
<1> QED
  BY <1>1, <1>2, Zenon DEF LeaseInv

LEMMA Failures ==
  ASSUME RestInv, NEW lands \in BOOLEAN, NEW entry, Calls(lands, entry)
  PROVE  faults' \in 0..MaxFaults
BY SilentAssumption DEF RestInv, Calls

\* put leaves a row of the right kind, wherever it lands.
LEMMA Saved ==
  ASSUME HealthTypeOK, NEW s \in Sweeps, NEW state \in ProbeState, NEW lands \in BOOLEAN,
         \/ SaveHealth(s, state, lands)
         \/ copy' = [copy EXCEPT ![s] = state] /\ UNCHANGED row,
         UNCHANGED <<backend, lease, online, held>>
  PROVE  HealthTypeOK' /\ \A t \in Sweeps \ {s} : copy'[t] = copy[t]
<1>1. copy' = [copy EXCEPT ![s] = state] /\ copy \in [Sweeps -> ProbeState]
  BY DEF SaveHealth, HealthTypeOK
<1>2. row' = row \/ row' = state
  BY Zenon DEF SaveHealth
<1>3. row' \in ProbeState
  BY <1>2 DEF HealthTypeOK
<1>4. copy' \in [Sweeps -> ProbeState] /\ \A t \in Sweeps \ {s} : copy'[t] = copy[t]
  BY <1>1
<1>5. UNCHANGED <<Owners, ProbeState>>
  BY DEF Owners, ProbeState, Kinds
<1> QED
  BY <1>3, <1>4, <1>5, Zenon DEF HealthTypeOK

\* A step of the scan itself.
LEMMA ScanKeeps ==
  ASSUME IInv, NEW s \in Sweeps, sweep[s].at \in Holding,
         NEW w \in Working, w.at \in {"asked", "judged", "releasing"},
         w.at = "judged" => w.sig.kind \in Kinds,
         sweep' = [sweep EXCEPT ![s] = w],
         NEW state \in ProbeState, NEW lands \in BOOLEAN,
         \/ SaveHealth(s, state, lands)
         \/ copy' = [copy EXCEPT ![s] = state] /\ UNCHANGED row,
         UNCHANGED <<backend, lease, online, held, model, incidents, overran>>,
         faults' \in 0..MaxFaults
  PROVE  IInv'
<1>1. HealthTypeOK' /\ \A t \in Sweeps \ {s} : copy'[t] = copy[t]
  BY Saved DEF IInv, TypeInv
<1>2. w.at # "idle" /\ w.at # "deleting"
  OBVIOUS
<1>3. /\ SweepInv'
      /\ sweep'[s] = w /\ \A t \in Sweeps \ {s} : sweep'[t] = sweep[t]
  BY <1>1, <1>2, SweepMoves DEF IInv, TypeInv
<1>4. RestInv'
  BY DEF IInv, TypeInv, RestInv, Signature, Kinds
<1>5. \A t \in Sweeps : t \in Holders' => t \in Holders
  BY <1>3 DEF Holders, Shared
<1>6. \A t \in Sweeps : sweep'[t].at = "deleting" => Shared(t)'
  BY <1>2, <1>3 DEF IInv, LeaseInv, Shared
<1>7. LeaseInv'
  BY <1>5, <1>6, LeaseStays DEF IInv
<1> QED
  BY <1>1, <1>3, <1>4, <1>7 DEF IInv, TypeInv

LEMMA KnownRow == ASSUME HealthTypeOK, NEW s \in Sweeps PROVE Known(s) \in ProbeState
BY DEF Known, HealthTypeOK

LEMMA BeginKeeps ==
  ASSUME IInv, NEW s \in Sweeps, NEW lands \in BOOLEAN, Begin(s, lands)
  PROVE  IInv'
<1> DEFINE asks   == [sweep[s] EXCEPT !.at = "asked"]
           parks  == [sweep[s] EXCEPT !.at = "releasing", !.status = "parked", !.sig = Parked]
           state  == Known(s)
           closed == [state EXCEPT !.breaker = "closed"]
           armed  == [state EXCEPT !.breaker = "armed"]
<1>1. sweep[s] \in Working /\ state \in ProbeState /\ sweep[s].at \in Holding
  BY KnownRow DEF IInv, TypeInv, SweepInv, Begin, Holding
<1>2. /\ asks \in Working /\ asks.at = "asked"
      /\ parks \in Working /\ parks.at = "releasing"
  <2>1. "asked" \in Places /\ "parked" \in Statuses /\ Parked \in Signature
    BY Signatures DEF Places, Statuses
  <2> QED
    BY <1>1, <2>1 DEF Working, Places
<1>3. closed \in ProbeState /\ armed \in ProbeState
  BY <1>1, RowFields
<1>4. /\ UNCHANGED <<backend, lease, online, held, model, incidents, overran>>
      /\ faults' \in 0..MaxFaults
  BY Failures DEF Begin, IInv, TypeInv
<1>5. sweep' = [sweep EXCEPT ![s] = asks] \/ sweep' = [sweep EXCEPT ![s] = parks]
  BY Zenon DEF Begin, Goes, Finds
<1>6. \/ copy' = [copy EXCEPT ![s] = state] /\ UNCHANGED row
      \/ SaveHealth(s, closed, lands)
      \/ SaveHealth(s, armed, lands)
  BY Zenon DEF Begin
<1> HIDE DEF asks, parks, state, closed, armed
<1>7. PICK w \in {asks, parks} : sweep' = [sweep EXCEPT ![s] = w]
  BY <1>5
<1>8. w \in Working /\ w.at \in {"asked", "judged", "releasing"} /\ w.at # "judged"
  BY <1>2
<1>9. PICK new \in {state, closed, armed} :
        SaveHealth(s, new, lands) \/ (copy' = [copy EXCEPT ![s] = new] /\ UNCHANGED row)
  BY <1>6
<1>10. new \in ProbeState
  BY <1>1, <1>3
<1> QED
  BY <1>1, <1>4, <1>7, <1>8, <1>9, <1>10, ScanKeeps

LEMMA ProbeFailsKeeps ==
  ASSUME IInv, NEW s \in Sweeps, NEW lands \in BOOLEAN, ProbeFails(s, lands)
  PROVE  IInv'
<1> DEFINE w   == [sweep[s] EXCEPT !.at = "releasing", !.status = "detector_fault",
                                   !.sig = NoSignature]
           new == [copy[s] EXCEPT !.errors = Atmost(@ + 1, MaxErrors)]
<1>1. sweep[s] \in Working /\ copy[s] \in ProbeState /\ sweep[s].at \in Holding
  BY DEF IInv, TypeInv, SweepInv, HealthTypeOK, ProbeFails, Holding
<1>2. w \in Working /\ w.at = "releasing"
  <2>1. "detector_fault" \in Statuses /\ NoSignature \in Signature
    BY Signatures DEF Statuses
  <2> QED
    BY <1>1, <2>1 DEF Working, Places
<1>3. new \in ProbeState
  BY <1>1, RowFields
<1>4. /\ UNCHANGED <<backend, lease, online, held, model, incidents, overran>>
      /\ faults' \in 0..MaxFaults
  BY Failures DEF ProbeFails, IInv, TypeInv
<1>5. sweep' = [sweep EXCEPT ![s] = w] /\ SaveHealth(s, new, lands)
  BY Zenon DEF ProbeFails, Finds
<1> HIDE DEF w, new
<1> QED
  BY <1>1, <1>2, <1>3, <1>4, <1>5, ScanKeeps

LEMMA Judged ==
  ASSUME NEW state \in ProbeState, NEW m \in Models
  PROVE  Judge(state, m) \in Signature /\ Judge(state, m).kind \in Kinds
<1>1. m.age \in Nat /\ m.rows \in Nat /\ state.rows \in Nat
  BY ModelFields DEF ProbeState
<1>2. [NoSignature EXCEPT !.kind = "stale", !.age = m.age] \in Signature
  BY <1>1, Signatures DEF Signature, Kinds
<1>3. [NoSignature EXCEPT !.kind = "row_collapse", !.rows = m.rows, !.base = state.rows]
        \in Signature
  BY <1>1, Signatures DEF Signature, Kinds
<1>4. /\ NoSignature.kind = "none"
      /\ [NoSignature EXCEPT !.kind = "stale", !.age = m.age].kind = "stale"
      /\ [NoSignature EXCEPT !.kind = "row_collapse", !.rows = m.rows, !.base = state.rows].kind
           = "row_collapse"
  BY DEF NoSignature
<1>5. Judge(state, m) \in
        {NoSignature, [NoSignature EXCEPT !.kind = "stale", !.age = m.age],
         [NoSignature EXCEPT !.kind = "row_collapse", !.rows = m.rows, !.base = state.rows]}
  BY Zenon DEF Judge
<1> QED
  BY <1>2, <1>3, <1>4, <1>5, Signatures DEF Kinds

LEMMA ProbeAnswersKeeps ==
  ASSUME IInv, NEW s \in Sweeps, ProbeAnswers(s)
  PROVE  IInv'
<1> DEFINE sig == Judge(copy[s], model)
           w   == [sweep[s] EXCEPT !.at = "judged", !.rows = model.rows, !.sig = sig]
           new == [copy[s] EXCEPT !.errors = 0, !.breaker = "closed"]
<1>1. /\ sweep[s] \in Working /\ copy[s] \in ProbeState /\ sweep[s].at \in Holding
      /\ model \in Models /\ sig \in Signature /\ sig.kind \in Kinds
  BY Judged DEF IInv, TypeInv, SweepInv, RestInv, HealthTypeOK, ProbeAnswers, Holding
<1>2. w \in Working /\ w.at = "judged" /\ w.sig.kind \in Kinds
  <2> HIDE DEF sig
  <2> QED
    BY <1>1 DEF Working, Places
<1>3. new \in ProbeState
  BY <1>1, RowFields
<1>4. /\ UNCHANGED <<backend, lease, online, held, model, incidents, overran>>
      /\ faults' \in 0..MaxFaults /\ UNCHANGED row
  BY DEF ProbeAnswers, hist, IInv, TypeInv, RestInv
<1>5. sweep' = [sweep EXCEPT ![s] = w] /\ copy' = [copy EXCEPT ![s] = new]
  BY Zenon DEF ProbeAnswers
<1>6. TRUE \in BOOLEAN
  OBVIOUS
<1> HIDE DEF w, new
<1> QED
  BY <1>1, <1>2, <1>3, <1>4, <1>5, <1>6, ScanKeeps

\* What the schema check and the record make of a row that was read.
LEMMA Concluded ==
  ASSUME NEW state \in ProbeState, NEW m \in Models, NEW kind \in Kinds, NEW rows \in Nat,
         NEW readable \in BOOLEAN,
         NEW check, check = IF readable THEN SchemaCheck(state, m.shape)
                            ELSE [gone |-> {}, state |-> state]
  PROVE  /\ check.gone \subseteq Columns /\ check.state \in ProbeState
         /\ (IF kind = "none" THEN Healthy(check.state, rows) ELSE Suspect(check.state, kind))
              \in ProbeState
<1>1. m.shape \subseteq Columns /\ state.shape \subseteq Columns
  BY ModelFields DEF ProbeState
<1>2. [state EXCEPT !.shape = m.shape] \in ProbeState
  BY <1>1, RowFields
<1>3. /\ SchemaCheck(state, m.shape).gone \subseteq Columns
      /\ SchemaCheck(state, m.shape).state \in ProbeState
  BY <1>1, <1>2 DEF SchemaCheck
<1>4. check.gone \subseteq Columns /\ check.state \in ProbeState
  BY <1>3
<1>5. /\ Healthy(check.state, rows) \in ProbeState
      /\ Suspect(check.state, kind) \in ProbeState
  BY <1>4, RowFields
<1> QED
  BY <1>4, <1>5

LEMMA ConcludeKeeps ==
  ASSUME IInv, NEW s \in Sweeps, NEW readable \in BOOLEAN, NEW lands \in BOOLEAN,
         Conclude(s, readable, lands)
  PROVE  IInv'
<1> DEFINE check == IF readable THEN SchemaCheck(copy[s], model.shape)
                    ELSE [gone |-> {}, state |-> copy[s]]
           sig == IF sweep[s].sig.kind = "none" /\ check.gone # {}
                  THEN [NoSignature EXCEPT !.kind = "schema_drift", !.gone = check.gone]
                  ELSE sweep[s].sig
           kind == sig.kind
           new == IF kind = "none" THEN Healthy(check.state, sweep[s].rows)
                  ELSE Suspect(check.state, kind)
           status == IF kind = "none" THEN "healthy"
                     ELSE IF new.suspects >= Confirmations THEN "confirmed" ELSE "suspect"
           w == [sweep[s] EXCEPT !.at = "releasing", !.status = status, !.sig = sig]
<1>1. /\ sweep' = [sweep EXCEPT ![s] = w] /\ SaveHealth(s, new, lands)
      /\ sweep[s].at = "judged"
      /\ UNCHANGED <<backend, lease, online, held, model, incidents, overran>>
  BY Zenon DEF Conclude, Finds
<1>2. faults' \in 0..MaxFaults
  BY Failures, Zenon DEF Conclude, IInv, TypeInv
<1>3. /\ sweep[s] \in Working /\ copy[s] \in ProbeState /\ model \in Models
      /\ sweep[s].at \in Holding
  BY <1>1 DEF IInv, TypeInv, SweepInv, RestInv, HealthTypeOK, Holding
<1>4. sweep[s].rows \in Nat /\ sweep[s].sig \in Signature /\ sweep[s].sig.kind \in Kinds
  BY <1>1, <1>3, ModelFields DEF Working, IInv, TypeInv, SweepInv
<1>5. check.gone \subseteq Columns
  BY <1>3, ModelFields DEF SchemaCheck, ProbeState
<1>6. sig \in Signature /\ kind \in Kinds
  <2> HIDE DEF check
  <2>1. [NoSignature EXCEPT !.kind = "schema_drift", !.gone = check.gone] \in Signature
    BY <1>5, Signatures DEF Signature, Kinds
  <2>2. [NoSignature EXCEPT !.kind = "schema_drift", !.gone = check.gone].kind = "schema_drift"
    BY DEF NoSignature
  <2> QED
    BY <1>4, <2>1, <2>2 DEF Kinds
<1>7. new \in ProbeState
  <2> HIDE DEF kind
  <2> QED
    BY <1>3, <1>4, <1>6, Concluded
<1>8. status \in {"healthy", "confirmed", "suspect"}
  OBVIOUS
<1> HIDE DEF check, sig, kind, new, status
<1>9. w \in Working /\ w.at = "releasing"
  BY <1>3, <1>6, <1>8 DEF Working, Places, Statuses
<1> HIDE DEF w
<1> QED
  BY <1>1, <1>2, <1>3, <1>7, <1>9, ScanKeeps

\* A step that leaves the row and the copies alone.
LEMMA HealthStays ==
  ASSUME HealthTypeOK, backend' = backend, row' = row,
         copy' \in [Sweeps -> ProbeState], online' \in [Sweeps -> BOOLEAN],
         held' \in [Sweeps -> BOOLEAN], lease' \in [owner : Owners \cup {"none"}, live : BOOLEAN]
  PROVE  HealthTypeOK'
<1>1. UNCHANGED <<Owners, ProbeState>>
  BY DEF Owners, ProbeState, Kinds
<1> QED
  BY <1>1, Zenon DEF HealthTypeOK

\* A step of one sweep before or after it holds the lease, or while it does.
LEMMA AskLeaseKeeps ==
  ASSUME IInv, NEW s \in Sweeps, AskLease(s)
  PROVE  IInv'
<1>1. /\ sweep[s].at = "ready" /\ UNCHANGED <<backend, row, copy, online>>
      /\ UNCHANGED <<model, incidents, faults, overran>>
  BY DEF AskLease, health, hist
<1>2. PICK at \in {"sweeping", "refused"} :
        /\ Goes(s, at)
        /\ CreateLease(s) \/ (UNCHANGED health /\ (at = "refused" \/ ~Shared(s)))
  BY Zenon DEF AskLease
<1>3. at \in Places \ {"idle", "judged"}
  BY DEF Places
<1>4. /\ SweepInv'
      /\ sweep'[s].at = at /\ \A t \in Sweeps \ {s} : sweep'[t] = sweep[t]
  BY <1>1, <1>2, <1>3, SweepGoes, Zenon DEF IInv, TypeInv
<1>5. RestInv'
  BY <1>1 DEF IInv, TypeInv, RestInv, Signature, Kinds
<1>6. CASE CreateLease(s)
  <2>1. /\ lease = NoLease /\ lease' = [owner |-> Replica[s], live |-> TRUE]
        /\ held' = [held EXCEPT ![s] = FALSE] /\ held \in [Sweeps -> BOOLEAN]
    BY <1>6 DEF CreateLease, IInv, TypeInv, HealthTypeOK
  <2>2. \A t \in Sweeps : ~held[t]
    BY <2>1, Zenon DEF IInv, LeaseInv
  <2>3. \A t \in Sweeps : ~held'[t]
    BY <2>1, <2>2, Zenon
  <2>4. held' \in [Sweeps -> BOOLEAN] /\ lease' \in [owner : Owners \cup {"none"}, live : BOOLEAN]
    BY <2>1 DEF Owners
  <2>5. HealthTypeOK'
    BY <1>1, <2>4, HealthStays, Zenon DEF IInv, TypeInv, HealthTypeOK
  <2>6. ~overran => Holders = {}
    BY <2>1 DEF IInv, LeaseInv, NoLease
  <2>7. \A t \in Sweeps \ {s} : t \in Holders' => t \in Holders
    BY <1>1, <1>4 DEF Holders, Shared
  <2>8. ~overran' => \A t \in Holders' : lease' = [owner |-> Replica[t], live |-> TRUE]
    BY <1>1, <2>1, <2>6, <2>7 DEF Holders
  <2>9. \A t \in Sweeps : sweep'[t].at = "deleting" => Shared(t)'
    BY <1>1, <1>2, <1>4 DEF IInv, LeaseInv, Shared
  <2>10. LeaseInv'
    BY <2>3, <2>8, <2>9, Zenon DEF LeaseInv
  <2> QED
    BY <1>4, <1>5, <2>5, <2>10 DEF IInv, TypeInv
<1>7. CASE UNCHANGED health /\ (at = "refused" \/ ~Shared(s))
  <2>1. UNCHANGED <<backend, row, copy, online, lease, held>>
    BY <1>7 DEF health
  <2>2. HealthTypeOK'
    BY <2>1, HealthStays, Zenon DEF IInv, TypeInv, HealthTypeOK
  <2>3. Shared(s) => at = "refused"
    BY <1>7
  <2>4. \A t \in Sweeps : /\ t \in Holders' => t \in Holders
                          /\ sweep'[t].at = "deleting" => Shared(t)'
    BY <1>2, <1>4, <2>1, <2>3 DEF Holders, Holding, Shared, IInv, LeaseInv
  <2>5. LeaseInv'
    BY <1>1, <2>1, <2>4, LeaseStays DEF IInv
  <2> QED
    BY <1>4, <1>5, <2>2, <2>5 DEF IInv, TypeInv
<1> QED
  BY <1>2, <1>6, <1>7, Zenon

\* A sweep that was not let in ends.
LEMMA EndKeeps ==
  ASSUME IInv, NEW s \in Sweeps, Ends(s), ForgetHealth(s),
         UNCHANGED <<backend, row, lease, model, incidents, overran>>,
         held' \in [Sweeps -> BOOLEAN], \A t \in Sweeps : held'[t] => held[t],
         faults' \in 0..MaxFaults
  PROVE  IInv'
<1>1. /\ SweepInv'
      /\ sweep'[s].at = "idle" /\ \A t \in Sweeps \ {s} : sweep'[t] = sweep[t]
      /\ copy' \in [Sweeps -> ProbeState] /\ online' \in [Sweeps -> BOOLEAN]
      /\ \A t \in Sweeps \ {s} : online'[t] = online[t]
  BY SweepEnds DEF IInv, TypeInv
<1>2. HealthTypeOK'
  BY <1>1, HealthStays, Zenon DEF IInv, TypeInv, HealthTypeOK
<1>3. RestInv'
  BY DEF IInv, TypeInv, RestInv, Signature, Kinds
<1>4. \A t \in Sweeps : /\ t \in Holders' => t \in Holders
                        /\ sweep'[t].at = "deleting" => Shared(t)'
  BY <1>1 DEF Holders, Holding, Shared, IInv, LeaseInv
<1>5. LeaseInv'
  BY <1>4, LeaseStays DEF IInv
<1> QED
  BY <1>1, <1>2, <1>3, <1>5 DEF IInv, TypeInv

LEMMA LookAtLeaseKeeps ==
  ASSUME IInv, NEW s \in Sweeps, LookAtLease(s)
  PROVE  IInv'
<1>1. /\ sweep[s].at = "refused" /\ UNCHANGED <<backend, row, lease>>
      /\ UNCHANGED <<model, incidents, faults, overran>>
  BY DEF LookAtLease, ReadLease, hist
<1>2. CASE MayTake(s)
  <2>1. /\ held' = [held EXCEPT ![s] = TRUE] /\ Goes(s, "taking") /\ UNCHANGED <<copy, online>>
    BY <1>2, Zenon DEF LookAtLease, ReadLease
  <2>2. held \in [Sweeps -> BOOLEAN]
    BY DEF IInv, TypeInv, HealthTypeOK
  <2>3. held' \in [Sweeps -> BOOLEAN]
    BY <2>1, <2>2
  <2>4. HealthTypeOK'
    BY <1>1, <2>1, <2>3, HealthStays, Zenon DEF IInv, TypeInv, HealthTypeOK
  <2>5. "taking" \in Places \ {"idle", "judged"}
    BY DEF Places
  <2>6. /\ SweepInv'
        /\ sweep'[s].at = "taking" /\ \A t \in Sweeps \ {s} : sweep'[t] = sweep[t]
    BY <2>1, <2>5, SweepGoes, Zenon DEF IInv, TypeInv
  <2>7. RestInv'
    BY <1>1 DEF IInv, TypeInv, RestInv, Signature, Kinds
  <2>8. \A t \in Sweeps : held'[t] => lease # NoLease /\ (lease.owner = Replica[t] \/ ~lease.live)
    <3>1. ASSUME NEW t \in Sweeps, held'[t]
          PROVE  t = s \/ held[t]
      BY <2>1, <2>2, <3>1, Zenon
    <3> QED
      BY <1>2, <3>1, Zenon DEF MayTake, IInv, LeaseInv
  <2>9. \A t \in Sweeps : /\ t \in Holders' => t \in Holders
                          /\ sweep'[t].at = "deleting" => Shared(t)'
    BY <1>1, <2>1, <2>6 DEF Holders, Holding, Shared, IInv, LeaseInv
  <2>10. ~overran' => \A t \in Holders' : lease' = [owner |-> Replica[t], live |-> TRUE]
    BY <1>1, <2>9 DEF Holders, IInv, LeaseInv
  <2>11. LeaseInv'
    BY <1>1, <2>8, <2>9, <2>10, Zenon DEF LeaseInv
  <2> QED
    BY <2>4, <2>6, <2>7, <2>11 DEF IInv, TypeInv
<1>3. CASE ~MayTake(s)
  <2>1. Ends(s) /\ ForgetHealth(s) /\ held' = held
    BY <1>3, Zenon DEF LookAtLease
  <2>2. held' \in [Sweeps -> BOOLEAN] /\ faults' \in 0..MaxFaults
    BY <1>1, <2>1 DEF IInv, TypeInv, HealthTypeOK, RestInv
  <2> QED
    BY <1>1, <2>1, <2>2, EndKeeps, Zenon
<1> QED
  BY <1>2, <1>3

\* Of those who saw the lease dead only one still may write: nobody else holds it.
LEMMA TakeOverKeeps ==
  ASSUME IInv, NEW s \in Sweeps, TakeOver(s)
  PROVE  IInv'
<1>1. /\ sweep[s].at = "taking" /\ UNCHANGED <<backend, row>>
      /\ UNCHANGED <<model, incidents, faults, overran>>
  BY DEF TakeOver, hist
<1>2. CASE held[s]
  <2>1. /\ lease' = [owner |-> Replica[s], live |-> TRUE] /\ held' = [t \in Sweeps |-> FALSE]
        /\ Goes(s, "sweeping") /\ UNCHANGED <<copy, online>>
    BY <1>2, Zenon DEF TakeOver, TakeLease
  <2>2. held' \in [Sweeps -> BOOLEAN] /\ lease' \in [owner : Owners \cup {"none"}, live : BOOLEAN]
    BY <2>1 DEF Owners
  <2>3. HealthTypeOK'
    BY <1>1, <2>1, <2>2, HealthStays, Zenon DEF IInv, TypeInv, HealthTypeOK
  <2>4. "sweeping" \in Places \ {"idle", "judged"}
    BY DEF Places
  <2>5. /\ SweepInv'
        /\ sweep'[s].at = "sweeping" /\ \A t \in Sweeps \ {s} : sweep'[t] = sweep[t]
    BY <2>1, <2>4, SweepGoes, Zenon DEF IInv, TypeInv
  <2>6. RestInv'
    BY <1>1 DEF IInv, TypeInv, RestInv, Signature, Kinds
  <2>7. lease.owner = Replica[s] \/ ~lease.live
    BY <1>2, Zenon DEF IInv, LeaseInv
  <2>8. ASSUME ~overran, NEW t \in Holders
        PROVE  FALSE
    <3>1. t \in Sweeps /\ sweep[t].at \in Holding
      BY DEF Holders
    <3>2. lease = [owner |-> Replica[t], live |-> TRUE]
      BY <2>8 DEF IInv, LeaseInv
    <3>3. lease.owner = Replica[t] /\ lease.live
      BY <3>2
    <3>4. t = s
      BY <2>7, <3>1, <3>3, HealthAssumption
    <3> QED
      BY <1>1, <3>1, <3>4 DEF Holding
  <2>9. \A t \in Sweeps \ {s} : t \in Holders' => t \in Holders
    BY <1>1, <2>1, <2>5 DEF Holders, Shared
  <2>10. ~overran' => \A t \in Holders' : lease' = [owner |-> Replica[t], live |-> TRUE]
    BY <1>1, <2>1, <2>8, <2>9 DEF Holders
  <2>11. \A t \in Sweeps : ~held'[t] /\ (sweep'[t].at = "deleting" => Shared(t)')
    BY <1>1, <2>1, <2>5 DEF IInv, LeaseInv, Shared
  <2>12. LeaseInv'
    BY <2>10, <2>11, Zenon DEF LeaseInv
  <2> QED
    BY <2>3, <2>5, <2>6, <2>12 DEF IInv, TypeInv
<1>3. CASE ~held[s]
  <2>1. Ends(s) /\ ForgetHealth(s) /\ UNCHANGED <<lease, held>>
    BY <1>3, Zenon DEF TakeOver
  <2>2. held' \in [Sweeps -> BOOLEAN] /\ faults' \in 0..MaxFaults
    BY <1>1, <2>1 DEF IInv, TypeInv, HealthTypeOK, RestInv
  <2> QED
    BY <1>1, <2>1, <2>2, EndKeeps, Zenon
<1> QED
  BY <1>2, <1>3

\* A sweep that has given the lease back, or never had it, is out of the table.
LEMMA LeavesMoves ==
  ASSUME HealthTypeOK, SweepInv, NEW s \in Sweeps, Leaves(s), UNCHANGED <<backend, row>>
  PROVE  /\ SweepInv'
         /\ sweep'[s].at \in {"idle", "posting", "recording"}
         /\ \A t \in Sweeps \ {s} : sweep'[t] = sweep[t] /\ online'[t] = online[t]
         /\ copy' \in [Sweeps -> ProbeState] /\ online' \in [Sweeps -> BOOLEAN]
<1>1. CASE Ends(s) /\ ForgetHealth(s)
  BY <1>1, SweepEnds
<1>2. CASE \E at \in {"posting", "recording"} : Goes(s, at) /\ UNCHANGED <<copy, online>>
  <2>1. PICK at \in {"posting", "recording"} : Goes(s, at) /\ UNCHANGED <<copy, online>>
    BY <1>2
  <2>2. at \in Places \ {"idle", "judged"}
    BY DEF Places
  <2>3. /\ SweepInv'
        /\ sweep'[s].at = at /\ \A t \in Sweeps \ {s} : sweep'[t] = sweep[t]
    BY <2>1, <2>2, SweepGoes, Zenon
  <2> QED
    BY <2>1, <2>3 DEF HealthTypeOK
<1> QED
  BY <1>1, <1>2, Zenon DEF Leaves

LEMMA ReleaseKeeps ==
  ASSUME IInv, NEW s \in Sweeps, Release(s)
  PROVE  IInv'
<1>1. /\ sweep[s].at = "releasing" /\ UNCHANGED <<backend, row, lease, held>>
      /\ UNCHANGED <<model, incidents, faults, overran>>
  BY DEF Release, hist
<1>2. /\ SweepInv'
      /\ sweep'[s].at \in {"idle", "posting", "recording"} \/ (sweep'[s].at = "deleting" /\ Shared(s))
      /\ \A t \in Sweeps \ {s} : sweep'[t] = sweep[t] /\ online'[t] = online[t]
      /\ copy' \in [Sweeps -> ProbeState] /\ online' \in [Sweeps -> BOOLEAN]
      /\ sweep'[s].at = "deleting" => online' = online
  <2>1. CASE Leaves(s)
    <3>1. /\ SweepInv'
          /\ sweep'[s].at \in {"idle", "posting", "recording"}
          /\ \A t \in Sweeps \ {s} : sweep'[t] = sweep[t] /\ online'[t] = online[t]
          /\ copy' \in [Sweeps -> ProbeState] /\ online' \in [Sweeps -> BOOLEAN]
      BY <1>1, <2>1, LeavesMoves DEF IInv, TypeInv
    <3> QED
      BY <3>1
  <2>2. CASE Shared(s) /\ Goes(s, "deleting") /\ UNCHANGED <<copy, online>>
    <3>1. "deleting" \in Places \ {"idle", "judged"}
      BY DEF Places
    <3>2. /\ SweepInv'
          /\ sweep'[s].at = "deleting" /\ \A t \in Sweeps \ {s} : sweep'[t] = sweep[t]
      BY <2>2, <3>1, SweepGoes, Zenon DEF IInv, TypeInv
    <3> QED
      BY <2>2, <3>2 DEF IInv, TypeInv, HealthTypeOK
  <2> QED
    BY <2>1, <2>2, Zenon DEF Release
<1>3. HealthTypeOK'
  BY <1>1, <1>2, HealthStays, Zenon DEF IInv, TypeInv, HealthTypeOK
<1>4. RestInv'
  BY <1>1 DEF IInv, TypeInv, RestInv, Signature, Kinds
<1>5. \A t \in Sweeps : /\ t \in Holders' => t \in Holders
                        /\ sweep'[t].at = "deleting" => Shared(t)'
  <2>1. ASSUME NEW t \in Sweeps \ {s}
        PROVE  /\ t \in Holders' => t \in Holders
               /\ sweep'[t].at = "deleting" => Shared(t)'
    BY <1>1, <1>2, Zenon DEF Holders, Shared, IInv, LeaseInv
  <2>2. sweep'[s].at = "deleting" => Shared(s) /\ Shared(s)' /\ s \in Holders
    BY <1>1, <1>2 DEF Shared, Holders, Holding
  <2>3. s \in Holders' => sweep'[s].at = "deleting"
    BY <1>2 DEF Holders, Holding
  <2> QED
    BY <2>1, <2>2, <2>3, Zenon
<1>6. LeaseInv'
  BY <1>1, <1>5, LeaseStays, Zenon DEF IInv
<1> QED
  BY <1>2, <1>3, <1>4, <1>6 DEF IInv, TypeInv

\* Whoever deletes the lease held it, alone.
LEMMA DeleteLeaseKeeps ==
  ASSUME IInv, NEW s \in Sweeps, DeleteLease(s)
  PROVE  IInv'
<1>1. /\ sweep[s].at = "deleting" /\ UNCHANGED <<backend, row>> /\ Leaves(s)
      /\ lease' = NoLease /\ held' = [t \in Sweeps |-> FALSE]
      /\ UNCHANGED <<model, incidents, faults, overran>>
  BY DEF DeleteLease, DropLease, hist
<1>2. /\ SweepInv'
      /\ sweep'[s].at \in {"idle", "posting", "recording"}
      /\ \A t \in Sweeps \ {s} : sweep'[t] = sweep[t] /\ online'[t] = online[t]
      /\ copy' \in [Sweeps -> ProbeState] /\ online' \in [Sweeps -> BOOLEAN]
  BY <1>1, LeavesMoves DEF IInv, TypeInv
<1>3. held' \in [Sweeps -> BOOLEAN] /\ lease' \in [owner : Owners \cup {"none"}, live : BOOLEAN]
  BY <1>1 DEF NoLease
<1>4. HealthTypeOK'
  BY <1>1, <1>2, <1>3, HealthStays, Zenon DEF IInv, TypeInv
<1>5. RestInv'
  BY <1>1 DEF IInv, TypeInv, RestInv, Signature, Kinds
<1>6. s \in Holders
  BY <1>1, Zenon DEF IInv, LeaseInv, Holders, Holding
<1>7. ASSUME ~overran, NEW t \in Holders
      PROVE  t = s
  BY <1>6, <1>7, HealthAssumption DEF IInv, LeaseInv, Holders
<1>8. \A t \in Sweeps \ {s} : t \in Holders' => t \in Holders
  BY <1>1, <1>2, Zenon DEF Holders, Shared
<1>9. s \notin Holders'
  BY <1>2 DEF Holders, Holding
<1>10. ~overran' => Holders' = {}
  BY <1>1, <1>7, <1>8, <1>9 DEF Holders
<1>11. \A t \in Sweeps : ~held'[t] /\ (sweep'[t].at = "deleting" => Shared(t)')
  BY <1>1, <1>2 DEF IInv, LeaseInv, Shared
<1>12. LeaseInv'
  BY <1>10, <1>11 DEF LeaseInv
<1> QED
  BY <1>2, <1>4, <1>5, <1>12 DEF IInv, TypeInv

LEMMA WakeKeeps ==
  ASSUME IInv, NEW s \in Sweeps, NEW opened \in BOOLEAN, NEW seen \in BOOLEAN,
         Wake(s, opened, seen)
  PROVE  IInv'
<1> DEFINE w == [Idle EXCEPT !.at = "ready", !.known = incidents]
<1>1. /\ sweep[s].at = "idle" /\ UNCHANGED <<backend, row, lease, held>>
      /\ online' = [online EXCEPT ![s] = opened]
      /\ copy' = [copy EXCEPT ![s] = IF seen THEN row ELSE NoState]
      /\ sweep' = [sweep EXCEPT ![s] = w]
      /\ UNCHANGED <<model, incidents, overran>>
  BY DEF Wake, LoadHealth
<1>2. faults' \in 0..MaxFaults
  BY Failures, Zenon DEF Wake, IInv, TypeInv
<1>3. copy \in [Sweeps -> ProbeState] /\ online \in [Sweeps -> BOOLEAN] /\ row \in ProbeState
  BY DEF IInv, TypeInv, HealthTypeOK
<1>4. copy' \in [Sweeps -> ProbeState] /\ \A t \in Sweeps \ {s} : copy'[t] = copy[t]
  <2>1. PICK c \in ProbeState : c = IF seen THEN row ELSE NoState
    BY <1>3, Blank
  <2>2. copy' = [copy EXCEPT ![s] = c]
    BY <1>1, <2>1
  <2> QED
    BY <1>3, <2>2
<1>5. online' \in [Sweeps -> BOOLEAN] /\ \A t \in Sweeps \ {s} : online'[t] = online[t]
  BY <1>1, <1>3
<1>6. w \in Working /\ w.at = "ready"
  BY NoWork DEF Working, Places, Idle, IInv, TypeInv, RestInv
<1> HIDE DEF w
<1>7. w.at # "idle" /\ w.at # "judged"
  BY <1>6
<1>8. /\ SweepInv'
      /\ sweep'[s] = w /\ \A t \in Sweeps \ {s} : sweep'[t] = sweep[t]
  BY <1>1, <1>4, <1>5, <1>6, <1>7, SweepMoves, Zenon DEF IInv, TypeInv
<1>9. HealthTypeOK'
  BY <1>1, <1>4, <1>5, HealthStays, Zenon DEF IInv, TypeInv, HealthTypeOK
<1>10. RestInv'
  BY <1>1, <1>2 DEF IInv, TypeInv, RestInv, Signature, Kinds
<1>11. \A t \in Sweeps : /\ t \in Holders' => t \in Holders
                         /\ sweep'[t].at = "deleting" => Shared(t)'
  BY <1>1, <1>5, <1>6, <1>8 DEF Holders, Holding, Shared, IInv, LeaseInv
<1>12. LeaseInv'
  BY <1>1, <1>11, LeaseStays, Zenon DEF IInv
<1> QED
  BY <1>8, <1>9, <1>10, <1>12 DEF IInv, TypeInv

LEMMA PostKeeps ==
  ASSUME IInv, NEW s \in Sweeps, NEW delivered \in BOOLEAN, Post(s, delivered)
  PROVE  IInv'
<1> DEFINE w == [sweep[s] EXCEPT !.at = "recording", !.told = delivered]
<1>1. /\ UNCHANGED <<backend, row, lease, copy, online, held, model, incidents, overran>>
      /\ sweep' = [sweep EXCEPT ![s] = w]
  BY DEF Post, health
<1>2. faults' \in 0..MaxFaults
  BY SilentAssumption DEF Post, IInv, TypeInv, RestInv
<1>3. w \in Working /\ w.at = "recording"
  BY DEF IInv, TypeInv, SweepInv, Working, Places
<1> HIDE DEF w
<1>4. w.at # "idle" /\ w.at # "judged"
  BY <1>3
<1>5. /\ SweepInv'
      /\ sweep'[s] = w /\ \A t \in Sweeps \ {s} : sweep'[t] = sweep[t]
  BY <1>1, <1>3, <1>4, SweepMoves, Zenon DEF IInv, TypeInv
<1>6. HealthTypeOK'
  BY <1>1, HealthStays, Zenon DEF IInv, TypeInv, HealthTypeOK
<1>7. RestInv'
  BY <1>1, <1>2 DEF IInv, TypeInv, RestInv, Signature, Kinds
<1>8. \A t \in Sweeps : /\ t \in Holders' => t \in Holders
                        /\ sweep'[t].at = "deleting" => Shared(t)'
  BY <1>1, <1>3, <1>5 DEF Holders, Holding, Shared, IInv, LeaseInv
<1>9. LeaseInv'
  BY <1>1, <1>8, LeaseStays, Zenon DEF IInv
<1> QED
  BY <1>5, <1>6, <1>7, <1>9 DEF IInv, TypeInv

LEMMA RecordKeeps ==
  ASSUME IInv, NEW s \in Sweeps, NEW lands \in BOOLEAN, Record(s, lands)
  PROVE  IInv'
<1>1. /\ Ends(s) /\ ForgetHealth(s)
      /\ UNCHANGED <<backend, row, lease, held, model, overran>>
  BY DEF Record
<1>2. faults' \in 0..MaxFaults
  BY Failures, Zenon DEF Record, IInv, TypeInv
<1>3. incidents' \subseteq Signature
  <2>1. incidents \subseteq Signature /\ sweep[s] \in Working
    BY DEF IInv, TypeInv, RestInv, SweepInv
  <2>2. sweep[s].known \subseteq Signature /\ sweep[s].sig \in Signature
    BY <2>1 DEF Working
  <2>3. \A known \in SUBSET Signature : Announced(s, known) \subseteq Signature
    BY <2>2 DEF Announced
  <2>4. incidents' \in {incidents, Announced(s, sweep[s].known), Announced(s, incidents)}
    BY Zenon DEF Record
  <2> QED
    BY <2>1, <2>2, <2>3, <2>4
<1>4. /\ SweepInv'
      /\ sweep'[s].at = "idle" /\ \A t \in Sweeps \ {s} : sweep'[t] = sweep[t]
      /\ copy' \in [Sweeps -> ProbeState] /\ online' \in [Sweeps -> BOOLEAN]
      /\ \A t \in Sweeps \ {s} : online'[t] = online[t]
  BY <1>1, SweepEnds DEF IInv, TypeInv
<1>5. HealthTypeOK'
  BY <1>1, <1>4, HealthStays, Zenon DEF IInv, TypeInv, HealthTypeOK
<1>6. RestInv'
  BY <1>1, <1>2, <1>3 DEF IInv, TypeInv, RestInv, Signature, Kinds
<1>7. \A t \in Sweeps : /\ t \in Holders' => t \in Holders
                        /\ sweep'[t].at = "deleting" => Shared(t)'
  BY <1>1, <1>4 DEF Holders, Holding, Shared, IInv, LeaseInv
<1>8. LeaseInv'
  BY <1>1, <1>7, LeaseStays, Zenon DEF IInv
<1> QED
  BY <1>4, <1>5, <1>6, <1>8 DEF IInv, TypeInv

LEMMA CrashKeeps ==
  ASSUME IInv, NEW s \in Sweeps, Crash(s)
  PROVE  IInv'
<1>1. /\ Ends(s) /\ ForgetHealth(s) /\ held' = [held EXCEPT ![s] = FALSE]
      /\ UNCHANGED <<backend, row, lease, model, incidents, overran>>
      /\ faults < MaxFaults /\ faults' = faults + 1
  BY DEF Crash
<1>2. held \in [Sweeps -> BOOLEAN] /\ faults \in 0..MaxFaults
  BY DEF IInv, TypeInv, HealthTypeOK, RestInv
<1>3. held' \in [Sweeps -> BOOLEAN] /\ faults' \in 0..MaxFaults
  BY <1>1, <1>2, SilentAssumption
<1>4. \A t \in Sweeps : held'[t] => held[t]
  BY <1>1, <1>2, Zenon
<1> QED
  BY <1>1, <1>3, <1>4, EndKeeps, Zenon

-----------------------------------------------------------------------------
(* Everything else.                                                        *)

LEMMA SweepsStay ==
  ASSUME SweepInv, UNCHANGED <<sweep, copy, online>>
  PROVE  SweepInv'
BY DEF SweepInv, Working, Signature, Kinds, Places, Statuses

\* A step that touches neither sweeps nor the lease.
LEMMA OutsideKeeps ==
  ASSUME IInv, UNCHANGED <<backend, lease, copy, online, held, sweep, overran>>,
         row' \in ProbeState, model' \in Models, incidents' \subseteq Signature,
         faults' \in 0..MaxFaults
  PROVE  IInv'
<1>1. SweepInv'
  BY SweepsStay DEF IInv, TypeInv
<1>2. HealthTypeOK'
  BY Zenon DEF IInv, TypeInv, HealthTypeOK, Owners, ProbeState, Kinds
<1>3. RestInv'
  BY DEF RestInv, Signature, Kinds
<1>4. \A t \in Sweeps : /\ t \in Holders' => t \in Holders
                        /\ sweep'[t].at = "deleting" => Shared(t)'
  BY DEF Holders, Shared, IInv, LeaseInv
<1>5. LeaseInv'
  BY <1>4, LeaseStays, Zenon DEF IInv
<1> QED
  BY <1>1, <1>2, <1>3, <1>5 DEF IInv, TypeInv

LEMMA ModelChangesKeeps ==
  ASSUME IInv, ModelChanges
  PROVE  IInv'
<1>1. /\ UNCHANGED <<backend, row, lease, copy, online, held, sweep, incidents, faults, overran>>
      /\ model' \in Models
  BY DEF ModelChanges, health, hist
<1>2. row' \in ProbeState /\ incidents' \subseteq Signature /\ faults' \in 0..MaxFaults
  BY <1>1 DEF IInv, TypeInv, HealthTypeOK, RestInv
<1> QED
  BY <1>1, <1>2, OutsideKeeps

LEMMA AcceptKeeps ==
  ASSUME IInv, Accept
  PROVE  IInv'
<1>1. /\ UNCHANGED <<backend, lease, copy, online, held, model, sweep, incidents, overran>>
      /\ row' = [row EXCEPT !.suspects = 0, !.kind = "none", !.shape = {}]
      /\ faults < MaxFaults /\ faults' = faults + 1
  BY DEF Accept, Command
<1>2. /\ row \in ProbeState /\ faults \in 0..MaxFaults
      /\ model' \in Models /\ incidents' \subseteq Signature
  BY <1>1 DEF IInv, TypeInv, HealthTypeOK, RestInv
<1>3. 0 \in 0..Confirmations
  BY HealthAssumption
<1>4. row' \in ProbeState
  BY <1>1, <1>2, <1>3 DEF ProbeState, Kinds
<1>5. faults' \in 0..MaxFaults
  BY <1>1, <1>2, SilentAssumption
<1> QED
  BY <1>1, <1>2, <1>4, <1>5, OutsideKeeps

LEMMA LeaseExpiresKeeps ==
  ASSUME IInv, LeaseExpires
  PROVE  IInv'
<1>1. /\ lease' = [lease EXCEPT !.live = FALSE] /\ lease.live
      /\ overran' = (overran \/ Holders # {})
      /\ UNCHANGED <<backend, row, copy, online, held, model, sweep, incidents, faults>>
  BY DEF LeaseExpires
<1>2. lease \in [owner : Owners \cup {"none"}, live : BOOLEAN]
  BY DEF IInv, TypeInv, HealthTypeOK
<1>3. /\ lease' \in [owner : Owners \cup {"none"}, live : BOOLEAN]
      /\ lease'.owner = lease.owner /\ ~lease'.live
  BY <1>1, <1>2
<1>4. HealthTypeOK'
  BY <1>1, <1>3, Zenon DEF IInv, TypeInv, HealthTypeOK, Owners, ProbeState, Kinds
<1>5. SweepInv' /\ RestInv'
  BY <1>1, SweepsStay DEF IInv, TypeInv, RestInv, Signature, Kinds
<1>6. ASSUME NEW t \in Sweeps, held[t]
      PROVE  lease' # NoLease /\ (lease'.owner = Replica[t] \/ ~lease'.live)
  <2>1. lease.owner = Replica[t]
    BY <1>1, <1>6, Zenon DEF IInv, LeaseInv
  <2> QED
    BY <1>3, <2>1, HealthAssumption DEF NoLease
<1>7. ~overran' => Holders' = {}
  BY <1>1 DEF Holders, Shared
<1>8. \A t \in Sweeps : sweep'[t].at = "deleting" => Shared(t)'
  BY <1>1 DEF IInv, LeaseInv, Shared
<1>9. LeaseInv'
  BY <1>1, <1>6, <1>7, <1>8 DEF LeaseInv
<1> QED
  BY <1>4, <1>5, <1>9 DEF IInv, TypeInv

LEMMA CooldownKeeps ==
  ASSUME IInv, CooldownPasses
  PROVE  IInv'
<1> DEFINE w(s) == [sweep[s] EXCEPT !.known = @ \ {Parked}]
<1>1. /\ row' = Due(row) /\ copy' = [s \in Sweeps |-> Due(copy[s])]
      /\ incidents' = incidents \ {Parked}
      /\ sweep' = [s \in Sweeps |-> w(s)]
      /\ UNCHANGED <<backend, lease, online, held, model, faults, overran>>
  BY DEF CooldownPasses
<1>2. /\ row \in ProbeState /\ copy \in [Sweeps -> ProbeState] /\ sweep \in [Sweeps -> Working]
      /\ online \in [Sweeps -> BOOLEAN] /\ held \in [Sweeps -> BOOLEAN]
      /\ lease \in [owner : Owners \cup {"none"}, live : BOOLEAN]
  BY DEF IInv, TypeInv, HealthTypeOK, SweepInv
<1>3. ASSUME NEW state \in ProbeState
      PROVE  Due(state) \in ProbeState /\ (state = NoState => Due(state) = NoState)
  <2>1. [state EXCEPT !.breaker = "due"] \in ProbeState
    BY <1>3 DEF ProbeState
  <2>2. Due(state) \in ProbeState
    BY <1>3, <2>1 DEF Due
  <2>3. NoState.breaker # "armed"
    BY DEF NoState
  <2> QED
    BY <2>2, <2>3 DEF Due
<1>4. row' \in ProbeState /\ copy' \in [Sweeps -> ProbeState]
  BY <1>1, <1>2, <1>3
<1>5. ASSUME NEW s \in Sweeps
      PROVE  /\ w(s) \in Working /\ w(s).at = sweep[s].at /\ w(s).sig = sweep[s].sig
  BY <1>2 DEF Working
<1> HIDE DEF w
<1>6. /\ sweep' \in [Sweeps -> Working]
      /\ \A s \in Sweeps : sweep'[s].at = sweep[s].at /\ sweep'[s].sig = sweep[s].sig
  BY <1>1, <1>5
<1>7. \A s \in Sweeps : sweep'[s].at = "idle" => copy'[s] = NoState /\ ~online'[s]
  BY <1>1, <1>2, <1>3, <1>6 DEF IInv, TypeInv, SweepInv
<1>8. \A s \in Sweeps : sweep'[s].at = "judged" => sweep'[s].sig.kind \in Kinds
  BY <1>6 DEF IInv, TypeInv, SweepInv
<1>9. SweepInv'
  BY <1>6, <1>7, <1>8 DEF SweepInv, Working, Signature, Kinds, Places, Statuses
<1>10. HealthTypeOK'
  BY <1>1, <1>4, Zenon DEF IInv, TypeInv, HealthTypeOK, Owners, ProbeState, Kinds
<1>11. RestInv'
  BY <1>1 DEF IInv, TypeInv, RestInv, Signature, Kinds
<1>12. \A t \in Sweeps : /\ t \in Holders' => t \in Holders
                         /\ sweep'[t].at = "deleting" => Shared(t)'
  BY <1>1, <1>6 DEF Holders, Shared, IInv, LeaseInv
<1>13. LeaseInv'
  BY <1>1, <1>12, LeaseStays, Zenon DEF IInv
<1> QED
  BY <1>9, <1>10, <1>11, <1>13 DEF IInv, TypeInv

LEMMA ResetKeeps ==
  ASSUME IInv, Reset
  PROVE  IInv'
<1>1. /\ row' = NoState /\ incidents' = {} /\ lease' = NoLease
      /\ held' = [t \in Sweeps |-> FALSE]
      /\ overran' = (overran \/ Holders # {})
      /\ UNCHANGED <<backend, copy, online, model, sweep>>
      /\ faults < MaxFaults /\ faults' = faults + 1
  BY DEF Reset, DropLease, Command
<1>2. /\ faults \in 0..MaxFaults /\ model \in Models
      /\ copy \in [Sweeps -> ProbeState] /\ online \in [Sweeps -> BOOLEAN]
  BY DEF IInv, TypeInv, HealthTypeOK, RestInv
<1>3. /\ row' \in ProbeState /\ held' \in [Sweeps -> BOOLEAN]
      /\ lease' \in [owner : Owners \cup {"none"}, live : BOOLEAN]
  BY <1>1, Blank DEF NoLease
<1>4. HealthTypeOK'
  BY <1>1, <1>2, <1>3, Zenon DEF IInv, TypeInv, HealthTypeOK, Owners, ProbeState, Kinds
<1>5. faults' \in 0..MaxFaults
  BY <1>1, <1>2, SilentAssumption
<1>6. SweepInv' /\ RestInv'
  BY <1>1, <1>2, <1>5, SweepsStay DEF IInv, TypeInv, RestInv
<1>7. ~overran' => Holders' = {}
  BY <1>1 DEF Holders, Shared
<1>8. \A t \in Sweeps : ~held'[t] /\ (sweep'[t].at = "deleting" => Shared(t)')
  BY <1>1 DEF IInv, LeaseInv, Shared
<1>9. LeaseInv'
  BY <1>7, <1>8 DEF LeaseInv
<1> QED
  BY <1>4, <1>6, <1>9 DEF IInv, TypeInv

-----------------------------------------------------------------------------

LEMMA InitInv == Init => IInv
<1> SUFFICES ASSUME Init
             PROVE  IInv
  OBVIOUS
<1>1. /\ backend \in {"json", "table"} /\ row = NoState /\ lease = NoLease
      /\ copy = [s \in Sweeps |-> NoState] /\ online = [s \in Sweeps |-> FALSE]
      /\ held = [s \in Sweeps |-> FALSE] /\ sweep = [s \in Sweeps |-> Idle]
      /\ model \in Models /\ incidents = {} /\ faults = 0
  BY HealthAssumption DEF Init, HealthInit
<1>2. HealthTypeOK
  BY <1>1, Blank DEF HealthTypeOK, NoLease
<1>3. Idle.at = "idle"
  BY DEF Idle
<1>4. SweepInv
  BY <1>1, <1>3, NoWork DEF SweepInv
<1>5. RestInv
  BY <1>1, SilentAssumption DEF RestInv
<1>6. LeaseInv
  BY <1>1, <1>3 DEF LeaseInv, Holders, Holding
<1> QED
  BY <1>2, <1>4, <1>5, <1>6 DEF IInv, TypeInv

LEMMA NextInv == IInv /\ [Next]_vars => IInv'
<1> SUFFICES ASSUME IInv, [Next]_vars
             PROVE  IInv'
  OBVIOUS
<1>1. ASSUME NEW s \in Sweeps, SweepStep(s)
      PROVE  IInv'
  BY <1>1, WakeKeeps, BeginKeeps, ProbeFailsKeeps, AskLeaseKeeps, LookAtLeaseKeeps,
     TakeOverKeeps, ProbeAnswersKeeps, ConcludeKeeps, ReleaseKeeps, DeleteLeaseKeeps,
     PostKeeps, RecordKeeps, Zenon DEF SweepStep
<1>2. ASSUME UNCHANGED vars
      PROVE  IInv'
  <2>1. UNCHANGED <<backend, row, lease, copy, online, held, model, sweep, incidents, faults,
                    overran>>
    BY <1>2 DEF vars, health, hist
  <2>2. /\ row' \in ProbeState /\ model' \in Models /\ incidents' \subseteq Signature
        /\ faults' \in 0..MaxFaults
    BY <2>1 DEF IInv, TypeInv, HealthTypeOK, RestInv
  <2> QED
    BY <2>1, <2>2, OutsideKeeps
<1> QED
  BY <1>1, <1>2, CrashKeeps, ModelChangesKeeps, LeaseExpiresKeeps, CooldownKeeps, AcceptKeeps,
     ResetKeeps, Zenon DEF Next

\* Whatever sweeps, models, operators and faults do, types and the lease's meaning hold.
THEOREM Invariant == Spec => []IInv
BY InitInv, NextInv, PTL DEF Spec

\* Every variable of a sweep and of what it remembers keeps its kind.
THEOREM TypeCorrect == Spec => []TypeOK
<1>1. IInv => TypeOK
  BY DEF IInv, TypeInv, SweepInv, RestInv, TypeOK, Working, Places
<1> QED
  BY <1>1, Invariant, PTL

\* One sweep at a time has the table (runner.py:449-453), for any number of replicas, while
\* leases outlive the sweeps that hold them.
THEOREM OneSweepAtATime == Spec => []OneSweeper
<1>1. IInv => OneSweeper
  BY HealthAssumption DEF IInv, LeaseInv, OneSweeper, Holders
<1> QED
  BY <1>1, Invariant, PTL
=============================================================================
