-------------------------- MODULE ApprovalGateProofs --------------------------
(***************************************************************************)
(* The approval gate keeps its promises, for any runs, people, requests    *)
(* and faults.                                                             *)
(*                                                                         *)
(* The inductive invariant ties every copy of a row, wherever it is, to    *)
(* the history: a row says which request opened it and, once decided, the  *)
(* answer to that very request.  All that changes in the history is that   *)
(* it grows, and that a request somebody waits for ends; so a row that was *)
(* sound stays sound, in however old a copy.                               *)
(***************************************************************************)
EXTENDS ApprovalGateProps, SequenceTheorems, TLAPS

Verdicts == {"approve", "decline"}
Outcomes == {"waiting", "granted", "denied", "too_late", "error", "timed_out", "abandoned"}

AskRecord    == [what : Requests, outcome : Outcomes, by : Nat]
AnswerRecord == [ask : Nat, verdict : Verdicts, meant : Nat, via : {"cli", "link"}]

\* A decided row is of the request its answer is about.
SoundRow  == {row \in Row : row.by # 0 => row.ask = answers[row.by].ask}
SoundRows == [Keys -> SoundRow]

Places  == {"down", "free", "opened", "unopened", "polling", "heard"}
Reading == [via : {"cli", "link"}, key : Keys, row : SoundRow, meant : 1..Len(asks),
            verdict : Verdicts, file : SoundRows]

AboutTheSame(m, n) == asks[m].what = asks[n].what

HistoryInv ==
  /\ asks \in Seq(AskRecord)
  /\ answers \in Seq(AnswerRecord)
  /\ \A i \in 1..Len(answers) :
       /\ answers[i].ask \in 1..Len(asks) /\ answers[i].meant \in 1..Len(asks)
       /\ answers[i].via = "link" => /\ AboutTheSame(answers[i].ask, answers[i].meant)
                                     /\ backend = "table"

GrantedInv ==
  \A n \in Granted :
    /\ asks[n].by \in 1..Len(answers)
    /\ AboutTheSame(answers[asks[n].by].ask, n)
    /\ answers[asks[n].by].verdict = "approve"

StoreInv ==
  /\ backend \in Backends
  /\ table \in SoundRows
  /\ copy \in [Runs -> SoundRows]
  /\ client \in [Runs -> BOOLEAN]

ReaderInv ==
  /\ reader \in [Humans -> Reading \cup {Idle}]
  /\ \A h \in Humans :
       reader[h] # Idle =>
         /\ reader[h].row.ask # 0 /\ reader[h].row.by = 0
         /\ reader[h].via = "link" => /\ AboutTheSame(reader[h].row.ask, reader[h].meant)
                                      /\ backend = "table"

Busy(r) == gate[r].at \in {"opened", "unopened", "polling", "heard"}

GateInv ==
  /\ gate \in [Runs -> [at : Places, ask : 0..Len(asks), row : SoundRow]]
  /\ \A r \in Runs :
       /\ Busy(r) => gate[r].ask # 0 /\ asks[gate[r].ask].outcome = "waiting"
       /\ gate[r].at = "heard" => gate[r].row.by # 0
  /\ \A r, s \in Runs : Busy(r) /\ Busy(s) /\ gate[r].ask = gate[s].ask => r = s

MiscInv ==
  /\ expired \subseteq 1..Len(asks) /\ posted \subseteq 1..Len(asks)
  /\ faults \in 0..MaxFaults /\ lossy \in BOOLEAN

IInv == HistoryInv /\ GrantedInv /\ StoreInv /\ ReaderInv /\ GateInv /\ MiscInv

\* What every step does to the history: requests and answers are never taken back or
\* changed in what they are about.
Grows ==
  /\ Len(asks) <= Len(asks') /\ Len(answers) <= Len(answers')
  /\ \A n \in 1..Len(asks) : asks'[n].what = asks[n].what
  /\ \A i \in 1..Len(answers) : answers'[i] = answers[i]

-----------------------------------------------------------------------------
(* A history that grows.                                                   *)

\* A row that was sound is sound afterwards.
LEMMA SoundStays ==
  ASSUME HistoryInv, HistoryInv', Grows
  PROVE  /\ SoundRow \subseteq SoundRow'
         /\ SoundRows \subseteq SoundRows'
         /\ Reading \subseteq Reading'
<1>1. /\ Len(asks) \in Nat /\ Len(asks)' \in Nat /\ Len(asks) <= Len(asks)'
      /\ Len(answers) \in Nat /\ Len(answers)' \in Nat /\ Len(answers) <= Len(answers)'
  BY DEF HistoryInv, Grows
<1>2. SoundRow \subseteq SoundRow'
  <2> SUFFICES ASSUME NEW row \in SoundRow
               PROVE  row \in SoundRow'
    OBVIOUS
  <2>1. row \in Row /\ (row.by # 0 => row.ask = answers[row.by].ask)
    BY DEF SoundRow
  <2>2. row \in Row'
    BY <1>1, <2>1 DEF Row
  <2>3. row.by # 0 => row.by \in 1..Len(answers)
    BY <1>1, <2>1 DEF Row
  <2>4. row.by # 0 => row.ask = answers'[row.by].ask
    BY <2>1, <2>3 DEF Grows
  <2> QED
    BY <2>2, <2>4 DEF SoundRow
<1>3. Keys' = Keys
  BY DEF Keys
<1>4. SoundRows \subseteq SoundRows'
  BY <1>2, <1>3 DEF SoundRows
<1>5. 1..Len(asks) \subseteq 1..Len(asks)'
  BY <1>1
<1> QED
  BY <1>2, <1>3, <1>4, <1>5 DEF Reading

\* The row of nothing, and rows of nothing, are sound.
LEMMA NothingIsSound ==
  ASSUME HistoryInv
  PROVE  NoRow \in SoundRow /\ NoRows \in SoundRows
<1>1. Len(asks) \in Nat /\ Len(answers) \in Nat
  BY DEF HistoryInv
<1>2. NoRow \in SoundRow
  BY <1>1 DEF SoundRow, Row, NoRow
<1> QED
  BY <1>2 DEF SoundRows, NoRows

-----------------------------------------------------------------------------
(* The three ways in which the history grows.                              *)

\* A history nobody touches.
LEMMA HistoryStays ==
  ASSUME HistoryInv, UNCHANGED <<backend, asks, answers>>
  PROVE  HistoryInv' /\ Grows
BY DEF HistoryInv, Grows, AboutTheSame

\* Of a request k no more changes than how it stands.
Restates(k) ==
  /\ Len(asks') = Len(asks)
  /\ asks'[k].what = asks[k].what
  /\ \A n \in 1..Len(asks) : n # k => asks'[n] = asks[n]

\* A request ends.
LEMMA RequestEnds ==
  ASSUME HistoryInv, UNCHANGED <<backend, answers>>,
         NEW k \in 1..Len(asks), NEW outcome \in Outcomes, NEW by \in Nat,
         \/ asks' = [asks EXCEPT ![k].outcome = outcome, ![k].by = by]
         \/ asks' = [asks EXCEPT ![k].outcome = outcome] /\ by = asks[k].by
  PROVE  /\ HistoryInv' /\ Grows /\ Restates(k)
         /\ asks'[k].outcome = outcome /\ asks'[k].by = by
<1> DEFINE new == [asks[k] EXCEPT !.outcome = outcome, !.by = by]
<1>1. /\ asks \in Seq(AskRecord) /\ answers \in Seq(AnswerRecord)
      /\ Len(asks) \in Nat /\ Len(answers) \in Nat
  BY DEF HistoryInv
<1>2. asks[k] \in AskRecord
  BY <1>1
<1>3. /\ new \in AskRecord /\ new.what = asks[k].what
      /\ new.outcome = outcome /\ new.by = by
  BY <1>2 DEF AskRecord
<1>4. asks' = [asks EXCEPT ![k] = new]
  <2>1. CASE asks' = [asks EXCEPT ![k].outcome = outcome, ![k].by = by]
    BY <1>1, <2>1
  <2>2. CASE asks' = [asks EXCEPT ![k].outcome = outcome] /\ by = asks[k].by
    <3>1. new = [asks[k] EXCEPT !.outcome = outcome]
      BY <1>2, <2>2 DEF AskRecord
    <3> QED
      BY <2>2, <3>1
  <2> QED
    BY <2>1, <2>2
<1> HIDE DEF new
<1>5. /\ asks' \in Seq(AskRecord) /\ Len(asks') = Len(asks)
      /\ asks'[k] = new
      /\ \A n \in 1..Len(asks) : n # k => asks'[n] = asks[n]
  BY <1>1, <1>3, <1>4, ExceptSeq
<1>6. Restates(k)
  BY <1>3, <1>5 DEF Restates
<1>7. \A n \in 1..Len(asks) : asks'[n].what = asks[n].what
  BY <1>6 DEF Restates
<1>8. Grows
  BY <1>1, <1>5, <1>7 DEF Grows
<1>9. HistoryInv'
  BY <1>5, <1>7 DEF HistoryInv, AboutTheSame
<1> QED
  BY <1>3, <1>5, <1>6, <1>8, <1>9

\* A request is made.
LEMMA RequestMade ==
  ASSUME HistoryInv, UNCHANGED <<backend, answers>>, NEW q \in Requests,
         asks' = Append(asks, [what |-> q, outcome |-> "waiting", by |-> 0])
  PROVE  /\ HistoryInv' /\ Grows
         /\ Len(asks') = Len(asks) + 1
         /\ \A n \in 1..Len(asks) : asks'[n] = asks[n]
         /\ asks'[Len(asks) + 1] = [what |-> q, outcome |-> "waiting", by |-> 0]
<1> DEFINE new == [what |-> q, outcome |-> "waiting", by |-> 0]
<1>1. /\ asks \in Seq(AskRecord) /\ answers \in Seq(AnswerRecord)
      /\ Len(asks) \in Nat /\ Len(answers) \in Nat
  BY DEF HistoryInv
<1>2. new \in AskRecord
  BY DEF AskRecord, Outcomes
<1> HIDE DEF new
<1>3. /\ asks' \in Seq(AskRecord) /\ Len(asks') = Len(asks) + 1
      /\ asks'[Len(asks) + 1] = new
      /\ \A n \in 1..Len(asks) : asks'[n] = asks[n]
  BY <1>1, <1>2 DEF new
<1>4. Grows
  BY <1>1, <1>3 DEF Grows
<1>5. ASSUME NEW i \in 1..Len(answers)
      PROVE  /\ answers[i].ask \in 1..Len(asks') /\ answers[i].meant \in 1..Len(asks')
             /\ answers[i].via = "link" =>
                  asks'[answers[i].ask].what = asks'[answers[i].meant].what /\ backend = "table"
  <2>1. answers[i].ask \in 1..Len(asks) /\ answers[i].meant \in 1..Len(asks)
    BY DEF HistoryInv
  <2>2. answers[i].ask \in 1..Len(asks') /\ answers[i].meant \in 1..Len(asks')
    BY <1>1, <1>3, <2>1
  <2>3. /\ asks'[answers[i].ask].what = asks[answers[i].ask].what
        /\ asks'[answers[i].meant].what = asks[answers[i].meant].what
    BY <1>3, <2>1
  <2> QED
    BY <2>2, <2>3 DEF HistoryInv, AboutTheSame
<1>6. HistoryInv'
  BY <1>1, <1>3, <1>5 DEF HistoryInv, AboutTheSame
<1> QED
  BY <1>3, <1>4, <1>6 DEF new

\* An answer is recorded, about the request whose row was read.
LEMMA AnswerRecorded ==
  ASSUME HistoryInv, ReaderInv, UNCHANGED <<backend, asks>>,
         NEW h \in Humans, reader[h] # Idle, Recorded(h)
  PROVE  /\ HistoryInv' /\ Grows
         /\ Len(answers') = Len(answers) + 1
         /\ \A i \in 1..Len(answers) : answers'[i] = answers[i]
         /\ answers'[Len(answers) + 1] =
              [ask |-> reader[h].row.ask, verdict |-> reader[h].verdict,
               meant |-> reader[h].meant, via |-> reader[h].via]
         /\ [ask |-> reader[h].row.ask, by |-> Len(answers) + 1] \in SoundRow'
<1> DEFINE new == [ask |-> reader[h].row.ask, verdict |-> reader[h].verdict,
                   meant |-> reader[h].meant, via |-> reader[h].via]
<1>1. /\ asks \in Seq(AskRecord) /\ answers \in Seq(AnswerRecord)
      /\ Len(asks) \in Nat /\ Len(answers) \in Nat
  BY DEF HistoryInv
<1>2. reader[h] \in Reading /\ reader[h].row.ask # 0
  BY DEF ReaderInv
<1>3. reader[h].row.ask \in 1..Len(asks) /\ reader[h].meant \in 1..Len(asks)
  BY <1>1, <1>2 DEF Reading, SoundRow, Row
<1>4. new \in AnswerRecord
  BY <1>1, <1>2, <1>3 DEF Reading, AnswerRecord
<1>5. new.via = "link" => AboutTheSame(new.ask, new.meant) /\ backend = "table"
  BY DEF ReaderInv
<1>6. new.ask = reader[h].row.ask /\ new.meant = reader[h].meant
  OBVIOUS
<1>7. answers' = Append(answers, new)
  BY DEF Recorded
<1> HIDE DEF new
<1>8. /\ answers' \in Seq(AnswerRecord) /\ Len(answers') = Len(answers) + 1
      /\ answers'[Len(answers) + 1] = new
      /\ \A i \in 1..Len(answers) : answers'[i] = answers[i]
  BY <1>1, <1>4, <1>7
<1>9. Grows
  BY <1>1, <1>8 DEF Grows
<1>10. HistoryInv'
  <2> SUFFICES ASSUME NEW i \in 1..Len(answers')
               PROVE  /\ answers'[i].ask \in 1..Len(asks) /\ answers'[i].meant \in 1..Len(asks)
                      /\ answers'[i].via = "link" =>
                           AboutTheSame(answers'[i].ask, answers'[i].meant) /\ backend = "table"
    BY <1>1, <1>8 DEF HistoryInv, AboutTheSame
  <2>1. CASE i = Len(answers) + 1
    BY <1>3, <1>5, <1>6, <1>8, <2>1
  <2>2. CASE i \in 1..Len(answers)
    BY <1>8, <2>2 DEF HistoryInv
  <2> QED
    BY <1>1, <1>8, <2>1, <2>2
<1>11. [ask |-> reader[h].row.ask, by |-> Len(answers) + 1] \in SoundRow'
  <2>1. [ask |-> reader[h].row.ask, by |-> Len(answers) + 1] \in Row'
    BY <1>1, <1>3, <1>8 DEF Row
  <2> QED
    BY <1>6, <1>8, <2>1 DEF SoundRow
<1> QED
  BY <1>8, <1>9, <1>10, <1>11 DEF new

-----------------------------------------------------------------------------
(* The parts of the invariant, under a history that grows.                 *)

\* A request is about something that has a row.
LEMMA HasRow ==
  ASSUME HistoryInv, NEW n \in 1..Len(asks)
  PROVE  WhatOf(n) \in Requests /\ KeyOf(n) \in Keys
<1>1. asks[n] \in AskRecord
  BY DEF HistoryInv
<1> QED
  BY <1>1 DEF AskRecord, WhatOf, KeyOf, Keys

\* Rows nobody writes.
LEMMA StoreStays ==
  ASSUME HistoryInv, HistoryInv', Grows, StoreInv, UNCHANGED channel
  PROVE  StoreInv'
BY SoundStays DEF StoreInv, channel

\* Answers nobody is giving.
LEMMA ReadersMove ==
  ASSUME HistoryInv, HistoryInv', Grows, ReaderInv, UNCHANGED backend,
         NEW h \in Humans, NEW v \in Reading' \cup {Idle},
         reader' = [reader EXCEPT ![h] = v] \/ UNCHANGED reader,
         v # Idle => /\ v.row.ask # 0 /\ v.row.by = 0
                     /\ v.via = "link" =>
                          asks'[v.row.ask].what = asks'[v.meant].what /\ backend = "table"
  PROVE  ReaderInv'
<1>1. reader' \in [Humans -> Reading' \cup {Idle}]
  BY SoundStays DEF ReaderInv
<1>2. ASSUME NEW g \in Humans, reader'[g] # Idle
      PROVE  /\ reader'[g].row.ask # 0 /\ reader'[g].row.by = 0
             /\ reader'[g].via = "link" =>
                  asks'[reader'[g].row.ask].what = asks'[reader'[g].meant].what /\ backend = "table"
  <2>1. CASE reader'[g] = v
    BY <1>2, <2>1
  <2>2. CASE reader'[g] = reader[g]
    <3>1. reader[g] \in Reading /\ reader[g].row.ask # 0
      BY <1>2, <2>2 DEF ReaderInv
    <3>2. reader[g].row.ask \in 1..Len(asks) /\ reader[g].meant \in 1..Len(asks)
      <4>1. Len(asks) \in Nat
        BY DEF HistoryInv
      <4> QED
        BY <3>1, <4>1 DEF Reading, SoundRow, Row
    <3>3. /\ asks'[reader[g].row.ask].what = asks[reader[g].row.ask].what
          /\ asks'[reader[g].meant].what = asks[reader[g].meant].what
      BY <3>2 DEF Grows
    <3> QED
      BY <1>2, <2>2, <3>3 DEF ReaderInv, AboutTheSame
  <2> QED
    BY <2>1, <2>2 DEF ReaderInv
<1> QED
  BY <1>1, <1>2 DEF ReaderInv, AboutTheSame

LEMMA ReadersStay ==
  ASSUME HistoryInv, HistoryInv', Grows, ReaderInv, UNCHANGED <<backend, reader>>
  PROVE  ReaderInv'
<1>1. CASE Humans = {}
  BY <1>1 DEF ReaderInv
<1>2. CASE Humans # {}
  BY <1>2, ReadersMove
<1> QED
  BY <1>1, <1>2

\* A run moves on, and the others wait for what they waited for.
LEMMA RunMoves ==
  ASSUME HistoryInv, HistoryInv', Grows, GateInv,
         NEW r \in Runs, NEW g \in [at : Places, ask : 0..Len(asks'), row : SoundRow'],
         gate' = [gate EXCEPT ![r] = g],
         g.at = "heard" => g.row.by # 0,
         g.at \in {"opened", "unopened", "polling", "heard"} =>
           /\ g.ask # 0 /\ asks'[g.ask].outcome = "waiting"
           /\ \A s \in Runs \ {r} : Busy(s) => gate[s].ask # g.ask,
         \A s \in Runs \ {r} : Busy(s) => asks'[gate[s].ask].outcome = "waiting"
  PROVE  GateInv'
<1>1. /\ gate'[r] = g
      /\ \A s \in Runs \ {r} : gate'[s] = gate[s]
  BY DEF GateInv
<1>2. 0..Len(asks) \subseteq 0..Len(asks')
  BY DEF HistoryInv, Grows
<1>3. gate' \in [Runs -> [at : Places, ask : 0..Len(asks'), row : SoundRow']]
  <2>1. \A s \in Runs : gate[s] \in [at : Places, ask : 0..Len(asks'), row : SoundRow']
    BY <1>2, SoundStays DEF GateInv
  <2> QED
    BY <2>1 DEF GateInv
<1>4. \A s \in Runs :
        /\ Busy(s)' => gate'[s].ask # 0 /\ asks'[gate'[s].ask].outcome = "waiting"
        /\ gate'[s].at = "heard" => gate'[s].row.by # 0
  BY <1>1 DEF GateInv, Busy
<1>5. \A s, u \in Runs : Busy(s)' /\ Busy(u)' /\ gate'[s].ask = gate'[u].ask => s = u
  BY <1>1 DEF GateInv, Busy
<1> QED
  BY <1>3, <1>4, <1>5 DEF GateInv

\* Runs that stay where they are.
LEMMA RunsStay ==
  ASSUME HistoryInv, HistoryInv', Grows, GateInv, UNCHANGED gate,
         \A n \in 1..Len(asks) : asks'[n].outcome = asks[n].outcome
  PROVE  GateInv'
<1>1. 0..Len(asks) \subseteq 0..Len(asks')
  BY DEF HistoryInv, Grows
<1>2. gate' \in [Runs -> [at : Places, ask : 0..Len(asks'), row : SoundRow']]
  <2>1. \A s \in Runs : gate[s] \in [at : Places, ask : 0..Len(asks'), row : SoundRow']
    BY <1>1, SoundStays DEF GateInv
  <2> QED
    BY <2>1 DEF GateInv
<1>3. \A s \in Runs :
        /\ Busy(s)' => gate'[s].ask # 0 /\ asks'[gate'[s].ask].outcome = "waiting"
        /\ gate'[s].at = "heard" => gate'[s].row.by # 0
  <2>1. \A s \in Runs : Busy(s) => gate[s].ask \in 1..Len(asks)
    BY DEF GateInv, Busy
  <2> QED
    BY <2>1 DEF GateInv, Busy
<1> QED
  BY <1>2, <1>3 DEF GateInv, Busy

\* A step that grants nothing.
LEMMA GrantsStay ==
  ASSUME HistoryInv, HistoryInv', Grows, GrantedInv,
         \A n \in 1..Len(asks') :
           asks'[n].outcome = "granted" =>
             n \in 1..Len(asks) /\ asks[n].outcome = "granted" /\ asks'[n].by = asks[n].by
  PROVE  GrantedInv' /\ Granted' \subseteq Granted
<1>1. ASSUME NEW n \in Granted'
      PROVE  n \in Granted /\ asks'[n].by = asks[n].by
  BY <1>1 DEF Granted
<1>2. ASSUME NEW n \in Granted'
      PROVE  /\ asks'[n].by \in 1..Len(answers')
             /\ asks'[answers'[asks'[n].by].ask].what = asks'[n].what
             /\ answers'[asks'[n].by].verdict = "approve"
  <2> DEFINE i == asks[n].by
  <2>1. /\ i \in 1..Len(answers) /\ n \in 1..Len(asks)
        /\ AboutTheSame(answers[i].ask, n) /\ answers[i].verdict = "approve"
    BY <1>1, <1>2 DEF GrantedInv, Granted
  <2>2. asks'[n].by = i
    BY <1>1, <1>2
  <2> HIDE DEF i
  <2>3. answers'[i] = answers[i] /\ answers[i].ask \in 1..Len(asks)
    BY <2>1 DEF Grows, HistoryInv
  <2>4. asks'[answers'[i].ask].what = asks'[n].what
    BY <2>1, <2>3 DEF Grows, AboutTheSame
  <2>5. i \in 1..Len(answers')
    BY <2>1 DEF HistoryInv, Grows
  <2> QED
    BY <2>1, <2>2, <2>3, <2>4, <2>5 DEF AboutTheSame
<1> QED
  BY <1>1, <1>2 DEF GrantedInv, AboutTheSame

-----------------------------------------------------------------------------
(* Every step of a run.                                                    *)

\* A function of which one value changes.
LEMMA OneValueMore ==
  \A S, T : \A f \in [S -> T] : \A x \in S : \A y \in T : [f EXCEPT ![x] = y] \in [S -> T]
OBVIOUS

\* A process that has gone, or is free, waits for nothing.
LEMMA AwayIsFine ==
  ASSUME HistoryInv
  PROVE  /\ Down \in [at : Places, ask : 0..Len(asks), row : SoundRow]
         /\ [Down EXCEPT !.at = "free"] \in [at : Places, ask : 0..Len(asks), row : SoundRow]
<1>1. 0 \in 0..Len(asks)
  BY DEF HistoryInv
<1> QED
  BY <1>1, NothingIsSound DEF Down, Places

LEMMA ConnectKeeps ==
  ASSUME IInv, NEW r \in Runs, NEW ok \in BOOLEAN, Connect(r, ok)
  PROVE  IInv'
<1>1. HistoryInv' /\ Grows /\ asks' = asks /\ answers' = answers
  BY HistoryStays DEF IInv, Connect, hist
<1>2. GrantedInv'
  BY <1>1, GrantsStay DEF IInv
<1>3. StoreInv'
  <2>1. /\ table' \in SoundRows' /\ copy \in [Runs -> SoundRows'] /\ NoRows \in SoundRows'
    BY <1>1, SoundStays, NothingIsSound DEF IInv, StoreInv, Connect
  <2>2. copy' \in [Runs -> SoundRows']
    BY <2>1 DEF Connect
  <2>3. client' \in [Runs -> BOOLEAN]
    <3>1. client \in [Runs -> BOOLEAN]
      BY DEF IInv, StoreInv
    <3>2. client' = [client EXCEPT ![r] = ok]
      BY DEF Connect
    <3> QED
      BY <3>1, <3>2, OneValueMore, Zenon
  <2>4. backend' \in Backends
    BY DEF IInv, StoreInv, Connect
  <2> QED
    BY <2>1, <2>2, <2>3, <2>4 DEF StoreInv
<1>4. ReaderInv'
  BY <1>1, ReadersStay DEF IInv, Connect
<1>5. GateInv'
  <2> DEFINE g == [Down EXCEPT !.at = "free"]
  <2>1. g \in [at : Places, ask : 0..Len(asks'), row : SoundRow'] /\ g.at = "free"
    BY <1>1, AwayIsFine, SoundStays DEF IInv, Down
  <2>2. gate' = [gate EXCEPT ![r] = g]
    BY DEF Connect
  <2>3. \A s \in Runs \ {r} : Busy(s) => asks'[gate[s].ask].outcome = "waiting"
    BY <1>1 DEF IInv, GateInv
  <2> HIDE DEF g
  <2> QED
    BY <1>1, <2>1, <2>2, <2>3, RunMoves DEF IInv
<1>6. MiscInv'
  BY <1>1, ApprovalAssumption DEF IInv, MiscInv, Connect, hist
<1> QED
  BY <1>1, <1>2, <1>3, <1>4, <1>5, <1>6 DEF IInv

\* A run that goes away while nobody waits in it.
LEMMA LeaveKeeps ==
  ASSUME IInv, NEW r \in Runs, Leave(r)
  PROVE  IInv'
<1>1. HistoryInv' /\ Grows /\ asks' = asks /\ answers' = answers
  BY HistoryStays DEF IInv, Leave, hist
<1>2. GrantedInv'
  BY <1>1, GrantsStay DEF IInv
<1>3. StoreInv'
  <2>1. /\ table' \in SoundRows' /\ copy \in [Runs -> SoundRows'] /\ NoRows \in SoundRows'
    BY <1>1, SoundStays, NothingIsSound DEF IInv, StoreInv, Leave
  <2>2. copy' \in [Runs -> SoundRows']
    BY <2>1 DEF Leave, Gone
  <2>3. client' \in [Runs -> BOOLEAN]
    <3>1. client \in [Runs -> BOOLEAN]
      BY DEF IInv, StoreInv
    <3>2. client' = [client EXCEPT ![r] = FALSE] /\ FALSE \in BOOLEAN
      BY DEF Leave, Gone
    <3> QED
      BY <3>1, <3>2, OneValueMore, Zenon
  <2>4. backend' \in Backends
    BY DEF IInv, StoreInv, Leave
  <2> QED
    BY <2>1, <2>2, <2>3, <2>4 DEF StoreInv
<1>4. ReaderInv'
  BY <1>1, ReadersStay DEF IInv, Leave
<1>5. GateInv'
  <2>1. Down \in [at : Places, ask : 0..Len(asks'), row : SoundRow'] /\ Down.at = "down"
    BY <1>1, AwayIsFine, SoundStays DEF IInv, Down
  <2>2. gate' = [gate EXCEPT ![r] = Down]
    BY DEF Leave, Gone
  <2>3. \A s \in Runs \ {r} : Busy(s) => asks'[gate[s].ask].outcome = "waiting"
    BY <1>1 DEF IInv, GateInv
  <2> QED
    BY <1>1, <2>1, <2>2, <2>3, RunMoves DEF IInv
<1>6. MiscInv'
  BY <1>1 DEF IInv, MiscInv, Leave, hist
<1> QED
  BY <1>1, <1>2, <1>3, <1>4, <1>5, <1>6 DEF IInv

\* The request a run waits for ends, and the run waits no more: the others wait for
\* other requests.
LEMMA WaitEnds ==
  ASSUME IInv, NEW r \in Runs, Busy(r), UNCHANGED <<backend, answers>>,
         NEW outcome \in Outcomes \ {"waiting"}, NEW by \in Nat,
         \/ asks' = [asks EXCEPT ![gate[r].ask].outcome = outcome, ![gate[r].ask].by = by]
         \/ asks' = [asks EXCEPT ![gate[r].ask].outcome = outcome] /\ by = asks[gate[r].ask].by,
         gate' = [gate EXCEPT ![r] = Down] \/ gate' = [gate EXCEPT ![r] = [Down EXCEPT !.at = "free"]]
  PROVE  /\ HistoryInv' /\ Grows /\ GateInv'
         /\ gate[r].ask \in 1..Len(asks) /\ Restates(gate[r].ask)
         /\ asks[gate[r].ask].outcome = "waiting"
         /\ asks'[gate[r].ask].outcome = outcome /\ asks'[gate[r].ask].by = by
<1> DEFINE k == gate[r].ask
<1>1. /\ k \in 1..Len(asks) /\ asks[k].outcome = "waiting"
  <2>1. gate[r].ask \in 0..Len(asks) /\ gate[r].ask # 0
    BY DEF IInv, GateInv
  <2>2. Len(asks) \in Nat
    BY DEF IInv, HistoryInv
  <2> QED
    BY <2>1, <2>2 DEF IInv, GateInv
<1>2. /\ HistoryInv' /\ Grows /\ Restates(k)
      /\ asks'[k].outcome = outcome /\ asks'[k].by = by
  BY <1>1, RequestEnds DEF IInv
<1>3. \A s \in Runs \ {r} : Busy(s) => asks'[gate[s].ask].outcome = "waiting"
  <2> SUFFICES ASSUME NEW s \in Runs \ {r}, Busy(s)
               PROVE  asks'[gate[s].ask].outcome = "waiting"
    OBVIOUS
  <2>1. gate[s].ask \in 0..Len(asks) /\ gate[s].ask # 0 /\ gate[s].ask # k
    BY DEF IInv, GateInv
  <2>2. Len(asks) \in Nat
    BY DEF IInv, HistoryInv
  <2>3. asks'[gate[s].ask] = asks[gate[s].ask]
    BY <1>2, <2>1, <2>2 DEF Restates
  <2> QED
    BY <2>3 DEF IInv, GateInv
<1>4. GateInv'
  <2>1. PICK g \in {Down, [Down EXCEPT !.at = "free"]} : gate' = [gate EXCEPT ![r] = g]
    OBVIOUS
  <2>2. g \in [at : Places, ask : 0..Len(asks), row : SoundRow]
    BY <2>1, AwayIsFine DEF IInv
  <2>3. g.at \in {"down", "free"}
    BY <2>1 DEF Down
  <2>4. g \in [at : Places, ask : 0..Len(asks'), row : SoundRow']
    BY <1>2, <2>2, SoundStays DEF IInv, Restates
  <2> QED
    BY <1>2, <1>3, <2>1, <2>3, <2>4, RunMoves DEF IInv
<1> QED
  BY <1>1, <1>2, <1>4

\* A process that dies takes nothing with it but its wait.
LEMMA CrashKeeps ==
  ASSUME IInv, NEW r \in Runs, Crash(r)
  PROVE  IInv'
<1> DEFINE k == gate[r].ask
<1>1. /\ HistoryInv' /\ Grows /\ GateInv' /\ Restates(k)
      /\ k \in 1..Len(asks) /\ asks'[k].outcome = "abandoned"
  <2>1. Busy(r) /\ UNCHANGED <<backend, answers>>
    BY DEF Crash, Busy
  <2>2. /\ asks' = [asks EXCEPT ![gate[r].ask].outcome = "abandoned"]
        /\ gate' = [gate EXCEPT ![r] = Down]
    BY DEF Crash, Gone
  <2>3. "abandoned" \in Outcomes \ {"waiting"}
    BY DEF Outcomes
  <2>4. asks[gate[r].ask].by \in Nat
    <3>1. gate[r].ask \in 0..Len(asks) /\ gate[r].ask # 0
      BY <2>1 DEF IInv, GateInv
    <3>2. asks \in Seq(AskRecord) /\ Len(asks) \in Nat
      BY DEF IInv, HistoryInv
    <3>3. asks[gate[r].ask] \in AskRecord
      BY <3>1, <3>2
    <3> QED
      BY <3>3 DEF AskRecord
  <2> QED
    BY <2>1, <2>2, <2>3, <2>4, WaitEnds
<1>2. GrantedInv'
  <2>1. Len(asks') = Len(asks) /\ \A n \in 1..Len(asks) : n # k => asks'[n] = asks[n]
    BY <1>1 DEF Restates
  <2> QED
    BY <1>1, <2>1, GrantsStay DEF IInv
<1>3. StoreInv'
  <2>1. /\ table' \in SoundRows' /\ copy \in [Runs -> SoundRows'] /\ NoRows \in SoundRows'
    BY <1>1, SoundStays, NothingIsSound DEF IInv, StoreInv, Crash
  <2>2. copy' \in [Runs -> SoundRows']
    BY <2>1 DEF Crash, Gone
  <2>3. client' \in [Runs -> BOOLEAN]
    <3>1. client \in [Runs -> BOOLEAN]
      BY DEF IInv, StoreInv
    <3>2. client' = [client EXCEPT ![r] = FALSE] /\ FALSE \in BOOLEAN
      BY DEF Crash, Gone
    <3> QED
      BY <3>1, <3>2, OneValueMore, Zenon
  <2>4. backend' \in Backends
    BY DEF IInv, StoreInv, Crash
  <2> QED
    BY <2>1, <2>2, <2>3, <2>4 DEF StoreInv
<1>4. ReaderInv'
  BY <1>1, ReadersStay DEF IInv, Crash
<1>5. MiscInv'
  BY <1>1, ApprovalAssumption DEF IInv, MiscInv, Crash, Restates
<1> QED
  BY <1>1, <1>2, <1>3, <1>4, <1>5 DEF IInv

\* A new request has a number nobody waits for.
LEMMA OpenKeeps ==
  ASSUME IInv, NEW r \in Runs, NEW q \in Requests, NEW lands \in BOOLEAN, Open(r, q, lands)
  PROVE  IInv'
<1> DEFINE n   == Len(asks) + 1
           row == [ask |-> n, by |-> 0]
<1>0. Len(asks) \in Nat
  BY DEF IInv, HistoryInv
<1>1. /\ HistoryInv' /\ Grows
      /\ Len(asks') = n
      /\ \A i \in 1..Len(asks) : asks'[i] = asks[i]
      /\ asks'[n] = [what |-> q, outcome |-> "waiting", by |-> 0]
  <2>1. /\ UNCHANGED <<backend, answers>>
        /\ asks' = Append(asks, [what |-> q, outcome |-> "waiting", by |-> 0])
    BY DEF Open
  <2> QED
    BY <2>1, RequestMade DEF IInv
<1>2. GrantedInv'
  BY <1>0, <1>1, GrantsStay DEF IInv
<1>3. row \in SoundRow' /\ NoRow \in SoundRow'
  <2>1. n \in 0..Len(asks') /\ 0 \in 0..Len(answers') /\ 0 \in 0..Len(asks')
    BY <1>0, <1>1 DEF HistoryInv
  <2> QED
    BY <2>1 DEF SoundRow, Row, NoRow
<1>4. StoreInv'
  <2>1. /\ table \in SoundRows' /\ copy \in [Runs -> SoundRows'] /\ q[1] \in Keys /\ Keys' = Keys
    BY <1>1, SoundStays DEF IInv, StoreInv, Keys
  <2> HIDE DEF row, n
  <2>2. \A rows \in SoundRows' : [rows EXCEPT ![q[1]] = row] \in SoundRows'
    BY <1>3, <2>1 DEF SoundRows
  <2>3. copy' \in [Runs -> SoundRows']
    <3>1. copy' = [copy EXCEPT ![r] = [copy[r] EXCEPT ![q[1]] = row]] \/ copy' = copy
      BY DEF Open, row, n
    <3> QED
      BY <2>1, <2>2, <3>1
  <2>4. table' \in SoundRows'
    <3>1. \/ table' = table
          \/ table' = [table EXCEPT ![q[1]] = row]
          \/ table' = [copy[r] EXCEPT ![q[1]] = row]
      BY DEF Open, Stored, row, n
    <3> QED
      BY <2>1, <2>2, <3>1
  <2>5. backend' \in Backends /\ client' \in [Runs -> BOOLEAN]
    BY DEF IInv, StoreInv, Open
  <2> QED
    BY <2>3, <2>4, <2>5 DEF StoreInv
<1>5. ReaderInv'
  BY <1>1, ReadersStay DEF IInv, Open
<1>6. GateInv'
  <2> DEFINE at == IF lands \/ backend = "table" THEN "opened" ELSE "unopened"
             g  == [Down EXCEPT !.at = at, !.ask = n]
  <2>0. at \in {"opened", "unopened"}
    OBVIOUS
  <2>1. gate' = [gate EXCEPT ![r] = g]
    BY DEF Open
  <2> HIDE DEF at
  <2>2. g \in [at : Places, ask : 0..Len(asks'), row : SoundRow'] /\ g.at = at /\ g.ask = n
    <3>1. Down \in [at : Places, ask : 0..Len(asks'), row : SoundRow']
      BY <1>0, <1>1, <1>3 DEF Down, Places
    <3>2. n \in 0..Len(asks') /\ at \in Places
      BY <1>0, <1>1, <2>0 DEF Places
    <3> HIDE DEF n
    <3> QED
      BY <3>1, <3>2
  <2>3. asks'[n].outcome = "waiting" /\ n # 0
    BY <1>0, <1>1
  <2>4. \A s \in Runs \ {r} :
          Busy(s) => gate[s].ask # n /\ asks'[gate[s].ask].outcome = "waiting"
    <3> SUFFICES ASSUME NEW s \in Runs \ {r}, Busy(s)
                 PROVE  gate[s].ask # n /\ asks'[gate[s].ask].outcome = "waiting"
      OBVIOUS
    <3>1. gate[s].ask \in 1..Len(asks)
      BY <1>0 DEF IInv, GateInv
    <3>2. gate[s].ask # n
      BY <1>0, <3>1
    <3> QED
      BY <1>1, <3>1, <3>2 DEF IInv, GateInv
  <2> HIDE DEF g, n
  <2> QED
    BY <1>1, <2>0, <2>1, <2>2, <2>3, <2>4, RunMoves DEF IInv
<1>7. MiscInv'
  <2>1. 1..Len(asks) \subseteq 1..Len(asks')
    BY <1>0, <1>1
  <2>2. faults' \in 0..MaxFaults
    <3>1. faults' = faults \/ (faults < MaxFaults /\ faults' = faults + 1)
      <4>1. CASE lands \/ ~client[r]
        BY <4>1, Zenon DEF Open
      <4>2. CASE ~(lands \/ ~client[r])
        BY <4>2, Zenon DEF Open
      <4> QED
        BY <4>1, <4>2, Zenon
    <3>2. faults \in 0..MaxFaults /\ MaxFaults \in Nat
      BY ApprovalAssumption DEF IInv, MiscInv
    <3> QED
      BY <3>1, <3>2
  <2>3. lossy' \in BOOLEAN /\ expired' = expired /\ posted' = posted
    BY DEF Open
  <2> QED
    BY <2>1, <2>2, <2>3 DEF IInv, MiscInv
<1> QED
  BY <1>1, <1>2, <1>4, <1>5, <1>6, <1>7 DEF IInv

\* A step that makes no history.
LEMMA Still ==
  ASSUME IInv, UNCHANGED <<backend, asks, answers>>
  PROVE  /\ HistoryInv' /\ Grows /\ GrantedInv'
         /\ SoundRow \subseteq SoundRow' /\ SoundRows \subseteq SoundRows'
         /\ Reading \subseteq Reading'
<1>1. HistoryInv' /\ Grows
  BY HistoryStays DEF IInv
<1>2. GrantedInv'
  BY <1>1, GrantsStay DEF IInv
<1> QED
  BY <1>1, <1>2, SoundStays DEF IInv

LEMMA PostKeeps ==
  ASSUME IInv, NEW r \in Runs, Post(r)
  PROVE  IInv'
<1>1. UNCHANGED <<channel, backend, reader, expired, faults, asks, answers, lossy>>
  BY DEF Post, channel
<1>2. /\ HistoryInv' /\ Grows /\ GrantedInv' /\ StoreInv' /\ ReaderInv'
      /\ SoundRow \subseteq SoundRow'
  BY <1>1, Still, StoreStays, ReadersStay DEF IInv
<1>3. gate[r].at = "opened" /\ gate[r].ask \in 1..Len(asks)
  BY DEF IInv, GateInv, HistoryInv, Post, Busy
<1>4. GateInv'
  <2> DEFINE g == [gate[r] EXCEPT !.at = "polling"]
  <2>1. gate' = [gate EXCEPT ![r] = g]
    BY DEF Post
  <2>2. gate[r] \in [at : Places, ask : 0..Len(asks), row : SoundRow]
    BY DEF IInv, GateInv
  <2>3. /\ g \in [at : Places, ask : 0..Len(asks'), row : SoundRow']
        /\ g.at = "polling" /\ g.ask = gate[r].ask
    BY <1>1, <1>2, <2>2 DEF Places
  <2>4. /\ Busy(r)
        /\ \A s \in Runs : Busy(s) => gate[s].ask # 0 /\ asks'[gate[s].ask].outcome = "waiting"
        /\ \A s \in Runs \ {r} : Busy(s) => gate[s].ask # gate[r].ask
    BY <1>1, <1>3 DEF IInv, GateInv, Busy
  <2> HIDE DEF g
  <2> QED
    BY <1>2, <2>1, <2>3, <2>4, RunMoves DEF IInv
<1>5. MiscInv'
  BY <1>1, <1>3 DEF IInv, MiscInv, Post
<1> QED
  BY <1>2, <1>4, <1>5 DEF IInv

LEMMA PollKeeps ==
  ASSUME IInv, NEW r \in Runs, Poll(r)
  PROVE  IInv'
<1>1. UNCHANGED <<backend, table, client, reader, expired, faults, asks, answers, posted, lossy>>
  BY DEF Poll, hist
<1>2. /\ HistoryInv' /\ Grows /\ GrantedInv' /\ ReaderInv'
      /\ SoundRow \subseteq SoundRow' /\ SoundRows \subseteq SoundRows'
  BY <1>1, Still, ReadersStay DEF IInv
<1>3. gate[r].at = "polling" /\ gate[r].ask \in 1..Len(asks)
  BY DEF IInv, GateInv, HistoryInv, Poll, Busy
<1>4. StoreInv'
  <2>1. table' \in SoundRows' /\ copy \in [Runs -> SoundRows']
    BY <1>1, <1>2 DEF IInv, StoreInv
  <2>2. copy' \in [Runs -> SoundRows']
    BY <1>1, <2>1 DEF Poll
  <2> QED
    BY <1>1, <2>1, <2>2 DEF IInv, StoreInv
<1>5. GateInv'
  <2> DEFINE row == table[KeyOf(gate[r].ask)]
             g   == [gate[r] EXCEPT !.at = "heard", !.row = row]
  <2>1. gate' = gate \/ (row.by # 0 /\ gate' = [gate EXCEPT ![r] = g])
    BY DEF Poll, IInv, GateInv
  <2>2. row \in SoundRow
    <3>1. KeyOf(gate[r].ask) \in Keys /\ table \in [Keys -> SoundRow]
      BY <1>3, HasRow DEF IInv, StoreInv, SoundRows
    <3> QED
      BY <3>1
  <2>3. gate[r] \in [at : Places, ask : 0..Len(asks), row : SoundRow]
    BY DEF IInv, GateInv
  <2> HIDE DEF row
  <2>4. /\ g \in [at : Places, ask : 0..Len(asks'), row : SoundRow']
        /\ g.at = "heard" /\ g.ask = gate[r].ask /\ g.row = row
    BY <1>1, <1>2, <2>2, <2>3 DEF Places
  <2>5. /\ Busy(r)
        /\ \A s \in Runs : Busy(s) => gate[s].ask # 0 /\ asks'[gate[s].ask].outcome = "waiting"
        /\ \A s \in Runs \ {r} : Busy(s) => gate[s].ask # gate[r].ask
    BY <1>1, <1>3 DEF IInv, GateInv, Busy
  <2> HIDE DEF g
  <2>6. CASE gate' = gate
    BY <1>1, <1>2, <2>6, RunsStay DEF IInv
  <2>7. CASE row.by # 0 /\ gate' = [gate EXCEPT ![r] = g]
    BY <1>2, <2>4, <2>5, <2>7, RunMoves DEF IInv
  <2> QED
    BY <2>1, <2>6, <2>7
<1>6. MiscInv'
  BY <1>1 DEF IInv, MiscInv
<1> QED
  BY <1>2, <1>4, <1>5, <1>6 DEF IInv

\* A request that ends without a yes.
LEMMA RefusalKeeps ==
  ASSUME IInv, NEW r \in Runs, Busy(r),
         NEW outcome \in Outcomes \ {"waiting", "granted"}, NEW by \in Nat, Ends(r, outcome, by),
         UNCHANGED <<channel, reader, expired, faults, answers, posted, lossy>>
  PROVE  IInv'
<1>1. UNCHANGED <<backend, answers>>
  BY DEF channel
<1>2. /\ HistoryInv' /\ Grows /\ GateInv' /\ Restates(gate[r].ask)
      /\ gate[r].ask \in 1..Len(asks) /\ asks'[gate[r].ask].outcome # "granted"
  BY <1>1, WaitEnds DEF Ends
<1>3. GrantedInv'
  <2>1. /\ Len(asks') = Len(asks)
        /\ \A n \in 1..Len(asks) : n # gate[r].ask => asks'[n] = asks[n]
    BY <1>2 DEF Restates
  <2> QED
    BY <1>2, <2>1, GrantsStay DEF IInv
<1>4. StoreInv' /\ ReaderInv'
  BY <1>1, <1>2, StoreStays, ReadersStay DEF IInv
<1>5. MiscInv'
  BY <1>2 DEF IInv, MiscInv, Restates
<1> QED
  BY <1>2, <1>3, <1>4, <1>5 DEF IInv

\* The row that was heard is decided, by an answer that is on record.
LEMMA HeardIsSound ==
  ASSUME IInv, NEW r \in Runs, gate[r].at = "heard"
  PROVE  /\ gate[r].row.by \in 1..Len(answers)
         /\ gate[r].row.ask = answers[gate[r].row.by].ask
         /\ answers[gate[r].row.by].verdict \in Verdicts
<1>1. Len(answers) \in Nat /\ answers \in Seq(AnswerRecord)
  BY DEF IInv, HistoryInv
<1>2. gate[r].row \in SoundRow /\ gate[r].row.by # 0
  BY DEF IInv, GateInv
<1>3. gate[r].row.by \in 1..Len(answers) /\ gate[r].row.ask = answers[gate[r].row.by].ask
  BY <1>1, <1>2 DEF SoundRow, Row
<1>4. answers[gate[r].row.by] \in AnswerRecord
  BY <1>1, <1>3
<1> QED
  BY <1>3, <1>4 DEF AnswerRecord

\* What a grant rests on: an answer about the same, given in time, that says yes.
LEMMA GrantIsEarned ==
  ASSUME IInv, NEW r \in Runs, gate[r].at = "heard",
         Judged(gate[r].ask, gate[r].row) = "granted"
  PROVE  /\ asks[gate[r].row.ask].what = asks[gate[r].ask].what
         /\ answers[gate[r].row.by].verdict = "approve"
         /\ gate[r].ask \notin expired
BY HeardIsSound DEF Judged, WhatOf, Verdicts

LEMMA SettleKeeps ==
  ASSUME IInv, NEW r \in Runs, Settle(r)
  PROVE  IInv'
<1> DEFINE k       == gate[r].ask
           by      == gate[r].row.by
           outcome == Judged(k, gate[r].row)
<1>1. /\ gate[r].at = "heard" /\ Busy(r)
      /\ UNCHANGED <<channel, reader, expired, faults, answers, posted, lossy>>
      /\ Ends(r, outcome, by)
  BY DEF Settle, Busy
<1>2. /\ by \in 1..Len(answers) /\ gate[r].row.ask = answers[by].ask
  BY <1>1, HeardIsSound
<1>3. outcome \in {"error", "denied", "too_late", "granted"} /\ by \in Nat
  BY <1>2 DEF Judged
<1>4. CASE outcome # "granted"
  <2>1. outcome \in Outcomes \ {"waiting", "granted"}
    BY <1>3, <1>4 DEF Outcomes
  <2> HIDE DEF outcome, by
  <2> QED
    BY <1>1, <1>3, <2>1, RefusalKeeps
<1>5. CASE outcome = "granted"
  <2>1. UNCHANGED <<backend, answers>>
    BY <1>1 DEF channel
  <2>2. /\ HistoryInv' /\ Grows /\ GateInv' /\ Restates(k)
        /\ k \in 1..Len(asks) /\ asks'[k].by = by
    <3>1. "granted" \in Outcomes \ {"waiting"}
      BY DEF Outcomes
    <3>2. /\ asks' = [asks EXCEPT ![gate[r].ask].outcome = "granted", ![gate[r].ask].by = by]
          /\ gate' = [gate EXCEPT ![r] = [Down EXCEPT !.at = "free"]]
      BY <1>1, <1>5 DEF Ends
    <3>3. by \in Nat /\ Busy(r)
      BY <1>1, <1>3
    <3> HIDE DEF by
    <3> QED
      BY <2>1, <3>1, <3>2, <3>3, WaitEnds
  <2>3. asks[answers[by].ask].what = asks[k].what /\ answers[by].verdict = "approve"
    BY <1>1, <1>2, <1>5, GrantIsEarned
  <2>4. answers[by].ask \in 1..Len(asks)
    BY <1>2 DEF IInv, HistoryInv
  <2> HIDE DEF by, k
  <2>5. GrantedInv'
    <3> SUFFICES ASSUME NEW n \in Granted'
                 PROVE  /\ asks'[n].by \in 1..Len(answers)
                        /\ asks'[answers[asks'[n].by].ask].what = asks'[n].what
                        /\ answers[asks'[n].by].verdict = "approve"
      BY <2>1 DEF GrantedInv, AboutTheSame
    <3>1. /\ n \in 1..Len(asks) /\ Len(asks') = Len(asks)
          /\ \A i \in 1..Len(asks) : asks'[i].what = asks[i].what
      BY <2>2 DEF Restates, Grows, Granted
    <3>2. CASE n = k
      BY <1>2, <2>2, <2>3, <2>4, <3>1, <3>2
    <3>3. CASE n # k
      <4>1. asks'[n] = asks[n]
        BY <2>2, <3>1, <3>3 DEF Restates
      <4>2. n \in Granted
        BY <3>1, <4>1 DEF Granted
      <4>3. /\ asks[n].by \in 1..Len(answers)
            /\ asks[answers[asks[n].by].ask].what = asks[n].what
            /\ answers[asks[n].by].verdict = "approve"
        BY <4>2 DEF IInv, GrantedInv, AboutTheSame
      <4>4. answers[asks[n].by].ask \in 1..Len(asks)
        BY <4>3 DEF IInv, HistoryInv
      <4> QED
        BY <3>1, <4>1, <4>3, <4>4
    <3> QED
      BY <3>2, <3>3
  <2>6. StoreInv' /\ ReaderInv'
    BY <1>1, <2>1, <2>2, StoreStays, ReadersStay DEF IInv
  <2>7. MiscInv'
    BY <1>1, <2>2 DEF IInv, MiscInv, Restates
  <2> QED
    BY <2>2, <2>5, <2>6, <2>7 DEF IInv
<1> QED
  BY <1>4, <1>5

LEMMA ExpireKeeps ==
  ASSUME IInv, NEW n, Expire(n)
  PROVE  IInv'
<1>1. UNCHANGED <<channel, backend, gate, reader, faults, asks, answers, posted, lossy>>
  BY DEF Expire, hist, channel
<1>2. HistoryInv' /\ Grows /\ GrantedInv' /\ StoreInv' /\ ReaderInv'
  BY <1>1, Still, StoreStays, ReadersStay DEF IInv
<1>3. GateInv'
  BY <1>1, <1>2, RunsStay DEF IInv
<1>4. MiscInv'
  BY <1>1 DEF IInv, MiscInv, Expire
<1> QED
  BY <1>2, <1>3, <1>4 DEF IInv

-----------------------------------------------------------------------------
(* Every step of whoever answers.                                          *)

\* A row is read that is open: what was read is sound.
LEMMA ReadsKeeps ==
  ASSUME IInv, NEW h \in Humans, NEW via \in {"cli", "link"}, NEW meant \in 1..Len(asks),
         NEW verdict \in Verdicts, Reads(h, via, KeyOf(meant), meant, verdict),
         via = "link" =>
           /\ WhatOf(table[KeyOf(meant)].ask) = WhatOf(meant)
           /\ backend = "table"
  PROVE  IInv'
<1> DEFINE k == KeyOf(meant)
           v == [via |-> via, key |-> k, row |-> table[k], meant |-> meant,
                 verdict |-> verdict, file |-> IF backend = "json" THEN table ELSE NoRows]
<1>1. UNCHANGED <<channel, backend, gate, expired, faults, asks, answers, posted, lossy>>
  BY DEF Reads, channel, hist
<1>2. /\ HistoryInv' /\ Grows /\ GrantedInv' /\ StoreInv' /\ Reading \subseteq Reading'
  BY <1>1, Still, StoreStays DEF IInv
<1>3. GateInv'
  BY <1>1, <1>2, RunsStay DEF IInv
<1>4. k \in Keys
  BY HasRow DEF IInv
<1>5. table[k] \in SoundRow /\ table \in SoundRows /\ NoRows \in SoundRows
  BY <1>4, NothingIsSound DEF IInv, StoreInv, SoundRows
<1>6. table[k].ask # 0 /\ table[k].by = 0 /\ reader' = [reader EXCEPT ![h] = v]
  BY DEF Reads
<1>7. /\ v.row = table[k] /\ v.meant = meant /\ v.via = via
  OBVIOUS
<1>8. v \in Reading
  <2> DEFINE file == IF backend = "json" THEN table ELSE NoRows
  <2>1. file \in SoundRows
    BY <1>5
  <2> HIDE DEF file, k
  <2> QED
    BY <1>4, <1>5, <2>1 DEF Reading
<1>9. v.via = "link" =>
        asks'[v.row.ask].what = asks'[v.meant].what /\ backend = "table"
  BY <1>1, <1>7 DEF WhatOf
<1> HIDE DEF v
<1>10. ReaderInv'
  BY <1>1, <1>2, <1>6, <1>7, <1>8, <1>9, ReadersMove DEF IInv
<1>11. MiscInv'
  BY <1>1 DEF IInv, MiscInv
<1> QED
  BY <1>2, <1>3, <1>10, <1>11 DEF IInv

LEMMA CliReadsKeeps ==
  ASSUME IInv, NEW h \in Humans, NEW meant \in 1..Len(asks), NEW verdict \in Verdicts,
         CliReads(h, meant, verdict)
  PROVE  IInv'
BY ReadsKeeps DEF CliReads

LEMMA LinkReadsKeeps ==
  ASSUME IInv, NEW h \in Humans, NEW meant \in 1..Len(asks), NEW verdict \in Verdicts,
         LinkReads(h, meant, verdict)
  PROVE  IInv'
BY ReadsKeeps DEF LinkReads

\* An answer lands.
LEMMA RecordedKeeps ==
  ASSUME IInv, NEW h \in Humans, reader[h] # Idle, Recorded(h),
         reader' = [reader EXCEPT ![h] = Idle],
         UNCHANGED <<backend, copy, client, gate, expired, faults, asks, posted, lossy>>
  PROVE  IInv'
<1> DEFINE row == [ask |-> reader[h].row.ask, by |-> Len(answers) + 1]
<1>1. /\ HistoryInv' /\ Grows
      /\ Len(answers') = Len(answers) + 1
      /\ \A i \in 1..Len(answers) : answers'[i] = answers[i]
      /\ row \in SoundRow'
  BY AnswerRecorded DEF IInv
<1>2. SoundRow \subseteq SoundRow' /\ SoundRows \subseteq SoundRows'
  BY <1>1, SoundStays DEF IInv
<1>3. GrantedInv'
  BY <1>1, GrantsStay DEF IInv
<1>4. StoreInv'
  <2>1. reader[h].key \in Keys /\ reader[h].file \in SoundRows /\ Keys' = Keys
    BY DEF IInv, ReaderInv, Reading, Keys
  <2>2. /\ table \in SoundRows /\ copy \in [Runs -> SoundRows]
        /\ client' \in [Runs -> BOOLEAN] /\ backend' \in Backends
    BY DEF IInv, StoreInv
  <2> HIDE DEF row
  <2>3. PICK rows \in {reader[h].file, table} : table' = [rows EXCEPT ![reader[h].key] = row]
    BY DEF Recorded, row
  <2>4. rows \in [Keys -> SoundRow']
    BY <1>2, <2>1, <2>2, <2>3 DEF SoundRows
  <2>5. table' \in SoundRows'
    BY <1>1, <2>1, <2>3, <2>4 DEF SoundRows
  <2>6. copy' \in [Runs -> SoundRows']
    BY <1>2, <2>2
  <2> QED
    BY <2>2, <2>5, <2>6 DEF StoreInv
<1>5. ReaderInv'
  BY <1>1, ReadersMove DEF IInv
<1>6. GateInv'
  BY <1>1, RunsStay DEF IInv
<1>7. MiscInv'
  BY DEF IInv, MiscInv
<1> QED
  BY <1>1, <1>3, <1>4, <1>5, <1>6, <1>7 DEF IInv

\* An answer is lost, or comes too late to be written.
LEMMA LostKeeps ==
  ASSUME IInv, NEW h \in Humans, reader' = [reader EXCEPT ![h] = Idle],
         UNCHANGED <<channel, gate, expired, asks, answers, posted>>,
         faults' \in 0..MaxFaults, lossy' \in BOOLEAN
  PROVE  IInv'
<1>1. UNCHANGED backend
  BY DEF channel
<1>2. HistoryInv' /\ Grows /\ GrantedInv' /\ StoreInv'
  BY <1>1, Still, StoreStays DEF IInv
<1>3. ReaderInv'
  BY <1>1, <1>2, ReadersMove DEF IInv
<1>4. GateInv'
  BY <1>2, RunsStay DEF IInv
<1>5. MiscInv'
  BY DEF IInv, MiscInv
<1> QED
  BY <1>2, <1>3, <1>4, <1>5 DEF IInv

LEMMA CliWritesKeeps ==
  ASSUME IInv, NEW h \in Humans, NEW lands \in BOOLEAN, CliWrites(h, lands)
  PROVE  IInv'
<1>1. /\ reader[h] # Idle /\ reader' = [reader EXCEPT ![h] = Idle]
      /\ UNCHANGED <<backend, copy, client, gate, expired, asks, posted>>
  BY DEF CliWrites, Idle
<1>2. CASE lands
  BY <1>1, <1>2, RecordedKeeps DEF CliWrites
<1>3. CASE ~lands
  <2>1. /\ faults < MaxFaults /\ faults' = faults + 1 /\ lossy' = TRUE
        /\ UNCHANGED <<answers, table>>
    BY <1>3 DEF CliWrites
  <2>2. faults' \in 0..MaxFaults /\ lossy' \in BOOLEAN
    BY <2>1, ApprovalAssumption DEF IInv, MiscInv
  <2> QED
    BY <1>1, <2>1, <2>2, LostKeeps DEF channel
<1> QED
  BY <1>2, <1>3

LEMMA LinkWritesKeeps ==
  ASSUME IInv, NEW h \in Humans, LinkWrites(h)
  PROVE  IInv'
<1>1. /\ reader[h] # Idle /\ reader' = [reader EXCEPT ![h] = Idle]
      /\ UNCHANGED <<backend, copy, client, gate, expired, faults, asks, posted, lossy>>
  BY DEF LinkWrites, Idle
<1>2. CASE table[reader[h].key] = reader[h].row
  BY <1>1, <1>2, RecordedKeeps DEF LinkWrites
<1>3. CASE table[reader[h].key] # reader[h].row
  BY <1>1, <1>3, LostKeeps DEF LinkWrites, channel, IInv, MiscInv
<1> QED
  BY <1>2, <1>3

LEMMA ResetKeeps ==
  ASSUME IInv, Reset
  PROVE  IInv'
<1>1. /\ table' = NoRows
      /\ UNCHANGED <<backend, copy, client, gate, reader, expired, faults, asks, answers,
                     posted, lossy>>
  BY DEF Reset, hist
<1>2. HistoryInv' /\ Grows /\ GrantedInv' /\ ReaderInv' /\ SoundRows \subseteq SoundRows'
  BY <1>1, Still, ReadersStay DEF IInv
<1>3. StoreInv'
  BY <1>1, <1>2, NothingIsSound DEF IInv, StoreInv
<1>4. GateInv'
  BY <1>1, <1>2, RunsStay DEF IInv
<1>5. MiscInv'
  BY <1>1 DEF IInv, MiscInv
<1> QED
  BY <1>2, <1>3, <1>4, <1>5 DEF IInv

-----------------------------------------------------------------------------
(* The invariant.                                                          *)

LEMMA InitInv == Init => IInv
<1> SUFFICES ASSUME Init
             PROVE  IInv
  OBVIOUS
<1>1. /\ asks = <<>> /\ answers = <<>> /\ Len(asks) = 0 /\ Len(answers) = 0
  BY DEF Init
<1>2. HistoryInv /\ GrantedInv
  BY <1>1 DEF HistoryInv, GrantedInv, Granted
<1>3. StoreInv
  <2>1. client \in [Runs -> BOOLEAN]
    BY DEF Init
  <2>2. /\ backend \in Backends /\ table = NoRows /\ copy = [r \in Runs |-> NoRows]
    BY DEF Init
  <2> QED
    BY <1>2, <2>1, <2>2, NothingIsSound DEF StoreInv
<1>4. ReaderInv
  BY DEF Init, ReaderInv
<1>5. GateInv
  <2>1. Down \in [at : Places, ask : 0..Len(asks), row : SoundRow] /\ Down.at = "down"
    BY <1>2, AwayIsFine DEF Down
  <2>2. gate = [r \in Runs |-> Down]
    BY DEF Init
  <2> QED
    BY <2>1, <2>2 DEF GateInv, Busy
<1>6. MiscInv
  <2>1. expired = {} /\ posted = {} /\ faults = 0 /\ lossy = FALSE
    BY DEF Init
  <2>2. 0 \in 0..MaxFaults
    BY ApprovalAssumption
  <2> QED
    BY <2>1, <2>2 DEF MiscInv
<1> QED
  BY <1>2, <1>3, <1>4, <1>5, <1>6 DEF IInv

\* A step that changes nothing.
LEMMA StutterKeeps ==
  ASSUME IInv, UNCHANGED vars
  PROVE  IInv'
<1>1. UNCHANGED <<channel, backend, gate, reader, expired, faults, asks, answers, posted, lossy>>
  BY DEF vars, channel, hist
<1>2. HistoryInv' /\ Grows /\ GrantedInv' /\ StoreInv' /\ ReaderInv'
  BY <1>1, Still, StoreStays, ReadersStay DEF IInv
<1>3. GateInv'
  BY <1>1, <1>2, RunsStay DEF IInv
<1>4. MiscInv'
  BY <1>1 DEF IInv, MiscInv
<1> QED
  BY <1>2, <1>3, <1>4 DEF IInv

LEMMA NextInv == IInv /\ [Next]_vars => IInv'
<1> SUFFICES ASSUME IInv, [Next]_vars
             PROVE  IInv'
  OBVIOUS
<1>1. ASSUME NEW r \in Runs, Asks(r)
      PROVE  IInv'
  BY <1>1, ConnectKeeps, OpenKeeps, LeaveKeeps, CrashKeeps DEF Asks
<1>2. ASSUME NEW r \in Runs, Waits(r)
      PROVE  IInv'
  <2>1. CASE PostFails(r)
    <3>1. "error" \in Outcomes \ {"waiting", "granted"} /\ 0 \in Nat
      BY DEF Outcomes
    <3> QED
      BY <2>1, <3>1, RefusalKeeps DEF PostFails, Busy
  <2>2. CASE GiveUp(r)
    <3>1. "timed_out" \in Outcomes \ {"waiting", "granted"} /\ 0 \in Nat
      BY DEF Outcomes
    <3> QED
      BY <2>2, <3>1, RefusalKeeps DEF GiveUp, Busy
  <2> QED
    BY <1>2, <2>1, <2>2, PostKeeps, PollKeeps, SettleKeeps DEF Waits
<1>3. ASSUME NEW h \in Humans, Answers(h)
      PROVE  IInv'
  BY <1>3, CliReadsKeeps, LinkReadsKeeps, CliWritesKeeps, LinkWritesKeeps DEF Answers, Verdicts
<1> QED
  BY <1>1, <1>2, <1>3, ExpireKeeps, ResetKeeps, StutterKeeps DEF Next

\* What every row, copy, wait and answer has to do with the history.
THEOREM Invariant == Spec => []IInv
<1>1. Init => IInv
  BY InitInv
<1>2. IInv /\ [Next]_vars => IInv'
  BY NextInv
<1> QED
  BY <1>1, <1>2, PTL DEF Spec

-----------------------------------------------------------------------------
(* What follows.                                                           *)

\* Every variable holds a value of its kind, and a run waits for a request of its own.
THEOREM TypeCorrect == Spec => []TypeOK
<1>1. IInv => TypeOK
  <2> SUFFICES ASSUME IInv
               PROVE  TypeOK
    OBVIOUS
  <2>1. /\ backend \in Backends /\ table \in [Keys -> Row] /\ copy \in [Runs -> [Keys -> Row]]
        /\ client \in [Runs -> BOOLEAN]
    BY DEF IInv, StoreInv, SoundRows, SoundRow
  <2>2. \A k \in Keys : table[k].by # 0 => table[k].ask = answers[table[k].by].ask
    BY DEF IInv, StoreInv, SoundRows, SoundRow
  <2>3. /\ gate \in [Runs -> [at : Places, ask : 0..Len(asks), row : Row]]
        /\ \A r \in Runs :
             Busy(r) => gate[r].ask # 0 /\ asks[gate[r].ask].outcome = "waiting"
    BY DEF IInv, GateInv, SoundRow
  <2>4. MiscInv
    BY DEF IInv
  <2> QED
    BY <2>1, <2>2, <2>3, <2>4 DEF TypeOK, MiscInv, Places, Busy
<1> QED
  BY <1>1, Invariant, PTL

\* A click on a card authorises what that card asked and nothing else, whatever was asked
\* under the same request id since (architecture.md:211-216).
THEOREM ClicksGrantTheirCards == Spec => []ClickGrantsItsCard
<1>1. IInv => ClickGrantsItsCard
  <2> SUFFICES ASSUME IInv, NEW n \in Granted, answers[asks[n].by].via = "link"
               PROVE  WhatOf(answers[asks[n].by].meant) = WhatOf(n)
    BY DEF ClickGrantsItsCard
  <2>1. asks[n].by \in 1..Len(answers) /\ AboutTheSame(answers[asks[n].by].ask, n)
    BY DEF IInv, GrantedInv
  <2>2. AboutTheSame(answers[asks[n].by].ask, answers[asks[n].by].meant)
    BY <2>1 DEF IInv, HistoryInv
  <2> QED
    BY <2>1, <2>2 DEF AboutTheSame, WhatOf
<1> QED
  BY <1>1, Invariant, PTL

-----------------------------------------------------------------------------
(* Recorded decisions.                                                     *)

\* A click writes over the row it read and no other, and that one was undecided; what
\* else replaces a decision by another is a file written back whole, or the command line.
LEMMA ReplacedByCli ==
  ASSUME IInv, [Next]_vars, NEW k \in Keys,
         table[k].by # 0, table'[k].by \notin {0, table[k].by}
  PROVE  answers'[Len(answers')].via = "cli"
<1>1. Len(answers) \in Nat /\ answers \in Seq(AnswerRecord)
  BY DEF IInv, HistoryInv
<1>2. table' # table
  OBVIOUS
<1>3. ASSUME NEW r \in Runs, NEW q \in Requests, NEW lands \in BOOLEAN, Open(r, q, lands)
      PROVE  answers'[Len(answers')].via = "cli"
  <2>1. /\ answers' = answers
        /\ table' = Stored(r, q[1], [ask |-> Len(asks) + 1, by |-> 0])
    BY <1>2, <1>3 DEF Open
  <2>2. CASE backend = "json"
    <3>1. /\ table'[k] = [ask |-> Len(asks) + 1, by |-> 0] \/ table'[k] = copy[r][k]
          /\ copy[r] \in [Keys -> SoundRow]
      BY <2>1, <2>2 DEF Stored, IInv, StoreInv, SoundRows
    <3>2. copy[r][k] \in SoundRow /\ copy[r][k].by # 0
      BY <3>1
    <3>3. Len(answers) \in 1..Len(answers)
      BY <1>1, <3>2 DEF SoundRow, Row
    <3>4. answers[Len(answers)] \in AnswerRecord /\ answers[Len(answers)].via # "link"
      BY <1>1, <2>2, <3>3 DEF IInv, HistoryInv
    <3> QED
      BY <2>1, <3>4 DEF AnswerRecord
  <2>3. CASE backend # "json"
    BY <2>1, <2>3 DEF Stored, IInv, StoreInv, SoundRows
  <2> QED
    BY <2>2, <2>3
<1>4. ASSUME NEW h \in Humans, NEW lands \in BOOLEAN, CliWrites(h, lands)
      PROVE  answers'[Len(answers')].via = "cli"
  <2>1. reader[h] # Idle /\ reader[h].via = "cli" /\ UNCHANGED <<backend, asks>> /\ Recorded(h)
    BY <1>2, <1>4 DEF CliWrites, Idle
  <2>2. /\ Len(answers') = Len(answers) + 1
        /\ answers'[Len(answers) + 1] =
             [ask |-> reader[h].row.ask, verdict |-> reader[h].verdict,
              meant |-> reader[h].meant, via |-> reader[h].via]
    <3>1. HistoryInv /\ ReaderInv
      BY DEF IInv
    <3> QED
      BY <2>1, <3>1, AnswerRecorded
  <2> QED
    BY <2>1, <2>2
<1>5. ASSUME NEW h \in Humans, LinkWrites(h)
      PROVE  FALSE
  <2>1. /\ reader[h].via = "link" /\ reader[h] # Idle
        /\ table[reader[h].key] = reader[h].row /\ Recorded(h)
    BY <1>2, <1>5 DEF LinkWrites, Idle
  <2>2. backend = "table" /\ reader[h].row.by = 0
    BY <2>1 DEF IInv, ReaderInv
  <2>3. table' = [table EXCEPT ![reader[h].key] =
                    [ask |-> reader[h].row.ask, by |-> Len(answers) + 1]]
    BY <2>1, <2>2 DEF Recorded
  <2>4. k # reader[h].key
    BY <2>1, <2>2
  <2> QED
    BY <2>3, <2>4 DEF IInv, StoreInv, SoundRows
<1>6. ASSUME Reset
      PROVE  FALSE
  BY <1>6 DEF Reset, NoRows, NoRow
<1>7. ASSUME \/ \E r \in Runs :
                  \/ \E ok \in BOOLEAN : Connect(r, ok)
                  \/ Leave(r) \/ Crash(r) \/ Waits(r)
             \/ \E h \in Humans, meant \in 1..Len(asks), verdict \in {"approve", "decline"} :
                  CliReads(h, meant, verdict) \/ LinkReads(h, meant, verdict)
             \/ \E n \in 1..Len(asks) : Expire(n)
             \/ UNCHANGED vars
      PROVE  table' = table
  BY <1>7 DEF Connect, Leave, Crash, Waits, Post, PostFails, Poll, Settle, GiveUp, CliReads,
              LinkReads, Reads, Expire, vars, channel
<1> QED
  BY <1>2, <1>3, <1>4, <1>5, <1>6, <1>7 DEF Next, Asks, Answers

\* A recorded decision is never replaced by a click (approval-callback.json:19-22).
THEOREM DecisionsStandAgainstClicks == Spec => ClicksReplaceNothing
<1>1. IInv /\ [Next]_vars =>
        [\A k \in Keys :
           (table[k].by # 0 /\ table'[k].by \notin {0, table[k].by})
             => answers'[Len(answers')].via = "cli"]_vars
  BY ReplacedByCli
<1> QED
  BY <1>1, Invariant, PTL DEF Spec, ClicksReplaceNothing

-----------------------------------------------------------------------------
(* One approval, one execution.                                            *)

Distinct == \A m, n \in Granted : asks[m].by = asks[n].by => m = n

\* No answer that has granted a request is in the row, or in the hands, of a run that
\* waits for another.
Unspent ==
  \A r \in Runs, n \in Granted :
    Busy(r) => /\ asks[n].by # table[KeyOf(gate[r].ask)].by
               /\ gate[r].at = "heard" => asks[n].by # gate[r].row.by

SpendInv == (backend = "table" /\ ~lossy) => Distinct /\ Unspent

Solo == \A r, s \in Runs : r = s

\* A step that writes no row and ends no wait.
LEMMA QuietSpends ==
  ASSUME SpendInv, UNCHANGED <<backend, asks, table, lossy>>,
         \A r \in Runs :
           Busy(r)' =>
             /\ Busy(r) /\ gate'[r].ask = gate[r].ask
             /\ gate'[r].at = "heard" =>
                  gate'[r].row.by \in {gate[r].row.by, table[KeyOf(gate[r].ask)].by}
             /\ gate'[r].at = "heard" /\ gate[r].at # "heard" =>
                  gate'[r].row.by = table[KeyOf(gate[r].ask)].by
  PROVE  SpendInv'
<1> SUFFICES ASSUME backend = "table", ~lossy
             PROVE  Distinct' /\ Unspent'
  BY DEF SpendInv
<1>1. Distinct /\ Unspent
  BY DEF SpendInv
<1>2. Granted' = Granted
  BY DEF Granted
<1>3. Distinct'
  BY <1>1, <1>2 DEF Distinct
<1>4. ASSUME NEW r \in Runs, NEW n \in Granted, Busy(r)'
      PROVE  /\ asks[n].by # table[KeyOf(gate'[r].ask)].by
             /\ gate'[r].at = "heard" => asks[n].by # gate'[r].row.by
  BY <1>1, <1>4 DEF Unspent, KeyOf
<1> QED
  BY <1>2, <1>3, <1>4 DEF Unspent, KeyOf

\* A step after which nobody waits.
LEMMA IdleSpends ==
  ASSUME SpendInv, UNCHANGED <<backend, lossy>>, \A r \in Runs : ~Busy(r)',
         (backend = "table" /\ ~lossy /\ Distinct /\ Unspent) => Distinct'
  PROVE  SpendInv'
BY DEF SpendInv, Unspent

\* A request that ends without a yes grants nothing new.
LEMMA RefusalsStayDistinct ==
  ASSUME Distinct, NEW k \in 1..Len(asks), Restates(k), asks'[k].outcome # "granted"
  PROVE  Distinct'
<1>1. /\ Granted' \subseteq Granted
      /\ \A n \in Granted' : asks'[n] = asks[n]
  BY DEF Granted, Restates
<1> QED
  BY <1>1 DEF Distinct

\* The run's wait ends: alone, it leaves nobody waiting.
LEMMA EndSpends ==
  ASSUME Solo, IInv, SpendInv, NEW r \in Runs, Busy(r),
         UNCHANGED <<backend, answers, table, lossy>>,
         NEW outcome \in Outcomes \ {"waiting"}, NEW by \in Nat,
         \/ asks' = [asks EXCEPT ![gate[r].ask].outcome = outcome, ![gate[r].ask].by = by]
         \/ asks' = [asks EXCEPT ![gate[r].ask].outcome = outcome] /\ by = asks[gate[r].ask].by,
         gate' = [gate EXCEPT ![r] = Down] \/ gate' = [gate EXCEPT ![r] = [Down EXCEPT !.at = "free"]],
         outcome = "granted" => gate[r].at = "heard" /\ by = gate[r].row.by
  PROVE  SpendInv'
<1>1. /\ gate[r].ask \in 1..Len(asks) /\ Restates(gate[r].ask)
      /\ asks'[gate[r].ask].outcome = outcome /\ asks'[gate[r].ask].by = by
  BY WaitEnds
<1>2. \A s \in Runs : ~Busy(s)'
  BY DEF Solo, Busy, Down, IInv, GateInv
<1>3. CASE outcome # "granted"
  BY <1>1, <1>2, <1>3, IdleSpends, RefusalsStayDistinct
<1>4. CASE outcome = "granted"
  <2>1. ASSUME Distinct, Unspent
        PROVE  Distinct'
    <3> DEFINE k == gate[r].ask
    <3>1. \A n \in Granted' : n # k => n \in Granted /\ asks'[n] = asks[n]
      BY <1>1 DEF Granted, Restates
    <3>2. \A n \in Granted : asks[n].by # by
      BY <1>4, <2>1 DEF Unspent
    <3>3. asks'[k].by = by
      BY <1>1
    <3> HIDE DEF k
    <3> QED
      BY <2>1, <3>1, <3>2, <3>3 DEF Distinct
  <2> QED
    BY <1>2, <2>1, IdleSpends
<1> QED
  BY <1>3, <1>4

\* A fresh request finds its row empty.
LEMMA OpenSpends ==
  ASSUME Solo, IInv, SpendInv, NEW r \in Runs, NEW q \in Requests, NEW lands \in BOOLEAN,
         Open(r, q, lands)
  PROVE  SpendInv'
<1> DEFINE n == Len(asks) + 1
<1> SUFFICES ASSUME backend = "table", ~lossy'
             PROVE  Distinct' /\ Unspent'
  BY DEF SpendInv, Open
<1>0. Len(asks) \in Nat
  BY DEF IInv, HistoryInv
<1>1. /\ lands /\ ~lossy
      /\ UNCHANGED <<backend, answers>>
      /\ asks' = Append(asks, [what |-> q, outcome |-> "waiting", by |-> 0])
  BY DEF Open
<1>2. /\ Len(asks') = n
      /\ \A i \in 1..Len(asks) : asks'[i] = asks[i]
      /\ asks'[n] = [what |-> q, outcome |-> "waiting", by |-> 0]
  BY <1>1, RequestMade DEF IInv
<1>3. Granted' \subseteq Granted /\ \A i \in Granted' : asks'[i] = asks[i]
  BY <1>0, <1>2 DEF Granted
<1>4. Distinct /\ Unspent
  BY <1>1 DEF SpendInv
<1>5. \A i \in Granted' : asks'[i].by # 0
  BY <1>3 DEF IInv, GrantedInv
<1>6. table' = [table EXCEPT ![q[1]] = [ask |-> n, by |-> 0]]
  BY <1>1 DEF Open, Stored
<1>7. q[1] \in Keys /\ table \in [Keys -> SoundRow]
  BY DEF Keys, IInv, StoreInv, SoundRows
<1>8. gate'[r].at = "opened" /\ gate'[r].ask = n /\ \A s \in Runs : s = r
  BY DEF Open, Down, IInv, GateInv, Solo
<1>9. asks'[n].what[1] = q[1] /\ table'[q[1]].by = 0
  BY <1>2, <1>6, <1>7
<1>10. Distinct'
  BY <1>3, <1>4 DEF Distinct
<1> HIDE DEF n
<1>11. Unspent'
  <2> SUFFICES ASSUME NEW s \in Runs, NEW i \in Granted'
               PROVE  /\ asks'[i].by # table'[asks'[gate'[s].ask].what[1]].by
                      /\ gate'[s].at # "heard"
    BY DEF Unspent, KeyOf
  <2> QED
    BY <1>5, <1>8, <1>9
<1> QED
  BY <1>10, <1>11

\* An answer that is recorded has granted nothing yet.
LEMMA RecordedSpends ==
  ASSUME IInv, SpendInv, NEW h \in Humans, reader[h] # Idle, Recorded(h),
         UNCHANGED <<backend, gate, asks, lossy>>
  PROVE  SpendInv'
<1> SUFFICES ASSUME backend = "table", ~lossy
             PROVE  Distinct' /\ Unspent'
  BY DEF SpendInv
<1>1. Distinct /\ Unspent /\ Granted' = Granted /\ Distinct'
  BY DEF SpendInv, Distinct, Granted
<1>2. /\ table' = [table EXCEPT ![reader[h].key] =
                     [ask |-> reader[h].row.ask, by |-> Len(answers) + 1]]
      /\ table \in [Keys -> SoundRow]
  BY DEF Recorded, IInv, StoreInv, SoundRows
<1>3. Len(answers) \in Nat /\ \A n \in Granted : asks[n].by \in 1..Len(answers)
  BY DEF IInv, GrantedInv, HistoryInv
<1>4. \A k \in Keys : table'[k].by = table[k].by \/ table'[k].by = Len(answers) + 1
  BY <1>2
<1>5. \A r \in Runs : Busy(r) => KeyOf(gate[r].ask) \in Keys
  <2> SUFFICES ASSUME NEW r \in Runs, Busy(r)
               PROVE  KeyOf(gate[r].ask) \in Keys
    OBVIOUS
  <2>1. gate[r].ask \in 1..Len(asks)
    BY DEF IInv, GateInv, HistoryInv
  <2> QED
    BY <2>1, HasRow DEF IInv
<1>6. ASSUME NEW r \in Runs, NEW n \in Granted, Busy(r)
      PROVE  /\ asks[n].by # table'[KeyOf(gate[r].ask)].by
             /\ gate[r].at = "heard" => asks[n].by # gate[r].row.by
  BY <1>1, <1>3, <1>4, <1>5, <1>6 DEF Unspent
<1> QED
  BY <1>1, <1>6 DEF Unspent, Busy, KeyOf

LEMMA NextSpends == Solo /\ IInv /\ SpendInv /\ [Next]_vars => SpendInv'
<1> SUFFICES ASSUME Solo, IInv, SpendInv, [Next]_vars
             PROVE  SpendInv'
  OBVIOUS
<1>1. ASSUME NEW r \in Runs, Asks(r)
      PROVE  SpendInv'
  <2>1. CASE \E ok \in BOOLEAN : Connect(r, ok)
    <3>1. UNCHANGED <<backend, asks, table, lossy>>
      BY <2>1 DEF Connect, hist
    <3>2. \A s \in Runs : Busy(s)' => gate'[s] = gate[s]
      BY <2>1 DEF Connect, Busy, Down, IInv, GateInv
    <3> QED
      BY <3>1, <3>2, QuietSpends DEF Busy
  <2>2. CASE Leave(r)
    <3>1. UNCHANGED <<backend, asks, table, lossy>>
      BY <2>2 DEF Leave, hist
    <3>2. \A s \in Runs : Busy(s)' => gate'[s] = gate[s]
      BY <2>2 DEF Leave, Gone, Busy, Down, IInv, GateInv
    <3> QED
      BY <3>1, <3>2, QuietSpends DEF Busy
  <2>3. CASE Crash(r)
    <3>1. Busy(r) /\ UNCHANGED <<backend, answers, table, lossy>>
      BY <2>3 DEF Crash, Busy
    <3>2. /\ asks' = [asks EXCEPT ![gate[r].ask].outcome = "abandoned"]
          /\ gate' = [gate EXCEPT ![r] = Down]
      BY <2>3 DEF Crash, Gone
    <3>3. "abandoned" \in Outcomes \ {"waiting"}
      BY DEF Outcomes
    <3>4. asks[gate[r].ask].by \in Nat
      <4>1. gate[r].ask \in 1..Len(asks) /\ asks \in Seq(AskRecord)
        BY <3>1 DEF IInv, GateInv, HistoryInv
      <4>2. asks[gate[r].ask] \in AskRecord
        BY <4>1
      <4> QED
        BY <4>2 DEF AskRecord
    <3> QED
      BY <3>1, <3>2, <3>3, <3>4, EndSpends
  <2> QED
    BY <1>1, <2>1, <2>2, <2>3, OpenSpends DEF Asks
<1>2. ASSUME NEW r \in Runs, Waits(r)
      PROVE  SpendInv'
  <2>1. CASE Post(r)
    <3>1. UNCHANGED <<backend, asks, table, lossy>>
      BY <2>1 DEF Post, channel
    <3>2. gate' = [gate EXCEPT ![r].at = "polling"] /\ Busy(r)
      BY <2>1 DEF Post, Busy
    <3>3. \A s \in Runs :
            Busy(s)' => /\ Busy(s) /\ gate'[s].ask = gate[s].ask
                        /\ gate'[s].at = "heard" => gate'[s] = gate[s]
      BY <3>2 DEF Busy, IInv, GateInv
    <3> QED
      BY <3>1, <3>3, QuietSpends
  <2>2. CASE Poll(r)
    <3>1. UNCHANGED <<backend, asks, table, lossy>> /\ Busy(r) /\ gate[r].at = "polling"
      BY <2>2 DEF Poll, Busy, hist
    <3>2. \/ gate' = gate
          \/ gate' = [gate EXCEPT ![r].at = "heard", ![r].row = table[KeyOf(gate[r].ask)]]
      BY <2>2 DEF Poll
    <3>3. \A s \in Runs :
            Busy(s)' => /\ Busy(s) /\ gate'[s].ask = gate[s].ask
                        /\ \/ gate'[s] = gate[s]
                           \/ gate'[s].row.by = table[KeyOf(gate[s].ask)].by
      BY <3>1, <3>2 DEF Busy, IInv, GateInv
    <3> QED
      BY <3>1, <3>3, QuietSpends
  <2>3. CASE PostFails(r) \/ GiveUp(r)
    <3>1. PICK outcome \in {"error", "timed_out"} : Ends(r, outcome, 0)
      BY <2>3 DEF PostFails, GiveUp
    <3>2. Busy(r) /\ UNCHANGED <<backend, answers, table, lossy>>
      BY <2>3 DEF PostFails, GiveUp, Busy, channel
    <3>3. outcome \in Outcomes \ {"waiting"} /\ outcome # "granted"
      BY DEF Outcomes
    <3> QED
      BY <3>1, <3>2, <3>3, EndSpends DEF Ends
  <2>4. CASE Settle(r)
    <3> DEFINE outcome == Judged(gate[r].ask, gate[r].row)
               by      == gate[r].row.by
    <3>1. /\ gate[r].at = "heard" /\ Busy(r) /\ UNCHANGED <<backend, answers, table, lossy>>
          /\ Ends(r, outcome, by)
      BY <2>4 DEF Settle, Busy, channel
    <3>2. by \in Nat
      BY <3>1, HeardIsSound
    <3>3. outcome \in Outcomes \ {"waiting"}
      BY DEF Judged, Outcomes
    <3>4. gate[r].row.by = by
      OBVIOUS
    <3>5. /\ asks' = [asks EXCEPT ![gate[r].ask].outcome = outcome, ![gate[r].ask].by = by]
          /\ gate' = [gate EXCEPT ![r] = [Down EXCEPT !.at = "free"]]
      BY <3>1 DEF Ends
    <3> HIDE DEF outcome, by
    <3> QED
      BY <3>1, <3>2, <3>3, <3>4, <3>5, EndSpends
  <2> QED
    BY <1>2, <2>1, <2>2, <2>3, <2>4 DEF Waits
<1>3. ASSUME NEW h \in Humans, Answers(h)
      PROVE  SpendInv'
  <2>1. ASSUME \E meant \in 1..Len(asks), verdict \in {"approve", "decline"} :
                 CliReads(h, meant, verdict) \/ LinkReads(h, meant, verdict)
        PROVE  SpendInv'
    <3>1. UNCHANGED <<backend, asks, table, lossy, gate>>
      BY <2>1 DEF CliReads, LinkReads, Reads, channel, hist
    <3> QED
      BY <3>1, QuietSpends DEF Busy
  <2>2. ASSUME NEW lands \in BOOLEAN, CliWrites(h, lands)
        PROVE  SpendInv'
    <3>1. reader[h] # Idle /\ UNCHANGED <<backend, gate, asks>>
      BY <2>2 DEF CliWrites, Idle
    <3>2. CASE lands
      BY <2>2, <3>1, <3>2, RecordedSpends DEF CliWrites
    <3>3. CASE ~lands
      BY <2>2, <3>3 DEF CliWrites, SpendInv
    <3> QED
      BY <3>2, <3>3
  <2>3. ASSUME LinkWrites(h)
        PROVE  SpendInv'
    <3>1. reader[h] # Idle /\ UNCHANGED <<backend, gate, asks, lossy>>
      BY <2>3 DEF LinkWrites, Idle
    <3>2. CASE Recorded(h)
      BY <3>1, <3>2, RecordedSpends
    <3>3. CASE UNCHANGED <<answers, table>>
      BY <3>1, <3>3, QuietSpends DEF Busy
    <3> QED
      BY <2>3, <3>2, <3>3 DEF LinkWrites
  <2> QED
    BY <1>3, <2>1, <2>2, <2>3 DEF Answers
<1>4. ASSUME NEW n \in 1..Len(asks), Expire(n)
      PROVE  SpendInv'
  <2>1. UNCHANGED <<backend, asks, table, lossy, gate>>
    BY <1>4 DEF Expire, channel, hist
  <2> QED
    BY <2>1, QuietSpends DEF Busy
<1>5. ASSUME Reset
      PROVE  SpendInv'
  <2>1. /\ UNCHANGED <<backend, asks, lossy, gate>> /\ table' = NoRows
    BY <1>5 DEF Reset, hist
  <2>2. \A n \in Granted : asks[n].by # 0
    BY DEF IInv, GrantedInv
  <2>3. \A r \in Runs : Busy(r) => table'[KeyOf(gate[r].ask)].by = 0
    <3> SUFFICES ASSUME NEW r \in Runs, Busy(r)
                 PROVE  table'[KeyOf(gate[r].ask)].by = 0
      OBVIOUS
    <3>1. gate[r].ask \in 1..Len(asks)
      BY DEF IInv, GateInv, HistoryInv
    <3>2. KeyOf(gate[r].ask) \in Keys
      BY <3>1, HasRow DEF IInv
    <3> QED
      BY <2>1, <3>2 DEF NoRows, NoRow
  <2>4. Granted' = Granted
    BY <2>1 DEF Granted
  <2> QED
    BY <2>1, <2>2, <2>3, <2>4 DEF SpendInv, Distinct, Unspent, Busy, KeyOf
<1>6. ASSUME UNCHANGED vars
      PROVE  SpendInv'
  BY <1>6, QuietSpends DEF Busy, vars, channel, hist
<1> QED
  BY <1>1, <1>2, <1>3, <1>4, <1>5, <1>6 DEF Next

\* In the table, and while the write that opens a request lands, one yes grants one request,
\* however often the same act is asked for, if one run at a time asks (approvals.py:37-38).
THEOREM OneYesGrantsOnce ==
  ASSUME Solo
  PROVE  Spec => []OneYesOneGrant
<1>1. Init => SpendInv
  <2> SUFFICES ASSUME Init
               PROVE  Distinct /\ Unspent
    BY DEF SpendInv
  <2>1. Granted = {}
    BY DEF Init, Granted
  <2> QED
    BY <2>1 DEF Distinct, Unspent
<1>2. IInv /\ SpendInv /\ [Next]_vars => SpendInv'
  BY NextSpends
<1>3. SpendInv => OneYesOneGrant
  BY DEF SpendInv, Distinct, OneYesOneGrant
<1> QED
  BY <1>1, <1>2, <1>3, Invariant, PTL DEF Spec

-----------------------------------------------------------------------------
(* The gate implements Consent.                                            *)

States == {"waiting", "granted", "refused"}

\* What Consent sees of the gate: the requests, and what has been said.
AskedOf(made) ==
  [n \in 1..Len(made) |-> [what |-> made[n].what, state |-> Standing(made[n].outcome)]]

Asked == AskedOf(asks)
Said  == {[what |-> WhatOf(answers[i].ask), verdict |-> answers[i].verdict] :
            i \in 1..Len(answers)}

LEMMA Standings ==
  \A outcome \in Outcomes :
    /\ Standing(outcome) \in States
    /\ Standing(outcome) = "waiting" <=> outcome = "waiting"
    /\ outcome \notin {"waiting", "granted"} => Standing(outcome) = "refused"
    /\ Standing("waiting") = "waiting" /\ Standing("granted") = "granted"
BY DEF Standing, Outcomes, States

\* Whatever requests have been made, Consent sees as many.
LEMMA AskedSeq ==
  ASSUME NEW made \in Seq(AskRecord)
  PROVE  /\ AskedOf(made) \in Seq([what : Requests, state : States])
         /\ DOMAIN AskedOf(made) = 1..Len(made) /\ Len(AskedOf(made)) = Len(made)
<1>1. Len(made) \in Nat /\ \A n \in 1..Len(made) : made[n] \in AskRecord
  OBVIOUS
<1>2. \A n \in 1..Len(made) :
        [what |-> made[n].what, state |-> Standing(made[n].outcome)]
          \in [what : Requests, state : States]
  BY <1>1, Standings DEF AskRecord
<1>3. AskedOf(made) \in [1..Len(made) -> [what : Requests, state : States]]
  BY <1>2 DEF AskedOf
<1>4. AskedOf(made) \in Seq([what : Requests, state : States])
  <2>1. AskedOf(made) \in UNION {[1..n -> [what : Requests, state : States]] : n \in Nat}
    BY <1>1, <1>3, Zenon
  <2> QED
    BY <2>1, SeqDef, Zenon
<1>5. DOMAIN AskedOf(made) = 1..Len(made)
  BY <1>3
<1> QED
  BY <1>1, <1>4, <1>5, LenProperties

\* Changing a field of a record.
LEMMA StateChanges ==
  ASSUME NEW R, NEW S, NEW what \in R, NEW state \in S, NEW next \in S
  PROVE  [[what |-> what, state |-> state] EXCEPT !.state = next] = [what |-> what, state |-> next]
<1>1. [[what |-> what, state |-> state] EXCEPT !.state = next] \in [what : R, state : S]
  OBVIOUS
<1>2. [[what |-> what, state |-> state] EXCEPT !.state = next].what = what
  OBVIOUS
<1>3. [[what |-> what, state |-> state] EXCEPT !.state = next].state = next
  OBVIOUS
<1> QED
  BY <1>1, <1>2, <1>3

\* What was said is not changed by a history that grows, short of an answer.
LEMMA SaidStays ==
  ASSUME HistoryInv, Grows, UNCHANGED answers
  PROVE  Said' = Said
<1>1. \A i \in 1..Len(answers) : WhatOf(answers[i].ask)' = WhatOf(answers[i].ask)
  BY DEF HistoryInv, Grows, WhatOf
<1> QED
  BY <1>1 DEF Said

\* A step that touches neither the requests nor the answers is a stutter.
LEMMA QuietConsents ==
  ASSUME UNCHANGED <<asks, answers, expired>>
  PROVE  UNCHANGED C!cvars
BY DEF C!cvars, WhatOf

\* A request is put to people.
LEMMA OpenConsents ==
  ASSUME IInv, NEW r \in Runs, NEW q \in Requests, NEW lands \in BOOLEAN, Open(r, q, lands)
  PROVE  C!CAsk(q)
<1> DEFINE e == [what |-> q, state |-> "waiting"]
<1>1. /\ UNCHANGED <<backend, answers, expired>>
      /\ asks' = Append(asks, [what |-> q, outcome |-> "waiting", by |-> 0])
  BY DEF Open
<1>2. /\ HistoryInv /\ HistoryInv' /\ Grows
      /\ Len(asks') = Len(asks) + 1 /\ Len(asks) \in Nat
      /\ \A n \in 1..Len(asks) : asks'[n] = asks[n]
      /\ asks'[Len(asks) + 1] = [what |-> q, outcome |-> "waiting", by |-> 0]
  BY <1>1, RequestMade DEF IInv, HistoryInv
<1>3. e \in [what : Requests, state : States]
  BY DEF States
<1>4. /\ Asked \in Seq([what : Requests, state : States]) /\ Len(Asked) = Len(asks)
      /\ Asked' \in Seq([what : Requests, state : States]) /\ Len(Asked') = Len(asks) + 1
  BY <1>2, AskedSeq DEF HistoryInv, Asked
<1>5. \A n \in 1..Len(asks) : Asked'[n] = Asked[n]
  BY <1>2 DEF Asked, AskedOf
<1>6. Asked'[Len(asks) + 1] = e
  BY <1>2, Standings DEF Asked, AskedOf, Outcomes
<1> HIDE DEF e
<1>7. Asked' = Append(Asked, e)
  <2>1. Append(Asked, e) \in Seq([what : Requests, state : States])
    BY <1>3, <1>4
  <2>2. /\ Len(Append(Asked, e)) = Len(asks) + 1
        /\ \A n \in 1..Len(asks) : Append(Asked, e)[n] = Asked[n]
        /\ Append(Asked, e)[Len(asks) + 1] = e
    BY <1>3, <1>4, AppendProperties
  <2>3. \A n \in 1..(Len(asks) + 1) : Asked'[n] = Append(Asked, e)[n]
    BY <1>2, <1>5, <1>6, <2>2
  <2> QED
    BY <1>4, <2>1, <2>2, <2>3, SeqEqual
<1>8. Said' = Said
  BY <1>1, <1>2, SaidStays
<1> QED
  BY <1>1, <1>7, <1>8 DEF C!CAsk, Asked, AskedOf, Said, e

\* A request that ends changes how it stands, and nothing else.
LEMMA EndsAsked ==
  ASSUME IInv, NEW r \in Runs, Busy(r), UNCHANGED <<backend, answers>>,
         NEW outcome \in Outcomes \ {"waiting"}, NEW by \in Nat,
         \/ asks' = [asks EXCEPT ![gate[r].ask].outcome = outcome, ![gate[r].ask].by = by]
         \/ asks' = [asks EXCEPT ![gate[r].ask].outcome = outcome] /\ by = asks[gate[r].ask].by,
         gate' = [gate EXCEPT ![r] = Down] \/ gate' = [gate EXCEPT ![r] = [Down EXCEPT !.at = "free"]]
  PROVE  /\ gate[r].ask \in 1..Len(Asked) /\ Asked[gate[r].ask].state = "waiting"
         /\ Asked' = [Asked EXCEPT ![gate[r].ask].state = Standing(outcome)]
         /\ Said' = Said
<1> DEFINE k == gate[r].ask
           s == Standing(outcome)
<1>1. /\ HistoryInv' /\ Grows /\ k \in 1..Len(asks) /\ Restates(k)
      /\ asks[k].outcome = "waiting" /\ asks'[k].outcome = outcome
  BY WaitEnds
<1>2. HistoryInv /\ asks[k] \in AskRecord /\ s \in States
  BY <1>1, Standings DEF IInv, HistoryInv
<1>3. /\ DOMAIN Asked = 1..Len(asks) /\ Len(Asked) = Len(asks)
      /\ Asked \in Seq([what : Requests, state : States])
  BY <1>2, AskedSeq DEF HistoryInv, Asked
<1>4. Len(asks') = Len(asks) /\ \A n \in 1..Len(asks) : n # k => asks'[n] = asks[n]
  BY <1>1 DEF Restates
<1>5. asks'[k].what = asks[k].what
  BY <1>1 DEF Grows
<1>6. Asked[k] = [what |-> asks[k].what, state |-> "waiting"]
  BY <1>1, Standings DEF Asked, AskedOf, Outcomes
<1>7. Said' = Said
  BY <1>1, <1>2, SaidStays
<1>8. asks[k].what \in Requests /\ "waiting" \in States
  BY <1>2 DEF AskRecord, States
<1> HIDE DEF k, s
<1>9. [Asked[k] EXCEPT !.state = s] = [what |-> asks[k].what, state |-> s]
  BY <1>2, <1>6, <1>8, StateChanges
<1>10. Asked' = [n \in 1..Len(asks) |->
                   IF n = k THEN [what |-> asks[k].what, state |-> s] ELSE Asked[n]]
  BY <1>1, <1>4, <1>5 DEF Asked, AskedOf, s
<1>11. [Asked EXCEPT ![k].state = s] =
         [n \in 1..Len(asks) |->
            IF n = k THEN [what |-> asks[k].what, state |-> s] ELSE Asked[n]]
  BY <1>3, <1>9
<1>12. k \in 1..Len(Asked) /\ Asked[k].state = "waiting"
  BY <1>1, <1>3, <1>6
<1> QED
  BY <1>7, <1>10, <1>11, <1>12 DEF k, s

\* A step about one of the requests.
LEMMA AboutOneRequest ==
  ASSUME NEW n \in 1..Len(Asked),
         \/ \E verdict \in {"approve", "decline"} : C!CSay(n, verdict)
         \/ C!CExpire(n) \/ C!CGrant(n) \/ C!CRefuse(n)
  PROVE  C!CNext
<1>1. n \in 1..Len([m \in 1..Len(asks) |-> [what |-> asks[m].what,
                                           state |-> Standing(asks[m].outcome)]])
  BY DEF Asked, AskedOf
<1> QED
  BY <1>1, Zenon DEF C!CNext

\* A wait that ends without a yes is a refusal.
LEMMA RefusalConsents ==
  ASSUME IInv, NEW r \in Runs, Busy(r), UNCHANGED <<backend, answers, expired>>,
         NEW outcome \in Outcomes \ {"waiting", "granted"}, NEW by \in Nat,
         \/ asks' = [asks EXCEPT ![gate[r].ask].outcome = outcome, ![gate[r].ask].by = by]
         \/ asks' = [asks EXCEPT ![gate[r].ask].outcome = outcome] /\ by = asks[gate[r].ask].by,
         gate' = [gate EXCEPT ![r] = Down] \/ gate' = [gate EXCEPT ![r] = [Down EXCEPT !.at = "free"]]
  PROVE  C!CNext
<1>0. /\ gate[r].ask \in 1..Len(Asked) /\ Asked[gate[r].ask].state = "waiting"
      /\ Asked' = [Asked EXCEPT ![gate[r].ask].state = Standing(outcome)] /\ Said' = Said
  BY EndsAsked
<1> PICK k : k = gate[r].ask
  OBVIOUS
<1>1. /\ k \in 1..Len(Asked) /\ Asked[k].state = "waiting"
      /\ Asked' = [Asked EXCEPT ![k].state = Standing(outcome)] /\ Said' = Said
  BY <1>0
<1>2. Standing(outcome) = "refused"
  BY Standings
<1>3. Asked' = [Asked EXCEPT ![k].state = "refused"]
  BY <1>1, <1>2
<1>4. C!CRefuse(k)
  BY <1>1, <1>3 DEF C!CRefuse, Asked, AskedOf, Said
<1> QED
  BY <1>1, <1>4, AboutOneRequest

\* A run that heard an answer grants its request because of a yes to that very act.
LEMMA SettleConsents ==
  ASSUME IInv, NEW r \in Runs, Settle(r)
  PROVE  C!CNext
<1> PICK k : k = gate[r].ask
  OBVIOUS
<1> DEFINE i       == gate[r].row.by
           outcome == Judged(k, gate[r].row)
<1>1. /\ gate[r].at = "heard" /\ Busy(r) /\ UNCHANGED <<backend, answers, expired>>
      /\ asks' = [asks EXCEPT ![k].outcome = outcome, ![k].by = i]
      /\ gate' = [gate EXCEPT ![r] = [Down EXCEPT !.at = "free"]]
  BY DEF Settle, Ends, Busy, channel
<1>2. /\ i \in 1..Len(answers) /\ gate[r].row.ask = answers[i].ask
  BY <1>1, HeardIsSound
<1>3. i \in Nat /\ outcome \in Outcomes \ {"waiting"}
  BY <1>2 DEF Judged, Outcomes
<1>4. CASE outcome # "granted"
  <2> HIDE DEF outcome, i
  <2> QED
    BY <1>1, <1>3, <1>4, RefusalConsents
<1>5. CASE outcome = "granted"
  <2>1. /\ WhatOf(answers[i].ask) = asks[k].what /\ answers[i].verdict = "approve"
        /\ k \notin expired
    BY <1>1, <1>2, <1>5, GrantIsEarned DEF WhatOf
  <2> HIDE DEF outcome, i
  <2>2. /\ k \in 1..Len(Asked) /\ Asked[k].state = "waiting"
        /\ Asked' = [Asked EXCEPT ![k].state = Standing(outcome)] /\ Said' = Said
    BY <1>1, <1>3, EndsAsked
  <2>3. Asked' = [Asked EXCEPT ![k].state = "granted"]
    BY <1>5, <2>2, Standings DEF Outcomes
  <2>4. k \in 1..Len(asks) /\ Asked[k].what = asks[k].what
    <3>1. /\ asks \in Seq(AskRecord)
      BY DEF IInv, HistoryInv
    <3>2. k \in 1..Len(asks)
      BY <3>1, <2>2, AskedSeq DEF Asked
    <3> QED
      BY <3>2 DEF Asked, AskedOf
  <2>5. [what |-> Asked[k].what, verdict |-> "approve"] \in Said
    BY <1>2, <2>1, <2>4 DEF Said
  <2>6. C!CGrant(k)
    BY <1>1, <2>1, <2>2, <2>3, <2>5 DEF C!CGrant, Asked, AskedOf, Said
  <2> QED
    BY <2>2, <2>6, AboutOneRequest
<1> QED
  BY <1>4, <1>5

\* Somebody's answer is recorded: he said it about the request of the row he read.
LEMMA RecordedConsents ==
  ASSUME IInv, NEW h \in Humans, reader[h] # Idle, Recorded(h), UNCHANGED <<backend, asks, expired>>
  PROVE  C!CNext
<1> PICK n, verdict : n = reader[h].row.ask /\ verdict = reader[h].verdict
  OBVIOUS
<1>1. /\ Len(answers') = Len(answers) + 1 /\ Len(answers) \in Nat
      /\ \A i \in 1..Len(answers) : answers'[i] = answers[i]
      /\ answers'[Len(answers) + 1].ask = n /\ answers'[Len(answers) + 1].verdict = verdict
  <2>1. /\ Len(answers') = Len(answers) + 1
        /\ \A i \in 1..Len(answers) : answers'[i] = answers[i]
        /\ answers'[Len(answers) + 1] =
             [ask |-> reader[h].row.ask, verdict |-> reader[h].verdict,
              meant |-> reader[h].meant, via |-> reader[h].via]
    BY AnswerRecorded DEF IInv
  <2> QED
    BY <2>1 DEF IInv, HistoryInv
<1>2. reader[h] \in Reading /\ n # 0
  BY DEF IInv, ReaderInv
<1>3. /\ n \in 0..Len(asks) /\ verdict \in {"approve", "decline"}
      /\ asks \in Seq(AskRecord) /\ Len(asks) \in Nat
  BY <1>2 DEF Reading, SoundRow, Row, Verdicts, IInv, HistoryInv
<1>4. n \in 1..Len(asks)
  BY <1>2, <1>3
<1>5. n \in 1..Len(Asked) /\ Asked[n].what = WhatOf(n)
  BY <1>3, <1>4, AskedSeq DEF Asked, AskedOf, WhatOf
<1>6. Said' = Said \cup {[what |-> Asked[n].what, verdict |-> verdict]}
  <2>1. Said' = {[what |-> WhatOf(answers'[i].ask), verdict |-> answers'[i].verdict] :
                   i \in 1..(Len(answers) + 1)}
    BY <1>1 DEF Said, WhatOf
  <2>2. 1..(Len(answers) + 1) = 1..Len(answers) \cup {Len(answers) + 1}
    BY <1>1
  <2>3. [what |-> WhatOf(answers'[Len(answers) + 1].ask),
         verdict |-> answers'[Len(answers) + 1].verdict] =
          [what |-> Asked[n].what, verdict |-> verdict]
    BY <1>1, <1>5
  <2>4. ASSUME NEW said \in Said'
        PROVE  said \in Said \cup {[what |-> Asked[n].what, verdict |-> verdict]}
    BY <1>1, <2>1, <2>2, <2>3 DEF Said
  <2>5. Said \subseteq Said'
    BY <1>1, <2>1 DEF Said
  <2>6. [what |-> Asked[n].what, verdict |-> verdict] \in Said'
    BY <2>1, <2>2, <2>3
  <2> QED
    BY <2>4, <2>5, <2>6
<1>7. UNCHANGED <<Asked, expired>>
  BY DEF Asked
<1>8. C!CSay(n, verdict)
  BY <1>5, <1>6, <1>7 DEF C!CSay, Asked, AskedOf, Said
<1> QED
  BY <1>3, <1>5, <1>8, AboutOneRequest

\* A deadline passes.
LEMMA ExpireConsents ==
  ASSUME IInv, NEW n \in 1..Len(asks), Expire(n)
  PROVE  C!CNext
<1>1. UNCHANGED <<asks, answers>> /\ expired' = expired \cup {n}
  BY DEF Expire, hist
<1>2. UNCHANGED <<Asked, Said>> /\ n \in 1..Len(Asked)
  BY <1>1, AskedSeq DEF IInv, HistoryInv, Asked, Said, WhatOf
<1>3. C!CExpire(n)
  BY <1>1, <1>2 DEF C!CExpire, Asked, AskedOf, Said
<1> QED
  BY <1>2, <1>3, AboutOneRequest

LEMMA NextConsents ==
  ASSUME IInv, Next
  PROVE  C!CNext \/ UNCHANGED C!cvars
<1>1. ASSUME NEW r \in Runs, Asks(r)
      PROVE  C!CNext \/ UNCHANGED C!cvars
  <2>1. CASE (\E ok \in BOOLEAN : Connect(r, ok)) \/ Leave(r)
    <3>1. UNCHANGED <<asks, answers, expired>>
      BY <2>1 DEF Connect, Leave, hist
    <3> QED
      BY <3>1, QuietConsents
  <2>2. ASSUME NEW q \in Requests, NEW lands \in BOOLEAN, Open(r, q, lands)
        PROVE  C!CNext
    <3>1. C!CAsk(q)
      BY <2>2, OpenConsents
    <3> QED
      BY <3>1, Zenon DEF C!CNext
  <2>3. CASE Crash(r)
    <3>1. /\ Busy(r) /\ UNCHANGED <<backend, answers, expired>>
          /\ asks' = [asks EXCEPT ![gate[r].ask].outcome = "abandoned"]
          /\ gate' = [gate EXCEPT ![r] = Down]
      BY <2>3 DEF Crash, Gone, Busy
    <3>2. "abandoned" \in Outcomes \ {"waiting", "granted"}
      BY DEF Outcomes
    <3>3. asks[gate[r].ask].by \in Nat
      <4>1. gate[r].ask \in 1..Len(asks) /\ asks \in Seq(AskRecord)
        BY <3>1 DEF IInv, GateInv, HistoryInv
      <4>2. asks[gate[r].ask] \in AskRecord
        BY <4>1
      <4> QED
        BY <4>2 DEF AskRecord
    <3> QED
      BY <3>1, <3>2, <3>3, RefusalConsents
  <2> QED
    BY <1>1, <2>1, <2>2, <2>3, Zenon DEF Asks
<1>2. ASSUME NEW r \in Runs, Waits(r)
      PROVE  C!CNext \/ UNCHANGED C!cvars
  <2>1. CASE Post(r) \/ Poll(r)
    <3>1. UNCHANGED <<asks, answers, expired>>
      BY <2>1 DEF Post, Poll, hist
    <3> QED
      BY <3>1, QuietConsents
  <2>2. CASE PostFails(r) \/ GiveUp(r)
    <3>1. PICK outcome \in {"error", "timed_out"} : Ends(r, outcome, 0)
      BY <2>2 DEF PostFails, GiveUp
    <3>2. Busy(r) /\ UNCHANGED <<backend, answers, expired>>
      BY <2>2 DEF PostFails, GiveUp, Busy, channel
    <3>3. outcome \in Outcomes \ {"waiting", "granted"}
      BY DEF Outcomes
    <3> QED
      BY <3>1, <3>2, <3>3, RefusalConsents DEF Ends
  <2> QED
    BY <1>2, <2>1, <2>2, SettleConsents, Zenon DEF Waits
<1>3. ASSUME NEW h \in Humans, Answers(h)
      PROVE  C!CNext \/ UNCHANGED C!cvars
  <2>1. ASSUME Recorded(h), CliWrites(h, TRUE) \/ LinkWrites(h)
        PROVE  C!CNext
    <3>1. reader[h] # Idle /\ UNCHANGED <<backend, asks, expired>>
      BY <2>1 DEF CliWrites, LinkWrites, Idle
    <3> QED
      BY <2>1, <3>1, RecordedConsents
  <2>2. CASE CliWrites(h, TRUE)
    <3>1. Recorded(h)
      BY <2>2 DEF CliWrites
    <3> QED
      BY <2>1, <2>2, <3>1
  <2>3. CASE CliWrites(h, FALSE)
    <3>1. UNCHANGED <<asks, answers, expired>>
      BY <2>3 DEF CliWrites
    <3> QED
      BY <3>1, QuietConsents
  <2>4. CASE LinkWrites(h)
    <3>1. UNCHANGED <<asks, expired>> /\ (Recorded(h) \/ UNCHANGED answers)
      BY <2>4 DEF LinkWrites
    <3> QED
      BY <2>1, <2>4, <3>1, QuietConsents
  <2>5. ASSUME \E meant \in 1..Len(asks), verdict \in {"approve", "decline"} :
                 CliReads(h, meant, verdict) \/ LinkReads(h, meant, verdict)
        PROVE  UNCHANGED C!cvars
    <3>1. UNCHANGED <<asks, answers, expired>>
      BY <2>5 DEF CliReads, LinkReads, Reads, hist
    <3> QED
      BY <3>1, QuietConsents
  <2>6. \A lands \in BOOLEAN : lands = TRUE \/ lands = FALSE
    OBVIOUS
  <2>7. CASE \E lands \in BOOLEAN : CliWrites(h, lands)
    <3>1. CliWrites(h, TRUE) \/ CliWrites(h, FALSE)
      BY <2>7
    <3> QED
      BY <2>2, <2>3, <3>1
  <2> QED
    BY <1>3, <2>4, <2>5, <2>7, Zenon DEF Answers
<1>4. ASSUME NEW n \in 1..Len(asks), Expire(n)
      PROVE  C!CNext
  BY <1>4, ExpireConsents
<1>5. ASSUME Reset
      PROVE  UNCHANGED C!cvars
  <2>1. UNCHANGED <<asks, answers, expired>>
    BY <1>5 DEF Reset, hist
  <2> QED
    BY <2>1, QuietConsents
<1> QED
  BY <1>1, <1>2, <1>3, <1>4, <1>5, Zenon DEF Next

\* The gate does what Consent promises: whatever the channel loses, keeps or mixes up, a
\* request is granted only in time and because somebody said yes to that act with those
\* arguments; every other end refuses it (approvals.py:27-43).
THEOREM GateImplementsConsent == Spec => ImplementsConsent
<1>1. Init => C!CInit
  <2> SUFFICES ASSUME Init
               PROVE  C!CInit
    OBVIOUS
  <2>1. asks = <<>> /\ answers = <<>> /\ expired = {}
    BY DEF Init
  <2> QED
    BY <2>1 DEF C!CInit
<1>2. IInv /\ [Next]_vars => [C!CNext]_C!cvars
  <2> SUFFICES ASSUME IInv, [Next]_vars
               PROVE  C!CNext \/ UNCHANGED C!cvars
    OBVIOUS
  <2>1. CASE UNCHANGED vars
    <3>1. UNCHANGED <<asks, answers, expired>>
      BY <2>1 DEF vars, hist
    <3> QED
      BY <3>1, QuietConsents
  <2> QED
    BY <2>1, NextConsents
<1> QED
  BY <1>1, <1>2, Invariant, PTL DEF Spec, ImplementsConsent, C!ConsentSpec
=============================================================================
