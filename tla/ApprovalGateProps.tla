-------------------------- MODULE ApprovalGateProps --------------------------
(***************************************************************************)
(* What an approval is worth.                                              *)
(***************************************************************************)
EXTENDS ApprovalGate

Row == [ask : 0..Len(asks), by : 0..Len(answers)]

\* Every variable holds a value of its kind; a decided row is of some request, and a
\* run waits for a request of its own that is still undecided.
TypeOK ==
  /\ backend \in Backends
  /\ table \in [Keys -> Row]
  /\ copy \in [Runs -> [Keys -> Row]]
  /\ client \in [Runs -> BOOLEAN]
  /\ gate \in [Runs -> [at : {"down", "free", "opened", "unopened", "polling", "heard"},
                        ask : 0..Len(asks), row : Row]]
  /\ \A r \in Runs :
       gate[r].at \in {"opened", "unopened", "polling", "heard"} =>
         gate[r].ask # 0 /\ asks[gate[r].ask].outcome = "waiting"
  /\ expired \subseteq 1..Len(asks) /\ posted \subseteq 1..Len(asks)
  /\ faults \in 0..MaxFaults /\ lossy \in BOOLEAN
  /\ \A k \in Keys : table[k].by # 0 => table[k].ask = answers[table[k].by].ask

Granted == {n \in 1..Len(asks) : asks[n].outcome = "granted"}

\* One approval authorises one execution (approvals.py:37-38): no two requests are
\* granted by one answer, however often the same action is asked for under the same
\* request id.  The table keeps this while the write that opens a request lands.
OneYesOneGrant ==
  (backend = "table" /\ ~lossy) =>
    \A m, n \in Granted : asks[m].by = asks[n].by => m = n

\* A click on a card authorises what that card asked and nothing else, however late
\* it comes and whatever was asked under the same request id since
\* (architecture.md:211-216).
ClickGrantsItsCard ==
  \A n \in Granted :
    answers[asks[n].by].via = "link" => WhatOf(answers[asks[n].by].meant) = WhatOf(n)

\* A recorded decision is never replaced by a click: two clicks, or a click and the
\* command line, cannot undo each other that way (approval-callback.json:19-22).
ClicksReplaceNothing ==
  [][\A k \in Keys :
       (table[k].by # 0 /\ table'[k].by \notin {0, table[k].by})
         => answers'[Len(answers')].via = "cli"]_vars

\* A request is granted because a person said yes to that very action and arguments,
\* in time, and every other end refuses it: the gate implements Consent.
Standing(outcome) ==
  CASE outcome = "waiting" -> "waiting"
    [] outcome = "granted" -> "granted"
    [] OTHER -> "refused"

C == INSTANCE Consent WITH
       asked <- [n \in 1..Len(asks) |-> [what |-> asks[n].what,
                                         state |-> Standing(asks[n].outcome)]],
       said  <- {[what |-> WhatOf(answers[i].ask), verdict |-> answers[i].verdict] :
                   i \in 1..Len(answers)},
       late  <- expired

ImplementsConsent == C!ConsentSpec

\* Nobody waits for ever: every request ends, answered or not.
EveryRequestEnds ==
  \A n \in 1..MaxAsks :
    (n <= Len(asks) /\ asks[n].outcome = "waiting")
      ~> (n <= Len(asks) /\ asks[n].outcome # "waiting")
=============================================================================
