----------------------------- MODULE AlertQueue -----------------------------
(***************************************************************************)
(* What sweeping a mailbox promises, without mailbox, claims or tables: an *)
(* at-least-once queue with one consumer per alert.  An alert that has     *)
(* been offered is taken by one worker at a time; the worker triages it,   *)
(* closes it only after that, and may give it back at any moment (it       *)
(* crashed, it failed, or it is through).  A worker that holds an alert    *)
(* for longer than its term lets one more worker in beside it.  A closed   *)
(* alert may be taken once more: the promise is that no alert is lost, not *)
(* that none is triaged twice.                                             *)
(***************************************************************************)
EXTENDS Naturals, FiniteSets

CONSTANTS Workers, Messages

VARIABLES
  offered,  \* alerts that exist
  holders,  \* holders[m]: the workers at work on m
  lapsed,   \* lapsed[m]: how often m was held for longer than a term
  done,     \* alerts triaged to a terminal outcome at least once
  closed    \* alerts that will not be offered again

qvars == <<offered, holders, lapsed, done, closed>>

QInit ==
  /\ offered = {}
  /\ holders = [m \in Messages |-> {}]
  /\ lapsed = [m \in Messages |-> 0]
  /\ done = {}
  /\ closed = {}

Offer(m) ==
  /\ offered' = offered \cup {m}
  /\ UNCHANGED <<holders, lapsed, done, closed>>

Take(w, m) ==
  /\ m \in offered
  /\ w \notin holders[m]
  /\ Cardinality(holders[m]) <= lapsed[m]
  /\ holders' = [holders EXCEPT ![m] = @ \cup {w}]
  /\ UNCHANGED <<offered, lapsed, done, closed>>

Triage(w, m) ==
  /\ w \in holders[m]
  /\ done' = done \cup {m}
  /\ UNCHANGED <<offered, holders, lapsed, closed>>

Close(w, m) ==
  /\ w \in holders[m]
  /\ m \in done
  /\ closed' = closed \cup {m}
  /\ UNCHANGED <<offered, holders, lapsed, done>>

GiveBack(w, m) ==
  /\ w \in holders[m]
  /\ holders' = [holders EXCEPT ![m] = @ \ {w}]
  /\ UNCHANGED <<offered, lapsed, done, closed>>

Lapse(m) ==
  /\ holders[m] # {}
  /\ lapsed' = [lapsed EXCEPT ![m] = @ + 1]
  /\ UNCHANGED <<offered, holders, done, closed>>

QNext ==
  \E m \in Messages :
    \/ Offer(m) \/ Lapse(m)
    \/ \E w \in Workers : Take(w, m) \/ Triage(w, m) \/ Close(w, m) \/ GiveBack(w, m)

QSpec == QInit /\ [][QNext]_qvars
=============================================================================
