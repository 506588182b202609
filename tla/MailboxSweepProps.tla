------------------------- MODULE MailboxSweepProps -------------------------
(***************************************************************************)
(* What sweeping promises, and what the repository's text says of it that  *)
(* the code does not keep.                                                 *)
(***************************************************************************)
EXTENDS MailboxSweep

\* Every variable holds a value of its kind, and a sweep past its fetch has a
\* request in hand.
TypeOK ==
  /\ ClaimTypeOK
  /\ pc \in [Workers -> Stages]
  /\ mailbox \in Seq(Messages)
  /\ copy \in [Workers -> SUBSET Messages]
  /\ hand \in [Workers -> Alerts \cup {None}]
  /\ todo \in [Workers -> SUBSET Alerts]
  /\ \A w \in Workers : (hand[w] = None) <=> (pc[w] \in {"idle", "fetch"})
  /\ processed \subseteq Messages
  /\ recorded \subseteq Messages
  /\ claimants \subseteq Workers
  /\ logging \subseteq Workers
  /\ runs \in [Messages -> Nat]
  /\ overruns \in [Messages -> Nat]
  /\ faults \in Nat

\* An alert is worked on by one process at a time (claims.py:19), across crashes,
\* steals of dead claims, lost replies and deletes that failed.  A lease that runs out
\* under a live run lets one more process in, and no more than one: although the
\* overtaken holder then deletes a row that is not its own (claims.py:195-206).
OneAtATime ==
  \A m \in Messages : Cardinality(AtWorkOn(m)) <= 1 + overruns[m]

\* Without a fault, an alert is triaged again only by a process that had read
\* the processed log before the mark: never by a sweep begun after it.
RerunsAreBounded ==
  faults = 0 => \A m \in Messages : runs[m] <= Cardinality(Workers)

\* Every alert that arrives is triaged and marked, whatever faults come first, unless
\* no process is left whose claim store has a client: such a process skips every alert
\* for as long as it lives (claims.py:112-131), and the others must do its work.
EveryAlertHandled ==
  \A m \in Alerts : (m \in Mail) ~> (m \in processed \/ [](claimants = {}))

-----------------------------------------------------------------------------
(* The sweeps implement an at-least-once queue.                            *)

Holders == [m \in Messages |-> AtWorkOn(m)]

Queue == INSTANCE AlertQueue WITH
  offered <- Mail,
  holders <- Holders,
  lapsed  <- overruns,
  done    <- {m \in Messages : runs[m] > 0},
  closed  <- processed

\* An alert is worked on by one process at a time, but for the lapses of its holders,
\* closed only by one that holds it and only after a triage of it ended, and never lost.
ImplementsAlertQueue == Queue!QSpec

-----------------------------------------------------------------------------
(* A claim of the repository's own text that the code does not keep.       *)

\* app.py:341-342: "The message is marked processed on success, so releasing
\* cannot cause a re-run".
MarkedIsNotRerun ==
  [][\A w \in Workers : (pc[w] # "run" /\ pc'[w] = "run") => hand[w] \notin processed]_vars
=============================================================================
