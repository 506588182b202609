---------------------------- MODULE MailboxSweep ----------------------------
(***************************************************************************)
(* Sweeps of one alerts mailbox by several hosted processes: _drain_mailbox *)
(* of app.py with GraphInbox.fetch, the processed-message log and the      *)
(* claim store.  A process sweeps one mailbox at a time; other processes   *)
(* sweep the same one.  The triage run inside a sweep is a single step     *)
(* here (module TriageRun opens it): it ends in a terminal outcome, or it  *)
(* raises.                                                                 *)
(*                                                                         *)
(* Every await, and every call on shared storage, is a step of its own: a  *)
(* process may crash between any two, and the others move in between.      *)
(***************************************************************************)
EXTENDS ClaimStore, Naturals, Sequences, FiniteSets

CONSTANTS
  Alerts,        \* messages the mail filter accepts
  Limit,         \* fetch(limit): alerts in one sweep
  Window,        \* _MAX_PAGES * _PAGE_SIZE: messages one fetch looks at
  Interference,  \* which faults may happen
  MaxFaults,     \* bound on the faults of a behaviour
  None           \* no message, no worker

ASSUME SweepAssumption ==
  /\ IsFiniteSet(Workers)
  /\ Alerts \subseteq Messages
  /\ Limit \in Nat \ {0}
  /\ Window \in Nat
  /\ MaxFaults \in Nat
  /\ None \notin Messages \cup Workers

VARIABLES
  pc,         \* pc[w]: where the sweep of w is
  mailbox,    \* messages in order of arrival
  copy,       \* copy[w]: the processed log as loaded when the inbox was built
  hand,       \* hand[w]: the request the loop is at
  todo,       \* todo[w]: requests fetched and not yet reached
  claimants,  \* processes whose claim store has a client
  logging,    \* sweeps whose processed log has a client
  processed,  \* rows of the processed-message table
  recorded,   \* alerts whose outcome is in the incident table
  runs,       \* history, runs[m]: triages of m that reached an outcome
  overruns,   \* history, overruns[m]: leases of m that ran out under a live run
  faults      \* faults so far

sweep   == <<pc, hand, todo>>
clients == <<claimants, logging>>
vars    == <<claims, sweep, clients, mailbox, copy, processed, recorded, runs, overruns, faults>>

Stages == {"idle", "fetch", "claim", "read", "update", "run", "record", "mark",
           "release", "raised"}

\* Holding a claim, from winning it to giving it back.
AtWork == {"run", "record", "mark", "release", "raised"}
Working(w, m) == pc[w] \in AtWork /\ hand[w] = m
AtWorkOn(m)   == {w \in Workers : Working(w, m)}

Fault(kind) ==
  /\ kind \in Interference
  /\ faults < MaxFaults
  /\ faults' = faults + 1

\* TriageControllerAgent.__init__ builds one claim store for the life of the process.
\* One whose client cannot be built refuses every claim of that process.
ClaimClients ==
  \E without \in SUBSET Workers :
    /\ without = {} \/ "claim_fails" \in Interference
    /\ claimants = Workers \ without
    /\ faults \in 0..MaxFaults
    /\ faults = Cardinality(without)

Init ==
  /\ ClaimInit
  /\ ClaimClients
  /\ logging = Workers
  /\ pc = [w \in Workers |-> "idle"]
  /\ mailbox = <<>>
  /\ copy = [w \in Workers |-> {}]
  /\ hand = [w \in Workers |-> None]
  /\ todo = [w \in Workers |-> {}]
  /\ processed = {}
  /\ recorded = {}
  /\ runs = [m \in Messages |-> 0]
  /\ overruns = [m \in Messages |-> 0]

-----------------------------------------------------------------------------
(* One sweep.                                                              *)

Mail == {mailbox[i] : i \in 1..Len(mailbox)}

Newer(m, n) == \E i, j \in 1..Len(mailbox) : mailbox[i] = m /\ mailbox[j] = n /\ i > j

\* The first n of a set of mail, newest first.
Newest(mail, n) == {m \in mail : Cardinality({k \in mail : Newer(k, m)}) < n}

GoTo(w, stage) ==
  /\ pc' = [pc EXCEPT ![w] = stage]
  /\ UNCHANGED <<hand, todo>>

\* Mutant: the next sweep finds the requests of the last.
EndSweepKeepingRequests(w) ==
  /\ pc' = [pc EXCEPT ![w] = "idle"]
  /\ UNCHANGED <<hand, todo>>

EndSweep(w) ==
  /\ pc' = [pc EXCEPT ![w] = "idle"]
  /\ hand' = [hand EXCEPT ![w] = None]
  /\ todo' = [todo EXCEPT ![w] = {}]

\* The next turn of the loop, newest request first.
TakeUp(w, requests) ==
  \E m \in Newest(requests, 1) :
    /\ pc' = [pc EXCEPT ![w] = "claim"]
    /\ hand' = [hand EXCEPT ![w] = m]
    /\ todo' = [todo EXCEPT ![w] = requests \ {m}]

\* The loop goes on, or the sweep is over.
NextRequest(w) ==
  \/ todo[w] = {} /\ EndSweep(w)
  \/ TakeUp(w, todo[w])

\* Each sweep builds its processed log.  A load that fails midway leaves a part of it;
\* a client that cannot be built leaves nothing, and keeps nothing of what is marked.
\* The sweep goes on with either.
LoadProcessed(w) ==
  \/ /\ copy' = [copy EXCEPT ![w] = processed]
     /\ logging' = logging \cup {w}
     /\ UNCHANGED faults
  \/ /\ Fault("storage_fails")
     /\ \E part \in SUBSET processed : copy' = [copy EXCEPT ![w] = part]
     /\ logging' = logging \cup {w}
  \/ /\ Fault("storage_fails")
     /\ copy' = [copy EXCEPT ![w] = {}]
     /\ logging' = logging \ {w}

\* build_inbox, with a processed log of its own.
StartSweep(w) ==
  /\ pc[w] = "idle"
  /\ LoadProcessed(w)
  /\ GoTo(w, "fetch")
  /\ UNCHANGED <<claims, claimants, mailbox, processed, recorded, runs, overruns>>

\* MailFilter.accepts: by sender and subject; a pattern that does not compile accepts
\* nothing.  What it turns down is looked at again by every sweep.
Accepts(m) == m \in Alerts

\* Past what is processed or filtered out, down to the last page, up to limit.
Fetched(w) ==
  Newest({m \in Newest(Mail, Window) : Accepts(m) /\ m \notin copy[w]}, Limit)

\* The copy is not read again: each sweep builds its own inbox.
Fetch(w) ==
  /\ pc[w] = "fetch"
  /\ \/ Fetched(w) = {} /\ EndSweep(w)
     \/ TakeUp(w, Fetched(w))
  /\ copy' = [copy EXCEPT ![w] = {}]
  /\ UNCHANGED <<claims, clients, mailbox, processed, recorded, runs, overruns, faults>>

\* The sweep ends before a message is read.
LeavesUnread(w) ==
  /\ pc[w] = "fetch"
  /\ EndSweep(w)
  /\ copy' = [copy EXCEPT ![w] = {}]
  /\ UNCHANGED <<claims, clients, mailbox, processed, recorded, runs, overruns>>

FetchFails(w) == Fault("fetch_fails") /\ LeavesUnread(w)

\* verify_scope, before the fetch, asks for a mailbox the agent has no business
\* with: any answer but a 403 (another status, none, no such mailbox configured)
\* leaves the scope unproven, and no mail is read.
MailRefused(w) == Fault("scope_unproven") /\ LeavesUnread(w)

-----------------------------------------------------------------------------
(* claim(key).                                                             *)

TakeClaim(w) ==
  /\ pc[w] = "claim"
  /\ \/ w \notin claimants /\ NextRequest(w) /\ UNCHANGED claims
     \/ w \in claimants /\ CreateEntity(hand[w]) /\ GoTo(w, "run")
     \/ w \in claimants /\ row[hand[w]] # "free" /\ GoTo(w, "read") /\ UNCHANGED claims
  /\ UNCHANGED <<clients, mailbox, copy, processed, recorded, runs, overruns, faults>>

\* Mutant: a row that exists is never stolen.
ReadClaimTimidly(w) ==
  /\ pc[w] = "read"
  /\ NextRequest(w) /\ UNCHANGED claims
  /\ UNCHANGED <<clients, mailbox, copy, processed, recorded, runs, overruns, faults>>

ReadClaim(w) ==
  /\ pc[w] = "read"
  /\ \/ SeesExpired(w, hand[w]) /\ GoTo(w, "update")
     \/ row[hand[w]] # "expired" /\ NextRequest(w) /\ UNCHANGED claims
  /\ UNCHANGED <<clients, mailbox, copy, processed, recorded, runs, overruns, faults>>

StealClaim(w) ==
  /\ pc[w] = "update"
  /\ \/ UpdateEntity(w, hand[w]) /\ GoTo(w, "run")
     \/ w \notin stealers[hand[w]] /\ NextRequest(w) /\ UNCHANGED claims
  /\ UNCHANGED <<clients, mailbox, copy, processed, recorded, runs, overruns, faults>>

\* Any other storage error: not claimed, skipped; a create or an update may have
\* landed all the same, and then the claim is held by nobody.
ClaimFails(w) ==
  /\ pc[w] \in {"claim", "read", "update"}
  /\ w \in claimants
  /\ Fault("claim_fails")
  /\ NextRequest(w)
  /\ \/ UNCHANGED claims
     \/ pc[w] = "claim" /\ CreateEntity(hand[w])
     \/ pc[w] = "update" /\ UpdateEntity(w, hand[w])
  /\ UNCHANGED <<clients, mailbox, copy, processed, recorded, runs, overruns>>

-----------------------------------------------------------------------------
(* run_request, mark_processed, release.                                   *)

RunEnds(w) ==
  /\ pc[w] = "run"
  /\ runs' = [runs EXCEPT ![hand[w]] = @ + 1]
  /\ GoTo(w, "record")
  /\ UNCHANGED <<claims, clients, mailbox, copy, processed, recorded, overruns, faults>>

\* Mutant: the message is marked whatever became of the run.
RunRaisesMarked(w) ==
  /\ pc[w] = "run"
  /\ Fault("run_raises")
  /\ GoTo(w, "mark")
  /\ UNCHANGED <<claims, clients, mailbox, copy, processed, recorded, runs, overruns>>

RunRaises(w) ==
  /\ pc[w] = "run"
  /\ Fault("run_raises")
  /\ GoTo(w, "raised")
  /\ UNCHANGED <<claims, clients, mailbox, copy, processed, recorded, runs, overruns>>

\* store.record: a write that fails is logged and swallowed.
Record(w) ==
  /\ pc[w] = "record"
  /\ \/ recorded' = recorded \cup {hand[w]} /\ UNCHANGED faults
     \/ Fault("storage_fails") /\ UNCHANGED recorded
  /\ GoTo(w, "mark")
  /\ UNCHANGED <<claims, clients, mailbox, copy, processed, runs, overruns>>

\* Mutant: the mark stays in the memory of the inbox.
MarkInMemory(w) ==
  /\ pc[w] = "mark"
  /\ GoTo(w, "release")
  /\ UNCHANGED <<claims, clients, mailbox, copy, processed, recorded, runs, overruns, faults>>

\* So is a failed write of the processed log, and a log without a client writes nothing.
Mark(w) ==
  /\ pc[w] = "mark"
  /\ \/ w \in logging /\ processed' = processed \cup {hand[w]} /\ UNCHANGED faults
     \/ w \in logging /\ Fault("storage_fails") /\ UNCHANGED processed
     \/ w \notin logging /\ UNCHANGED <<processed, faults>>
  /\ GoTo(w, "release")
  /\ UNCHANGED <<claims, clients, mailbox, copy, recorded, runs, overruns>>

\* The finally clause.  A delete that fails leaves the row to expire.
Release(w) ==
  /\ pc[w] \in {"release", "raised"}
  /\ \/ DeleteEntity(hand[w]) /\ UNCHANGED faults
     \/ Fault("claim_fails") /\ UNCHANGED claims
  /\ IF pc[w] = "raised" THEN EndSweep(w) ELSE NextRequest(w)
  /\ UNCHANGED <<clients, mailbox, copy, processed, recorded, runs, overruns>>

-----------------------------------------------------------------------------
(* Around the sweeps.                                                      *)

Arrive(m) ==
  /\ m \notin Mail
  /\ mailbox' = Append(mailbox, m)
  /\ UNCHANGED <<claims, sweep, clients, copy, processed, recorded, runs, overruns, faults>>

\* A container dies and another takes its place, with a claim client of its own or
\* without.
Crash(w) ==
  /\ pc[w] # "idle"
  /\ Fault("crash")
  /\ EndSweep(w)
  /\ copy' = [copy EXCEPT ![w] = {}]
  /\ \/ claimants' = claimants \cup {w}
     \/ "claim_fails" \in Interference /\ claimants' = claimants \ {w}
  /\ UNCHANGED <<claims, logging, mailbox, processed, recorded, runs, overruns>>

\* The lease of a claim nobody works under any more runs out.
LeaseExpires(m) ==
  /\ \A w \in Workers : ~Working(w, m)
  /\ Expire(m)
  /\ UNCHANGED <<sweep, clients, mailbox, copy, processed, recorded, runs, overruns, faults>>

\* It runs out under a live run: it is never renewed, and a run's wall clock does not
\* count the time it waits for people.
LeaseOverruns(m) ==
  /\ \E w \in Workers : Working(w, m)
  /\ Fault("slow_run")
  /\ Expire(m)
  /\ overruns' = [overruns EXCEPT ![m] = @ + 1]
  /\ UNCHANGED <<sweep, clients, mailbox, copy, processed, recorded, runs>>

Sweep(w) ==
  \/ StartSweep(w) \/ Fetch(w) \/ FetchFails(w) \/ MailRefused(w)
  \/ TakeClaim(w) \/ ReadClaim(w) \/ StealClaim(w) \/ ClaimFails(w)
  \/ RunEnds(w) \/ RunRaises(w) \/ Record(w) \/ Mark(w) \/ Release(w)

Next ==
  \/ \E w \in Workers : Sweep(w) \/ Crash(w)
  \/ \E m \in Messages : Arrive(m) \/ LeaseExpires(m) \/ LeaseOverruns(m)

Spec == Init /\ [][Next]_vars

\* A routine starts sweeps for ever and each sweep's calls return; leases run
\* out on the clock.  Mail, faults and slow runs are owed nothing.
FairSpec ==
  /\ Spec
  /\ \A w \in Workers : WF_vars(Sweep(w))
  /\ \A m \in Messages : WF_vars(LeaseExpires(m))
=============================================================================
