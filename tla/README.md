# A verification of the BI triage agent

The repository is a triage agent for Power BI refresh failures. Alerts arrive in a
mailbox; a controller runs one *triage* per alert, in which a language model proposes tool
calls and the controller decides which of them happen; remediations are limited, some need
a human's approval; the outcome is recorded as an incident. A refresh the platform has
throttled is postponed and performed later by a *drain*; a second detector polls the models
for data that is wrong although no refresh failed. This directory models that system in
TLA+, checks the models with TLC on small instances, and proves the main invariants with
TLAPS for every value of their constants.

The models are written from the source (`src/src/app.py` and `src/src/triage_demo/`).
`PROJECT.json` maps each definition to the lines it stands for. Below, paths are
relative to `src/src/triage_demo/` unless they start with `src/`.

## 1. Inventory

| Component | State | Operations | What is hard | What makes it correct |
|---|---|---|---|---|
| Policy ledger (`policy.py`) | turns, tool calls, writes, tokens, refused attempts, clock without human wait | charge a turn, a call, a write, tokens; refuse | two agents share it; limits at the boundary; charging before or after the act | limits bound what really happens; nothing is charged that is refused before its tool |
| Triage agent loop (`agents/triage_agent.py`) | message list, place in the reply's calls | turn, reply, dispatch each call, build and validate the result | the model may propose anything in any order, give up, crash | the outcome says only what happened; every run ends |
| Tool dispatcher (`tools/registry.py`) | `ToolContext`: remediation outcome, finding, flag, deferral, approvals, notice flags | charge, precondition, approval, deferred charge, sixteen tools | awaits between the check, the answer and the act; exceptions as results | one grant per gated act; no refresh into a backoff; flags rest on scans |
| Data Quality agent (`agents/data_quality_agent.py`) | evidence of one consultation | scan tables, interpret, reconcile | a model may contradict the scan; shared budget | the scan wins |
| Approval gate and channel (`approvals.py`, `store/approvals.py`, `src/infra/approval-callback.json`) | a row per request id, copies of it, consumed decisions | open, post a card, poll, decide by link or command line, expire, reset | a late or double click, an answer to another request, write failures, several writers | an answer authorises that act, in time, and once |
| Retry store (`store/retries.py`) | one row per signature: status, attempts, due time; a copy per process | defer, is_deferred, due, complete, load, reload | runs and drains on one row; bounded attempts; stale copies; writes that fail in silence | deferred work is queued, bounded, and drained |
| Incident store (`store/incidents.py`, `store/azure_table.py`, `signature.py`) | a row per signature and kind (open, resolved), counts; a copy per process | find_open, record, mark, load, reset | read before the run and written after it; two rows of one signature | every outcome is counted once; a repaired signature is open no more |
| Runner (`runner.py`) | the stores | run_request, drain_due_retries, silent_sweep | composes all of the above; crashes between an act and its record | effects and records agree |
| Hosted app (`src/src/app.py`) | per-request lock, claims | drain the mailbox, run one text, silent sweep | overlapping invocations, crashes, restarts | one triage per alert; no alert lost |
| Claim store (`store/claims.py`) | a lease row per key | claim (create, or steal when expired), release | lease expiry under a live holder; release by a former holder; two thieves; a process without a client | one holder, and one more for each lease that ended under one |
| Processed log (`store/processed.py`) | ids of triaged messages, a durable copy and one per invocation | load, seen, mark | a copy loaded before another's mark; a failed write | marked only after the outcome is recorded |
| Inbox (`tools/inbox.py`, `tools/mail_filter.py`) | mailbox pages, token, proof of scope | prove the scope, fetch up to a limit, classify | older mail under newer; page limit | every alert is reached |
| Silent-failure detector (`detectors/silent_failures.py`, `tools/semantic_health.py`) | per probe: baseline, suspicion, breaker | probe, judge, confirm, park, announce | repeated evidence, faults, restarts, calendar arithmetic | what is confirmed was seen repeatedly; nothing learns a failure |
| Semantic health store (`store/semantic_health.py`) | a row per probe, a copy per sweep, a lease | get, put, acquire, release | two replicas; a lease that ends under its holder; failed loads and writes | one sweeper at a time; baselines from healthy readings only |
| Power BI client (`tools/powerbi.py`) | a call's place and what it saw before | refresh and poll, re-arm, rebind, history | others refresh meanwhile; late listings; deadline | the outcome reported is that of the refresh sent |
| Refresh history (`knowledge/refresh_history.py`) | none | count consecutive scheduled failures | boundaries, other triggers, entries in progress, failures from before a re-arming | foretells the service's own count |
| Notifier (`tools/teams.py`), flag table (`tools/flags.py`), providers (`providers/`) | remote | post, append, complete | unknown results | failures are reported as failures |
| Command line (`cli.py`) | none of its own | decide, accept a baseline, reset, drain, watch | acts on stores other processes hold | what it says is what follows |
| Playbooks, prompts, settings, redaction, observability, identity, demo | no state of the system | | | not modelled (section 8) |

Interaction: `app.py` proves the mailbox scope, drains due retries, fetches alerts, claims
each, and calls `TriageRunner.run_request`; that looks up the open incident, builds a
`TriageDeps`, and awaits `TriageAgent.run`; the agent awaits the provider and
`ToolDispatcher.dispatch`; the dispatcher awaits the Power BI client, the notifier, the Data
Quality agent and the approval gate, and writes the retry store; after the run
`IncidentStore.record` writes the incident, and `app.py` marks the message.
`silent_sweep` takes a lease, probes each model, writes its baseline, and records a
confirmed finding as an incident, announced once. People answer approvals through the
table, from outside every process above.

## 2. Modules

| Module | Models |
|---|---|
| `PolicyLedger` | `policy.py`: the action taxonomy, the charges and refusals |
| `TriageRun` | one run: agent loop, dispatcher, Data Quality agent, and the world as the run sees it |
| `ClaimStore` | `store/claims.py`: a lease in a table row, with ETags |
| `MailboxSweep` | hosted processes over one mailbox: scope check, load, fetch, claim, steal, run, record, mark, release, crash |
| `AlertQueue` | abstract: an at-least-once queue with one consumer per alert, and one more for each lapse of a holder's term |
| `IncidentStore` | the rows of a signature, their copies, and what record and mark do to them |
| `RetryStore` | the retry row of a signature, its copies, defer, complete, due |
| `Recurrence` | processes over both stores: start, run_request, drain_due_retries, exit, crash, reset |
| `Consent` | abstract: a request is granted because a person said yes to exactly that, in time |
| `ApprovalGate` | the polling gate, its JSON and table channels, the callback workflow, the command line |
| `HealthStore` | the probe's row, its copies, and the sweep lease |
| `SilentScan` | sweeps of one probe over a changing model: lease, probe, judge, confirm, breaker, announce |
| `Freshness` | pure: is the newest business date late, by the calendar of loads; and a feed to read it on |
| `RefreshHistory` | pure: the count of scheduled failures over a refresh history |
| `PowerBI` | `refresh_dataset` step by step against a service that others use |

`TriageRun` EXTENDS `PolicyLedger`, `MailboxSweep` EXTENDS `ClaimStore`, `Recurrence` EXTENDS
`RetryStore` which EXTENDS `IncidentStore`, `SilentScan` EXTENDS `HealthStore`, `PowerBI`
EXTENDS `RefreshHistory`. For each of `TriageRun`, `MailboxSweep`, `Recurrence`,
`ApprovalGate`, `SilentScan` and `PowerBI` there is a module `...Props` with its properties
and a module `MC...` with its instances for TLC. `MailboxSweepProps` INSTANCEs
`AlertQueue` and `ApprovalGateProps` INSTANCEs `Consent`, each with a refinement mapping. The
proofs are in `TriageRunProofs`, `MailboxSweepProofs`, `RecurrenceProofs`, `PowerBIProofs`,
`ApprovalGateProofs`, `FreshnessProofs`, `SilentScanProofs` and `SilentLogProofs`, which EXTENDS
the one before it.

A run is opened in `TriageRun` and is one or a few steps everywhere else: the state of a whole
run multiplied by two processes is out of reach, and the run's own promises are proved. What
the other modules let a run do is what `TriageRun` allows (refresh once, not into a
window; defer; notify; any outcome `_validate_outcome` lets through).

## 3. From the code to the actions

Throughout: an action ends where the code awaits or writes durably; history variables are
written by actions and read by none, except through a bound; definitions under a comment
that begins `Mutant:` are plausible faults of the code and are used by no specification.
An action with a parameter `lands` or `ok` models a durable call and its failure in one.

**The run (`TriageRun`).** `pc` is where the run is: `turn`, `model`, `call`, `check`,
`ask`, `charge`, `execute`, `scan`, `interpret`, `finish`, `done`.

| Code | Actions |
|---|---|
| `TriageAgent._loop`: charge a turn, ask the provider | `LoopTurnCharged`, `LoopTurnRefused`, `ModelReplies`, `ProviderFails` |
| `ToolDispatcher.dispatch`: `charge_tool_call` | `DispatchCharged`, `DispatchUnlisted`, `DispatchEndsRun` |
| `_precondition_failure` | `CheckRefresh`, `CheckReenable` |
| `_seek_approval` | `NoGate`, `FreshAnswer`, `ReplayedAnswer` |
| the deferred `charge_write` | `WriteCharged`, `WriteRefused` |
| the sixteen tools | `ExecuteRefresh` … `ExecuteReport`, `NotifyRaises`, `ExecuteWithoutEffect` |
| `DataQualityAgent.investigate` | `ExecuteConsult`, `ScanTable`, `NothingScanned`, `InterpretTurn`, `Interpreted`, `ConsultFails` |
| `_validate_outcome`, `_build_result` | `Finish`, with `Unsupported` |
| the world outside | `TimePasses`, `RetryWindowArrives`, `RefreshElsewhere` |

The language model is any choice from the calls and claims on offer. The history variables
are what really happened: `performed`, `completions`, `shown`, `cards`, `healthy`, `lost`
(a write of the retry row failed) and `turnedAway` (remediations charged, then refused by their
tool). The retry row is kept twice, in the store's memory (`retry`) and in the table (`stored`):
`ExecuteDefer` writes both, unless the table's write fails or there is no client, which the
store swallows. A rebind is proposed with or without a target. Not kept: `attempted_actions`,
`denied_actions`, the list of actions and `elapsed_ms`, which only go into the audit record; `schedule_enabled`,
`deactivation_risk` and `gateway_rebound_to`, which no guard reads; the arguments of any
tool but a rebind. The clock does not run while a human is asked, because the code
subtracts that time. The write charge inside `charge_tool_call` cannot be reached from the
dispatcher and is left out.

**The sweep (`MailboxSweep`).** `pc[w]` is the place of process `w` in `_drain_mailbox`:
`StartSweep` (build the inbox and the stores, load the log), `MailRefused` and
`LeavesUnread` (the scope proof), `Fetch` or `FetchFails`, `TakeClaim`, `ReadClaim`,
`StealClaim`, `ClaimFails`, `RunEnds` or `RunRaises` (`run_request`), `Record`, `Mark`,
`Release`. Outside: `Arrive`, `Crash`, `LeaseExpires` (the lease of a dead holder) and
`LeaseOverruns` (of a live one, whose run takes longer: the fault `slow_run`). A claim's row is
free, live or expired; an ETag is membership in `stealers`; a `Release` deletes the row whoever
owns it, and one whose delete fails leaves a live row that nobody holds. A claim store is built
with its process and has a client for all of its life or for none of it (`claimants`); the
processed log is built for each sweep (`src/src/app.py:257`, `runner.py:299-321`), and without a
client loses every mark of that sweep (`logging`). `overruns` is history. A failed incident or mark write
is logged and swallowed, as the code does.

**The stores (`IncidentStore`, `RetryStore`, `Recurrence`).** An incident row belongs to a
signature and a kind, because the code gives results that resolved or flagged an id of their
own (`sig`), apart from all others (`usig`). `Start` is `TriageRunner.__init__` with both
loads; `RunBegins` is `find_open`; `RunRefreshes` contains `_precondition_failure`'s
`is_deferred`, which reloads the JSON file but not the table; `RunDefers`, `RunNotifies`;
`RunEnds` is `_validate_outcome`'s filter and `IncidentStore.record`. `DrainBegins`,
`DrainSends`, `DrainDefers`, `DrainCompletes`, `DrainCloses` and `DrainFindsNothingOpen` are
`drain_due_retries`; `Exit`, `Crash` (which may tear the JSON file, written in place) and
`Reset` end things. A window is a number, one per deferral; windows end in any order
(`WindowPasses`), which covers every length `backoff_seconds` gives. `joins` counts the processes
started beside a living one, which may happen at any moment.

**Approvals (`ApprovalGate`).** `Open` (which raises when the JSON file cannot be written, after
the row is in memory, and swallows a failing write of the table), `Post`, `PostFails`, `Poll`,
`Settle` and `GiveUp` are `TeamsCardApprovalGate.request_approval`. A row says which request opened it and which
answer decided it; the fingerprint a row carries in the code is that request's `what`.
`Judged` is `_decision_from_payload` and `is_valid_for`: fingerprint first, then the
verdict, then the time. `CliReads`/`CliWrites` are the `approve` and `deny` commands: they
read a row by its request id and write it back whole. `LinkReads`/`LinkWrites` are the
callback workflow of `src/infra/approval-callback.json`: it compares fingerprints and the
deadline and merges under the ETag it read. `Reset` is `cmd_reset`. A failing read of the
table while polling is a poll that finds nothing, which is what the code makes of it.

**The silent scan (`HealthStore`, `SilentScan`).** One probe of one model; probes share
nothing but the lease. `Wake`, `AskLease`, `LookAtLease` and `TakeOver` are the construction
of the runner and `try_acquire_lease`; a `Wake` may get no client, and then nothing it writes
reaches the table, or a client and no listing, and then its copy is empty and its writes land;
`Begin` is `_scan` up to its query, the breaker included; `ProbeFails` is `_record_fault`;
`ProbeAnswers` and `Conclude` are the query, `_judge`, `_check_schema`, `_record_healthy` and
`_record_suspect`; `Release` and `DeleteLease` are `release_lease`; `Post` and `Record` are
`_record_silent_finding`. `Accept` is `health --accept`. Time appears as `LeaseExpires`,
`CooldownPasses` and the age of the newest data; the counters stop at their limits, above which
the code never compares them; the cooldowns of all armed copies end together. The model changes
between any two steps. The history variable `strayed` holds the sweeps whose copy is not the
stored baseline: their listing failed, or somebody moved it since.

**Freshness (`Freshness`).** `Stale` is `_check_staleness`, in minutes and day numbers, and
`Overdue` its reference: some expected day whose deadline, lag and grace included, is past.
`FeedSpec` is a feed that is never overdue.

**The Power BI client (`PowerBI`, `RefreshHistory`).** `ReadPrior`, `Accepted`, `Rejected`,
`SendRaises`, `ReadRaises`, `Sleep`, `Poll` and `TimeOut` are `refresh_dataset`, request by
request. `Consecutive` and `AtRisk` are `assess_deactivation_risk`. The service is assumed
to do what the code relies on: a refresh is listed before it ends; scheduled refreshes do not
overlap; a schedule is switched off when its scheduled refreshes have failed `Threshold`
times with no success between; switching it on again starts a new count (`tools/powerbi.py:436-439`:
it then "fails four more times"); and any refresh may be cancelled, of which nothing in the
repository says whether it forgives the failures before it: `Finish` leaves both open. The history
variable `rearmed` says when the schedule was last switched on.

## 4. Runs, bounds, fairness

| Run | Instance | What it shows |
|---|---|---|
| `triage_run` | 2 turns of at most 2 calls, 3 calls, 2 writes, no tokens to spend beyond 0, one gateway or no target, one table, one deferral whose write may fail; a failure that is new, open or announced, with a gate or none, a retry store empty, in use or missing, a dataset others refresh | budgets shared by two agents, what is charged, one grant per gated act, no refresh into a window, re-arming only on evidence; what `resolved`, a flag, a deferral and a notice rest on; the run ends |
| `sweep` | 2 processes, 2 alerts and 1 other mail, fetch limit 2, one fault of any kind, a slow run and a process without a claim client included | one worker per alert, bounded repetition, refinement of `AlertQueue`, every alert handled |
| `recurrence` | 2 processes, one signature, 2 attempts, 2 runs, 2 windows opened by runs, 1 fault; 1 start of a process beside the other, in histories of at most 1 run and 1 window opened by it | what is counted, owed, postponed, repaired, settled; how often a postponed retry is sent by processes that overlap |
| `approvals` | 1 run process, 2 people, 2 requests of one id for 2 targets, 2 answers, 1 fault, both channels | refinement of `Consent`, one yes one grant, clicks replace nothing, every wait ends |
| `silent_scan` | 1 sweep, 5 models, 2 columns, 2 confirmations, 2 errors, 1 fault, both backends | confirmation in a row, the breaker, one card, the yardstick, failed loads included |
| `silent_lease` | 2 sweeps in 2 replicas, 2 models, schema not watched | the lease, and that what stays stale is announced |
| `refresh` | threshold 2, tops 1 and 2, 3 refreshes, 1 fault | whose outcome is reported, what the history foretells, up to one failure before the schedule is off |

Two of a kind is enough where the hazard is a race of two; a third party repeats what the
second does, except behind a lease that ended under its holder, where it takes a third to gain
from the row the first one deletes. `sweep` shows the steal and that nothing else follows from it;
that as many leases as end admit as many more workers, however many processes there are, is the
theorem `WorkIsExclusive`. In `recurrence` two processes that hold the same pending row, and a
crash beside a living process, both occur. In `triage_run` a scan fits in with the flag or with the
report of it, not both with the consultation in 3 calls: the flag is checked there, and the
outcome `flagged_data_quality` by the theorem `FlagsAreBacked`. `approvals` has one run process
because runs of one mail's action are one after the other under a claim. The code's own values (14
turns, 20 calls, 1 write, 80 000 tokens, 300 s, 15 rows, threshold 4) differ only in magnitude; what
is proved (section 6) is proved for all of them. Each bound is a named constant in a guard. Leases
expire under a working process in `sweep`; in `SilentScan` always, and `OneSweeper` says which case
it excludes.

Deadlock is not checked: every bounded instance ends somewhere, and a run, a request or a
mailbox may really be finished. That nothing stops early is what the liveness
properties say.

Fairness. `TriageRun`: weak, of the controller: each await in it has a timeout.
`MailboxSweep`: sweeps keep coming (a scheduled trigger, `src/docs/operations.md`), a live
one goes on, leases run out. `Recurrence`: weak for starting, ending a run, a drain's steps
and windows; strong for `DrainBegins`, since every sweep drains before it reads mail but a
process may be busy or gone whenever the row is due. `ApprovalGate`: the polling loop and
the deadlines. `SilentScan`: sweep steps, leases, cooldowns. `PowerBI`: the client's own
steps and its deadline; the service owes nothing. Faults, people and the outside world are
never fair.

What is conditional says so in the property: in `Recurrence`, most is promised only to
histories in which processes do not overlap and no write is lost (`Orderly`), since the code
has no arbitration between overlapping runs of one signature; in `SilentScan` the log stops
where a crash or a failed call makes the code itself lose count, and `YardstickHolds` is about
sweeps that are not `strayed`; `EveryAlertHandled` needs one process with a claim client;
`RiskIsExact` and `SilenceIsForetold` except the histories whose readings are open (a
scheduled refresh under way or cancelled), of which section 5 says what becomes;
`OneYesOneGrant` is about the table with its writes landing.

## 5. Where the code and its own text differ

Five runs end in a violation: the claim is quoted in `PROJECT.json`, the trace shows how the
code departs from it.

- `rebind_charged` (`tools/registry.py:506` and 831-833 against 456-458): a rebind without a target
  is approved, charged and only then refused by its tool, so the run's one remediation is gone.
  `RefusedBeforeTheTool` is the other side: no refusal before the tool costs anything.
- `rerun` (`src/src/app.py:325` against 341-342): a sweep that fetched a message before another
  marked it and released the claim triages it again. `RerunsAreBounded` is the other side: as
  often as there are processes, not more.
- `repair_open` (`store/incidents.py:187` against 76-78): a resolved run is recorded in a row of its
  own, created if need be, while an open row that some other outcome left stays and suppresses the
  next alert: `needs_human`, then `resolved`, is enough. `RepairClosesTheIncident` holds while a
  signature has one row.
- `accepted` (`cli.py:1034-1039` against 1022, 1041-1042): accepting a smaller row count keeps
  the old baseline, and the collapse is confirmed again.
- `monday` (`detectors/silent_failures.py:356` against 352-354): the load of today counts as
  expected before it is due, so a weekday feed is stale all Monday. `FalseAlarmsAreEarly`
  proves that this is the only kind of false alarm.

Met while modelling, and not the subject of a run; of the first five the model has every step, and
the property named excepts just that case:

- A write of the retry row that fails is swallowed and the tool answers "pending"
  (`store/retries.py:315-335`): the run reports `deferred_retry` and no drain will ever see it, which is
  what `agents/triage_agent.py:368-370` calls work "neither done nor queued" and means to exclude.
  `DeferredIsScheduled` holds of the store's memory, and of the table when its writes land.
- A listing that fails after the client was built leaves an empty copy and a client that writes
  (`store/semantic_health.py:245-249`, 280-286), so the next reading, collapsed or short of a column,
  passes for a first one and overwrites the stored baseline, against 10-14, 58 and 222.
  `YardstickHolds` excepts such sweeps (`strayed`).
- A scheduled refresh in progress ends the count like a success, and a schedule one failure from
  being switched off is "not at risk" (`knowledge/refresh_history.py:115-123` against 122 and 130).
  `RiskIsExact` and `SilenceIsForetold` except listings with one.
- Failures from before a re-arming are counted, so a schedule that can fail four more times reads
  as "at risk" (`knowledge/refresh_history.py:115-123` against 130 and `tools/powerbi.py:436-438`).
  `RiskIsExact` says that these are the only failures counted beside the service's own.
- Five rows are read before the refresh is sent and ten in each poll (`tools/powerbi.py:284`, 324,
  330-332 against 278-281): without a request id in the reply, an older refresh among the ten is
  taken for the one just sent. `OutcomeIsOwn` excepts histories longer than what was read.
- A human is asked before the budget is consulted, and may approve what is then refused
  (`tools/registry.py:483-494`).
- A claim of denial needs no refusal to have happened (`agents/triage_agent.py:402-404`).
- Any successful remediation stands for a healthy dataset (`tools/registry.py:667-675`).
- A table is scanned before the scan is charged (`agents/data_quality_agent.py:99-115`).
- A claim's lease of 600 s is not renewed, and a run may wait longer for people (`store/claims.py:162`).
- A failed incident write is logged, and the message marked all the same (`store/azure_table.py:137`).
- When the reply of the POST has no `RequestId`, another's new refresh may be taken for one's own
  (`tools/powerbi.py:330-332`); the code says so of its fallback, and `OutcomeIsOwn` excepts it.
- A claim store whose client could not be built refuses every claim for its process's life
  (`store/claims.py:112-131`): safe, and said so, but the process does no work.
- The command line decides by request id, not by fingerprint: it may approve what took the
  place of what the operator read (`approvals.py:31-34`). A lost opening write lets one yes grant
  the same act twice.
- A parked probe is announced as if it were a finding (`runner.py`, after `silent_failures.py:151`);
  a stale finding's text holds its numbers, so each further day is a new card.
- The sweep's lease belongs to a replica, which can take it again from itself: only the lock
  around a request (`src/src/app.py:202`) keeps its sweeps apart. The copy of the row is read
  before the lease is asked for.
- Overlapping drains each send the same retry; in the JSON store a stale copy written whole
  brings back rows another process has closed.

## 6. Proofs

All theorems are checked by TLAPS for every value of the constants, under the assumptions
the modules name.

`TriageRunProofs`. Type correctness needs `Busy` (a run that is between a
model's reply and its end still has a call of that reply pending). `BudgetsAlwaysHold` rests on
`BudgetInv`, which counts the acts performed together with the one that is charged and in
flight. `GrantsAreOwn` rests on `GrantInv`: the answer a cleared call rests on is consumed,
granted, for these arguments, and no earlier act rests on it; most steps are `Quiet` and
disturb nothing of it. `FlagsAreBacked`,
`DeferralsAreScheduled` and `NoticesAreHonest` rest on `NotesInv`, the agreement of the context's
notes with the history; `RefusalsCostNothing` on `SpendInv`, which counts what was let through to
a tool, sent or turned away there; `ResolutionsAreEarned` and `SchedulesAreRearmedOnEvidence` on `FixInv`;
`NeverStampedes` is a step property of the refresh's guard over the awaits between.

`MailboxSweepProofs`. `SweepTypeCorrect`; `WorkIsExclusive` from `ClaimInv` (`Excess`:
those at work on an alert are at most the leases of it that ended under a run, and one more only
while its row is live; `Thieves`: of several who read the expired row, one write succeeds). Who works
need not hold the row, since an overtaken holder deletes the row of another: the count survives
that, ownership does not.
`SweepsImplementQueue`, the refinement of `AlertQueue`, from `QueueInv` (`FromMail`, `Triaged`);
`SweepsRerunSeldom` from `RerunInv`. That one counts: before a message is marked it has been run
at most once, and by a process on its way to the mark (`FirstRun`, by exclusion); after the mark
the processes that may run it (`Candidates`: it is in their requests or in hand, or they loaded
the log before the mark and have yet to fetch) and its runs are together no more than there are
processes, because no step makes a new candidate and every run uses one up. All of them hold under
every kind of fault; the module assumes that there are finitely many processes.

`RecurrenceProofs`. No promise of the stores is inductive alone, since what a write leaves on disk
depends on the copy it is made from. `JobInv`, of one process: while it drains, the rows it has
yet to send are pending in its own copy, and the one it has sent stays so until it is settled.
`AgreeInv`: the copies of a process that is alone are the stores as long as storage answers; for
the JSON file even when a crash has torn it. From these follow, each by a ledger of its own,
`OutcomesAreCounted`; `PostponedIsKept` and `DeferralsAreBounded` (`RetryLedger`: the row's count
is the deferrals, and what is being settled is owed no more); `PostponedIsNotAnticipated`, a
property of the two steps that refresh; and `RepairsClose` (`RepairInv`: as it stands but
for a drain about to close the incident). `RetriesAreSentSeldom` is about processes that do
overlap: of a window's row, who holds it as pending is a waiter until it sends and a settler until
it has saved the end; while the storage has the row too, the
sends are at most the settlers and the faults, afterwards the sends and the waiters left are at
most the faults, the joins and one (`SendInv`). It needs `WindowInv` (a pending row's window was
opened for it), `PrivateInv` (a process without a table client holds nothing pending that is also on
record, so that its failing writes keep no row alive) and `BandInv` (of the processes alive each but
one has joined another), and finitely many processes. `BackendAssumption`, in
`IncidentStore`, says that storage is one of the two kinds.

`PowerBIProofs`. `IInv` is `TypeOK`, `ServiceInv` (of the scheduled refreshes only the
newest can be running, every strike is a failure since the last success, every such failure is a
strike, or older than the last re-arming, or older than a cancelled refresh, and a schedule that is
off has enough strikes and runs nothing), `KnowsItsOwn` (the refresh named in
the reply is the client's own, and while no other has come up the rows read before hold every
other) and `OutcomeIsOwn`. `OutcomeIsOwn` alone is not inductive: what a poll returns depends on
what the call remembers, and that on the order in which refreshes are numbered.
`RiskCorrect` and `SilenceCorrect` follow through `CountIsStrikes`: the newest run of failures
is made of strikes and of failures from before the last re-arming, and leaves out no strike it could
read.

`FreshnessProofs`. `OverdueIsStale`: no late load goes unnoticed; `DailyIsExact`: for a feed
loaded every day the check is exact; `FalseAlarmsAreEarly`: where it is wrong, it counts a load
that is not yet due.

`ApprovalGateProofs`. `IInv` ties every copy of a row, in the storage, in a run's memory or in
the hands of somebody about to answer, to the history: a decided row carries an answer to the
request that opened it (`SoundRow`), somebody who answers has read an open row, which for a link
is about the same act as its card (`ReaderInv`), two runs never wait for one request (`GateInv`),
and a grant rests on a yes to the same act (`GrantedInv`). The argument is `Grows`: requests and
answers are never taken back, so a row that was sound stays sound in however old a copy.
`ClicksGrantTheirCards` and `DecisionsStandAgainstClicks` follow, and `GateImplementsConsent`,
the refinement of `Consent`, for any number of runs, people, requests and faults and for both
channels. `OneYesGrantsOnce` adds `SpendInv` (an answer that has granted something is in no row a
run waits for) and assumes `Solo`, one run at a time: of two overlapping runs that ask under one
request id, both can hear the one answer.

`SilentScanProofs`. `OneSweepAtATime` rests on `LeaseInv`: a sweep that relies on the lease finds
its own name in the lease row, live, and one about to take the row over has read that it is its
own or dead and that nobody wrote it since; so of several that saw it dead the first wins, and
the ETags of the others are worthless. The assumption is that a replica runs one sweep at a time
(the lock at `src/src/app.py:202`), and the hypothesis `~overran` excludes a lease
that expires, or is reset, under its holder.

`SilentLogProofs`. The four properties of sweeps that come one after the other rest on `LogInv`:
while the log is kept, one sweep at most is at work (`KeptInv`), its copies are the stores' rows
until it has judged its reading (`WorkInv`), the row's suspicion is the latest streak of
readings and its error count bounds the refused queries (`RowInv`), and every card told is
recorded or about to be (`ToldInv`). None of the four is inductive alone: a confirmation is as
good as the row the sweep read, which is as good as what the last sweep wrote. `YardstickHolds`
is a step property on top, through `Concluding`, what the end of `_scan` writes; it needs no log,
only that the copy of a sweep that is not `strayed` has the stored baselines (`BaseInv`), which is
proved of overlapping sweeps and lost writes alike.

Every invariant and action property that a passing run checks is stated by one of the theorems.
Left to TLC are the liveness properties (`RunTerminates`, `EveryAlertHandled`, `OwedIsSettled`,
`EveryRequestEnds`, `StaleIsAnnounced`, `CallEnds`), since the prover reaches neither
fairness nor ENABLED, and the five violations of section 5.

## 7. Hazards

`PROJECT.json` lists 40 with their lines. Four have no property, each with its reason there: the
watch loop of the command line, a local demo that takes no claim; overlapping runs of one signature,
which the code does not arbitrate; the command line's decisions, by request id and without an ETag;
a crash between a card and its record.

Known beside these, and not covered: a failed incident write, which the code accepts on purpose; a
mailbox whose unprocessable mail exceeds the page budget; a sweeper that comes back after it lost
its lease (`LeaseExpires` does end it, `OneSweeper` excepts it); the lost write of a healthy reading,
after which `ConfirmedInARow` promises nothing; and that a parked probe is tried again, which
`CooldownPasses` allows and no liveness property demands.

## 8. Not modelled

- `identity.py`: it reads directory facts, displays them and keeps nothing; the proof of mailbox
  scope is an outcome in `MailboxSweep`.
- Printing, argument parsing and the `watch` loop of `cli.py`; its commands that change state are
  actions (`CliReads`, `CliWrites`, `Accept`, `Reset`, and the drain in `Recurrence`).
- `knowledge/playbooks`, prompts, tool schemas: text given to a model that may answer anything.
- `providers/mock.py`, the scenario harness, the demo scripts, infrastructure: scripted
  stand-ins and deployment.
- `redact.py`, `observability.py`, `settings.py`, token caches: no guard reads their state.
- `signature.py`'s normalisation and the DAX texts: what they distinguish is a signature or a
  reading here.
- The retry loop of `providers/foundry.py`: a call that ends with a reply or an exception.
