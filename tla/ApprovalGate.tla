---------------------------- MODULE ApprovalGate ----------------------------
(***************************************************************************)
(* A human's approval: TeamsCardApprovalGate (approvals.py) polling a      *)
(* durable channel (store/approvals.py) that people answer from elsewhere, *)
(* by the command line or by a button of the card, which the callback      *)
(* workflow serves (infra/approval-callback.json).                         *)
(*                                                                         *)
(* A row of the channel belongs to a request id, "<mail>:<action>", so the *)
(* same action asked for again, with other arguments or by a re-run, uses  *)
(* the same row.  Here a row says which request opened it and which answer *)
(* it carries; its fingerprint and decision are theirs.                    *)
(***************************************************************************)
EXTENDS Naturals, Sequences, FiniteSets

CONSTANTS
  Runs,         \* processes that run the agent
  Humans,       \* people who answer
  Requests,     \* what may be asked: <<request id, fingerprint>>
  Backends,     \* which channel is configured: "json", "table"
  MaxAsks,      \* requests made, a bound
  MaxAnswers,   \* answers given, a bound
  MaxFaults     \* faults, a bound

ASSUME ApprovalAssumption ==
  /\ Requests \subseteq {q[1] : q \in Requests} \X {q[2] : q \in Requests}
  /\ MaxAsks \in Nat /\ MaxAnswers \in Nat /\ MaxFaults \in Nat

VARIABLES
  backend,   \* the channel configured
  table,     \* the shared rows: a file or a table
  copy,      \* copy[r]: the rows in memory of run r's JSON channel; the table channel
             \* never looks at its own
  client,    \* client[r]: the table could be opened
  gate,      \* gate[r]: where the run is in request_approval, and with what
  reader,    \* reader[h]: the answer h is giving, between reading and writing
  expired,   \* requests whose expires_at has passed
  faults     \* faults so far

\* History.
VARIABLES
  asks,      \* requests made: what, and what came of it
  answers,   \* answers recorded: to which request's row, looking at which card
  posted,    \* requests whose card was posted
  lossy      \* a write has failed

channel == <<backend, table, copy, client>>
hist    == <<asks, answers, posted, lossy>>
vars    == <<channel, gate, reader, expired, faults, hist>>

Keys   == {q[1] : q \in Requests}
NoRow  == [ask |-> 0, by |-> 0]
NoRows == [k \in Keys |-> NoRow]
Down   == [at |-> "down", ask |-> 0, row |-> NoRow]
Idle   == [via |-> "none", key |-> "none", row |-> NoRow, meant |-> 0,
           verdict |-> "none", file |-> NoRows]

KeyOf(n)  == asks[n].what[1]
WhatOf(n) == asks[n].what

Init ==
  /\ backend \in Backends
  /\ table = NoRows
  /\ copy = [r \in Runs |-> NoRows]
  /\ client = [r \in Runs |-> FALSE]
  /\ gate = [r \in Runs |-> Down]
  /\ reader = [h \in Humans |-> Idle]
  /\ expired = {}
  /\ faults = 0
  /\ asks = <<>>
  /\ answers = <<>>
  /\ posted = {}
  /\ lossy = FALSE

-----------------------------------------------------------------------------
(* A run and its channel.                                                  *)

\* build_approval_channel: a file is read, a table is opened or refused.
Connect(r, ok) ==
  /\ gate[r].at = "down"
  /\ ~ok => backend = "table" /\ faults < MaxFaults
  /\ faults' = IF ok THEN faults ELSE faults + 1
  /\ gate' = [gate EXCEPT ![r] = [Down EXCEPT !.at = "free"]]
  /\ copy' = [copy EXCEPT ![r] = IF backend = "json" THEN table ELSE NoRows]
  /\ client' = [client EXCEPT ![r] = ok]
  /\ UNCHANGED <<backend, table, reader, expired, hist>>

Gone(r) ==
  /\ gate' = [gate EXCEPT ![r] = Down]
  /\ copy' = [copy EXCEPT ![r] = NoRows]
  /\ client' = [client EXCEPT ![r] = FALSE]

Leave(r) ==
  /\ gate[r].at = "free"
  /\ Gone(r)
  /\ UNCHANGED <<backend, table, reader, expired, faults, hist>>

\* A request whose process dies is waited for by nobody.
Crash(r) ==
  /\ gate[r].at \in {"opened", "unopened", "polling", "heard"}
  /\ faults < MaxFaults
  /\ faults' = faults + 1
  /\ asks' = [asks EXCEPT ![gate[r].ask].outcome = "abandoned"]
  /\ Gone(r)
  /\ UNCHANGED <<backend, table, reader, expired, answers, posted, lossy>>

\* What the storage holds once a run has written the row of k.
Stored(r, k, row) ==
  IF backend = "json" THEN [copy[r] EXCEPT ![k] = row] ELSE [table EXCEPT ![k] = row]

\* Mutant: a row that is there is left alone.
OpenKeeping(r, q, lands) ==
  LET n == Len(asks) + 1 IN
  /\ gate[r].at = "free"
  /\ n <= MaxAsks
  /\ lands
  /\ asks' = Append(asks, [what |-> q, outcome |-> "waiting", by |-> 0])
  /\ gate' = [gate EXCEPT ![r] = [Down EXCEPT !.at = "opened", !.ask = n]]
  /\ table' = IF table[q[1]] = NoRow THEN Stored(r, q[1], [ask |-> n, by |-> 0]) ELSE table
  /\ UNCHANGED <<backend, copy, client, reader, expired, faults, answers, posted, lossy>>

\* open: a fresh row, whatever was there.  A failed table write is only logged; a file
\* that cannot be written raises, with the row already in memory, and nothing is posted.
Open(r, q, lands) ==
  LET n   == Len(asks) + 1
      row == [ask |-> n, by |-> 0]
  IN
  /\ gate[r].at = "free"
  /\ n <= MaxAsks
  /\ IF lands \/ ~client[r] THEN UNCHANGED faults
     ELSE faults < MaxFaults /\ faults' = faults + 1
  /\ lands => client[r]
  /\ lossy' = (lossy \/ ~lands)
  /\ asks' = Append(asks, [what |-> q, outcome |-> "waiting", by |-> 0])
  /\ gate' = [gate EXCEPT ![r] =
       [Down EXCEPT !.at = IF lands \/ backend = "table" THEN "opened" ELSE "unopened", !.ask = n]]
  /\ copy' = IF backend = "json" THEN [copy EXCEPT ![r][q[1]] = row] ELSE copy
  /\ table' = IF lands THEN Stored(r, q[1], row) ELSE table
  /\ UNCHANGED <<backend, client, reader, expired, answers, posted>>

\* Mutant: the loop records an answer and goes on polling.
EndsPolling(r, outcome, by) ==
  /\ asks' = [asks EXCEPT ![gate[r].ask].outcome = outcome, ![gate[r].ask].by = by]
  /\ UNCHANGED gate

\* The run has its answer: outcome, and by which answer if by one.
Ends(r, outcome, by) ==
  /\ asks' = [asks EXCEPT ![gate[r].ask].outcome = outcome, ![gate[r].ask].by = by]
  /\ gate' = [gate EXCEPT ![r] = [Down EXCEPT !.at = "free"]]

Post(r) ==
  /\ gate[r].at = "opened"
  /\ gate' = [gate EXCEPT ![r].at = "polling"]
  /\ posted' = posted \cup {gate[r].ask}
  /\ UNCHANGED <<channel, reader, expired, faults, asks, answers, lossy>>

\* The request could not be recorded, or its card not be posted.
PostFails(r) ==
  /\ gate[r].at \in {"opened", "unopened"}
  /\ Ends(r, "error", 0)
  /\ UNCHANGED <<channel, reader, expired, faults, answers, posted, lossy>>

\* poll, while there is time: the JSON channel reads its file again, the other the
\* table.  A decided row ends the wait.
Poll(r) ==
  LET k == KeyOf(gate[r].ask) IN
  /\ gate[r].at = "polling"
  /\ gate[r].ask \notin expired
  /\ client[r]
  /\ copy' = IF backend = "json" THEN [copy EXCEPT ![r] = table] ELSE copy
  /\ gate' = IF table[k].by = 0 THEN gate
             ELSE [gate EXCEPT ![r].at = "heard", ![r].row = table[k]]
  /\ UNCHANGED <<backend, table, client, reader, expired, faults, hist>>

\* Mutant: the fingerprint is not compared.
JudgedUnbound(n, row) ==
  IF answers[row.by].verdict = "decline" THEN "denied"
  ELSE IF n \in expired THEN "too_late"
  ELSE "granted"

\* _decision_from_payload, then is_valid_for.
Judged(n, row) ==
  IF WhatOf(row.ask) # WhatOf(n) THEN "error"
  ELSE IF answers[row.by].verdict = "decline" THEN "denied"
  ELSE IF n \in expired THEN "too_late"
  ELSE "granted"

Settle(r) ==
  /\ gate[r].at = "heard"
  /\ Ends(r, Judged(gate[r].ask, gate[r].row), gate[r].row.by)
  /\ UNCHANGED <<channel, reader, expired, faults, answers, posted, lossy>>

\* Mutant: the wait goes on while the request is open.
GiveUpUnlessOpen(r) ==
  /\ gate[r].at = "polling"
  /\ gate[r].ask \in expired
  /\ table[KeyOf(gate[r].ask)].ask # gate[r].ask
  /\ Ends(r, "timed_out", 0)
  /\ UNCHANGED <<channel, reader, expired, faults, answers, posted, lossy>>

GiveUp(r) ==
  /\ gate[r].at = "polling"
  /\ gate[r].ask \in expired
  /\ Ends(r, "timed_out", 0)
  /\ UNCHANGED <<channel, reader, expired, faults, answers, posted, lossy>>

Expire(n) ==
  /\ n \in 1..Len(asks) \ expired
  /\ asks[n].outcome = "waiting"
  /\ expired' = expired \cup {n}
  /\ UNCHANGED <<channel, gate, reader, faults, hist>>

-----------------------------------------------------------------------------
(* Whoever answers.                                                        *)

Answering == {h \in Humans : reader[h] # Idle}

Reads(h, via, k, meant, verdict) ==
  /\ reader[h] = Idle
  /\ Len(answers) + Cardinality(Answering) < MaxAnswers
  /\ table[k].ask # 0 /\ table[k].by = 0
  /\ reader' = [reader EXCEPT ![h] =
       [via |-> via, key |-> k, row |-> table[k], meant |-> meant, verdict |-> verdict,
        file |-> IF backend = "json" THEN table ELSE NoRows]]
  /\ UNCHANGED <<channel, gate, expired, faults, hist>>

\* triage-demo approve or deny: a request id, read off a card or off the list of
\* what is open; no row, or an answered one, is refused.
CliReads(h, meant, verdict) ==
  /\ meant \in posted \/ table[KeyOf(meant)].ask = meant
  /\ Reads(h, "cli", KeyOf(meant), meant, verdict)

\* Mutant: the link's fingerprint is not compared with the row's.
LinkReadsUnbound(h, meant, verdict) ==
  /\ backend = "table"
  /\ meant \in posted
  /\ table[KeyOf(meant)].ask \notin expired
  /\ Reads(h, "link", KeyOf(meant), meant, verdict)

\* A button: the row must be open, unexpired and about what the card is about.
LinkReads(h, meant, verdict) ==
  LET k == KeyOf(meant) IN
  /\ backend = "table"
  /\ meant \in posted
  /\ table[k].ask # 0 /\ table[k].ask \notin expired
  /\ WhatOf(table[k].ask) = WhatOf(meant)
  /\ Reads(h, "link", k, meant, verdict)

Recorded(h) ==
  /\ answers' = Append(answers, [ask |-> reader[h].row.ask, verdict |-> reader[h].verdict,
                                 meant |-> reader[h].meant, via |-> reader[h].via])
  /\ table' = [IF backend = "json" THEN reader[h].file ELSE table
                 EXCEPT ![reader[h].key] = [ask |-> reader[h].row.ask, by |-> Len(answers) + 1]]

\* The row that was read is written back, over whatever is there now.
CliWrites(h, lands) ==
  /\ reader[h].via = "cli"
  /\ IF lands
     THEN Recorded(h) /\ UNCHANGED <<faults, lossy>>
     ELSE /\ backend = "table" /\ faults < MaxFaults
          /\ faults' = faults + 1 /\ lossy' = TRUE
          /\ UNCHANGED <<answers, table>>
  /\ reader' = [reader EXCEPT ![h] = Idle]
  /\ UNCHANGED <<backend, copy, client, gate, expired, asks, posted>>

\* Mutant: no If-Match.
LinkWritesAnyway(h) ==
  /\ reader[h].via = "link"
  /\ Recorded(h)
  /\ reader' = [reader EXCEPT ![h] = Idle]
  /\ UNCHANGED <<backend, copy, client, gate, expired, faults, asks, posted, lossy>>

\* A MERGE under the ETag of the row that was read.
LinkWrites(h) ==
  /\ reader[h].via = "link"
  /\ IF table[reader[h].key] = reader[h].row THEN Recorded(h) ELSE UNCHANGED <<answers, table>>
  /\ reader' = [reader EXCEPT ![h] = Idle]
  /\ UNCHANGED <<backend, copy, client, gate, expired, faults, asks, posted, lossy>>

\* cmd_reset.
Reset ==
  /\ table # NoRows
  /\ table' = NoRows
  /\ UNCHANGED <<backend, copy, client, gate, reader, expired, faults, hist>>

-----------------------------------------------------------------------------
Waits(r) == Post(r) \/ PostFails(r) \/ Poll(r) \/ Settle(r) \/ GiveUp(r)

Asks(r) ==
  \/ \E ok \in BOOLEAN : Connect(r, ok)
  \/ \E q \in Requests, lands \in BOOLEAN : Open(r, q, lands)
  \/ Leave(r) \/ Crash(r)

Answers(h) ==
  \/ \E meant \in 1..Len(asks), verdict \in {"approve", "decline"} :
       CliReads(h, meant, verdict) \/ LinkReads(h, meant, verdict)
  \/ \E lands \in BOOLEAN : CliWrites(h, lands)
  \/ LinkWrites(h)

Next ==
  \/ \E r \in Runs : Asks(r) \/ Waits(r)
  \/ \E h \in Humans : Answers(h)
  \/ \E n \in 1..Len(asks) : Expire(n)
  \/ Reset

Spec == Init /\ [][Next]_vars

\* The polling loop runs as long as its process, and deadlines are times on a clock.
FairSpec ==
  /\ Spec
  /\ \A r \in Runs : WF_vars(Waits(r))
  /\ \A n \in 1..MaxAsks : WF_vars(n <= Len(asks) /\ Expire(n))
=============================================================================
