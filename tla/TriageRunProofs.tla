--------------------------- MODULE TriageRunProofs ---------------------------
(***************************************************************************)
(* Proofs about one triage run, for every policy, every set of tools,      *)
(* targets and tables, and every batch size.  Each property is proved from *)
(* an inductive strengthening of it, defined just before its proof; the    *)
(* preservation step of each has one step per action of the run.           *)
(***************************************************************************)
EXTENDS TriageRunProps, TLAPS

-----------------------------------------------------------------------------
(* Type correctness.                                                       *)

\* The stages of a dispatch: while the run is in one, at least the call being
\* dispatched is pending, so the count of pending calls never goes below zero.
CallStages == {"call", "check", "ask", "charge", "execute", "scan", "interpret"}

Busy == pc \in CallStages => pending > 0

TypeInv == TypeOK /\ Busy

\* What the record-valued updates of the run yield.
LEMMA IdleIsCall == Idle \in Calls
  BY DEF Calls, Arguments, Idle

LEMMA NewCall ==
  ASSUME NEW action \in Offered, action \in AllowedActions, NEW arg \in ArgsOf(action)
  PROVE  [action |-> action, arg |-> arg, by |-> 0] \in Calls
  BY DEF Calls, Arguments, ArgsOf

LEMMA CallAuthorised ==
  ASSUME cur \in Calls, NEW id \in Nat
  PROVE  [cur EXCEPT !.by = id] \in Calls
  BY DEF Calls

LEMMA RowDeferred ==
  ASSUME retry \in Rows
  PROVE  Defer(retry) \in Rows
  BY RunAssumption DEF Rows, Defer, RetryStatuses

LEMMA RowDue ==
  ASSUME retry \in Rows
  PROVE  [retry EXCEPT !.status = "due"] \in Rows
  BY DEF Rows, RetryStatuses

LEMMA RemediationRecorded ==
  ASSUME performed \in Seq(Performed), cur \in Calls, cur.action \in RemediationActions,
         NEW ok \in BOOLEAN
  PROVE  Append(performed, [action |-> cur.action, arg |-> cur.arg, by |-> cur.by, ok |-> ok])
           \in Seq(Performed)
<1>1. [action |-> cur.action, arg |-> cur.arg, by |-> cur.by, ok |-> ok] \in Performed
  BY DEF Calls, Performed
<1>. QED
  BY <1>1

LEMMA RebindTypes ==
  ASSUME TypeInv, NEW result \in {"succeeded", "failed", "raised"}, ExecuteRebind(result)
  PROVE  performed' \in Seq(Performed) /\ remediation' \in {"none", "succeeded", "failed"}
<1>1. CASE cur.arg = NoTarget
  BY <1>1 DEF ExecuteRebind, ctx, hist, TypeInv, TypeOK
<1>2. CASE cur.arg # NoTarget
  BY <1>2, RemediationRecorded
     DEF ExecuteRebind, Executing, Perform, RemediationActions, TypeInv, TypeOK
<1>. QED
  BY <1>1, <1>2

LEMMA AnsweredCall ==
  ASSUME cur \in Calls, NEW id \in Nat, NEW decision, NEW late, Answered(id, decision, late)
  PROVE  cur' \in Calls
<1>1. CASE Authorises(decision, id, late)
  <2>1. cur' = [cur EXCEPT !.by = id]
    BY <1>1 DEF Answered, Acknowledges
  <2>. QED
    BY <2>1, CallAuthorised
<1>2. CASE ~Authorises(decision, id, late)
  BY <1>2, IdleIsCall DEF Answered, Acknowledges, CallReturns
<1>. QED
  BY <1>1, <1>2

LEMMA AnswerTypes ==
  ASSUME TypeInv, NEW id \in Nat, NEW decision \in Decisions, NEW late,
         Answered(id, decision, late)
  PROVE  /\ cur' \in Calls
         /\ consumed' \subseteq Nat
         /\ approvals' \subseteq {"granted", "ungranted"}
         /\ pc' \in {"charge", "turn", "call"}
         /\ pending' \in Nat
         /\ pc' # "turn" => pending' > 0
<1>1. cur' \in Calls
  BY AnsweredCall DEF TypeInv, TypeOK
<1>2. consumed' \subseteq Nat
  BY DEF Answered, Acknowledges, TypeInv, TypeOK
<1>3. approvals' \subseteq {"granted", "ungranted"}
  BY DEF Answered, Acknowledges, TypeInv, TypeOK
<1>4. /\ pc' \in {"charge", "turn", "call"}
      /\ pending' \in Nat
      /\ pc' # "turn" => pending' > 0
  BY DEF Answered, Acknowledges, CallReturns, TypeInv, TypeOK, Busy, CallStages
<1>. QED
  BY <1>1, <1>2, <1>3, <1>4

\* Type correctness holds when the run starts.
LEMMA TypeInit == Init => TypeInv
<1>. USE PolicyAssumption, RunAssumption
<1>. SUFFICES ASSUME Init PROVE TypeInv
  OBVIOUS
<1>1. setup.retry \in Rows /\ setup.latest \in {"Completed", "Failed", "none"}
  BY DEF Init, Situation, Rows
<1>3. stored \in RetryStatuses /\ lost \in BOOLEAN
  BY <1>1 DEF Init, Rows
<1>2. issued \in Seq(Decisions) /\ performed \in Seq(Performed) /\ cur \in Calls
  BY IdleIsCall DEF Init
<1>. QED
  BY <1>1, <1>2, <1>3 DEF Init, LedgerInit, TypeInv, TypeOK, LedgerTypeOK, Busy, CallStages, Stages,
     Overrides

\* Every step of the run keeps the types.
LEMMA TypeStep == TypeInv /\ [Next]_vars => TypeInv'
<1>. USE PolicyAssumption, RunAssumption, IdleIsCall
<1>. USE DEF TypeInv, TypeOK, LedgerTypeOK, Busy, ledger, ctx, dq, gate, world, hist,
     EndRun, CallReturns, GoTo, CallStages, Stages, Overrides
<1>. SUFFICES ASSUME TypeInv, [Next]_vars PROVE TypeInv'
  OBVIOUS
<1>1. CASE LoopTurnRefused
  BY <1>1 DEF LoopTurnRefused
<1>2. CASE LoopTurnCharged
  BY <1>2 DEF LoopTurnCharged, ChargeLlmTurn
<1>3. CASE ProviderFails
  BY <1>3 DEF ProviderFails
<1>4. ASSUME NEW n \in 0..MaxBatch, NEW count \in ReplyTokens,
            ModelReplies(n, count)
     PROVE  TypeInv'
  BY <1>4 DEF ModelReplies, ChargeTokens
<1>5. CASE Finish
  BY <1>5 DEF Finish, Unsupported, ValidOutcomes
<1>6. CASE DispatchEndsRun
  BY <1>6 DEF DispatchEndsRun
<1>7. ASSUME NEW action \in Offered,
            DispatchUnlisted(action)
     PROVE  TypeInv'
  BY <1>7 DEF DispatchUnlisted, RecordBlocked
<1>8. ASSUME NEW action \in Offered, NEW arg \in ArgsOf(action),
            DispatchCharged(action, arg)
     PROVE  TypeInv'
  BY <1>8, NewCall DEF DispatchCharged, ChargeToolCall, StageAfterCharge
<1>9. CASE CheckRefresh
  BY <1>9 DEF CheckRefresh
<1>10. ASSUME NEW readable \in BOOLEAN,
            CheckReenable(readable)
     PROVE  TypeInv'
  BY <1>10 DEF CheckReenable
<1>11. CASE NoGate
  BY <1>11 DEF NoGate
<1>12. ASSUME NEW decision \in Decisions, NEW late \in BOOLEAN,
            FreshAnswer(decision, late)
     PROVE  TypeInv'
  <2>1. /\ cur' \in Calls
        /\ consumed' \subseteq Nat
        /\ approvals' \subseteq {"granted", "ungranted"}
        /\ pc' \in {"charge", "turn", "call"}
        /\ pending' \in Nat
        /\ pc' # "turn" => pending' > 0
    BY <1>12, AnswerTypes DEF FreshAnswer
  <2>2. issued' \in Seq(Decisions)
    BY <1>12 DEF FreshAnswer
  <2>3. UNCHANGED <<ledger, clock, outcome, setup, remediation, finding, flagged, deferred,
                    notice, resolution, dq, world, performed, completions, shown,
                    cards, turnedAway>>
    BY <1>12 DEF FreshAnswer, Answered, Acknowledges
  <2>. QED
    BY <2>1, <2>2, <2>3
<1>13. ASSUME NEW id \in 1..Len(issued), NEW late \in BOOLEAN,
            ReplayedAnswer(id, late)
     PROVE  TypeInv'
  <2>1. /\ cur' \in Calls
        /\ consumed' \subseteq Nat
        /\ approvals' \subseteq {"granted", "ungranted"}
        /\ pc' \in {"charge", "turn", "call"}
        /\ pending' \in Nat
        /\ pc' # "turn" => pending' > 0
    BY <1>13, AnswerTypes DEF ReplayedAnswer
  <2>2. issued' \in Seq(Decisions)
    BY <1>13 DEF ReplayedAnswer
  <2>3. UNCHANGED <<ledger, clock, outcome, setup, remediation, finding, flagged, deferred,
                    notice, resolution, dq, world, performed, completions, shown,
                    cards, turnedAway>>
    BY <1>13 DEF ReplayedAnswer, Answered, Acknowledges
  <2>. QED
    BY <2>1, <2>2, <2>3
<1>14. CASE WriteRefused
  BY <1>14 DEF WriteRefused, RecordBlocked
<1>15. CASE WriteCharged
  BY <1>15 DEF WriteCharged, ChargeWrite
<1>16. ASSUME NEW result \in {"succeeded", "failed", "raised"}, NEW after \in {latest,
              "Completed", "Failed"},
            ExecuteRefresh(result, after)
     PROVE  TypeInv'
  <2>1. Perform(result) => performed' \in Seq(Performed)
    BY <1>16, RemediationRecorded DEF ExecuteRefresh, Executing, Perform, RemediationActions
  <2>. QED
    BY <1>16, <2>1 DEF ExecuteRefresh, Executing, Perform
<1>17. ASSUME NEW result \in {"succeeded", "failed", "raised"},
            ExecuteRebind(result)
     PROVE  TypeInv'
  <2>1. performed' \in Seq(Performed) /\ remediation' \in {"none", "succeeded", "failed"}
    BY <1>17, RebindTypes
  <2>2. UNCHANGED <<ledger, clock, setup, finding, flagged, deferred, approvals, notice,
                    resolution, dq, gate, world, completions, shown, cards>>
    BY <1>17 DEF ExecuteRebind, Perform
  <2>3. turnedAway' \in Nat
    BY <1>17 DEF ExecuteRebind, Perform
  <2>. QED
    BY <1>17, <2>1, <2>2, <2>3 DEF ExecuteRebind, Executing
<1>18. ASSUME NEW result \in {"succeeded", "failed", "raised"},
            ExecuteReenable(result)
     PROVE  TypeInv'
  <2>1. Perform(result) => performed' \in Seq(Performed)
    BY <1>18, RemediationRecorded DEF ExecuteReenable, Executing, Perform, RemediationActions
  <2>. QED
    BY <1>18, <2>1 DEF ExecuteReenable, Executing, Perform
<1>19. CASE ExecuteFlag
  BY <1>19 DEF ExecuteFlag, WritesFlag, Executing
<1>20. ASSUME NEW delivered \in BOOLEAN,
            ExecuteNotify(delivered)
     PROVE  TypeInv'
  <2>1. notice' \subseteq {"attempted", "delivered", "suppressed"}
    BY <1>20 DEF ExecuteNotify, Posted
  <2>2. cards' \in Nat
    BY <1>20 DEF ExecuteNotify, Posted
  <2>. QED
    BY <1>20, <2>1, <2>2 DEF ExecuteNotify, Posted, Executing
<1>21. CASE NotifyRaises
  BY <1>21 DEF NotifyRaises, Executing
<1>22. ASSUME NEW lands \in BOOLEAN, ExecuteDefer(lands)
     PROVE  TypeInv'
  <2>1. retry' \in Rows /\ deferred' \in BOOLEAN
    BY <1>22, RowDeferred DEF ExecuteDefer
  <2>2. stored' \in RetryStatuses
    BY <1>22, RowDeferred DEF ExecuteDefer, Persist, Rows
  <2>3. lost' \in BOOLEAN
    BY <1>22 DEF ExecuteDefer, Persist
  <2>. QED
    BY <1>22, <2>1, <2>2, <2>3 DEF ExecuteDefer, Executing
<1>23. ASSUME NEW claim \in Claims,
            ExecuteReport(claim)
     PROVE  TypeInv'
  BY <1>23 DEF ExecuteReport, Executing
<1>24. CASE ExecuteWithoutEffect
  BY <1>24 DEF ExecuteWithoutEffect
<1>25. CASE ExecuteConsult
  BY <1>25 DEF ExecuteConsult, Executing
<1>26. ASSUME NEW table \in Tables, NEW sees \in Sightings,
            ScanTable(table, sees)
     PROVE  TypeInv'
  <2>1. todo' \subseteq Tables /\ evidence' \in {"none", "clean", "duplicates"}
    BY <1>26 DEF ScanTable, Worst, Sightings
  <2>2. shown' \subseteq {"clean", "duplicates"}
    BY <1>26 DEF ScanTable, Sightings
  <2>3. CASE EndRun("timed_out") /\ UNCHANGED ledger
    BY <1>26, <2>1, <2>2, <2>3 DEF ScanTable
  <2>4. CASE EndRun("budget_exceeded") /\ UNCHANGED ledger
    BY <1>26, <2>1, <2>2, <2>4 DEF ScanTable
  <2>5. CASE ChargeToolCall /\ GoTo("scan")
    BY <1>26, <2>1, <2>2, <2>5 DEF ScanTable, ChargeToolCall
  <2>. QED
    BY <1>26, <2>3, <2>4, <2>5 DEF ScanTable
<1>27. CASE NothingScanned
  BY <1>27 DEF NothingScanned
<1>28. CASE InterpretTurn
  <2>1. CASE EndRun("timed_out") /\ UNCHANGED ledger
    BY <1>28, <2>1 DEF InterpretTurn
  <2>2. CASE EndRun("max_turns_exceeded") /\ UNCHANGED ledger
    BY <1>28, <2>2 DEF InterpretTurn
  <2>3. CASE ChargeLlmTurn /\ GoTo("interpret")
    BY <1>28, <2>3 DEF InterpretTurn, ChargeLlmTurn
  <2>. QED
    BY <1>28, <2>1, <2>2, <2>3 DEF InterpretTurn
<1>29. ASSUME NEW claim \in {"clean", "duplicates", "none"}, NEW count \in ReplyTokens,
            Interpreted(claim, count)
     PROVE  TypeInv'
  BY <1>29 DEF Interpreted, ChargeTokens, Reconcile
<1>30. CASE ConsultFails
  BY <1>30 DEF ConsultFails
<1>31. CASE TimePasses
  BY <1>31 DEF TimePasses, Tick
<1>32. CASE RetryWindowArrives
  <2>1. retry \in Rows
    OBVIOUS
  <2>2. retry' = [retry EXCEPT !.status = "due"]
    BY <1>32 DEF RetryWindowArrives
  <2>3. retry' \in Rows
    BY <2>1, <2>2, RowDue
  <2>4. UNCHANGED <<ledger, clock, pc, pending, cur, setup, ctx, outcome, dq, gate, stored,
                    lost, latest, healthy, hist>>
    BY <1>32 DEF RetryWindowArrives
  <2>. QED
    BY <2>3, <2>4
<1>33. ASSUME NEW status \in {"Completed", "Failed"},
            RefreshElsewhere(status)
     PROVE  TypeInv'
  BY <1>33 DEF RefreshElsewhere
<1>34. CASE UNCHANGED vars
  BY <1>34 DEF vars
<1>. QED
  BY <1>1, <1>2, <1>3, <1>4, <1>5, <1>6, <1>7, <1>8, <1>9, <1>10, <1>11, <1>12, <1>13, <1>14,
     <1>15, <1>16, <1>17, <1>18, <1>19, <1>20, <1>21, <1>22, <1>23, <1>24, <1>25, <1>26,
     <1>27, <1>28, <1>29, <1>30, <1>31, <1>32, <1>33, <1>34 DEF Next, Controller, Environment,
     Loop, Dispatch, Execute, Consult, Done

\* Type correctness, for every policy and every set of tools, targets and tables.
THEOREM TypeCorrect == Spec => []TypeOK
<1>1. TypeInv => TypeOK
  BY DEF TypeInv
<1>. QED
  BY TypeInit, TypeStep, <1>1, PTL DEF Spec

-----------------------------------------------------------------------------
(* Budgets.                                                                *)

\* A reply the provider has been asked for, and a remediation about to be sent,
\* are charged before they happen; until they do the charge runs ahead of the
\* count by one.
Awaited  == IF pc \in {"model", "interpret"} THEN 1 ELSE 0
InFlight == IF RemediationInFlight THEN 1 ELSE 0

BudgetInv ==
  /\ turns <= MaxTurns
  /\ completions + Awaited <= turns
  /\ writes <= MaxWrites
  /\ Len(performed) + InFlight <= writes
  /\ pc # "done" => outcome = "running"
  /\ tokens > MaxTokens => outcome = "budget_exceeded"

\* The budgets hold when the run starts.
LEMMA BudgetInit == Init => BudgetInv
  BY PolicyAssumption DEF Init, LedgerInit, BudgetInv, Awaited, InFlight, RemediationInFlight

\* Every step of the run keeps the budgets.
LEMMA BudgetStep == TypeInv /\ BudgetInv /\ [Next]_vars => BudgetInv'
<1>. USE PolicyAssumption, RunAssumption
<1>. SUFFICES ASSUME TypeInv, BudgetInv, [Next]_vars PROVE BudgetInv'
  OBVIOUS
<1>0. /\ turns \in Nat /\ completions \in Nat /\ writes \in Nat /\ tokens \in Nat
      /\ performed \in Seq(Performed) /\ Len(performed) \in Nat
  BY DEF TypeInv, TypeOK, LedgerTypeOK
<1>. USE DEF BudgetInv, Awaited, InFlight, RemediationInFlight, ledger, hist,
     EndRun, CallReturns, GoTo, Idle, RemediationActions
<1>1. CASE LoopTurnRefused
  BY <1>1, <1>0 DEF LoopTurnRefused
<1>2. CASE LoopTurnCharged
  BY <1>2, <1>0 DEF LoopTurnCharged, ChargeLlmTurn, TurnsSpent
<1>3. CASE ProviderFails
  BY <1>3, <1>0 DEF ProviderFails
<1>4. ASSUME NEW n \in 0..MaxBatch, NEW count \in ReplyTokens,
            ModelReplies(n, count)
     PROVE  BudgetInv'
  BY <1>4, <1>0 DEF ModelReplies, ChargeTokens, TokensOverrun
<1>5. CASE Finish
  BY <1>5, <1>0 DEF Finish, Unsupported, ValidOutcomes
<1>6. CASE DispatchEndsRun
  BY <1>6, <1>0 DEF DispatchEndsRun
<1>7. ASSUME NEW action \in Offered,
            DispatchUnlisted(action)
     PROVE  BudgetInv'
  BY <1>7, <1>0 DEF DispatchUnlisted, RecordBlocked
<1>8. ASSUME NEW action \in Offered, NEW arg \in ArgsOf(action),
            DispatchCharged(action, arg)
     PROVE  BudgetInv'
  BY <1>8, <1>0 DEF DispatchCharged, ChargeToolCall, StageAfterCharge, Preconditioned, Gated,
     ApprovalRequired
<1>9. CASE CheckRefresh
  BY <1>9, <1>0 DEF CheckRefresh
<1>10. ASSUME NEW readable \in BOOLEAN,
            CheckReenable(readable)
     PROVE  BudgetInv'
  BY <1>10, <1>0 DEF CheckReenable
<1>11. CASE NoGate
  BY <1>11, <1>0 DEF NoGate
<1>12. ASSUME NEW decision \in Decisions, NEW late \in BOOLEAN,
            FreshAnswer(decision, late)
     PROVE  BudgetInv'
  BY <1>12, <1>0 DEF FreshAnswer, Answered, Acknowledges
<1>13. ASSUME NEW id \in 1..Len(issued), NEW late \in BOOLEAN,
            ReplayedAnswer(id, late)
     PROVE  BudgetInv'
  BY <1>13, <1>0 DEF ReplayedAnswer, Answered, Acknowledges
<1>14. CASE WriteRefused
  BY <1>14, <1>0 DEF WriteRefused, RecordBlocked
<1>15. CASE WriteCharged
  BY <1>15, <1>0 DEF WriteCharged, ChargeWrite, WritesSpent
<1>16. ASSUME NEW result \in {"succeeded", "failed", "raised"}, NEW after \in {latest,
              "Completed", "Failed"},
            ExecuteRefresh(result, after)
     PROVE  BudgetInv'
  BY <1>16, <1>0 DEF ExecuteRefresh, Executing, Perform
<1>17. ASSUME NEW result \in {"succeeded", "failed", "raised"},
            ExecuteRebind(result)
     PROVE  BudgetInv'
  BY <1>17, <1>0 DEF ExecuteRebind, Executing, Perform
<1>18. ASSUME NEW result \in {"succeeded", "failed", "raised"},
            ExecuteReenable(result)
     PROVE  BudgetInv'
  BY <1>18, <1>0 DEF ExecuteReenable, Executing, Perform
<1>19. CASE ExecuteFlag
  BY <1>19, <1>0 DEF ExecuteFlag, WritesFlag, Executing
<1>20. ASSUME NEW delivered \in BOOLEAN,
            ExecuteNotify(delivered)
     PROVE  BudgetInv'
  BY <1>20, <1>0 DEF ExecuteNotify, Posted, Executing
<1>21. CASE NotifyRaises
  BY <1>21, <1>0 DEF NotifyRaises, Executing
<1>22. ASSUME NEW lands \in BOOLEAN, ExecuteDefer(lands)
     PROVE  BudgetInv'
  BY <1>22, <1>0 DEF ExecuteDefer, Executing
<1>23. ASSUME NEW claim \in Claims,
            ExecuteReport(claim)
     PROVE  BudgetInv'
  BY <1>23, <1>0 DEF ExecuteReport, Executing
<1>24. CASE ExecuteWithoutEffect
  BY <1>24, <1>0 DEF ExecuteWithoutEffect
<1>25. CASE ExecuteConsult
  BY <1>25, <1>0 DEF ExecuteConsult, Executing
<1>26. ASSUME NEW table \in Tables, NEW sees \in Sightings,
            ScanTable(table, sees)
     PROVE  BudgetInv'
  BY <1>26, <1>0 DEF ScanTable, ChargeToolCall
<1>27. CASE NothingScanned
  BY <1>27, <1>0 DEF NothingScanned
<1>28. CASE InterpretTurn
  BY <1>28, <1>0 DEF InterpretTurn, ChargeLlmTurn, TurnsSpent
<1>29. ASSUME NEW claim \in {"clean", "duplicates", "none"}, NEW count \in ReplyTokens,
            Interpreted(claim, count)
     PROVE  BudgetInv'
  BY <1>29, <1>0 DEF Interpreted, ChargeTokens, TokensOverrun
<1>30. CASE ConsultFails
  BY <1>30, <1>0 DEF ConsultFails
<1>31. CASE TimePasses
  BY <1>31, <1>0 DEF TimePasses, Tick
<1>32. CASE RetryWindowArrives
  BY <1>32, <1>0 DEF RetryWindowArrives
<1>33. ASSUME NEW status \in {"Completed", "Failed"},
            RefreshElsewhere(status)
     PROVE  BudgetInv'
  BY <1>33, <1>0 DEF RefreshElsewhere
<1>34. CASE UNCHANGED vars
  BY <1>34 DEF vars
<1>. QED
  BY <1>1, <1>2, <1>3, <1>4, <1>5, <1>6, <1>7, <1>8, <1>9, <1>10, <1>11, <1>12, <1>13, <1>14,
     <1>15, <1>16, <1>17, <1>18, <1>19, <1>20, <1>21, <1>22, <1>23, <1>24, <1>25, <1>26,
     <1>27, <1>28, <1>29, <1>30, <1>31, <1>32, <1>33, <1>34 DEF Next, Controller, Environment,
     Loop, Dispatch, Execute, Consult, Done

\* Whatever the model asks for and however calls end, the run never sends more
\* remediations, nor pays for more replies of either agent, than its policy
\* allows, and a token overrun ends it.
THEOREM BudgetsAlwaysHold == Spec => []BudgetsHold
<1>1. TypeInv /\ BudgetInv => BudgetsHold
  BY PolicyAssumption DEF TypeInv, TypeOK, LedgerTypeOK, BudgetInv, BudgetsHold, Awaited,
     InFlight
<1>. QED
  BY TypeInit, TypeStep, BudgetInit, BudgetStep, <1>1, PTL DEF Spec

-----------------------------------------------------------------------------
(* Approvals.                                                              *)

\* A remediation that has been approved but not sent carries its decision in
\* cur.by.  Decisions are marked used before the remediation is sent, and no
\* decision that is carried has been used for a remediation already sent.
Cleared == pc \in {"charge", "execute"} /\ Gated(cur.action)

GrantInv ==
  /\ consumed \subseteq 1..Len(issued)
  /\ cur.by \in consumed \cup {0}
  /\ Cleared => /\ cur.by \in consumed
                /\ issued[cur.by].granted
                /\ issued[cur.by].fingerprint = Fingerprint(cur)
  /\ \A i \in 1..Len(performed) :
       /\ performed[i].by \in consumed \cup {0}
       /\ cur.by # 0 => performed[i].by # cur.by
  /\ GatedOnlyWithOwnGrant

\* A step that neither asks, clears nor performs a gated remediation.
Quiet ==
  /\ UNCHANGED <<performed, issued, consumed>>
  /\ cur' = cur \/ cur'.by = 0
  /\ Cleared' => Cleared /\ cur' = cur

\* A quiet step disturbs no approval.
LEMMA QuietGrants ==
  ASSUME GrantInv, Quiet
  PROVE  GrantInv'
<1>1. CASE cur' = cur
  BY <1>1 DEF GrantInv, Quiet, GatedOnlyWithOwnGrant, Fingerprint, Cleared
<1>2. CASE cur' # cur /\ cur'.by = 0
  BY <1>2 DEF GrantInv, Quiet, GatedOnlyWithOwnGrant, Fingerprint, Cleared
<1>. QED
  BY <1>1, <1>2 DEF Quiet

\* Sending a cleared remediation uses up the decision it carries.
LEMMA PerformedOnGrant ==
  ASSUME TypeInv, GrantInv, RemediationInFlight, NEW result, Perform(result), CallReturns,
         UNCHANGED <<issued, consumed>>
  PROVE  GrantInv'
<1>. DEFINE last == Len(performed) + 1
            sent == [action |-> cur.action, arg |-> cur.arg, by |-> cur.by,
                     ok |-> result = "succeeded"]
<1>1. /\ performed \in Seq(Performed) /\ sent \in Performed
      /\ issued \in Seq(Decisions) /\ consumed \subseteq Nat
  BY DEF TypeInv, TypeOK, Calls, Performed, RemediationInFlight
<1>2. /\ Len(performed') = last
      /\ \A i \in 1..Len(performed) : performed'[i] = performed[i]
      /\ performed'[last] = sent
  BY <1>1 DEF Perform
<1>3. cur'.by = 0 /\ ~Cleared'
  BY DEF CallReturns, Idle, Cleared, Gated, ApprovalRequired
<1>4. ASSUME NEW i \in 1..Len(performed')
      PROVE  performed'[i].by \in consumed' \cup {0}
  <2>1. CASE i = last
    BY <1>2, <2>1 DEF GrantInv
  <2>2. CASE i \in 1..Len(performed)
    BY <1>2, <2>2 DEF GrantInv
  <2>. QED
    BY <1>1, <1>2, <2>1, <2>2
<1>5. \A i \in 1..Len(performed) :
        /\ performed[i].by \in consumed \cup {0}
        /\ cur.by # 0 => performed[i].by # cur.by
  BY DEF GrantInv
<1>6. ASSUME NEW i \in 1..Len(performed'), Gated(performed'[i].action)
      PROVE  /\ performed'[i].by \in 1..Len(issued')
             /\ issued'[performed'[i].by].granted
             /\ issued'[performed'[i].by].fingerprint = <<performed'[i].action, performed'[i].arg>>
             /\ \A j \in 1..Len(performed') : j # i => performed'[j].by # performed'[i].by
  <2>1. CASE i = last
    <3>1. Cleared
      BY <1>2, <1>6, <2>1 DEF Cleared, RemediationInFlight
    <3>2. /\ cur.by \in 1..Len(issued)
          /\ issued[cur.by].granted
          /\ issued[cur.by].fingerprint = <<cur.action, cur.arg>>
      BY <3>1 DEF GrantInv, Fingerprint
    <3>3. /\ performed'[i].by = cur.by
          /\ performed'[i].action = cur.action
          /\ performed'[i].arg = cur.arg
      BY <1>2, <2>1
    <3>4. ASSUME NEW j \in 1..Len(performed'), j # i
          PROVE  performed'[j].by # cur.by
      <4>1. j \in 1..Len(performed)
        BY <1>1, <1>2, <2>1, <3>4
      <4>. QED
        BY <1>1, <1>2, <1>5, <3>2, <4>1
    <3>. QED
      BY <3>2, <3>3, <3>4
  <2>2. CASE i \in 1..Len(performed)
    <3>1. /\ performed[i].by \in 1..Len(issued)
          /\ issued[performed[i].by].granted
          /\ issued[performed[i].by].fingerprint = <<performed[i].action, performed[i].arg>>
          /\ \A j \in 1..Len(performed) : j # i => performed[j].by # performed[i].by
      BY <1>2, <1>6, <2>2 DEF GrantInv, GatedOnlyWithOwnGrant
    <3>2. performed'[i] = performed[i]
      BY <1>2, <2>2
    <3>3. performed'[last].by # performed'[i].by
      BY <1>1, <1>2, <1>5, <2>2, <3>1
    <3>4. ASSUME NEW j \in 1..Len(performed'), j # i
          PROVE  performed'[j].by # performed'[i].by
      <4>1. j = last \/ j \in 1..Len(performed)
        BY <1>1, <1>2, <3>4
      <4>2. CASE j = last
        BY <3>3, <4>2
      <4>3. CASE j \in 1..Len(performed)
        BY <1>2, <3>1, <3>2, <3>4, <4>3
      <4>. QED
        BY <4>1, <4>2, <4>3
    <3>5. UNCHANGED issued
      OBVIOUS
    <3>. QED
      BY <3>1, <3>2, <3>4, <3>5
  <2>. QED
    BY <1>1, <1>2, <2>1, <2>2
<1>7. GatedOnlyWithOwnGrant'
  BY <1>6 DEF GatedOnlyWithOwnGrant
<1>. QED
  BY <1>3, <1>4, <1>7 DEF GrantInv

\* No approval exists when the run starts.
LEMMA GrantInit == Init => GrantInv
  BY DEF Init, GrantInv, GatedOnlyWithOwnGrant, Cleared, Idle

\* An answer clears a remediation only with a decision that was not used before.
LEMMA AnsweredGrants ==
  ASSUME TypeInv, GrantInv, pc = "ask", NEW id \in 1..Len(issued'), NEW decision, NEW late,
         \/ issued' = Append(issued, decision) /\ decision \in Decisions
         \/ UNCHANGED issued,
         decision = issued'[id],
         Answered(id, decision, late)
  PROVE  GrantInv'
<1>1. /\ issued \in Seq(Decisions) /\ cur \in Calls /\ consumed \subseteq Nat
      /\ Len(issued) \in Nat
  BY DEF TypeInv, TypeOK
<1>2. /\ Len(issued') \in Nat /\ Len(issued) <= Len(issued')
      /\ \A k \in 1..Len(issued) : issued'[k] = issued[k]
  BY <1>1
<1>3. performed' = performed
  BY DEF Answered, Acknowledges
<1>4. consumed \subseteq 1..Len(issued') /\ 0 \notin consumed
  BY <1>1, <1>2 DEF GrantInv
<1>5. GatedOnlyWithOwnGrant'
  BY <1>1, <1>2, <1>3 DEF GrantInv, GatedOnlyWithOwnGrant
<1>6. CASE Authorises(decision, id, late)
  <2>1. consumed' = consumed \cup {id} /\ cur' = [cur EXCEPT !.by = id]
    BY <1>6 DEF Answered, Acknowledges
  <2>2. /\ cur'.by = id /\ cur'.action = cur.action /\ cur'.arg = cur.arg
        /\ id # 0
    BY <1>1, <1>2, <2>1 DEF Calls
  <2>3. /\ issued'[id].granted
        /\ issued'[id].fingerprint = Fingerprint(cur)
        /\ id \notin consumed
    BY <1>6 DEF Authorises
  <2>4. \A i \in 1..Len(performed') : /\ performed'[i].by \in consumed'  \cup {0}
                                      /\ performed'[i].by # cur'.by
    BY <1>3, <2>1, <2>2, <2>3 DEF GrantInv
  <2>5. issued'[cur'.by].fingerprint = Fingerprint(cur)'
    BY <2>2, <2>3 DEF Fingerprint
  <2>6. consumed' \subseteq 1..Len(issued') /\ cur'.by \in consumed'
    BY <1>4, <2>1, <2>2
  <2>. QED
    BY <1>5, <2>2, <2>3, <2>4, <2>5, <2>6 DEF GrantInv
<1>7. CASE ~Authorises(decision, id, late)
  <2>1. consumed' = consumed /\ cur' = Idle /\ pc' \in {"turn", "call"}
    BY <1>7 DEF Answered, Acknowledges, CallReturns
  <2>2. cur'.by = 0 /\ ~Cleared'
    BY <2>1 DEF Idle, Cleared
  <2>. QED
    BY <1>3, <1>4, <1>5, <2>1, <2>2 DEF GrantInv
<1>. QED
  BY <1>6, <1>7

\* Every step of the run keeps the approvals in order.
LEMMA GrantStep == TypeInv /\ GrantInv /\ [Next]_vars => GrantInv'
<1>. USE PolicyAssumption, RunAssumption
<1>. SUFFICES ASSUME TypeInv, GrantInv, [Next]_vars PROVE GrantInv'
  OBVIOUS
<1>. USE QuietGrants DEF Quiet, Cleared, gate, hist, EndRun, CallReturns, GoTo, Idle,
     Gated, ApprovalRequired
<1>1. CASE LoopTurnRefused
  BY <1>1 DEF LoopTurnRefused
<1>2. CASE LoopTurnCharged
  BY <1>2 DEF LoopTurnCharged, ChargeLlmTurn
<1>3. CASE ProviderFails
  BY <1>3 DEF ProviderFails
<1>4. ASSUME NEW n \in 0..MaxBatch, NEW count \in ReplyTokens,
            ModelReplies(n, count)
     PROVE  GrantInv'
  BY <1>4 DEF ModelReplies, ChargeTokens
<1>5. CASE Finish
  BY <1>5 DEF Finish, Unsupported, ValidOutcomes
<1>6. CASE DispatchEndsRun
  BY <1>6 DEF DispatchEndsRun
<1>7. ASSUME NEW action \in Offered,
            DispatchUnlisted(action)
     PROVE  GrantInv'
  BY <1>7 DEF DispatchUnlisted, RecordBlocked
<1>8. ASSUME NEW action \in Offered, NEW arg \in ArgsOf(action),
            DispatchCharged(action, arg)
     PROVE  GrantInv'
  BY <1>8 DEF DispatchCharged, StageAfterCharge
<1>9. CASE CheckRefresh
  BY <1>9 DEF CheckRefresh
<1>10. ASSUME NEW readable \in BOOLEAN,
            CheckReenable(readable)
     PROVE  GrantInv'
  BY <1>10 DEF CheckReenable
<1>11. CASE NoGate
  BY <1>11 DEF NoGate
<1>12. ASSUME NEW decision \in Decisions, NEW late \in BOOLEAN,
            FreshAnswer(decision, late)
     PROVE  GrantInv'
  <2>1. issued \in Seq(Decisions)
    BY DEF TypeInv, TypeOK
  <2>2. /\ Len(issued) + 1 \in 1..Len(issued')
        /\ decision = issued'[Len(issued) + 1]
    BY <1>12, <2>1 DEF FreshAnswer
  <2>. QED
    BY <1>12, <2>2, AnsweredGrants DEF FreshAnswer, Answered, Acknowledges
<1>13. ASSUME NEW id \in 1..Len(issued), NEW late \in BOOLEAN,
            ReplayedAnswer(id, late)
     PROVE  GrantInv'
  BY <1>13, AnsweredGrants DEF ReplayedAnswer, Answered, Acknowledges
<1>14. CASE WriteRefused
  BY <1>14 DEF WriteRefused, RecordBlocked
<1>15. CASE WriteCharged
  BY <1>15 DEF WriteCharged, ChargeWrite
<1>16. ASSUME NEW result \in {"succeeded", "failed", "raised"}, NEW after \in {latest,
              "Completed", "Failed"},
            ExecuteRefresh(result, after)
     PROVE  GrantInv'
  <2>. HIDE DEF CallReturns
  <2>. QED
    BY <1>16, PerformedOnGrant
       DEF ExecuteRefresh, Executing, RemediationInFlight, RemediationActions
<1>17. ASSUME NEW result \in {"succeeded", "failed", "raised"},
            ExecuteRebind(result)
     PROVE  GrantInv'
  <2>1. CASE cur.arg = NoTarget
    BY <1>17, <2>1 DEF ExecuteRebind
  <2>2. CASE cur.arg # NoTarget
    <3>. HIDE DEF CallReturns
    <3>. QED
      BY <1>17, <2>2, PerformedOnGrant
         DEF ExecuteRebind, Executing, RemediationInFlight, RemediationActions
  <2>. QED
    BY <2>1, <2>2
<1>18. ASSUME NEW result \in {"succeeded", "failed", "raised"},
            ExecuteReenable(result)
     PROVE  GrantInv'
  <2>. HIDE DEF CallReturns
  <2>. QED
    BY <1>18, PerformedOnGrant
       DEF ExecuteReenable, Executing, RemediationInFlight, RemediationActions
<1>19. CASE ExecuteFlag
  BY <1>19 DEF ExecuteFlag, WritesFlag, Executing
<1>20. ASSUME NEW delivered \in BOOLEAN,
            ExecuteNotify(delivered)
     PROVE  GrantInv'
  BY <1>20 DEF ExecuteNotify, Posted, Executing
<1>21. CASE NotifyRaises
  BY <1>21 DEF NotifyRaises, Executing
<1>22. ASSUME NEW lands \in BOOLEAN, ExecuteDefer(lands)
     PROVE  GrantInv'
  BY <1>22 DEF ExecuteDefer, Executing
<1>23. ASSUME NEW claim \in Claims,
            ExecuteReport(claim)
     PROVE  GrantInv'
  BY <1>23 DEF ExecuteReport, Executing
<1>24. CASE ExecuteWithoutEffect
  BY <1>24 DEF ExecuteWithoutEffect
<1>25. CASE ExecuteConsult
  BY <1>25 DEF ExecuteConsult, Executing
<1>26. ASSUME NEW table \in Tables, NEW sees \in Sightings,
            ScanTable(table, sees)
     PROVE  GrantInv'
  BY <1>26 DEF ScanTable
<1>27. CASE NothingScanned
  BY <1>27 DEF NothingScanned
<1>28. CASE InterpretTurn
  BY <1>28 DEF InterpretTurn, ChargeLlmTurn
<1>29. ASSUME NEW claim \in {"clean", "duplicates", "none"}, NEW count \in ReplyTokens,
            Interpreted(claim, count)
     PROVE  GrantInv'
  BY <1>29 DEF Interpreted, ChargeTokens, Reconcile
<1>30. CASE ConsultFails
  BY <1>30 DEF ConsultFails
<1>31. CASE TimePasses
  BY <1>31 DEF TimePasses, Tick
<1>32. CASE RetryWindowArrives
  BY <1>32 DEF RetryWindowArrives
<1>33. ASSUME NEW status \in {"Completed", "Failed"},
            RefreshElsewhere(status)
     PROVE  GrantInv'
  BY <1>33 DEF RefreshElsewhere
<1>34. CASE UNCHANGED vars
  BY <1>34 DEF vars
<1>. QED
  BY <1>1, <1>2, <1>3, <1>4, <1>5, <1>6, <1>7, <1>8, <1>9, <1>10, <1>11, <1>12, <1>13, <1>14,
     <1>15, <1>16, <1>17, <1>18, <1>19, <1>20, <1>21, <1>22, <1>23, <1>24, <1>25, <1>26,
     <1>27, <1>28, <1>29, <1>30, <1>31, <1>32, <1>33, <1>34 DEF Next, Controller, Environment,
     Loop, Dispatch, Execute, Consult, Done

\* Every gated remediation the run ever sends rests on a human's "yes" to that
\* action with those arguments, and no "yes" is used twice.
THEOREM GrantsAreOwn == Spec => []GatedOnlyWithOwnGrant
<1>1. GrantInv => GatedOnlyWithOwnGrant
  BY DEF GrantInv
<1>. QED
  BY TypeInit, TypeStep, GrantInit, GrantStep, <1>1, PTL DEF Spec

-----------------------------------------------------------------------------
(* Flags, deferrals, announcements and backoff windows.                    *)

\* What the run's own notes say is so: evidence and findings come from scans,
\* a deferral from a scheduled row, a delivery from a card; a refresh that has
\* passed its precondition is not in a backoff window.
Waiting == retry.status = "pending"

NotesInv ==
  /\ (evidence = "duplicates" \/ finding = "duplicates" \/ flagged) => "duplicates" \in shown
  /\ deferred => retry.status \in {"pending", "due"}
  /\ deferred => lost \/ stored \in {"pending", "due"}
  /\ NoticeIsHonest
  /\ pc = "ask" => Gated(cur.action)
  /\ pc \in {"charge", "execute"} /\ cur.action = "refresh_powerbi_dataset" => ~Waiting
  /\ pc # "done" => outcome = "running"
  /\ FlagBackedByScan
  /\ DeferredIsScheduled

\* The notes are right when the run starts.
LEMMA NotesInit == Init => NotesInv
  BY DEF Init, NotesInv, NoticeIsHonest, FlagBackedByScan, DeferredIsScheduled, Idle

\* Every step of the run keeps the notes right.
LEMMA NotesStep == TypeInv /\ NotesInv /\ [Next]_vars => NotesInv'
<1>. SUFFICES ASSUME TypeInv, NotesInv, [Next]_vars PROVE NotesInv'
  OBVIOUS
<1>0. cards \in Nat /\ retry \in Rows /\ cur \in Calls
  BY DEF TypeInv, TypeOK
<1>. USE DEF NotesInv, NoticeIsHonest, FlagBackedByScan, DeferredIsScheduled, Waiting, ctx, dq,
     world, hist, EndRun, CallReturns, GoTo, Idle,
     Gated, ApprovalRequired
<1>1. CASE LoopTurnRefused
  BY <1>1, <1>0 DEF LoopTurnRefused
<1>2. CASE LoopTurnCharged
  BY <1>2, <1>0 DEF LoopTurnCharged
<1>3. CASE ProviderFails
  BY <1>3, <1>0 DEF ProviderFails
<1>4. ASSUME NEW n \in 0..MaxBatch, NEW count \in ReplyTokens,
            ModelReplies(n, count)
     PROVE  NotesInv'
  BY <1>4, <1>0 DEF ModelReplies, ChargeTokens
<1>5. CASE Finish
  BY <1>5, <1>0 DEF Finish, Unsupported, Overrides
<1>6. CASE DispatchEndsRun
  BY <1>6, <1>0 DEF DispatchEndsRun
<1>7. ASSUME NEW action \in Offered,
            DispatchUnlisted(action)
     PROVE  NotesInv'
  BY <1>7, <1>0 DEF DispatchUnlisted, RecordBlocked
<1>8. ASSUME NEW action \in Offered, NEW arg \in ArgsOf(action),
            DispatchCharged(action, arg)
     PROVE  NotesInv'
  BY <1>8, <1>0 DEF DispatchCharged, StageAfterCharge, Preconditioned
<1>9. CASE CheckRefresh
  BY <1>9, <1>0 DEF CheckRefresh, IsDeferred
<1>10. ASSUME NEW readable \in BOOLEAN,
            CheckReenable(readable)
     PROVE  NotesInv'
  BY <1>10, <1>0 DEF CheckReenable
<1>11. CASE NoGate
  BY <1>11, <1>0 DEF NoGate
<1>12. ASSUME NEW decision \in Decisions, NEW late \in BOOLEAN,
            FreshAnswer(decision, late)
     PROVE  NotesInv'
  <2>1. CASE Authorises(decision, Len(issued) + 1, late)
    <3>1. cur' = [cur EXCEPT !.by = Len(issued) + 1] /\ pc' = "charge"
      BY <1>12, <2>1 DEF FreshAnswer, Answered, Acknowledges
    <3>2. cur'.action = cur.action /\ cur.action \in ApprovalRequired
      BY <1>12, <1>0, <3>1 DEF FreshAnswer, Answered, Acknowledges, Calls
    <3>. QED
      BY <1>12, <1>0, <3>1, <3>2 DEF FreshAnswer, Answered, Acknowledges
  <2>2. CASE ~Authorises(decision, Len(issued) + 1, late)
    BY <1>12, <1>0, <2>2 DEF FreshAnswer, Answered, Acknowledges
  <2>. QED
    BY <2>1, <2>2
<1>13. ASSUME NEW id \in 1..Len(issued), NEW late \in BOOLEAN,
            ReplayedAnswer(id, late)
     PROVE  NotesInv'
  <2>1. CASE Authorises(issued[id], id, late)
    <3>1. cur' = [cur EXCEPT !.by = id] /\ pc' = "charge"
      BY <1>13, <2>1 DEF ReplayedAnswer, Answered, Acknowledges
    <3>2. cur'.action = cur.action /\ cur.action \in ApprovalRequired
      BY <1>13, <1>0, <3>1 DEF ReplayedAnswer, Answered, Acknowledges, Calls
    <3>. QED
      BY <1>13, <1>0, <3>1, <3>2 DEF ReplayedAnswer, Answered, Acknowledges
  <2>2. CASE ~Authorises(issued[id], id, late)
    BY <1>13, <1>0, <2>2 DEF ReplayedAnswer, Answered, Acknowledges
  <2>. QED
    BY <2>1, <2>2
<1>14. CASE WriteRefused
  BY <1>14, <1>0 DEF WriteRefused, RecordBlocked
<1>15. CASE WriteCharged
  BY <1>15, <1>0 DEF WriteCharged, ChargeWrite
<1>16. ASSUME NEW result \in {"succeeded", "failed", "raised"}, NEW after \in {latest,
              "Completed", "Failed"},
            ExecuteRefresh(result, after)
     PROVE  NotesInv'
  BY <1>16, <1>0 DEF ExecuteRefresh, Executing, Perform
<1>17. ASSUME NEW result \in {"succeeded", "failed", "raised"},
            ExecuteRebind(result)
     PROVE  NotesInv'
  BY <1>17, <1>0 DEF ExecuteRebind, Executing, Perform
<1>18. ASSUME NEW result \in {"succeeded", "failed", "raised"},
            ExecuteReenable(result)
     PROVE  NotesInv'
  BY <1>18, <1>0 DEF ExecuteReenable, Executing, Perform
<1>19. CASE ExecuteFlag
  BY <1>19, <1>0 DEF ExecuteFlag, WritesFlag, Executing
<1>20. ASSUME NEW delivered \in BOOLEAN,
            ExecuteNotify(delivered)
     PROVE  NotesInv'
  BY <1>20, <1>0 DEF ExecuteNotify, Posted, Executing
<1>21. CASE NotifyRaises
  BY <1>21, <1>0 DEF NotifyRaises, Executing
<1>22. ASSUME NEW lands \in BOOLEAN, ExecuteDefer(lands)
     PROVE  NotesInv'
  <2>1. deferred' => retry'.status \in {"pending", "due"}
    BY <1>22, <1>0 DEF ExecuteDefer, Defer
  <2>2. deferred' => lost' \/ stored' \in {"pending", "due"}
    BY <1>22, <1>0 DEF ExecuteDefer, Persist
  <2>. QED
    BY <1>22, <1>0, <2>1, <2>2 DEF ExecuteDefer, Executing
<1>23. ASSUME NEW claim \in Claims,
            ExecuteReport(claim)
     PROVE  NotesInv'
  BY <1>23, <1>0 DEF ExecuteReport, Executing
<1>24. CASE ExecuteWithoutEffect
  BY <1>24, <1>0 DEF ExecuteWithoutEffect
<1>25. CASE ExecuteConsult
  BY <1>25, <1>0 DEF ExecuteConsult, Executing
<1>26. ASSUME NEW table \in Tables, NEW sees \in Sightings,
            ScanTable(table, sees)
     PROVE  NotesInv'
  BY <1>26, <1>0 DEF ScanTable, Worst
<1>27. CASE NothingScanned
  BY <1>27, <1>0 DEF NothingScanned
<1>28. CASE InterpretTurn
  BY <1>28, <1>0 DEF InterpretTurn
<1>29. ASSUME NEW claim \in {"clean", "duplicates", "none"}, NEW count \in ReplyTokens,
            Interpreted(claim, count)
     PROVE  NotesInv'
  BY <1>29, <1>0 DEF Interpreted, Reconcile
<1>30. CASE ConsultFails
  BY <1>30, <1>0 DEF ConsultFails
<1>31. CASE TimePasses
  BY <1>31, <1>0 DEF TimePasses, Tick
<1>32. CASE RetryWindowArrives
  BY <1>32, <1>0 DEF RetryWindowArrives
<1>33. ASSUME NEW status \in {"Completed", "Failed"},
            RefreshElsewhere(status)
     PROVE  NotesInv'
  BY <1>33, <1>0 DEF RefreshElsewhere
<1>34. CASE UNCHANGED vars
  BY <1>34 DEF vars
<1>. QED
  BY <1>1, <1>2, <1>3, <1>4, <1>5, <1>6, <1>7, <1>8, <1>9, <1>10, <1>11, <1>12, <1>13, <1>14,
     <1>15, <1>16, <1>17, <1>18, <1>19, <1>20, <1>21, <1>22, <1>23, <1>24, <1>25, <1>26,
     <1>27, <1>28, <1>29, <1>30, <1>31, <1>32, <1>33, <1>34 DEF Next, Controller, Environment,
     Loop, Dispatch, Execute, Consult, Done

\* A flag, and an outcome that reports one, rest on duplicates that were counted.
THEOREM FlagsAreBacked == Spec => []FlagBackedByScan
<1>1. NotesInv => FlagBackedByScan
  BY DEF NotesInv
<1>. QED
  BY TypeInit, TypeStep, NotesInit, NotesStep, <1>1, PTL DEF Spec

\* A run that reports a deferral leaves a scheduled row, in the table too unless a
\* write of it has failed.
THEOREM DeferralsAreScheduled == Spec => []DeferredIsScheduled
<1>1. NotesInv => DeferredIsScheduled
  BY DEF NotesInv
<1>. QED
  BY TypeInit, TypeStep, NotesInit, NotesStep, <1>1, PTL DEF Spec

\* A delivery on record reached the channel, and nothing is announced twice.
THEOREM NoticesAreHonest == Spec => []NoticeIsHonest
<1>1. NotesInv => NoticeIsHonest
  BY DEF NotesInv
<1>. QED
  BY TypeInit, TypeStep, NotesInit, NotesStep, <1>1, PTL DEF Spec

\* Only a refresh that has passed its precondition is sent.
LEMMA NoStampedeStep ==
  ASSUME TypeInv, NotesInv, [Next]_vars, performed' # performed,
         performed'[Len(performed')].action = "refresh_powerbi_dataset"
  PROVE  ~Waiting
<1>0. performed \in Seq(Performed) /\ cur \in Calls
  BY DEF TypeInv, TypeOK
<1>1. CASE LoopTurnRefused
  BY <1>1 DEF LoopTurnRefused, hist
<1>2. CASE LoopTurnCharged
  BY <1>2 DEF LoopTurnCharged, hist
<1>3. CASE ProviderFails
  BY <1>3 DEF ProviderFails, hist
<1>4. ASSUME NEW n \in 0..MaxBatch, NEW count \in ReplyTokens,
            ModelReplies(n, count)
     PROVE  ~Waiting
  BY <1>4 DEF ModelReplies, hist
<1>5. CASE Finish
  BY <1>5 DEF Finish, hist
<1>6. CASE DispatchEndsRun
  BY <1>6 DEF DispatchEndsRun, hist
<1>7. ASSUME NEW action \in Offered,
            DispatchUnlisted(action)
     PROVE  ~Waiting
  BY <1>7 DEF DispatchUnlisted, hist
<1>8. ASSUME NEW action \in Offered, NEW arg \in ArgsOf(action),
            DispatchCharged(action, arg)
     PROVE  ~Waiting
  BY <1>8 DEF DispatchCharged, hist
<1>9. CASE CheckRefresh
  BY <1>9 DEF CheckRefresh, hist
<1>10. ASSUME NEW readable \in BOOLEAN,
            CheckReenable(readable)
     PROVE  ~Waiting
  BY <1>10 DEF CheckReenable, hist
<1>11. CASE NoGate
  BY <1>11 DEF NoGate, hist
<1>12. ASSUME NEW decision \in Decisions, NEW late \in BOOLEAN,
            FreshAnswer(decision, late)
     PROVE  ~Waiting
  BY <1>12 DEF FreshAnswer, Answered, Acknowledges
<1>13. ASSUME NEW id \in 1..Len(issued), NEW late \in BOOLEAN,
            ReplayedAnswer(id, late)
     PROVE  ~Waiting
  BY <1>13 DEF ReplayedAnswer, Answered, Acknowledges
<1>14. CASE WriteRefused
  BY <1>14 DEF WriteRefused, hist
<1>15. CASE WriteCharged
  BY <1>15 DEF WriteCharged, hist
<1>16. ASSUME NEW result \in {"succeeded", "failed", "raised"}, NEW after \in {latest,
              "Completed", "Failed"},
            ExecuteRefresh(result, after)
     PROVE  ~Waiting
  BY <1>16 DEF ExecuteRefresh, Executing, NotesInv, Waiting
<1>17. ASSUME NEW result \in {"succeeded", "failed", "raised"},
            ExecuteRebind(result)
     PROVE  ~Waiting
  BY <1>17, <1>0 DEF ExecuteRebind, Executing, Perform, hist
<1>18. ASSUME NEW result \in {"succeeded", "failed", "raised"},
            ExecuteReenable(result)
     PROVE  ~Waiting
  BY <1>18, <1>0 DEF ExecuteReenable, Executing, Perform, hist
<1>19. CASE ExecuteFlag
  BY <1>19 DEF ExecuteFlag, WritesFlag, hist
<1>20. ASSUME NEW delivered \in BOOLEAN,
            ExecuteNotify(delivered)
     PROVE  ~Waiting
  BY <1>20 DEF ExecuteNotify, Posted, hist
<1>21. CASE NotifyRaises
  BY <1>21 DEF NotifyRaises, hist
<1>22. ASSUME NEW lands \in BOOLEAN, ExecuteDefer(lands)
     PROVE  ~Waiting
  BY <1>22 DEF ExecuteDefer, hist
<1>23. ASSUME NEW claim \in Claims,
            ExecuteReport(claim)
     PROVE  ~Waiting
  BY <1>23 DEF ExecuteReport, hist
<1>24. CASE ExecuteWithoutEffect
  BY <1>24 DEF ExecuteWithoutEffect, hist
<1>25. CASE ExecuteConsult
  BY <1>25 DEF ExecuteConsult, hist
<1>26. ASSUME NEW table \in Tables, NEW sees \in Sightings,
            ScanTable(table, sees)
     PROVE  ~Waiting
  BY <1>26 DEF ScanTable, hist
<1>27. CASE NothingScanned
  BY <1>27 DEF NothingScanned, hist
<1>28. CASE InterpretTurn
  BY <1>28 DEF InterpretTurn, hist
<1>29. ASSUME NEW claim \in {"clean", "duplicates", "none"}, NEW count \in ReplyTokens,
            Interpreted(claim, count)
     PROVE  ~Waiting
  BY <1>29 DEF Interpreted, hist
<1>30. CASE ConsultFails
  BY <1>30 DEF ConsultFails, hist
<1>31. CASE TimePasses
  BY <1>31 DEF TimePasses, hist
<1>32. CASE RetryWindowArrives
  BY <1>32 DEF RetryWindowArrives, hist
<1>33. ASSUME NEW status \in {"Completed", "Failed"},
            RefreshElsewhere(status)
     PROVE  ~Waiting
  BY <1>33 DEF RefreshElsewhere, hist
<1>34. CASE UNCHANGED vars
  BY <1>34 DEF vars, hist
<1>. QED
  BY <1>1, <1>2, <1>3, <1>4, <1>5, <1>6, <1>7, <1>8, <1>9, <1>10, <1>11, <1>12, <1>13, <1>14,
     <1>15, <1>16, <1>17, <1>18, <1>19, <1>20, <1>21, <1>22, <1>23, <1>24, <1>25, <1>26,
     <1>27, <1>28, <1>29, <1>30, <1>31, <1>32, <1>33, <1>34 DEF Next, Controller, Environment,
     Loop, Dispatch, Execute, Consult, Done

\* No refresh is sent into a backoff window, whoever scheduled it.
THEOREM NeverStampedes == Spec => NoStampede
<1>1. TypeInv /\ NotesInv /\ [Next]_vars
        => [(/\ performed' # performed
             /\ performed'[Len(performed')].action = "refresh_powerbi_dataset")
              => retry.status # "pending"]_vars
  BY NoStampedeStep DEF Waiting
<1>. QED
  BY TypeInit, TypeStep, NotesInit, NotesStep, <1>1, PTL DEF Spec, NoStampede

-----------------------------------------------------------------------------
(* Spending.                                                               *)

\* Only remediations reach the charge, and only charged ones are executed.
SpendInv ==
  /\ writes = Len(performed) + turnedAway + InFlight
  /\ pc = "check" => cur.action \in Preconditioned
  /\ pc = "ask" => Gated(cur.action)
  /\ pc = "charge" => cur.action \in RemediationActions

\* Nothing is spent when the run starts.
LEMMA SpendInit == Init => SpendInv
  BY DEF Init, LedgerInit, SpendInv, InFlight, RemediationInFlight

\* Every step of the run keeps the account exact.
LEMMA SpendStep == TypeInv /\ SpendInv /\ [Next]_vars => SpendInv'
<1>. USE PolicyAssumption, RunAssumption
<1>. SUFFICES ASSUME TypeInv, SpendInv, [Next]_vars PROVE SpendInv'
  OBVIOUS
<1>0. /\ writes \in Nat /\ cur \in Calls
      /\ performed \in Seq(Performed) /\ Len(performed) \in Nat
      /\ turnedAway \in Nat
  BY DEF TypeInv, TypeOK, LedgerTypeOK, Calls
<1>. USE DEF SpendInv, InFlight, RemediationInFlight, ledger, hist, EndRun, CallReturns, GoTo,
     Idle, RemediationActions, Preconditioned, Gated, ApprovalRequired
<1>1. CASE LoopTurnRefused
  BY <1>1, <1>0 DEF LoopTurnRefused
<1>2. CASE LoopTurnCharged
  BY <1>2, <1>0 DEF LoopTurnCharged, ChargeLlmTurn
<1>3. CASE ProviderFails
  BY <1>3, <1>0 DEF ProviderFails
<1>4. ASSUME NEW n \in 0..MaxBatch, NEW count \in ReplyTokens,
            ModelReplies(n, count)
     PROVE  SpendInv'
  BY <1>4, <1>0 DEF ModelReplies, ChargeTokens
<1>5. CASE Finish
  BY <1>5, <1>0 DEF Finish
<1>6. CASE DispatchEndsRun
  BY <1>6, <1>0 DEF DispatchEndsRun
<1>7. ASSUME NEW action \in Offered,
            DispatchUnlisted(action)
     PROVE  SpendInv'
  BY <1>7, <1>0 DEF DispatchUnlisted, RecordBlocked
<1>8. ASSUME NEW action \in Offered, NEW arg \in ArgsOf(action),
            DispatchCharged(action, arg)
     PROVE  SpendInv'
  BY <1>8, <1>0 DEF DispatchCharged, ChargeToolCall, StageAfterCharge
<1>9. CASE CheckRefresh
  BY <1>9, <1>0 DEF CheckRefresh
<1>10. ASSUME NEW readable \in BOOLEAN,
            CheckReenable(readable)
     PROVE  SpendInv'
  BY <1>10, <1>0 DEF CheckReenable
<1>11. CASE NoGate
  BY <1>11, <1>0 DEF NoGate
<1>12. ASSUME NEW decision \in Decisions, NEW late \in BOOLEAN,
            FreshAnswer(decision, late)
     PROVE  SpendInv'
  <2>1. CASE Authorises(decision, Len(issued) + 1, late)
    <3>1. cur' = [cur EXCEPT !.by = Len(issued) + 1] /\ pc' = "charge"
      BY <1>12, <2>1 DEF FreshAnswer, Answered, Acknowledges
    <3>2. cur'.action = cur.action /\ cur.action \in ApprovalRequired
      BY <1>12, <1>0, <3>1 DEF FreshAnswer, Answered, Acknowledges, Calls
    <3>. QED
      BY <1>12, <1>0, <3>1, <3>2 DEF FreshAnswer, Answered, Acknowledges
  <2>2. CASE ~Authorises(decision, Len(issued) + 1, late)
    BY <1>12, <1>0, <2>2 DEF FreshAnswer, Answered, Acknowledges
  <2>. QED
    BY <2>1, <2>2
<1>13. ASSUME NEW id \in 1..Len(issued), NEW late \in BOOLEAN,
            ReplayedAnswer(id, late)
     PROVE  SpendInv'
  <2>1. CASE Authorises(issued[id], id, late)
    <3>1. cur' = [cur EXCEPT !.by = id] /\ pc' = "charge"
      BY <1>13, <2>1 DEF ReplayedAnswer, Answered, Acknowledges
    <3>2. cur'.action = cur.action /\ cur.action \in ApprovalRequired
      BY <1>13, <1>0, <3>1 DEF ReplayedAnswer, Answered, Acknowledges, Calls
    <3>. QED
      BY <1>13, <1>0, <3>1, <3>2 DEF ReplayedAnswer, Answered, Acknowledges
  <2>2. CASE ~Authorises(issued[id], id, late)
    BY <1>13, <1>0, <2>2 DEF ReplayedAnswer, Answered, Acknowledges
  <2>. QED
    BY <2>1, <2>2
<1>14. CASE WriteRefused
  BY <1>14, <1>0 DEF WriteRefused, RecordBlocked
<1>15. CASE WriteCharged
  BY <1>15, <1>0 DEF WriteCharged, ChargeWrite
<1>16. ASSUME NEW result \in {"succeeded", "failed", "raised"}, NEW after \in {latest,
              "Completed", "Failed"},
            ExecuteRefresh(result, after)
     PROVE  SpendInv'
  <2>1. Len(performed') = Len(performed) + 1
    BY <1>16, <1>0 DEF ExecuteRefresh, Perform
  <2>2. turnedAway' = turnedAway /\ writes' = writes
    BY <1>16 DEF ExecuteRefresh, Perform
  <2>. QED
    BY <1>16, <1>0, <2>1, <2>2 DEF ExecuteRefresh, Executing
<1>17. ASSUME NEW result \in {"succeeded", "failed", "raised"},
            ExecuteRebind(result)
     PROVE  SpendInv'
  BY <1>17, <1>0 DEF ExecuteRebind, Executing, Perform
<1>18. ASSUME NEW result \in {"succeeded", "failed", "raised"},
            ExecuteReenable(result)
     PROVE  SpendInv'
  <2>1. Len(performed') = Len(performed) + 1
    BY <1>18, <1>0 DEF ExecuteReenable, Perform
  <2>2. turnedAway' = turnedAway /\ writes' = writes
    BY <1>18 DEF ExecuteReenable, Perform
  <2>. QED
    BY <1>18, <1>0, <2>1, <2>2 DEF ExecuteReenable, Executing
<1>19. CASE ExecuteFlag
  BY <1>19, <1>0 DEF ExecuteFlag, WritesFlag, Executing
<1>20. ASSUME NEW delivered \in BOOLEAN,
            ExecuteNotify(delivered)
     PROVE  SpendInv'
  BY <1>20, <1>0 DEF ExecuteNotify, Posted, Executing
<1>21. CASE NotifyRaises
  BY <1>21, <1>0 DEF NotifyRaises, Executing
<1>22. ASSUME NEW lands \in BOOLEAN, ExecuteDefer(lands)
     PROVE  SpendInv'
  BY <1>22, <1>0 DEF ExecuteDefer, Executing
<1>23. ASSUME NEW claim \in Claims,
            ExecuteReport(claim)
     PROVE  SpendInv'
  BY <1>23, <1>0 DEF ExecuteReport, Executing
<1>24. CASE ExecuteWithoutEffect
  BY <1>24, <1>0 DEF ExecuteWithoutEffect
<1>25. CASE ExecuteConsult
  BY <1>25, <1>0 DEF ExecuteConsult, Executing
<1>26. ASSUME NEW table \in Tables, NEW sees \in Sightings,
            ScanTable(table, sees)
     PROVE  SpendInv'
  BY <1>26, <1>0 DEF ScanTable, ChargeToolCall
<1>27. CASE NothingScanned
  BY <1>27, <1>0 DEF NothingScanned
<1>28. CASE InterpretTurn
  BY <1>28, <1>0 DEF InterpretTurn, ChargeLlmTurn
<1>29. ASSUME NEW claim \in {"clean", "duplicates", "none"}, NEW count \in ReplyTokens,
            Interpreted(claim, count)
     PROVE  SpendInv'
  BY <1>29, <1>0 DEF Interpreted, ChargeTokens
<1>30. CASE ConsultFails
  BY <1>30, <1>0 DEF ConsultFails
<1>31. CASE TimePasses
  BY <1>31, <1>0 DEF TimePasses, Tick
<1>32. CASE RetryWindowArrives
  BY <1>32, <1>0 DEF RetryWindowArrives
<1>33. ASSUME NEW status \in {"Completed", "Failed"},
            RefreshElsewhere(status)
     PROVE  SpendInv'
  BY <1>33, <1>0 DEF RefreshElsewhere
<1>34. CASE UNCHANGED vars
  BY <1>34 DEF vars
<1>. QED
  BY <1>1, <1>2, <1>3, <1>4, <1>5, <1>6, <1>7, <1>8, <1>9, <1>10, <1>11, <1>12, <1>13, <1>14,
     <1>15, <1>16, <1>17, <1>18, <1>19, <1>20, <1>21, <1>22, <1>23, <1>24, <1>25, <1>26,
     <1>27, <1>28, <1>29, <1>30, <1>31, <1>32, <1>33, <1>34 DEF Next, Controller, Environment,
     Loop, Dispatch, Execute, Consult, Done

\* The budget is charged once for each remediation its tool was handed, and for
\* nothing that was refused before.
THEOREM RefusalsCostNothing == Spec => []RefusedBeforeTheTool
<1>1. SpendInv => RefusedBeforeTheTool
  BY DEF SpendInv, RefusedBeforeTheTool, InFlight
<1>. QED
  BY TypeInit, TypeStep, SpendInit, SpendStep, <1>1, PTL DEF Spec

-----------------------------------------------------------------------------
(* Fixes.                                                                  *)

\* The outcome of record is a remediation that was sent, a completed refresh is
\* remembered, and a re-enable past its precondition has its reason.
FixInv ==
  /\ remediation = "succeeded" => FixedSomething
  /\ latest = "Completed" => healthy
  /\ pc = "ask" => Gated(cur.action)
  /\ pc \in {"ask", "charge", "execute"} /\ cur.action = "reenable_refresh_schedule"
       => healthy \/ FixedSomething
  /\ pc # "done" => outcome = "running"
  /\ ResolvedIsEarned
  /\ RearmedOnEvidence

\* Nothing is fixed when the run starts.
LEMMA FixInit == Init => FixInv
<1>. SUFFICES ASSUME Init PROVE FixInv
  OBVIOUS
<1>1. latest = "Completed" => healthy
  BY DEF Init
<1>2. ResolvedIsEarned /\ RearmedOnEvidence
  BY DEF Init, ResolvedIsEarned, RearmedOnEvidence
<1>. QED
  BY <1>1, <1>2 DEF Init, FixInv, Idle

\* A step that sends nothing and forgets no refresh keeps what was fixed.
LEMMA NothingSent ==
  ASSUME performed' = performed, healthy => healthy'
  PROVE  /\ FixedSomething' <=> FixedSomething
         /\ RearmedOnEvidence => RearmedOnEvidence'
  BY DEF FixedSomething, RearmedOnEvidence

\* A remediation that is sent, and whatever becomes of it, fits the record.
LEMMA RemediationSent ==
  ASSUME TypeInv, FixInv, RemediationInFlight, NEW result, Perform(result), CallReturns,
         latest' = "Completed" => healthy', healthy => healthy', healthy \in BOOLEAN
  PROVE  FixInv'
<1>. DEFINE last == Len(performed) + 1
            sent == [action |-> cur.action, arg |-> cur.arg, by |-> cur.by,
                     ok |-> result = "succeeded"]
<1>1. performed \in Seq(Performed) /\ sent \in Performed
  BY DEF TypeInv, TypeOK, Calls, Performed, RemediationInFlight
<1>2. /\ Len(performed') = last
      /\ \A i \in 1..Len(performed) : performed'[i] = performed[i]
      /\ performed'[last] = sent
  BY <1>1 DEF Perform
<1>3. FixedSomething => FixedSomething'
  BY <1>1, <1>2 DEF FixedSomething
<1>4. ASSUME result = "succeeded" PROVE FixedSomething'
  <2>1. sent.ok
    BY <1>4
  <2>2. last \in 1..Len(performed') /\ performed'[last].ok
    BY <1>1, <1>2, <2>1
  <2>. QED
    BY <2>2 DEF FixedSomething
<1>5. remediation' = "succeeded" => FixedSomething'
  BY <1>3, <1>4 DEF FixInv, Perform
<1>6. ASSUME NEW i \in 1..Len(performed'),
             performed'[i].action = "reenable_refresh_schedule"
      PROVE  healthy' \/ \E j \in 1..(i - 1) : performed'[j].ok
  <2>1. CASE i = last
    <3>1. healthy \/ FixedSomething
      BY <1>2, <1>6, <2>1 DEF FixInv, RemediationInFlight
    <3>. QED
      BY <1>1, <1>2, <2>1, <3>1 DEF FixedSomething
  <2>2. CASE i \in 1..Len(performed)
    <3>1. healthy \/ \E j \in 1..(i - 1) : performed[j].ok
      BY <1>2, <1>6, <2>2 DEF FixInv, RearmedOnEvidence
    <3>. QED
      BY <1>1, <1>2, <2>2, <3>1
  <2>. QED
    BY <1>1, <1>2, <2>1, <2>2
<1>7. RearmedOnEvidence'
  BY <1>6 DEF RearmedOnEvidence
<1>8. pc' \in {"turn", "call"} /\ outcome' = "running"
  BY DEF CallReturns, FixInv, RemediationInFlight
<1>. QED
  BY <1>5, <1>7, <1>8 DEF FixInv, ResolvedIsEarned

\* Every step of the run keeps the record of fixes right.
LEMMA FixStep == TypeInv /\ FixInv /\ [Next]_vars => FixInv'
<1>. SUFFICES ASSUME TypeInv, FixInv, [Next]_vars PROVE FixInv'
  OBVIOUS
<1>0. cur \in Calls /\ healthy \in BOOLEAN
  BY DEF TypeInv, TypeOK
<1>. USE NothingSent DEF FixInv, ResolvedIsEarned, ledger, ctx, world, hist, EndRun,
     CallReturns,
     GoTo, Idle, Gated, ApprovalRequired
<1>1. CASE LoopTurnRefused
  BY <1>1, <1>0 DEF LoopTurnRefused
<1>2. CASE LoopTurnCharged
  BY <1>2, <1>0 DEF LoopTurnCharged, ChargeLlmTurn
<1>3. CASE ProviderFails
  BY <1>3, <1>0 DEF ProviderFails
<1>4. ASSUME NEW n \in 0..MaxBatch, NEW count \in ReplyTokens,
            ModelReplies(n, count)
     PROVE  FixInv'
  BY <1>4, <1>0 DEF ModelReplies, ChargeTokens
<1>5. CASE Finish
  <2>1. CASE outcome' = "resolved"
    <3>1. resolution = "resolved" /\ ~Unsupported("resolved")
      BY <1>5, <2>1 DEF Finish
    <3>2. /\ remediation = "succeeded" /\ ~(blocked > 0)
          /\ "ungranted" \in approvals => "granted" \in approvals
      BY <3>1 DEF Unsupported
    <3>. QED
      BY <1>5, <1>0, <3>2 DEF Finish, TypeInv, TypeOK, LedgerTypeOK
  <2>2. CASE outcome' # "resolved"
    BY <1>5, <1>0, <2>2 DEF Finish
  <2>. QED
    BY <2>1, <2>2
<1>6. CASE DispatchEndsRun
  BY <1>6, <1>0 DEF DispatchEndsRun
<1>7. ASSUME NEW action \in Offered,
            DispatchUnlisted(action)
     PROVE  FixInv'
  BY <1>7, <1>0 DEF DispatchUnlisted, RecordBlocked
<1>8. ASSUME NEW action \in Offered, NEW arg \in ArgsOf(action),
            DispatchCharged(action, arg)
     PROVE  FixInv'
  BY <1>8, <1>0 DEF DispatchCharged, ChargeToolCall, StageAfterCharge, Preconditioned
<1>9. CASE CheckRefresh
  BY <1>9, <1>0 DEF CheckRefresh
<1>10. ASSUME NEW readable \in BOOLEAN,
            CheckReenable(readable)
     PROVE  FixInv'
  BY <1>10, <1>0 DEF CheckReenable
<1>11. CASE NoGate
  BY <1>11, <1>0 DEF NoGate
<1>12. ASSUME NEW decision \in Decisions, NEW late \in BOOLEAN,
            FreshAnswer(decision, late)
     PROVE  FixInv'
  <2>1. CASE Authorises(decision, Len(issued) + 1, late)
    <3>1. cur' = [cur EXCEPT !.by = Len(issued) + 1] /\ pc' = "charge"
      BY <1>12, <2>1 DEF FreshAnswer, Answered, Acknowledges
    <3>2. cur'.action = cur.action /\ cur.action \in ApprovalRequired
      BY <1>12, <1>0, <3>1 DEF FreshAnswer, Answered, Acknowledges, Calls
    <3>. QED
      BY <1>12, <1>0, <3>1, <3>2 DEF FreshAnswer, Answered, Acknowledges
  <2>2. CASE ~Authorises(decision, Len(issued) + 1, late)
    BY <1>12, <1>0, <2>2 DEF FreshAnswer, Answered, Acknowledges
  <2>. QED
    BY <2>1, <2>2
<1>13. ASSUME NEW id \in 1..Len(issued), NEW late \in BOOLEAN,
            ReplayedAnswer(id, late)
     PROVE  FixInv'
  <2>1. CASE Authorises(issued[id], id, late)
    <3>1. cur' = [cur EXCEPT !.by = id] /\ pc' = "charge"
      BY <1>13, <2>1 DEF ReplayedAnswer, Answered, Acknowledges
    <3>2. cur'.action = cur.action /\ cur.action \in ApprovalRequired
      BY <1>13, <1>0, <3>1 DEF ReplayedAnswer, Answered, Acknowledges, Calls
    <3>. QED
      BY <1>13, <1>0, <3>1, <3>2 DEF ReplayedAnswer, Answered, Acknowledges
  <2>2. CASE ~Authorises(issued[id], id, late)
    BY <1>13, <1>0, <2>2 DEF ReplayedAnswer, Answered, Acknowledges
  <2>. QED
    BY <2>1, <2>2
<1>14. CASE WriteRefused
  BY <1>14, <1>0 DEF WriteRefused, RecordBlocked
<1>15. CASE WriteCharged
  BY <1>15, <1>0 DEF WriteCharged, ChargeWrite
<1>16. ASSUME NEW result \in {"succeeded", "failed", "raised"}, NEW after \in {latest,
              "Completed", "Failed"},
            ExecuteRefresh(result, after)
     PROVE  FixInv'
  <2>1. /\ Perform(result) /\ CallReturns
        /\ healthy => healthy'
        /\ latest' = "Completed" => healthy'
    BY <1>16, <1>0 DEF ExecuteRefresh
  <2>2. RemediationInFlight
    BY <1>16 DEF ExecuteRefresh, Executing, RemediationInFlight, RemediationActions
  <2>. HIDE DEF CallReturns, FixInv
  <2>. QED
    BY <1>0, <2>1, <2>2, RemediationSent
<1>17. ASSUME NEW result \in {"succeeded", "failed", "raised"},
            ExecuteRebind(result)
     PROVE  FixInv'
  <2>1. CASE cur.arg = NoTarget
    BY <1>17, <1>0, <2>1 DEF ExecuteRebind, Executing
  <2>2. CASE cur.arg # NoTarget
    <3>1. /\ Perform(result) /\ CallReturns
          /\ healthy => healthy'
          /\ latest' = "Completed" => healthy'
      BY <1>17, <1>0, <2>2 DEF ExecuteRebind
    <3>2. RemediationInFlight
      BY <1>17 DEF ExecuteRebind, Executing, RemediationInFlight, RemediationActions
    <3>. HIDE DEF CallReturns, FixInv
    <3>. QED
      BY <1>0, <3>1, <3>2, RemediationSent
  <2>. QED
    BY <2>1, <2>2
<1>18. ASSUME NEW result \in {"succeeded", "failed", "raised"},
            ExecuteReenable(result)
     PROVE  FixInv'
  <2>1. /\ Perform(result) /\ CallReturns
        /\ healthy => healthy'
        /\ latest' = "Completed" => healthy'
    BY <1>18, <1>0 DEF ExecuteReenable
  <2>2. RemediationInFlight
    BY <1>18 DEF ExecuteReenable, Executing, RemediationInFlight, RemediationActions
  <2>. HIDE DEF CallReturns, FixInv
  <2>. QED
    BY <1>0, <2>1, <2>2, RemediationSent
<1>19. CASE ExecuteFlag
  BY <1>19, <1>0 DEF ExecuteFlag, WritesFlag, Executing
<1>20. ASSUME NEW delivered \in BOOLEAN,
            ExecuteNotify(delivered)
     PROVE  FixInv'
  BY <1>20, <1>0 DEF ExecuteNotify, Posted, Executing
<1>21. CASE NotifyRaises
  BY <1>21, <1>0 DEF NotifyRaises, Executing
<1>22. ASSUME NEW lands \in BOOLEAN, ExecuteDefer(lands)
     PROVE  FixInv'
  BY <1>22, <1>0 DEF ExecuteDefer, Executing
<1>23. ASSUME NEW claim \in Claims,
            ExecuteReport(claim)
     PROVE  FixInv'
  BY <1>23, <1>0 DEF ExecuteReport, Executing
<1>24. CASE ExecuteWithoutEffect
  BY <1>24, <1>0 DEF ExecuteWithoutEffect
<1>25. CASE ExecuteConsult
  BY <1>25, <1>0 DEF ExecuteConsult, Executing
<1>26. ASSUME NEW table \in Tables, NEW sees \in Sightings,
            ScanTable(table, sees)
     PROVE  FixInv'
  BY <1>26, <1>0 DEF ScanTable, ChargeToolCall
<1>27. CASE NothingScanned
  BY <1>27, <1>0 DEF NothingScanned
<1>28. CASE InterpretTurn
  BY <1>28, <1>0 DEF InterpretTurn, ChargeLlmTurn
<1>29. ASSUME NEW claim \in {"clean", "duplicates", "none"}, NEW count \in ReplyTokens,
            Interpreted(claim, count)
     PROVE  FixInv'
  BY <1>29, <1>0 DEF Interpreted, ChargeTokens
<1>30. CASE ConsultFails
  BY <1>30, <1>0 DEF ConsultFails
<1>31. CASE TimePasses
  BY <1>31, <1>0 DEF TimePasses, Tick
<1>32. CASE RetryWindowArrives
  BY <1>32, <1>0 DEF RetryWindowArrives
<1>33. ASSUME NEW status \in {"Completed", "Failed"},
            RefreshElsewhere(status)
     PROVE  FixInv'
  BY <1>33, <1>0 DEF RefreshElsewhere
<1>34. CASE UNCHANGED vars
  BY <1>34 DEF vars
<1>. QED
  BY <1>1, <1>2, <1>3, <1>4, <1>5, <1>6, <1>7, <1>8, <1>9, <1>10, <1>11, <1>12, <1>13, <1>14,
     <1>15, <1>16, <1>17, <1>18, <1>19, <1>20, <1>21, <1>22, <1>23, <1>24, <1>25, <1>26,
     <1>27, <1>28, <1>29, <1>30, <1>31, <1>32, <1>33, <1>34 DEF Next, Controller, Environment,
     Loop, Dispatch, Execute, Consult, Done

\* "resolved" is earned, whatever the model reports.
THEOREM ResolutionsAreEarned == Spec => []ResolvedIsEarned
<1>1. FixInv => ResolvedIsEarned
  BY DEF FixInv
<1>. QED
  BY TypeInit, TypeStep, FixInit, FixStep, <1>1, PTL DEF Spec

\* No schedule is re-armed without a reason.
THEOREM SchedulesAreRearmedOnEvidence == Spec => []RearmedOnEvidence
<1>1. FixInv => RearmedOnEvidence
  BY DEF FixInv
<1>. QED
  BY TypeInit, TypeStep, FixInit, FixStep, <1>1, PTL DEF Spec

=============================================================================
