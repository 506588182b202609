---------------------------- MODULE PolicyLedger ----------------------------
(***************************************************************************)
(* The consumption ledger of one triage run: policy.py.  Every turn, tool  *)
(* call, remediation and token of the run, the Data Quality agent's        *)
(* included, is charged here before (or, for tokens, right after) it is    *)
(* spent.  A charge either succeeds or is refused with the name of the     *)
(* limit; the run module decides what a refusal does to the run.           *)
(*                                                                         *)
(* attempted_actions, denied_actions and elapsed_ms are audit output that  *)
(* no guard reads and are left out; blocked_attempts is a list of names of *)
(* which only the length matters.                                          *)
(***************************************************************************)
EXTENDS Naturals

CONSTANTS
  MaxTurns,      \* TriagePolicy.max_llm_turns
  MaxToolCalls,  \* TriagePolicy.max_tool_calls
  MaxWrites,     \* TriagePolicy.max_write_actions
  MaxTokens,     \* TriagePolicy.max_tokens
  Timeout        \* TriagePolicy.wall_clock_timeout_seconds, in clock steps

ASSUME PolicyAssumption ==
  /\ MaxTurns \in Nat
  /\ MaxToolCalls \in Nat
  /\ MaxWrites \in Nat
  /\ MaxTokens \in Nat
  /\ Timeout \in Nat

VARIABLES
  turns,    \* llm_turns
  calls,    \* tool_calls
  writes,   \* write_actions
  tokens,   \* tokens_used
  blocked,  \* Len(blocked_attempts)
  clock     \* elapsed_seconds: the wall clock without the human wait

ledger == <<turns, calls, writes, tokens, blocked>>

-----------------------------------------------------------------------------
(* The action taxonomy.                                                    *)

RemediationActions ==
  {"refresh_powerbi_dataset", "rebind_dataset_gateway", "reenable_refresh_schedule"}

ApprovalRequired == {"rebind_dataset_gateway", "reenable_refresh_schedule"}

ReportingActions ==
  {"write_data_quality_flag", "notify_teams", "report_resolution", "defer_refresh_retry"}

DiagnosticActions ==
  {"get_request_context", "get_dataset_refresh_history", "get_refresh_schedule",
   "check_duplicates", "get_known_incidents", "consult_data_quality_agent"}

AllowedActions == RemediationActions \cup ReportingActions \cup DiagnosticActions

-----------------------------------------------------------------------------
(* Charges.  Each is a pair: the condition under which the ledger refuses, *)
(* and the update when it does not.                                        *)

LedgerInit ==
  /\ turns = 0
  /\ calls = 0
  /\ writes = 0
  /\ tokens = 0
  /\ blocked = 0
  /\ clock = 0

\* check_deadline
Overdue == clock > Timeout

TurnsSpent == turns >= MaxTurns
ChargeLlmTurn ==
  /\ turns' = turns + 1
  /\ UNCHANGED <<calls, writes, tokens, blocked>>

\* The reply has been received: its tokens are added even when they overrun.
TokensOverrun(count) == tokens + count > MaxTokens
ChargeTokens(count) ==
  /\ tokens' = tokens + count
  /\ UNCHANGED <<turns, calls, writes, blocked>>

CallsSpent == calls >= MaxToolCalls
ChargeToolCall ==
  /\ calls' = calls + 1
  /\ UNCHANGED <<turns, writes, tokens, blocked>>

\* Mutant: off by one.
WritesSpentLate == writes > MaxWrites

WritesSpent == writes >= MaxWrites
ChargeWrite ==
  /\ writes' = writes + 1
  /\ UNCHANGED <<turns, calls, tokens, blocked>>

\* assert_action_allowed and charge_write append to blocked_attempts.
RecordBlocked ==
  /\ blocked' = blocked + 1
  /\ UNCHANGED <<turns, calls, writes, tokens>>

\* Time passes; ClockBound keeps the state space finite: past the deadline
\* one step is as late as any other.
Tick ==
  /\ clock <= Timeout
  /\ clock' = clock + 1
  /\ UNCHANGED ledger

LedgerTypeOK ==
  /\ turns \in Nat
  /\ calls \in Nat
  /\ writes \in Nat
  /\ tokens \in Nat
  /\ blocked \in Nat
  /\ clock \in Nat
=============================================================================
