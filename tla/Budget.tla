------------------------------- MODULE Budget -------------------------------
(***************************************************************************)
(* The session's budget ledger and the guard every task consults after a   *)
(* round of tools (crates/core/src/budget.rs).  The ledger is the sum of   *)
(* the llm_usage events of the session: check_budget reads it back from    *)
(* the store, so it is shared by all the tasks in flight, and money that   *)
(* never became an event is invisible to it.  Amounts are integers (the    *)
(* code has f64 dollars) and the thresholds are whole percents.            *)
(***************************************************************************)
EXTENDS Integers

CONSTANTS
  TotalUsd,        \* the session's budget; 0 or less turns the guard off
  HardTaskPct,     \* a task may not hold more than this share of what is left
  SoftTaskPct,     \* above this share the model is told about it,
  NudgeEvery,      \* but only every NudgeEvery rounds (10 in the code)
  MaxStoreErrors   \* bound: failing store calls in a behaviour

ASSUME BudgetAssumption ==
  /\ TotalUsd \in Int
  /\ HardTaskPct \in Nat
  /\ SoftTaskPct \in Nat
  /\ NudgeEvery \in Nat \ {0}
  /\ MaxStoreErrors \in Nat

VARIABLES
  ledger,       \* the sum of the recorded llm_usage events
  lost,         \* usage whose event could not be appended (history)
  storeErrors   \* store calls that have failed

ledgerVars == <<ledger, lost, storeErrors>>

BudgetInit ==
  /\ ledger = 0
  /\ lost = 0
  /\ storeErrors = 0

StoreFails ==
  /\ storeErrors < MaxStoreErrors
  /\ storeErrors' = storeErrors + 1

\* The llm_usage event of an answered call; an append that fails is ignored.
RecordUsage_Twice(cost) ==
  /\ ledger' = ledger + 2 * cost
  /\ UNCHANGED <<lost, storeErrors>>
RecordUsage(cost) ==
  \/ /\ ledger' = ledger + cost
     /\ UNCHANGED <<lost, storeErrors>>
  \/ /\ lost' = lost + cost
     /\ UNCHANGED ledger
     /\ StoreFails

Enforced == TotalUsd > 0

Remaining == IF ledger < TotalUsd THEN TotalUsd - ledger ELSE 0

\* What check_budget answers for a task that has spent cost by this round.
HardStop_OwnShareOnly(cost) ==
  Enforced /\ Remaining > 0 /\ 100 * cost > HardTaskPct * Remaining
HardStop(cost) ==
  Enforced /\ (Remaining = 0 \/ 100 * cost > HardTaskPct * Remaining)

SoftNudge(cost, round) ==
  /\ Enforced
  /\ ~HardStop(cost)
  /\ 100 * cost > SoftTaskPct * Remaining
  /\ round % NudgeEvery = 0

BudgetTypeOK ==
  /\ ledger \in Nat
  /\ lost \in Nat
  /\ storeErrors \in 0..MaxStoreErrors
=============================================================================
