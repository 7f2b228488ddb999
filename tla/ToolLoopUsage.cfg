\* A forced or empty answer is paid for and not in the outcome's usage.
SPECIFICATION Spec
CONSTANTS
  Tasks = {t1, t2}
  DefaultModel = "haiku"
  FallbackChain <- MCOneFallback
  MaxRounds = 2
  SelfCheckInterval = 0
  MaxRetries = 1
  MaxToolCalls = 1
  Costs = {0, 3}
  MaxCost = 3
  TotalUsd = 4
  HardTaskPct = 50
  SoftTaskPct = 30
  NudgeEvery = 2
  MaxStoreErrors = 0
INVARIANTS
  UsageCountsEveryCall
