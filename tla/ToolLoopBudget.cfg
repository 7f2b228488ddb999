\* Two tasks that meet in the ledger, with retries and a fallback.
SPECIFICATION Spec
CONSTANTS
  Tasks = {t1, t2}
  DefaultModel = "haiku"
  FallbackChain <- MCOneFallback
  MaxRounds = 2
  SelfCheckInterval = 0
  MaxRetries = 2
  MaxToolCalls = 1
  Costs = {0, 3}
  MaxCost = 3
  TotalUsd = 4
  HardTaskPct = 50
  SoftTaskPct = 30
  NudgeEvery = 2
  MaxStoreErrors = 1
SYMMETRY TaskSymmetry
INVARIANTS
  BooksBalance
  OverspendBounded
  TaskShareBounded
PROPERTIES
  LoopsWindDown
