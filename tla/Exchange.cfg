\* One task in full: retries, a fallback chain with repetitions, two tool calls
\* in an answer, both caps and a failing store, with every reply of the provider.
SPECIFICATION FairExchange
CONSTANTS
  Tasks = {t1}
  DefaultModel = "haiku"
  FallbackChain <- MCChain
  MaxRounds = 2
  SelfCheckInterval = 2
  MaxRetries = 2
  MaxToolCalls = 2
  Costs = {0, 3}
  MaxCost = 3
  TotalUsd = 10
  HardTaskPct = 50
  SoftTaskPct = 30
  NudgeEvery = 1
  MaxStoreErrors = 1
  AnthropicModels = {"haiku"}
  ToolSchemas <- MCTools
  Shapes <- MCShapes
  Finishes = {"tool_calls", "length"}
INVARIANTS
  TypeOK
  ToolCallsAnswered
  RoundsAreAnswers
  FallbackInOrder
  EchoesTheProvider
  PricesAreFlagged
PROPERTIES
  RequestsExtend
  LoopsReturn
