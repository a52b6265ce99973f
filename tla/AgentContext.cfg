\* One turn with two tool calls, whose results use up the budget.
SPECIFICATION AgentSpec
CONSTANTS
  Turns = {a1}
  Threshold = 2
  ModelRetries = 0
  ToolRetries = 0
  HasFallback = FALSE
  MaxRounds = 2
  Budget = 5
  CutSize = 2
  ResultSizes = {1, 4}
  TextSizes = {0}
  MaxToolCalls = 2
CHECK_DEADLOCK FALSE
INVARIANT
  PairsAreKept
