SPECIFICATION ClockSpec
CONSTANTS
  Second = 2
  TimeBudget = 14
  ToolTimeout = 4
  LlmTimeout = 6
  MaxRetries = 2
  MaxToolCalls = 3
  MaxLag = 0
CHECK_DEADLOCK FALSE
INVARIANTS LlmCappedByTimeLeft
