SPECIFICATION ClockSpec
CONSTANTS
  Second = 2
  TimeBudget = 14
  ToolTimeout = 4
  LlmTimeout = 8
  MaxRetries = 2
  MaxToolCalls = 3
  MaxLag = 1
CHECK_DEADLOCK FALSE
INVARIANTS ClockTypeOK OverrunBounded AttemptsBounded LlmAttemptsFit ClockInv
