SPECIFICATION Spec
CONSTANTS
  s1 = s1
  s2 = s2
  Sessions = {s1}
  NoRequest = NoRequest
  Idle = Idle
  Backend = "sqlite"
  MaxToolCalls = 6
  CanExpire = TRUE
  IncidentKinds = {"plain"}
  ToolOutcomes = {"success"}
  LlmOutcomes = {"safe"}
  MaxPosts = 0
  MaxRestarts = 0
  MaxFaults = 0
CHECK_DEADLOCK FALSE
INVARIANTS BudgetExhaustionCounted
