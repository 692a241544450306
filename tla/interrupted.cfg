SPECIFICATION FairSpec
CONSTANTS
  s1 = s1
  s2 = s2
  Sessions = {s1}
  NoRequest = NoRequest
  Idle = Idle
  Backend = "sqlite"
  MaxToolCalls = 3
  CanExpire = FALSE
  IncidentKinds = {"plain"}
  ToolOutcomes = {"success"}
  LlmOutcomes = {"safe"}
  MaxPosts = 0
  MaxRestarts = 1
  MaxFaults = 0
CHECK_DEADLOCK FALSE
PROPERTIES InterruptedIsMarked
