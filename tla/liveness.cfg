SPECIFICATION FairSpec
CONSTANTS
  s1 = s1
  s2 = s2
  Sessions = {s1, s2}
  NoRequest = NoRequest
  Idle = Idle
  Backend = "sqlite"
  MaxToolCalls = 3
  CanExpire = TRUE
  IncidentKinds = {"plain", "forced", "overlong"}
  ToolOutcomes = {"success", "failed", "raise"}
  LlmOutcomes = {"safe", "risky", "risky_overlong", "fallback", "overlong", "unstructured", "timeout", "raise", "unimplemented"}
  MaxPosts = 0
  MaxRestarts = 0
  MaxFaults = 0
CHECK_DEADLOCK FALSE
INVARIANT AnsweredIsSettled
PROPERTY TriageEnds
