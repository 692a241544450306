SPECIFICATION Spec
CONSTANTS
  s1 = s1
  s2 = s2
  Sessions = {s1, s2}
  NoRequest = NoRequest
  Idle = Idle
  Backend = "inmemory"
  MaxToolCalls = 3
  CanExpire = TRUE
  IncidentKinds = {"plain"}
  ToolOutcomes = {"success", "failed"}
  LlmOutcomes = {"fallback", "risky", "risky_overlong", "timeout", "raise"}
  MaxPosts = 1
  MaxRestarts = 1
  MaxFaults = 0
CHECK_DEADLOCK FALSE
SYMMETRY Symmetry
INVARIANTS GateInv TypeOK SettledHasReport EvidenceAccounted TrailLeadsToStatus OutcomesCounted AnsweredIsSettled LlmCallsCounted MetricsMatchTraces ReadinessExplained ProgressInv CountersInv
