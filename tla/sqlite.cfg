SPECIFICATION Spec
CONSTANTS
  s1 = s1
  s2 = s2
  Sessions = {s1, s2}
  NoRequest = NoRequest
  Idle = Idle
  Backend = "sqlite"
  MaxToolCalls = 3
  CanExpire = FALSE
  IncidentKinds = {"plain"}
  ToolOutcomes = {"success"}
  LlmOutcomes = {"safe", "risky", "risky_overlong", "timeout"}
  MaxPosts = 3
  MaxRestarts = 1
  MaxFaults = 2
CHECK_DEADLOCK FALSE
SYMMETRY Symmetry
INVARIANTS GateInv RiskNeedsApproval WaitingIsPending OrphanedRequest DecidedOnce TrailLeadsToStatus SettledHasReport EvidenceAccounted
PROPERTIES GateFrozen ImplementsLifecycle
