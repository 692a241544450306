SPECIFICATION ReportSpec
CONSTANTS
  Sayings = {{"check"}, {"restart"}, {"rollback"}, {"roll-back", "deploy"}, {"restart", "rollback"}, {"delete"}}
  MaxObservations = 1
  MaxHypotheses = 4
  MaxSteps = 2
CHECK_DEADLOCK FALSE
INVARIANTS
  ReportTypeOK ActiveIsGrounded NotesResolve
  RequestAgreesWithReport GapsAreStated DecisionIsShown LegacyViewAgrees
  ReportIsOfItsEvidence
PROPERTY ReportImplementsLifecycle
