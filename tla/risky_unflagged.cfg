SPECIFICATION ReportSpec
CONSTANTS
  Sayings = {{"check"}, {"restart"}, {"rollback"}}
  MaxObservations = 1
  MaxHypotheses = 1
  MaxSteps = 2
CHECK_DEADLOCK FALSE
INVARIANT AllRiskyFlagged
