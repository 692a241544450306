SPECIFICATION ReportSpec
CONSTANTS
  Sayings = {{"check"}, {"restart"}}
  MaxObservations = 1
  MaxHypotheses = 1
  MaxSteps = 1
CHECK_DEADLOCK FALSE
INVARIANT OlderAreDropped
