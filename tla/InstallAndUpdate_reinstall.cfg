SPECIFICATION InstSpec
CONSTANTS
  MaxRelease = 2
  Scenarios <- QuietHost
  Overlap = FALSE
PROPERTIES
  CompletedMeansServing
CHECK_DEADLOCK FALSE
