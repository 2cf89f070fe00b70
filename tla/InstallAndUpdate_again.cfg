SPECIFICATION InstSpec
CONSTANTS
  MaxRelease = 3
  Scenarios <- FaultyHost
  Overlap = TRUE
PROPERTIES
  InstalledReleaseServes
CHECK_DEADLOCK FALSE
