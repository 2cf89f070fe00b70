SPECIFICATION Spec
CONSTANTS
  MaxRelease = 2
  Scenarios <- OneStart
INVARIANTS
  BinaryMatchesService
CHECK_DEADLOCK FALSE
