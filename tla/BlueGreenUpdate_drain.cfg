SPECIFICATION Spec
CONSTANTS
  MaxRelease = 2
  Scenarios <- OneKill
INVARIANTS
  DrainSparesCaddysSlot
CHECK_DEADLOCK FALSE
