SPECIFICATION FairSpec
CONSTANTS
  MaxRelease = 3
  Scenarios <- AllScenarios
INVARIANTS
  TypeOK
  FirstUpstreamServes
  ServingSlotKeepsItsFile
  BootSafe
  CleanFinish
  UndoMatchesBinary
  AlreadyActiveIsTrue
PROPERTIES
  ImplementsRollout
  EventuallyCurrent
CHECK_DEADLOCK FALSE
