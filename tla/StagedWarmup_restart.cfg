SPECIFICATION Spec
CONSTANTS
  Slots = {"primary", "secondary"}
  Primary = "primary"
  Strategies = {"balanced"}
  QueueSize = 2
  Operator <- Defaults
  FaultSets <- OnlyWarmup
  MaxFaults = 1
  MaxRuns = 1
INVARIANT StagedSlotWarm
CHECK_DEADLOCK FALSE
