SPECIFICATION Spec
CONSTANTS
  Slots = {"primary", "secondary"}
  Primary = "primary"
  Strategies = {"minimal", "balanced", "full"}
  QueueSize = 2
  Operator <- OperatorSettings
  FaultSets <- MostFaults
  MaxFaults = 2
  MaxRuns = 2
INVARIANTS
  TypeOK
  FirstStartWarm
  StartAccepted
  SettingsRestored
  ReleaseLasts
PROPERTIES
  CachesComeBack
CHECK_DEADLOCK FALSE
