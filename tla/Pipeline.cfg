SPECIFICATION PipelineSpec
CONSTANTS
  Bits = 3
  Inputs = {}
  SummaryLevels = {0, 1, 3}
  MaxCrashes = 0
  BatchSize = 2
  Registries <- MCRegistries
  Sources <- MCSources
  FetchLimit = 2
  MaxCuts = 1
INVARIANTS
  FormatsAgree
  PublishedIsStated
CHECK_DEADLOCK FALSE
