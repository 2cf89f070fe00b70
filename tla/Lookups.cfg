SPECIFICATION Spec
CONSTANTS
  Bits = 3
  Inputs <- MCInputs
  SummaryLevels = {0, 1, 3}
  MaxCrashes = 1
  MaxCandidates = 2
INVARIANTS
  BuildTypeOK
  TrieWellFormed
  OutputIsWhole
  CompactIsNarrowest
  RoutesAreLongestMatch
  CompactIsFull
  CoveringIsTight
  SummaryCounts
CHECK_DEADLOCK FALSE
