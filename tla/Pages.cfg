SPECIFICATION PagesSpec
CONSTANTS
  Bits = 3
  Inputs <- MCInputs
  SummaryLevels = {0, 1}
  MaxCrashes = 0
  MaxCandidates = 64
  Queries <- MCQueries
  MaxOverlapIndexEntries = 4
  MaxItems = 3
INVARIANTS
  PagesTypeOK
  PagesAreTheResult
PROPERTIES
  PagingEnds
CHECK_DEADLOCK FALSE
