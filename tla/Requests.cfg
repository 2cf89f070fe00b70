CONSTANTS
  t1 = t1 t2 = t2
  k1 = k1 k2 = k2
  Threads = {t1, t2}
  Keys = {k1, k2}
  NumShards = 2
  ShardOf <- MCShardOf
  Budget = 3
  EntrySize <- MCEntrySize
  Oversized = {}
  MaxRequests = 2
  MaxDisables = 1
  NoThread = NoThread
  Scanning = {k1}
  OverlapSlots = 1
SPECIFICATION RequestsSpec
INVARIANTS ScansBounded
PROPERTIES RequestsAnswered ClearCompletes ShutdownEnds
CHECK_DEADLOCK FALSE
