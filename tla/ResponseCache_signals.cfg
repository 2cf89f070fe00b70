CONSTANTS
  t1 = t1 t2 = t2 t3 = t3
  k1 = k1 k2 = k2
  Threads = {t1, t2, t3}
  Keys = {k1, k2}
  NumShards = 2
  ShardOf <- MCShardOf
  Budget = 7
  EntrySize <- MCEntrySize
  Oversized = {}
  MaxRequests = 2
  MaxDisables = 1
  NoThread = NoThread
SPECIFICATION Spec
SYMMETRY ThreadPermutations
INVARIANTS TypeOK SingleProducer WaitersHaveLeader DisabledStaysEmpty UsedMatchesEntries ShardsWithinBudget
PROPERTIES ImplementsSingleFlight
