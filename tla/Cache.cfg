SPECIFICATION CacheSpec
CONSTANTS
  k1 = k1
  k2 = k2
  Keys = {k1, k2}
  Readers = {r1}
  HeadReaders = {r1}
  FreshFor = 1
  TTL = 1
  Batches <- Batch
  MaxTime = 3
  MaxHeadTime = 3
  MaxSlot = 2
  MaxEntries = 2
  MaxGen = 2
  None = None
  Workloads <- Users
  HeadFreshFor = 1
  MaxAge = 1
  MaxBlocks = 2
CHECK_DEADLOCK FALSE
INVARIANTS StreamedIsCurrent BatchAnswered ServedReachedCommitment DeadFeedExpires
PROPERTIES EntriesOnlyImprove HeadNeverRegresses
