SPECIFICATION MCSpec
CONSTANTS
  Node = {"n1", "n2"}
  Addr = {"a1"}
  Opener = {"o1", "o2"}
  None = None
  Settings <- MCSettings
  Keys <- MCKeys
  Host = {"h1", "h2", "h3"}
  Source = {"s1", "s2"}
  NewBucket = {0, 1}
  TriedBucket = {0}
  NEW_BUCKET_SIZE = 1
  TRIED_BUCKET_SIZE = 1
  NEW_BUCKETS_PER_ADDRESS = 2
  TRIED_ENTRIES_INSPECT_ON_EVICT = 2
  GETADDR_MAX_PCT = 50
  MaxId = 3
  MaxTime = 1
INVARIANTS
  ReferencesExact
  Consistent
  AddressesKept
PROPERTIES
  DeletedEventually
  TriedKept
