SPECIFICATION FairSpec
CONSTANTS
  MaxSessions = 2
  Capacity = 1
  IntCapacity = 1
  MaxBatch = 2
  MaxReplay = 1
  MaxPosts = 1
  MaxInputs = 2
INVARIANTS
  TypeOK NoSilentDrop SoleConsumer NoOrphanOwner StateOfOwner
PROPERTIES
  LinkKept LatestOwner HandoverCompletes BackpressureEnds RefreshEnds
CHECK_DEADLOCK FALSE
