SPECIFICATION Spec
CONSTANTS
  MaxSessions = 1
  Capacity = 2
  IntCapacity = 1
  MaxBatch = 1
  MaxReplay = 1
  MaxPosts = 1
  MaxInputs = 1
INVARIANTS
  NoFrameLost
CHECK_DEADLOCK FALSE
