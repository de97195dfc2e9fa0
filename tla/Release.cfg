SPECIFICATION FairSpec
CONSTANTS
  NumServices = 3
  MaxHead = 3
  MaxFaults = 3
INVARIANTS
  OneRelease
PROPERTIES
  Truthful Settled
CHECK_DEADLOCK FALSE
