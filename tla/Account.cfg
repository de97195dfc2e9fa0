SPECIFICATION AccountSpec
CONSTANTS
  States = {s1, s2, s3}
  Callbacks = {c1, c2}
  MaxGrants = 3
  MaxRotations = 2
  MaxFaults = 2
INVARIANTS OneExchange StoredTokensWork
PROPERTIES NewerKept KeepsReading
CHECK_DEADLOCK FALSE
