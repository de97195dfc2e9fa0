SPECIFICATION Spec
CONSTANTS
  MaxCommands = 3
  MaxSize = 1
  Priorities = {0, 5}
  TtlUrgent = 6
  TtlUpdate = 5
  TtlLow = 4
  BackoffBase = 1
  BackoffMax = 3
  Threshold = 2
  Reset = 3
INVARIANTS LiveNeverEvicted
