SPECIFICATION Spec
CONSTANTS
  Pods = {d1, d2}
  Polls = {p1, p2}
  None = None
  Limit = 1
  MaxLag = 1
  PollMax = 0
  OutboxMax = 1
  QueueMax = 1
  MaxReports = 2
  MaxFaults = 1
INVARIANTS LiveWasCurrent
PROPERTIES AggregatorInOrder EventuallyLatest
