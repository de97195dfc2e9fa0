SPECIFICATION Spec
CONSTANTS
  States = {s1}
  Callbacks = {c1}
  MaxGrants = 1
  MaxRotations = 1
  MaxFaults = 0
  Limit = 3
  Silent = 1
  MaxLag = 1
  PollMax = 0
  QueueMax = 2
  MaxReports = 2
  MaxOutages = 1
INVARIANTS LiveOutdoorWasCurrent
PROPERTIES OutdoorForward EventuallyOutdoor
