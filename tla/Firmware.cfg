SPECIFICATION Spec
CONSTANTS
  l1 = l1
  l2 = l2
  Lists = {l1, l2}
  Size <- MCSize
  Room = 2
  Timeouts = {0, 2}
  LastTimeout = 2
  None = None
  Retry = 2
  Stale = 2
  Period = 2
  Rate = 2
  Watchdog = 4
  BeginMax = 2
  ServiceMax = 1
  WaitMax = 1
  ConnectMax = 1
  ReadMax = 1
  ActMax = 1
INVARIANTS TypeOK CalendarWhole SamplesAccepted WatchdogFed
PROPERTIES DoorbellEnds CutOffRetries
