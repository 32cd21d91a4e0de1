SPECIFICATION FairSpec
CONSTANTS
  N = 3
  Timeout = 2
  MaxNow = 12
  MaxCalls = 3
CHECK_DEADLOCK FALSE
INVARIANT
  ConnectBounded
PROPERTY
  TimerStops
