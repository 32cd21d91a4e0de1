SPECIFICATION FairSpec
CONSTANTS
  Sock = {s1, s2}
  Desc = {d1, d2}
  Op = {o1, o2}
  Apps <- MCApps
  Null = Null
  MaxReady = 1
  PipeCap = 8
CHECK_DEADLOCK FALSE
INVARIANTS
  
  RefsCounted
PROPERTIES
  KeepsPromise
  
