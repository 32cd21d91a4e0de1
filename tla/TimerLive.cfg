SPECIFICATION FairSpec
CONSTANTS
  Threads = {}
  Loop = main
  Id = {i1, i2}
  Null = Null
  Delays = {0, 2}
  Reps = {1, 2}
  Ms = 2
  Second = 3
  Rearm = FALSE
  MaxTime = 2
  MaxFires = 1
  QMax = 2
PROPERTIES
  CancelStops
  DueFires
