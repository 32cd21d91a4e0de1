SPECIFICATION Spec
CONSTANTS
  Threads = {t1}
  Loop = main
  Id = {i1, i2}
  Null = Null
  Delays = {0, 2}
  Reps = {1, 2}
  Ms = 2
  Second = 3
  Rearm = FALSE
  MaxTime = 2
  MaxFires = 2
  QMax = 2
SYMMETRY Symmetry
INVARIANTS
  TimersSorted
  NeverOversleeps
  IdRefcount
  FireEndsOnce
PROPERTIES
  RunReturnsIdle
