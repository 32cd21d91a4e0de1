SPECIFICATION FairSpec
CONSTANTS
  Threads = {t1, t2}
  Loop = main
  Openers = {main, t1, t2}
  Lens = {0, 1, 2}
  MaxWrites = 3
  MaxReads = 1
CHECK_DEADLOCK FALSE
INVARIANTS
  ChannelRefcount
  NothingAfterFree
  WritesInPlace
  BytesConserved
  ClosedOnce
PROPERTIES
  IoOnOpenSocket
  ClosedIsFreed
