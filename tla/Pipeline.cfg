SPECIFICATION Spec
CONSTANTS
  Filters = {f1, f2, f3, f4}
  Threads = {t1}
  Loop = loop
  NoFilter = NoFilter
  HeadEdits = FALSE
  MaxEvents = 1
  MaxEdits = 1
  MaxWrites = 2
SYMMETRY Symmetry
CHECK_DEADLOCK FALSE
INVARIANTS
  ListIsChain
  DeletedLast
  WritesOrdered
