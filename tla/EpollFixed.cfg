SPECIFICATION Spec
CONSTANTS
  Threads = {t1}
  Loop = main
  Sock = {s1}
  Desc = {d1}
  Op = {o1, o2}
  Kinds = {"connect", "readn"}
  Null = Null
  PipeCap = 4
  ReadMax = 2
  BufLen = 2
  RxMax = 1
  TxMax = 1
INVARIANT
  FixedReadNoticed
