SPECIFICATION Spec
CONSTANTS
  Threads = {t1}
  Loop = main
  Sock = {s1}
  Desc = {d1}
  Op = {o1, o2, o3}
  Kinds = {"connect", "read", "readn", "write", "recv", "send"}
  Null = Null
  PipeCap = 5
  ReadMax = 2
  BufLen = 2
  RxMax = 1
  TxMax = 1
SYMMETRY Symmetry
INVARIANTS
  TypeOK
  NoLostWakeup
  EngineRefcount
  DescriptorRefcount
  EdgeNoticed
PROPERTIES
  RunReturnsIdle
  KeepsPromise
