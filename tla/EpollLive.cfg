SPECIFICATION FairSpec
CONSTANTS
  Threads = {t1}
  Loop = main
  Sock = {s1, s2}
  Desc = {d1, d2}
  Op = {o1, o2}
  Kinds = {"task", "connect", "accept", "read", "write", "recv", "send"}
  Null = Null
  PipeCap = 4
  ReadMax = 2
  BufLen = 2
  RxMax = 1
  TxMax = 1
CONSTRAINT Application
INVARIANTS
  CompletedOnce
  DescriptorRefcount
PROPERTIES
  CloseCompletes
  
