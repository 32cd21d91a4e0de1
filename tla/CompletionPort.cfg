SPECIFICATION Spec
CONSTANTS
  Sock = {s1, s2}
  Desc = {d1, d2}
  Op = {o1, o2, o3}
  Kinds = {"task", "connect", "accept", "read", "readn", "write", "recv", "send"}
  Null = Null
  BufLen = 2
SYMMETRY Symmetry
CHECK_DEADLOCK FALSE
CONSTRAINT Application
INVARIANTS
  DescriptorCounted
  AnsweredOnce
