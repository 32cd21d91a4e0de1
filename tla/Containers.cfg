SPECIFICATION MCSpec
CONSTANTS
  Node = {n1, n2, n3, n4}
  Queue = {q1, q2, q3}
  NoNode = NoNode
  Buffer = {b1, b2}
  Block = {k1, k2, k3}
  NoBlock = NoBlock
  Byte = {x, y}
  Garbage = Garbage
  Table = {2}
  MaxSize = 3
SYMMETRY Symmetry
INVARIANTS
  LinksAreSequences
  BlocksCounted
PROPERTY
  BytesKept
