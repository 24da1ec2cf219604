CONSTANTS
  p1 = p1
  p2 = p2
  p3 = p3
  c1 = c1
  c2 = c2
  c3 = c3
  k1 = k1
  k2 = k2
  k3 = k3
  k4 = k4
  v1 = v1
  v2 = v2
  Procs = {p1, p2, p3}
  Bufs = {c1, c2, c3}
  Blocks = {k1, k2, k3, k4}
  Vals = {v1, v2}
  NUM = 7
  IdxSize = 7
  MaxPins = 1
SYMMETRY Symmetry
SPECIFICATION MCSpec
INVARIANTS
  BufferOfItsBlock
  QueueConsistent
PROPERTIES
  OnlyModifyChanges
  TransferDone
