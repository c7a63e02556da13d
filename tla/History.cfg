CONSTANTS
  a = a
  b = b
  Node = {a, b}
  File = {1, 2}
  Dir = {3}
  Path = {p, q}
  NewPath = {p}
  Text = {x, y}
  Hash = {h}
  Label = {l}
  Skew <- MCSkew
  MaxEdit = 3
  MaxChange = 4
  None = None
SPECIFICATION Spec
INVARIANTS TypeOK IInv  ConcurrentTextKept AtTimeIsComplete
PROPERTY RestoreReturns
CHECK_DEADLOCK FALSE
