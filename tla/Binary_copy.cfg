SPECIFICATION Spec
CONSTANTS
  o1 = o1
  o2 = o2
  o3 = o3
  o4 = o4
  v1 = v1
  b1 = b1
  b2 = b2
  b3 = b3
  b4 = b4
  b5 = b5
  m1 = m1
  Radix = 4
  Width = 2
  Binaries = {o1, o2}
  BinaryConsts = {o3, o4}
  Copied = {o1, o2, o3, o4}
  View = {v1}
  Block = {b1, b2, b3, b4, b5, m1}
  Memory = {m1}
  Data <- MCData
  Free = Free
  NoObject = NoObject
  Null = Null
  Released = Released
INVARIANTS
  OwnedOnce
CHECK_DEADLOCK FALSE
