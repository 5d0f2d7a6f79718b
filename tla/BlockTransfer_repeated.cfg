SPECIFICATION Spec
CONSTANTS
  c1 = c1
  c2 = c2
  empty = empty
  one = one
  two = two
  three = three
  u1 = u1
  u2 = u2
  Client = {c1, c2}
  Resource = {r1}
  Body = {two}
  Length <- MCLength
  Buffer = {u1, u2}
  Free = Free
  Unset = Unset
  NoEntry = NoEntry
  NoBuffer = NoBuffer
  Idle = Idle
  MaxLate = 0
SYMMETRY Symmetry
INVARIANTS
  EveryBodyIsWhole
CHECK_DEADLOCK FALSE
