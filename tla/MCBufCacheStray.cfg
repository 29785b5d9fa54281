SPECIFICATION Spec
CONSTANTS
  Proc = {p1, p2}
  Buf = {b1, b2}
  Sector = {home, slot}
  Value = {v1, v2}
  None = None
  MayHold = 2
  MaxDirty = 1
  Faulty = {}
  LogBlock = {slot}
  Stray = {p2}
INVARIANTS NoCircularWait
CHECK_DEADLOCK FALSE
