SPECIFICATION Spec
CONSTANTS
  Proc = {p1, p2}
  Buf = {b1, b2}
  Sector = {home, slot, bad}
  Value = {v1, v2}
  None = None
  MayHold = 2
  MaxDirty = 1
  Faulty = {bad}
  LogBlock = {slot}
  Stray = {}
INVARIANTS NoBufferAstray NoCircularWait
PROPERTIES SharesBlocks
SYMMETRY Sym
CHECK_DEADLOCK FALSE
