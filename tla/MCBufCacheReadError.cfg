SPECIFICATION Spec
CONSTANTS
  Proc = {p1, p2}
  Buf = {b1, b2}
  Sector = {s1, s2, s3}
  Value = {v1, v2}
  None = None
  MayHold = 1
  MaxDirty = 0
  Faulty = {s1, s2, s3}
  LogBlock = {}
  Stray = {}
INVARIANTS ReadsTheSector
