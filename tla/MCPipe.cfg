SPECIFICATION Spec
CONSTANTS
  Proc = {p1, p2, p3}
  Killable = {p1}
  NoProc = NoProc
  Byte = {x, y}
  PipeSize = 2
  Wrap = 4
  Count = {1, 3}
SYMMETRY Sym
INVARIANTS EndOfFile FreedAtTheEnd SleepersWokenUp
PROPERTIES IsFifo
CHECK_DEADLOCK FALSE
