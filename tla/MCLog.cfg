SPECIFICATION FairSpec
CONSTANTS
  Block = {b1, b2}
  Value = {v1, v2}
  Proc = {p1, p2}
  Boot = p1
  Stray = {}
  NoValue = NoValue
  None = None
  LogSize = 2
  MaxWrites = 2
INVARIANTS ReadsSeeTheLastWrite NoPanic
PROPERTIES Atomic TransactionsEnd
