SPECIFICATION Spec
CONSTANTS
  c1 = c1
  c2 = c2
  CPU <- TwoCpus
  NPROC = 4
  None = None
  MaxPid = 4
  KillPids = {2, 4}
SYMMETRY Sym
INVARIANTS StacksAndCpus Families NoLostWakeup
