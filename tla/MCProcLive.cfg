SPECIFICATION FairSpec
CONSTANTS
  c1 = c1
  c2 = c2
  CPU <- OneCpu
  NPROC = 3
  None = None
  MaxPid = 3
  KillPids = {2, 3}
PROPERTIES RunnableRuns KilledDies
