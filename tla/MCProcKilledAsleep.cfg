SPECIFICATION Spec
CONSTANTS
  c1 = c1
  c2 = c2
  CPU <- TwoCpus
  NPROC = 3
  None = None
  MaxPid = 3
  KillPids = {2, 3}
INVARIANT KilledAwake
