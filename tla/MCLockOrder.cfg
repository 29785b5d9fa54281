SPECIFICATION OrderSpec
CONSTANTS
  Cpus = {c1, c2, c3}
  BootCpu = c1
  NoHolder = NoHolder
  Exits = FALSE
INVARIANTS NoDeadlock
