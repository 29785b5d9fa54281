SPECIFICATION FifoSpec
CONSTANTS
  NPROC = 3
  QUANTA = 1
  Policies = {"RR", "FRR", "GRT", "3Q"}
  None = None
  MaxTicks = 2
INVARIANTS TimesOwned
PROPERTIES PolicyKept
CHECK_DEADLOCK FALSE
