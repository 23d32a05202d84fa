\* RESET in the middle of a run, then interrupts enabled again.
SPECIFICATION Spec
CONSTANTS
  a = a
  b = b
  MaxThreads = 2
  Objects = {a}
  Priorities = {0}
  OrderModulus = 1
  MaxTicks = 1
  Quanta = {}
  Lookups = {}
  Commands <- RestartCommands
  InsertUncreated = FALSE
INVARIANT ResetLikeStart
