\* Every command and p_reset at any edge, from a client that keeps no rule, and the clock runs.
SPECIFICATION FairSpec
CONSTANTS
  a = a
  b = b
  MaxThreads = 2
  Objects = {a}
  Priorities = {0}
  OrderModulus = 1
  MaxTicks = 0
  Quanta = {0}
  Lookups = {0, a}
  Commands <- AllCommands
  InsertUncreated = TRUE
PROPERTY CommandCompletes
