\* p_reset while RSTICKS restarts the timer.
SPECIFICATION FairSpec
CONSTANTS
  a = a
  b = b
  MaxThreads = 2
  Objects = {a}
  Priorities = {0, 1}
  OrderModulus = 2
  MaxTicks = 1
  Quanta = {}
  Lookups = {}
  Commands <- PinCommands
  InsertUncreated = FALSE
PROPERTY InterruptArrives
