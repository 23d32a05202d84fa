\* Three threads at two priorities, every queue command and p_reset at any edge.
SPECIFICATION AskedSpec
CONSTANTS
  a = a
  b = b
  MaxThreads = 3
  Objects = {a}
  Priorities = {0, 1}
  OrderModulus = 2
  MaxTicks = 0
  Quanta = {}
  Lookups = {a}
  Commands <- OrderCommands
  InsertUncreated = FALSE
INVARIANTS TypeOK AllocationFresh QueueSorted SearchOnQueue SearchFresh
PROPERTIES ResultStable ImplementsReadyQueue
