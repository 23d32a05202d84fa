\* The block against its abstract specification: two objects and every command.
SPECIFICATION AskedSpec
CONSTANTS
  a = a
  b = b
  MaxThreads = 2
  Objects = {a, b}
  Priorities = {0}
  OrderModulus = 1
  MaxTicks = 0
  Quanta = {0}
  Lookups = {0, a, b}
  Commands <- ThreadCommands
  InsertUncreated = FALSE
PROPERTY ImplementsReadyQueue
SYMMETRY Symmetry
