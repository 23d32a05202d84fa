\* Calls of execute_cmd through the bus, with the fewest edges between accesses that work.
SPECIFICATION FairBusSpec
CONSTANTS
  a = a
  MaxThreads = 2
  Objects = {a}
  Priorities = {0}
  OrderModulus = 1
  MaxTicks = 0
  Quanta = {0}
  Lookups = {0, a}
  Commands <- CommandNames
  InsertUncreated = FALSE
  MinGap = 2
  Calls <- BusCalls
INVARIANT ExecutedAtMostOnce
PROPERTIES AnswersItsCall CallReturns
