\* Two threads and quanta of one to three edges; the client inserts identifiers that nobody
\* created, and one of its priorities does not fit.
SPECIFICATION FairTimerSpec
CONSTANTS
  a = a
  MaxThreads = 2
  Objects = {a}
  Priorities = {0, 1, 2}
  OrderModulus = 2
  MaxTicks = 2
  Quanta = {0, 1}
  Lookups = {}
  Commands <- TimerCommands
  InsertUncreated = TRUE
INVARIANT QueueWellFormed
PROPERTIES FullQuantum InterruptArrives
