\* The unit tests, with the eight rows and the addresses they use, and one reset.
SPECIFICATION TestSpec
CONSTANTS
  MaxThreads = 8
  Objects = {1, 100, 200, 300, 400, 500, 600, 700, 800, 900}
  Priorities = {0, 1}
  OrderModulus = 2
  MaxTicks = 0
  Quanta = {}
  Lookups = {1, 100}
  Commands <- CommandNames
  InsertUncreated = FALSE
  MinGap = 2
  Calls = {}
  MaxResets = 1
INVARIANT EveryTestPasses
PROPERTY SuiteEnds
