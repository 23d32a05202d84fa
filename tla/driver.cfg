\* The methods in any order, then the timer: the program of main.cpp with other calls.
SPECIFICATION FairDriverSpec
CONSTANTS
  a = a
  b = b
  c = c
  Threads = {1, 2, 3, 4}
  Objects = {a, b, c}
  Keys = {0, 1, 2}
  Prio <- Priorities
  Methods <- ThreadMethods
  Careful = TRUE
  Resting = TRUE
  LongQuantum = TRUE
INVARIANTS LegalRequests ObjectsExist NoSpuriousException
PROPERTIES ImplementsThreads BestRuns RoundRobin AsRequested
