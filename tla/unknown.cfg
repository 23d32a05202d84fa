\* A program that resumes an object it has not inserted, or has removed.
SPECIFICATION DriverSpec
CONSTANTS
  a = a
  b = b
  c = c
  Threads = {1, 2, 3, 4}
  Objects = {a, b, c}
  Keys = {0, 1, 2}
  Prio <- Priorities
  Methods <- ResumeMethods
  Careful = FALSE
  Resting = TRUE
  LongQuantum = TRUE
INVARIANT InsertsExisting
