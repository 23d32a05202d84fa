\* A program that goes on calling methods after it has started the timer.
SPECIFICATION DriverSpec
CONSTANTS
  a = a
  b = b
  c = c
  Threads = {1, 2, 3, 4}
  Objects = {a, b, c}
  Keys = {0, 1, 2}
  Prio <- Priorities
  Methods <- RaceMethods
  Careful = TRUE
  Resting = FALSE
  LongQuantum = TRUE
PROPERTY AsRequested
CHECK_DEADLOCK FALSE
