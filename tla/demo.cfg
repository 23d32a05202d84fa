\* The demonstration program with the table and the objects it has.
SPECIFICATION DemoSpec
CONSTANTS
  t1 = t1
  t2 = t2
  t3 = t3
  t4 = t4
  t5 = t5
  t6 = t6
  t7 = t7
  t8 = t8
  t9 = t9
  Threads = {1, 2, 3, 4, 5, 6, 7, 8}
  Objects = {t1, t2, t3, t4, t5, t6, t7, t8, t9}
  Keys = {0, 1, 2, 3, 4, 5, 6, 7}
  Prio <- Priority
  Methods = {}
  Careful = FALSE
  Resting = TRUE
  LongQuantum = TRUE
INVARIANTS LegalRequests ReturnsObjects
PROPERTIES ImplementsThreads TakeTurns
