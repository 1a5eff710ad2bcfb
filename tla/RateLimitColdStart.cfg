SPECIFICATION Spec
CONSTANTS
  Threads = {t1, t2, t3}
  t1 = t1
  t2 = t2
  t3 = t3
  Keys = {k1}
  k1 = k1
  None = None
  Window = 3
  MaxTries = 2
  MaxDelay = 1
  ColdStartRace = TRUE
  MaxTime = 5
  MaxAdmits = 4
INVARIANTS
  SlidingWindow
CHECK_DEADLOCK FALSE
SYMMETRY Symmetry
