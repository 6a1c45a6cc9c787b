SPECIFICATION Spec
CONSTANTS
  Waiters = {w1}
  Posters = {p1}
  Backends = {"sem", "notify"}
  Sem = Sem
  None = None
  MaxDone = 1
INVARIANT DoneWakesWaiter
CHECK_DEADLOCK FALSE
