SPECIFICATION FairSpec
CONSTANTS
  Waiters = {w1, w2}
  Posters = {p1}
  Backends = {"sem", "notify"}
  Sem = Sem
  None = None
  MaxDone = 2
INVARIANTS TypeOK OneShot NoLostWake NoStaleSignal
PROPERTIES ImplementsEvent SleeperReturnsOK
CHECK_DEADLOCK FALSE
