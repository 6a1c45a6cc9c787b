SPECIFICATION Spec
CONSTANTS
  Controllers = {c1}
  Clients = {e1, f1}
  Flushers = {f1}
  Works = {w1}
  Workers = {k1}
  Backends = {"sem"}
  Sem = Sem
  None = None
  MaxStarts = 1
INVARIANT FlushedWorkIsDone
SYMMETRY Symmetry
CHECK_DEADLOCK FALSE
