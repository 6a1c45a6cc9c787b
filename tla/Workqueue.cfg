SPECIFICATION Spec
CONSTANTS
  Controllers = {c1}
  Clients = {e1, f1}
  Flushers = {f1}
  Works = {w1}
  Workers = {k1, k2}
  Backends = {"sem"}
  Sem = Sem
  None = None
  MaxStarts = 2
INVARIANTS TypeOK FlagsAgree NobodySleepsOnWork StopJoins LeftoversAreLate FlushBarrier
SYMMETRY Symmetry
CHECK_DEADLOCK FALSE
