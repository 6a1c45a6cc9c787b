SPECIFICATION FairSpec
CONSTANTS
  Controllers = {c1}
  Clients = {e1}
  Flushers = {}
  Works = {w1}
  Workers = {k1, k2}
  Backends = {"notify"}
  Sem = Sem
  None = None
  MaxStarts = 2
PROPERTIES EveryWorkSettles StopReturns
CHECK_DEADLOCK FALSE
