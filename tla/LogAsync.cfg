SPECIFICATION FairSpec
CONSTANTS
  t1 = t1
  t2 = t2
  Callers = {t1, t2}
  Programs <- MCPrograms
  Fds = {1, 2}
  k1 = k1
  k2 = k2
  Controls = {k1, k2}
INVARIANTS InOrder FlushWritten NothingDropped
PROPERTIES CallsReturn Delivered
CHECK_DEADLOCK FALSE
