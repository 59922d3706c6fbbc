SPECIFICATION Spec
CONSTANTS
  Threads = {t1, t2}
  Messages = {m1, m2}
  MAX_HISTORY = 2
  MaxLogs = 2
CHECK_DEADLOCK FALSE
SYMMETRY LoggerSymmetry
INVARIANTS
  StopFlushes
