SPECIFICATION FairSpec
CONSTANTS
  Threads = {t1, t2}
  Messages = {m1, m2}
  MAX_HISTORY = 2
  MaxLogs = 5
CHECK_DEADLOCK FALSE
INVARIANTS
  TypeOK
  HistoryIsTail
  NoLostWakeup
PROPERTIES
  MessagesConsumed
  StopReturnsOutsideWindow
