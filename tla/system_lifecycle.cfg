SPECIFICATION FairSpec
CONSTANTS
  Clients = {c1, c2}
  NoClient = none
CHECK_DEADLOCK FALSE
INVARIANTS
  TypeOK
  LoggerStoppedLast
  AtMostOneLateSession
PROPERTIES
  ShutdownReachesLogger
  ClientsServed
