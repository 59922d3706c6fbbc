SPECIFICATION FairSpec
CONSTANTS
  Clients = {c1}
  NoClient = none
CHECK_DEADLOCK FALSE
PROPERTIES
  StopEndsServer
