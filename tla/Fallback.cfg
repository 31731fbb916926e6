CONSTANTS
  r1 = r1
  r2 = r2
  r3 = r3
  Request <- ThreeRequests
  Nobody = Nobody
  QueueCap = 1
  MayVanish = TRUE
SPECIFICATION FairSpec
INVARIANTS
  NeverReportsOwnStop
  NothingRuns
  FewClients
PROPERTIES
  StopEnds
  DeviceLossEnds
CHECK_DEADLOCK FALSE
