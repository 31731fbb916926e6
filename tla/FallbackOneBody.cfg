CONSTANTS
  r1 = r1
  r2 = r2
  r3 = r3
  Request <- TwoRequests
  Nobody = Nobody
  QueueCap = 1
  MayVanish = FALSE
SPECIFICATION FairSpec
PROPERTIES
  EveryRequestTaken
CHECK_DEADLOCK FALSE
