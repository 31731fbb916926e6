CONSTANTS
  Level <- Levels
  MaxRequests = 2
SPECIFICATION FairSpec
PROPERTY RequestApplied
CHECK_DEADLOCK FALSE
