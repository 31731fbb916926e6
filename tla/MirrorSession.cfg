CONSTANTS
  MaxCasts = 2
  MaxInbox = 1
  Codecs = 2
SPECIFICATION FairSpec
INVARIANTS
  FreshApp
  HonestReason
  LeavesNoApp
PROPERTIES
  StopEnds
  DeviceLossEnds
CHECK_DEADLOCK FALSE
