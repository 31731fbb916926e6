CONSTANTS
  IdleExit = 0
  MaxCasts = 2
  MaxOpens = 1
  MaxWay = 1
SPECIFICATION Spec
INVARIANT EndReason
CHECK_DEADLOCK FALSE
