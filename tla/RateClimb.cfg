CONSTANTS
  MinBps = 300
  MaxBps = 5000
  StartBps = 5000
  Rungs = 3
  MinHold = 2
  Proving = 3
  Link <- Throughputs
SPECIFICATION RateSpec
PROPERTIES
  ClimbsEveryTime
CHECK_DEADLOCK FALSE
