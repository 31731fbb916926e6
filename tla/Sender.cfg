CONSTANTS
  first = first
  video = video
  audio = audio
  Stream <- OneStream
  PerFrame <- Sizes
  MostPackets = 2
  Cap = 1
  IdSpan = 6
  MaxFrames = 4
  MaxFeedback = 2
  Producer <- Handles
  First <- first
  MaxChunks = 2
  MaxQueue = 3
  MinBps = 300
  MaxBps = 5000
  StartBps = 5000
  Rungs = 3
  MinHold = 2
  Proving = 3
  Link <- Throughputs
SPECIFICATION EitherSpec
INVARIANTS
  ConfirmedArrived
  MissingIsKept
PROPERTIES
  AcksRead
  GapsFill
  IsMailbox
  EndsAfterLastDrop
  StopEnds
  WithinLink
  UpIsProven
  ClimbsBack
CHECK_DEADLOCK FALSE
