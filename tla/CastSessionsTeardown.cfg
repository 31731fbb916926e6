CONSTANTS
  c1 = c1
  c2 = c2
  tv = tv
  speaker = speaker
  NoCall = NoCall
  NoDevice = NoDevice
  Call <- TwoCalls
  Device <- BothReceivers
  Speaker <- OnlySpeaker
SPECIFICATION Spec
PROPERTY KeepsSuccessor
CHECK_DEADLOCK FALSE
