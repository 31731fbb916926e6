CONSTANTS
  c1 = c1
  c2 = c2
  tv = tv
  speaker = speaker
  NoCall = NoCall
  NoDevice = NoDevice
  Call <- TwoCalls
  Device <- OnlySpeaker
  Speaker <- OnlySpeaker
SPECIFICATION FairSpec
PROPERTIES
  StopTakesEffect
  StartsEventually
CHECK_DEADLOCK FALSE
