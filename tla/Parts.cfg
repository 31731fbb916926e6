CONSTANTS
  IdleExit = 0
  MaxCasts = 2
  MaxOpens = 1
  MaxWay = 1
  V4 <- FamilyV4
  V6 <- FamilyV6
  Details <- TwoDetails
  Longest = 2
  MaxUnderWay = 2
  VideoBlocks <- AllVideoBlocks
  AudioBlocks <- AllAudioBlocks
  Options <- AllOptions
  Captures <- Screens
  Slices = 3
  SliceLen = 2
  PerTick = 1
  RoundTrips <- RoundTripTimes
  MaxTime = 8
  MaxFlight = 1
SPECIFICATION EitherSpec
INVARIANTS
  MirrorSettles
  NoOldReason
  ListedIsKnown
  MenuSettles
  OnlyOurLeastExceeds
  RequestKeepsShape
  BitratesInRange
  LadderSound
  EstimateIsFresh
PROPERTIES
  ExitSparesCasts
  ReachesIfAny
  NeverDowngrades
  ConfirmedIsWindow
  DatedInRoundTrip
CHECK_DEADLOCK FALSE
