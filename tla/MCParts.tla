------------------------------- MODULE MCParts -------------------------------
(* Four parts that share no state and are checked for safety only, explored   *)
(* side by side: a behaviour is one of a single part.  They are the service   *)
(* with its calls and signals (main.rs), the device list (discovery.rs), what *)
(* the options of a cast are resolved to (quality.rs), and the estimator of   *)
(* what a link confirms (bandwidth.rs).                                       *)
EXTENDS Service, Discovery, Quality, Bandwidth, TLC

VARIABLE part

(* An address of each family; two sets of details. *)
FamilyV4 == {"a4"}
FamilyV6 == {"a6"}
TwoDetails == {1, 2}

(* Round trips within a slice and longer than the window. *)
RoundTripTimes == {2, 7}

(* The resolved values: nothing set, the values of the tests in quality.rs,   *)
(* and what lies at the edges of our own limits.                              *)
Sized(w, h) == "width" :> w @@ "height" :> h
AllOptions ==
    {s @@ r : s \in {<<>>, Sized(1280, 720), Sized(3456, 2160), Sized(1079, 1920),
                     Sized(9000, 100), Sized(1, 1), "width" :> 640},
              r \in {<<>>, "fps" :> 0, "fps" :> 60 @@ "bitrate" :> 60000,
                     "fps" :> 1 @@ "bitrate" :> 1}}

Limits ==
    {<<>>, "maxWidth" :> 1280 @@ "maxHeight" :> 720, "maxWidth" :> 100 @@ "maxHeight" :> 3000,
     "minWidth" :> 640 @@ "minHeight" :> 721, "maxWidth" :> 1366 @@ "maxHeight" :> 767,
     "minWidth" :> 5000 @@ "minHeight" :> -1}
Rates ==
    {<<>>, "frameRate" :> 15, "frameRate" :> 30000 @@ "maxPixelsPerSecond" :> 27648000,
     "frameRate" :> 3, "maxPixelsPerSecond" :> 1}
Bitrates ==
    {<<>>, "maxBitRate" :> 2000000, "minBitRate" :> -7 @@ "maxBitRate" :> 500,
     "minBitRate" :> 9000000, "minBitRate" :> 1000999 @@ "maxBitRate" :> 1000999}
AllVideoBlocks == {l @@ r @@ b : l \in Limits, r \in Rates, b \in Bitrates}
AllAudioBlocks == {<<>>, "maxChannels" :> 1, "maxSampleRate" :> 24000, "maxSampleRate" :> 8000,
     "maxBitRate" :> 20000 @@ "maxDelay" :> 100}
Screens == {<<2560, 1600>>, <<1366, 768>>}

-----------------------------------------------------------------------------
Parts == {"service", "list", "quality", "estimator"}

all == <<vars, deviceVars, qualityVars, estimatorVars, part>>
OnBus(A) ==
    part = "service" /\ A /\ UNCHANGED <<deviceVars, qualityVars, estimatorVars, part>>
OfList(A) ==
    part = "list" /\ A /\ UNCHANGED <<vars, qualityVars, estimatorVars, part>>
OfQuality(A) ==
    part = "quality" /\ A /\ UNCHANGED <<vars, deviceVars, estimatorVars, part>>
OfEstimator(A) ==
    part = "estimator" /\ A /\ UNCHANGED <<vars, deviceVars, qualityVars, part>>

(* A part that is not explored rests in one of its initial states. *)
EitherInit ==
    /\ part \in Parts
    /\ Init /\ (part = "service" \/ ~up)
    /\ DeviceInit /\ (part = "list" \/ (announced = <<>> /\ routes = {}))
    /\ QualityInit /\ (part = "quality" \/ settings = <<>>)
    /\ EstimatorInit

EitherNext ==
    \/ OnBus(Next) \/ OfList(DeviceNext) \/ OfQuality(QualityNext)
    \/ OfEstimator(EstimatorNext)

EitherSpec == EitherInit /\ [][EitherNext]_all
=============================================================================
