------------------------------- MODULE Quality -------------------------------
(***************************************************************************)
(* What a pipeline is built from: the settings of the user (pipeline.rs),  *)
(* the constraints of the ANSWER and our own limits (quality.rs), and the  *)
(* sizes the resolution ladder is cut into (ladder.rs).  A cast is asked   *)
(* for, the ANSWER comes or the negotiation fails, and the values are      *)
(* resolved once, for the mirroring pipeline or for that of a video cast   *)
(* over HTTP.                                                              *)
(*                                                                         *)
(* A JSON block is a function whose domain is the fields it has.  Values   *)
(* are the integers as_i32 reads: a fraction is its numerator, and what    *)
(* cannot be read is left out.                                             *)
(***************************************************************************)
EXTENDS Integers, Sequences

CONSTANTS
    VideoBlocks,  \* constraints.video of an ANSWER
    AudioBlocks,  \* constraints.audio of an ANSWER
    Options,      \* the options of StartCast
    Captures      \* the sizes a portal captures, which the daemon is not told

VideoFields == {"minBitRate", "maxBitRate", "minWidth", "minHeight", "maxWidth",
                "maxHeight", "frameRate", "maxPixelsPerSecond", "maxDelay"}
AudioFields == {"minBitRate", "maxBitRate", "maxSampleRate", "maxChannels", "maxDelay"}
OptionFields == {"width", "height", "fps", "bitrate", "audioBitrate"}
Blocks(fields) == UNION {[D -> Int] : D \in SUBSET fields}

ASSUME BlockAssumption ==
    /\ \A b \in VideoBlocks : DOMAIN b \subseteq VideoFields /\ \A f \in DOMAIN b : b[f] \in Int
    /\ \A b \in AudioBlocks : DOMAIN b \subseteq AudioFields /\ \A f \in DOMAIN b : b[f] \in Int
    /\ \A b \in Options : DOMAIN b \subseteq OptionFields /\ \A f \in DOMAIN b : b[f] \in Int
ASSUME CaptureAssumption == Captures \subseteq (Nat \ {0}) \X (Nat \ {0})

VARIABLES
    settings,     \* StreamSettings
    answer,       \* the constraints of the ANSWER as sent, NotYet before
    built,        \* what the pipeline is built for: nothing, mirroring or HLS
    resolved,     \* Resolved, NotYet until then
    sizes,        \* RateControl.sizes, smallest first
    start,        \* the index of start_size in it
    panicked      \* the daemon has aborted

qualityVars == <<settings, answer, built, resolved, sizes, start, panicked>>

NotYet == <<>>

Least(a, b) == IF a <= b THEN a ELSE b
Most(a, b) == IF a >= b THEN a ELSE b
(* i32::clamp, which wants low <= high. *)
Within(x, low, high) == IF x < low THEN low ELSE IF x > high THEN high ELSE x
Even(x) == x - (x % 2)

(* Our own limits. *)
MinSide == 180
MaxWidth == 1920
MaxHeight == 1080
MinFps == 5
MaxFps == 30
VideoBitrate == 5000000
MaxAudioBitrate == 256000
SampleRate == 48000

-----------------------------------------------------------------------------
(* parse: what the block leaves out keeps its default.                     *)

Has(block, fields) == fields \subseteq DOMAIN block
Field(block, f, default) == IF f \in DOMAIN block THEN block[f] ELSE default
Positive(block, f, default) ==
    IF f \in DOMAIN block /\ block[f] > 0 THEN block[f] ELSE default

MinBitrate(block, default) ==
    IF "minBitRate" \in DOMAIN block THEN Most(block["minBitRate"], 1) ELSE default
MaxBitrate(block, default, min) ==
    IF "maxBitRate" \in DOMAIN block THEN Most(block["maxBitRate"], min) ELSE default

VideoConstraints(block) ==
    LET min == MinBitrate(block, 300000)
        minDimensions == Has(block, {"minWidth", "minHeight"})
        maxDimensions == Has(block, {"maxWidth", "maxHeight"})
    IN  [minBps    |-> min,
         maxBps    |-> MaxBitrate(block, 62500000, min),
         minWidth  |-> IF minDimensions THEN block["minWidth"] ELSE 320,
         minHeight |-> IF minDimensions THEN block["minHeight"] ELSE 180,
         maxWidth  |-> IF maxDimensions THEN block["maxWidth"] ELSE MaxWidth,
         maxHeight |-> IF maxDimensions THEN block["maxHeight"] ELSE MaxHeight,
         maxFps    |-> Positive(block, "frameRate", MaxFps),
         maxPixels |-> Positive(block, "maxPixelsPerSecond", MaxWidth * MaxHeight * MaxFps),
         maxDelay  |-> Field(block, "maxDelay", 400)]

AudioConstraints(block) ==
    LET min == MinBitrate(block, 32000)
    IN  [minBps        |-> min,
         maxBps        |-> MaxBitrate(block, 256000, min),
         minSampleRate |-> 16000,
         maxSampleRate |-> Positive(block, "maxSampleRate", SampleRate),
         maxChannels   |-> Positive(block, "maxChannels", 2),
         maxDelay      |-> Field(block, "maxDelay", 400)]

-----------------------------------------------------------------------------
(* StreamSettings::from_options: 0 spells automatic, which is a field left out. *)

Wanted(options) ==
    {f \in DOMAIN options : options[f] > 0}
      \ IF \A side \in {"width", "height"} : side \in DOMAIN options /\ options[side] > 0
        THEN {} ELSE {"width", "height"}

Settings(options) ==
    [f \in Wanted(options) |->
        CASE f = "width"        -> Least(options[f], 7680)
          [] f = "height"       -> Least(options[f], 4320)
          [] f = "fps"          -> Within(options[f], 1, 60)
          [] f = "bitrate"      -> Within(options[f], 100, 60000)
          [] f = "audioBitrate" -> Within(options[f], 16, 512)]

-----------------------------------------------------------------------------
(* resolve.                                                                *)

(* Mutant: each side is shrunk alone. *)
FitInsideCut(w, h, maxW, maxH) == <<Even(Least(w, maxW)), Even(Least(h, maxH))>>

(* fit_inside: the side that binds decides, the other follows. *)
FitInside(w, h, maxW, maxH) ==
    LET byWidth  == <<maxW, (h * maxW) \div w>>
        byHeight == <<(w * maxH) \div h, maxH>>
        fitted   == IF byWidth[2] <= maxH THEN byWidth ELSE byHeight
    IN  IF w <= maxW /\ h <= maxH THEN <<w, h>>
        ELSE <<Even(Most(fitted[1], 2)), Even(Most(fitted[2], 2))>>

MaxSize(v) == <<Within(v.maxWidth, MinSide, MaxWidth), Within(v.maxHeight, MinSide, MaxHeight)>>

(* Automatic is Full HD: StreamSettings::resolve passes that for the captured *)
(* size, whatever is captured.  Nothing is smaller than the receiver's least. *)
Size(v, s) ==
    LET max    == MaxSize(v)
        fitted == FitInside(Most(Field(s, "width", 1920), 2), Most(Field(s, "height", 1080), 2),
                            max[1], max[2])
    IN  <<Even(Most(fitted[1], Least(v.minWidth, max[1]))),
          Even(Most(fitted[2], Least(v.minHeight, max[2])))>>

(* Mutant: the pixel rate is not looked at. *)
FrameRateUncapped(v, s, size) ==
    Within(Field(s, "fps", Within(v.maxFps, MinFps, MaxFps)),
           MinFps, Within(v.maxFps, MinFps, MaxFps))

(* The pixel rate is a limit of its own, kept by the frame rate. *)
FrameRate(v, s, size) ==
    LET max    == Within(v.maxFps, MinFps, MaxFps)
        fps    == Within(Field(s, "fps", max), MinFps, max)
        pixels == size[1] * size[2]
    IN  IF pixels * fps > v.maxPixels
        THEN Within(v.maxPixels \div pixels, MinFps, fps) ELSE fps

MaxVideo(v) == Least(v.maxBps, VideoBitrate)
MinVideo(v) == Least(v.minBps, MaxVideo(v))
(* Mutant: a bitrate that was asked for is taken as it is. *)
VideoKbpsAsked(v, s) ==
    IF "bitrate" \in DOMAIN s THEN s["bitrate"]
    ELSE Within(VideoBitrate, MinVideo(v), MaxVideo(v)) \div 1000

VideoKbps(v, s) ==
    LET asked == IF "bitrate" \in DOMAIN s THEN s["bitrate"] * 1000 ELSE VideoBitrate
    IN  Most(Within(asked, MinVideo(v), MaxVideo(v)) \div 1000, 1)

AudioBitrate(a, s) ==
    LET max   == Least(a.maxBps, MaxAudioBitrate)
        asked == IF "audioBitrate" \in DOMAIN s THEN s["audioBitrate"] * 1000 ELSE 128000
    IN  Within(asked, Least(a.minBps, max), max)

PlayoutDelay(v, a) == Most(Least(v.maxDelay, a.maxDelay), 1)

(* The sample rate is clamped between 16 kHz and the receiver's highest,     *)
(* which panics when the latter is lower.                                    *)
Panics(a) == a.maxSampleRate < a.minSampleRate

Resolve(v, a, s) ==
    LET size == Size(v, s)
    IN  [size       |-> size,
         fps        |-> FrameRate(v, s, size),
         videoKbps  |-> VideoKbps(v, s),
         minVideo   |-> MinVideo(v),
         maxVideo   |-> MaxVideo(v),
         audioBps   |-> AudioBitrate(a, s),
         sampleRate |-> Within(SampleRate, a.minSampleRate, a.maxSampleRate),
         channels   |-> Within(2, 1, Most(a.maxChannels, 1)),
         delay      |-> PlayoutDelay(v, a)]

-----------------------------------------------------------------------------
(* The resolution ladder (snapped_sizes).                                  *)

HeightStep == 90
Area(size) == size[1] * size[2]

IsMeaningfullySmaller(candidate, current) ==
    Area(candidate) <= (Area(current) * 85) \div 100

(* Mutant: the height of a rung is what is left of the step. *)
RungAtUneven(source, height) ==
    <<source[1] - (source[2] - height), height>>

RungAt(source, height) ==
    <<Most(Even((height * source[1]) \div source[2]), 2), Most(Even(height), 2)>>

(* Down by steps from the rung below source[2] - HeightStep * taken, with     *)
(* smallest the last rung pushed: the rungs found on the way, smallest first. *)
Steps(source) == (source[2] - Least(180, source[2])) \div HeightStep
SnappedSizes(source) ==
    LET found[taken \in 0 .. Steps(source)] ==
            IF taken = 0 THEN <<source>>
            ELSE LET above     == found[taken - 1]
                     candidate == RungAt(source, source[2] - HeightStep * taken)
                 IN  IF IsMeaningfullySmaller(candidate, Head(above))
                     THEN <<candidate>> \o above ELSE above
    IN  found[Steps(source)]

(* nearest_index *)
Gap(size, target) == IF Area(size) >= target THEN Area(size) - target ELSE target - Area(size)
NearestIndex(rungs, target) ==
    CHOOSE i \in DOMAIN rungs :
        /\ \A j \in DOMAIN rungs : Gap(rungs[i], target) <= Gap(rungs[j], target)
        /\ \A j \in 1 .. i - 1 : Gap(rungs[i], target) < Gap(rungs[j], target)

-----------------------------------------------------------------------------
(* A cast.                                                                 *)

QualityInit ==
    /\ settings \in {Settings(o) : o \in Options}
    /\ answer = NotYet
    /\ built = "nothing"
    /\ resolved = NotYet
    /\ sizes = <<>>
    /\ start = 0
    /\ panicked = FALSE

ReceiveAnswer ==
    /\ answer = NotYet /\ built = "nothing"
    /\ answer' \in [video : VideoBlocks, audio : AudioBlocks]
    /\ UNCHANGED <<settings, built, resolved, sizes, start, panicked>>

Video == VideoConstraints(answer.video)
Audio == AudioConstraints(answer.audio)

StartMedia ==
    /\ answer # NotYet /\ built = "nothing"
    /\ ~Panics(Audio)
    /\ built' = "mirror"
    /\ resolved' = Resolve(Video, Audio, settings)
    /\ sizes' = SnappedSizes(resolved'.size)
    /\ start' = NearestIndex(sizes', Area(resolved'.size))
    /\ UNCHANGED <<settings, answer, panicked>>

Panic ==
    /\ answer # NotYet /\ built = "nothing"
    /\ ~panicked
    /\ Panics(Audio)
    /\ panicked' = TRUE
    /\ UNCHANGED <<settings, answer, built, resolved, sizes, start>>

(* The HLS pipeline: the frame rate and the video bitrate are those of        *)
(* resolve_local, the defaults for constraints; the size is what was asked    *)
(* for or what is captured, the audio bitrate a constant.                     *)
Local(captured) ==
    [Resolve(VideoConstraints(<<>>), AudioConstraints(<<>>), settings) EXCEPT
        !.size = IF Has(settings, {"width", "height"})
                 THEN <<settings["width"], settings["height"]>> ELSE captured,
        !.audioBps = 128000]

(* Without a receiver to negotiate with, or when mirroring fails after all.   *)
(* An ANSWER is resolved before anything else is done with it.                *)
FallBack ==
    /\ ~panicked /\ built # "hls"
    /\ answer = NotYet \/ built = "mirror"
    /\ built' = "hls"
    /\ \E captured \in Captures : resolved' = Local(captured)
    /\ sizes' = <<>>
    /\ start' = 0
    /\ UNCHANGED <<settings, answer, panicked>>

QualityNext == ReceiveAnswer \/ StartMedia \/ Panic \/ FallBack

QualitySpec == QualityInit /\ [][QualityNext]_qualityVars

-----------------------------------------------------------------------------
(* Properties.                                                             *)

Mirrored == built = "mirror"

Distance(a, b) == IF a >= b THEN a - b ELSE b - a
(* Two sizes have one shape but for even sides. *)
SameShape(p, q) == Distance(p[1] * q[2], p[2] * q[1]) <= 2 * Most(q[1], q[2])

WantedSize ==
    <<Most(Field(settings, "width", MaxWidth), 2),
      Most(Field(settings, "height", MaxHeight), 2)>>

(* "The receiver always wins" over what is asked for, but it does not over    *)
(* our own least values.  What is built goes beyond a limit the ANSWER sets   *)
(* by those alone: sides of 180, 5 frames per second (which the pixel rate    *)
(* gives way to as well), and, where no least bitrate is sent, 300 kbit/s of  *)
(* video and 32 of audio; a delay is at least 1 ms.  The ANSWER's highest     *)
(* sample rate and channel count are kept whatever they are, because the      *)
(* daemon does not get as far as building otherwise (Panic).                  *)
OnlyOurLeastExceeds == Mirrored =>
    LET v == answer.video
        a == answer.audio
        r == resolved
    IN  /\ Has(v, {"maxWidth", "maxHeight"}) =>
             /\ r.size[1] <= Most(v["maxWidth"], MinSide)
             /\ r.size[2] <= Most(v["maxHeight"], MinSide)
        /\ Has(v, {"frameRate"}) /\ v["frameRate"] > 0 =>
             r.fps <= Most(v["frameRate"], MinFps)
        /\ Has(v, {"maxPixelsPerSecond"}) /\ v["maxPixelsPerSecond"] > 0 =>
             Area(r.size) * r.fps <= v["maxPixelsPerSecond"] \/ r.fps = MinFps
        /\ Has(v, {"maxBitRate"}) =>
             r.maxVideo <= Most(v["maxBitRate"], MinBitrate(v, 300000))
        /\ Has(a, {"maxBitRate"}) =>
             r.audioBps <= Most(a["maxBitRate"], MinBitrate(a, 32000))
        /\ Has(a, {"maxSampleRate"}) /\ a["maxSampleRate"] > 0 =>
             r.sampleRate <= a["maxSampleRate"]
        /\ Has(a, {"maxChannels"}) /\ a["maxChannels"] > 0 =>
             r.channels <= a["maxChannels"]
        /\ Has(v, {"maxDelay"}) => r.delay <= Most(v["maxDelay"], 1)
        /\ Has(a, {"maxDelay"}) => r.delay <= Most(a["maxDelay"], 1)

(* A size the user asks for is shrunk for mirroring without changing its      *)
(* shape, only when it does not fit, and no further than it takes, unless     *)
(* the receiver's least size forces a side up.  (An automatic one has the     *)
(* shape of Full HD, not the captured one quality.rs speaks of; HLS takes     *)
(* the size as it is asked for.)                                              *)
RequestKeepsShape == Mirrored /\ Has(settings, {"width", "height"}) =>
    LET size == resolved.size
        max  == MaxSize(Video)
    IN  size[1] > Video.minWidth /\ size[2] > Video.minHeight =>
          /\ SameShape(size, WantedSize)
          /\ \/ size = <<Even(WantedSize[1]), Even(WantedSize[2])>>
             \/ size[1] >= max[1] - 1 \/ size[2] >= max[2] - 1

(* The bitrate loop is given a range, whatever limits were combined, and the  *)
(* encoder starts in it, but for what whole kbit/s round off: what            *)
(* RateControl assumes of its constants.                                      *)
BitratesInRange == Mirrored =>
    LET r == resolved
    IN  /\ 1 <= r.minVideo /\ r.minVideo <= r.maxVideo /\ r.maxVideo <= VideoBitrate
        /\ r.minVideo - 1000 < r.videoKbps * 1000
        /\ r.videoKbps * 1000 <= Most(r.maxVideo, 1000)

(* ladder.rs, "the end-to-end system cannot stabilize" when steps are too     *)
(* close: neighbouring sizes differ by 15 % in area and have one shape, every *)
(* step that is left out is that close to one that is taken, and the cast     *)
(* starts on the largest, where RateControl puts it.                          *)
LadderSound == Mirrored =>
    LET source == resolved.size
    IN  /\ sizes[Len(sizes)] = source
        /\ start = Len(sizes)
        /\ \A i \in 1 .. Len(sizes) - 1 : 100 * Area(sizes[i]) <= 85 * Area(sizes[i + 1])
        /\ \A i \in DOMAIN sizes : SameShape(sizes[i], source)
        /\ \A k \in 1 .. Steps(source) :
             LET step == Area(RungAt(source, source[2] - HeightStep * k))
             IN  \E i \in DOMAIN sizes :
                   Area(sizes[i]) >= step /\ 100 * step > 85 * Area(sizes[i]) - 100
=============================================================================
