----------------------------- MODULE QualityProofs -----------------------------
(***************************************************************************)
(* What a mirrored cast is resolved to, for any options and any ANSWER:    *)
(* its limits, the shape of a requested picture, the range of the bitrate, *)
(* and the ladder of sizes cut from it, whatever its height.               *)
(***************************************************************************)
EXTENDS Quality, WellFoundedInduction, TLAPS

-----------------------------------------------------------------------------
(* Arithmetic.                                                             *)

LEMMA Quotient ==
  ASSUME NEW a \in Nat, NEW b \in Nat, b > 0
  PROVE  /\ a \div b \in Nat
         /\ (a \div b) * b <= a /\ a < (a \div b + 1) * b
  OBVIOUS

LEMMA Product ==
  ASSUME NEW a \in Nat, NEW b \in Nat
  PROVE  a * b = b * a /\ a * b \in Nat
  OBVIOUS

LEMMA Cancel ==
  ASSUME NEW a \in Nat, NEW b \in Nat, NEW c \in Nat, a * c < b * c
  PROVE  a < b
  OBVIOUS

LEMMA Grows ==
  ASSUME NEW a \in Nat, NEW b \in Nat, NEW c \in Nat, a <= b
  PROVE  a * c <= b * c
  OBVIOUS

LEMMA Evened ==
  ASSUME NEW x \in Int
  PROVE  /\ Even(x) \in Int /\ Even(x) \in {x, x - 1}
         /\ Even(Even(x)) = Even(x)
         /\ x >= 2 => Even(x) >= 2
  BY DEF Even

LEMMA Clamped ==
  ASSUME NEW x \in Int, NEW low \in Int, NEW high \in Int, low <= high
  PROVE  Within(x, low, high) \in Int /\ low <= Within(x, low, high)
         /\ Within(x, low, high) <= high
  BY DEF Within

LEMMA Chosen ==
  ASSUME NEW a \in Int, NEW b \in Int
  PROVE  /\ Least(a, b) \in {a, b} /\ Least(a, b) <= a /\ Least(a, b) <= b
         /\ Most(a, b) \in {a, b} /\ Most(a, b) >= a /\ Most(a, b) >= b
         /\ Least(a, b) \in Int /\ Most(a, b) \in Int
  BY DEF Least, Most

(* One side is a limit W or one less, the other what keeps the shape, at     *)
(* least 2, or one less: the shape is that of w and h.                       *)
LEMMA Shape ==
  ASSUME NEW w \in Nat, NEW h \in Nat, NEW W \in Nat, w >= 2, h >= 2, W >= 2,
         NEW x \in {W, W - 1}, NEW y \in Nat,
         y \in {(h * W) \div w, (h * W) \div w - 1} \/ (y = 2 /\ (h * W) \div w < 2)
  PROVE  Distance(x * h, y * w) <= 2 * Most(w, h)
  <1> DEFINE q == (h * W) \div w
  <1>1. h * W \in Nat /\ h * W = W * h
    BY Product
  <1>2. q \in Nat /\ q * w <= W * h /\ W * h < (q + 1) * w
    BY <1>1, Quotient
  <1>3. (q + 1) * w = q * w + w /\ q * w \in Nat
    BY <1>2
  <1> HIDE DEF q
  <1>4. x * h \in {W * h, W * h - h} /\ x * h \in Nat
    BY <1>1
  <1>5. y \in {q, q - 1} => y * w \in {q * w, q * w - w}
    BY <1>2
  <1>6. y = 2 /\ q < 2 => y * w = 2 * w /\ (q + 1) * w <= 2 * w
    BY <1>2
  <1>7. Most(w, h) >= w /\ Most(w, h) >= h /\ Most(w, h) \in Nat
    BY DEF Most
  <1>8. y \in {q, q - 1} \/ (y = 2 /\ q < 2)
    BY DEF q
  <1>9. x * h - y * w <= 2 * Most(w, h) /\ y * w - x * h <= 2 * Most(w, h)
    <2> DEFINE a == W * h
               b == q * w
               c == x * h
               d == y * w
    <2>1. /\ a \in Nat /\ b \in Nat /\ c \in {a, a - h} /\ c \in Nat
          /\ b <= a /\ a < b + w
      BY <1>1, <1>2, <1>3, <1>4
    <2>2. d \in {b, b - w} \/ (d = 2 * w /\ a <= 2 * w)
      BY <1>1, <1>2, <1>3, <1>5, <1>6, <1>8
    <2> HIDE DEF a, b, c, d
    <2>3. c - d <= 2 * Most(w, h) /\ d - c <= 2 * Most(w, h)
      BY <2>1, <2>2, <1>7
    <2> QED
      BY <2>3 DEF c, d
  <1> QED
    BY <1>9 DEF Distance

(* What fit_inside makes of a picture: it fits, keeps its shape, and touches *)
(* a limit unless it is left as it is.                                       *)
LEMMA Fits ==
  ASSUME NEW w \in Nat, NEW h \in Nat, NEW W \in Nat, NEW H \in Nat,
         w >= 2, h >= 2, W >= 2, H >= 2
  PROVE  LET f == FitInside(w, h, W, H)
         IN  /\ f[1] \in Nat /\ f[1] >= 2 /\ f[1] <= W
             /\ f[2] \in Nat /\ f[2] >= 2 /\ f[2] <= H
             /\ Distance(Even(f[1]) * h, Even(f[2]) * w) <= 2 * Most(w, h)
             /\ \/ f = <<w, h>>
                \/ Even(f[1]) >= W - 1 \/ Even(f[2]) >= H - 1
  <1> DEFINE f == FitInside(w, h, W, H)
             p == (h * W) \div w
             q == (w * H) \div h
  <1>0. /\ h * W \in Nat /\ w * H \in Nat /\ h * W = W * h /\ w * H = H * w
        /\ p \in Nat /\ p * w <= W * h /\ W * h < (p + 1) * w
        /\ q \in Nat /\ q * h <= H * w /\ H * w < (q + 1) * h
    <2>1. h * W \in Nat /\ w * H \in Nat /\ h * W = W * h /\ w * H = H * w
      BY Product
    <2> QED
      BY <2>1, Quotient
  <1>1. CASE w <= W /\ h <= H
    <2>1. f = <<w, h>>
      BY <1>1 DEF FitInside
    <2>2. Distance(Even(w) * h, Even(h) * w) <= 2 * Most(w, h)
      <3>1. w * h \in Nat /\ h * w = w * h
        BY Product
      <3>2. Even(w) * h \in {w * h, w * h - h}
        BY Evened
      <3>3. Even(h) * w \in {w * h, w * h - w}
        BY <3>1, Evened
      <3>4. Most(w, h) >= w /\ Most(w, h) >= h /\ Most(w, h) \in Nat
        BY DEF Most
      <3> DEFINE a == w * h
                 b == Even(w) * h
                 c == Even(h) * w
      <3>5. a \in Nat /\ b \in {a, a - h} /\ c \in {a, a - w}
        BY <3>1, <3>2, <3>3
      <3> HIDE DEF a, b, c
      <3>6. Distance(b, c) <= 2 * Most(w, h)
        BY <3>4, <3>5 DEF Distance
      <3> QED
        BY <3>6 DEF b, c
    <2> QED
      BY <1>1, <2>1, <2>2
  <1>2. CASE ~(w <= W /\ h <= H) /\ p <= H
    <2>1. f = <<Even(Most(W, 2)), Even(Most(p, 2))>>
      BY <1>2 DEF FitInside
    <2>2. Most(W, 2) = W /\ Most(p, 2) = (IF p >= 2 THEN p ELSE 2)
      BY <1>0 DEF Most
    <2>3. /\ f[1] = Even(W) /\ Even(f[1]) = f[1] /\ f[1] \in {W, W - 1} /\ f[1] >= 2
          /\ f[2] \in {p, p - 1} \/ (f[2] = 2 /\ p < 2)
          /\ Even(f[2]) = f[2] /\ f[2] >= 2 /\ f[2] \in Int
      <3>1. f[1] = Even(W) /\ f[2] = Even(IF p >= 2 THEN p ELSE 2)
        BY <2>1, <2>2
      <3>2. /\ Even(W) \in {W, W - 1} /\ Even(Even(W)) = Even(W) /\ Even(W) >= 2
            /\ Even(p) \in {p, p - 1} /\ Even(Even(p)) = Even(p) /\ (p >= 2 => Even(p) >= 2)
            /\ Even(2) = 2
        <4>1. Even(2) = 2
          BY DEF Even
        <4> QED
          BY <4>1, <1>0, Evened
      <3> HIDE DEF f, p
      <3> QED
        BY <1>0, <3>1, <3>2
    <2> HIDE DEF f
    <2>4. f[1] \in {W, W - 1} /\ f[2] \in Nat
      BY <2>3
    <2>5. Distance(f[1] * h, f[2] * w) <= 2 * Most(w, h)
      BY <2>3, <2>4, Shape
    <2>6. f[1] <= W /\ f[2] <= H /\ f[1] >= W - 1
      <3> HIDE DEF p
      <3> QED
        BY <1>0, <1>2, <2>3
    <2> QED
      BY <2>3, <2>4, <2>5, <2>6 DEF f
  <1>3. CASE ~(w <= W /\ h <= H) /\ ~(p <= H)
    <2>1. f = <<Even(Most(q, 2)), Even(Most(H, 2))>>
      BY <1>3 DEF FitInside
    <2>2. Most(H, 2) = H /\ Most(q, 2) = (IF q >= 2 THEN q ELSE 2)
      BY <1>0 DEF Most
    <2>3. /\ f[2] = Even(H) /\ Even(f[2]) = f[2] /\ f[2] \in {H, H - 1} /\ f[2] >= 2
          /\ f[1] \in {q, q - 1} \/ (f[1] = 2 /\ q < 2)
          /\ Even(f[1]) = f[1] /\ f[1] >= 2 /\ f[1] \in Int
      <3>1. f[2] = Even(H) /\ f[1] = Even(IF q >= 2 THEN q ELSE 2)
        BY <2>1, <2>2
      <3>2. /\ Even(H) \in {H, H - 1} /\ Even(Even(H)) = Even(H) /\ Even(H) >= 2
            /\ Even(q) \in {q, q - 1} /\ Even(Even(q)) = Even(q) /\ (q >= 2 => Even(q) >= 2)
            /\ Even(2) = 2
        <4>1. Even(2) = 2
          BY DEF Even
        <4> QED
          BY <4>1, <1>0, Evened
      <3> HIDE DEF f, q
      <3> QED
        BY <1>0, <3>1, <3>2
    <2> HIDE DEF f
    <2>4. f[2] \in {H, H - 1} /\ f[1] \in Nat
      BY <2>3
    <2>5. Distance(f[2] * w, f[1] * h) <= 2 * Most(h, w)
      BY <2>3, <2>4, Shape
    <2>6. Distance(f[1] * h, f[2] * w) <= 2 * Most(w, h)
      <3>1. f[1] * h \in Nat /\ f[2] * w \in Nat
        BY <2>3, <2>4, Product
      <3>2. Distance(f[1] * h, f[2] * w) = Distance(f[2] * w, f[1] * h)
        <4> DEFINE a == f[1] * h
                   b == f[2] * w
        <4>1. a \in Nat /\ b \in Nat
          BY <3>1
        <4> HIDE DEF a, b
        <4>2. Distance(a, b) = Distance(b, a)
          BY <4>1 DEF Distance
        <4> QED
          BY <4>2 DEF a, b
      <3>3. Most(w, h) = Most(h, w)
        BY DEF Most
      <3> QED
        BY <2>5, <3>2, <3>3
    <2>7. q <= W
      (* p > H, so H w < p w <= W h, and q h <= H w. *)
      <3>1. (H + 1) * w <= p * w
        <4>1. H + 1 <= p
          BY <1>0, <1>3
        <4> QED
          BY <4>1, <1>0, Grows
      <3>2. (H + 1) * w = H * w + w
        OBVIOUS
      <3>3. q * h \in Nat /\ W * h \in Nat /\ p * w \in Nat /\ H * w \in Nat
        BY <1>0, Product
      <3>4. q * h < W * h
        <4> DEFINE a == q * h
                   b == W * h
                   c == p * w
                   d == H * w
                   e == (H + 1) * w
        <4>1. a \in Nat /\ b \in Nat /\ c \in Nat /\ d \in Nat
                /\ e <= c /\ e = d + w /\ c <= b /\ a <= d
          BY <1>0, <3>1, <3>2, <3>3
        <4> HIDE DEF a, b, c, d, e
        <4>2. a < b
          BY <4>1
        <4> QED
          BY <4>2 DEF a, b
      <3> HIDE DEF q
      <3> QED
        BY <3>4, <1>0, Cancel
    <2>8. f[2] <= H /\ f[1] <= W /\ f[2] >= H - 1
      <3> HIDE DEF q
      <3> QED
        BY <1>0, <2>3, <2>7
    <2> QED
      BY <2>3, <2>4, <2>6, <2>8 DEF f
  <1> QED
    BY <1>1, <1>2, <1>3

-----------------------------------------------------------------------------
(* The invariant.                                                          *)

VideoFit(v) ==
    /\ v.minBps \in Nat /\ v.minBps >= 1 /\ v.maxBps \in Nat /\ v.maxBps >= 1
    /\ v.minWidth \in Int /\ v.minHeight \in Int
    /\ v.maxWidth \in Int /\ v.maxHeight \in Int
    /\ v.maxFps \in Nat /\ v.maxFps >= 1
    /\ v.maxPixels \in Nat /\ v.maxPixels >= 1
    /\ v.maxDelay \in Int

AudioFit(a) ==
    /\ a.minBps \in Nat /\ a.minBps >= 1 /\ a.maxBps \in Nat /\ a.maxBps >= 1
    /\ a.minSampleRate = 16000
    /\ a.maxSampleRate \in Nat
    /\ a.maxChannels \in Nat /\ a.maxChannels >= 1
    /\ a.maxDelay \in Int

(* What mirroring is resolved from, with a sample rate that can be clamped. *)
Inv ==
    /\ \A f \in DOMAIN settings : settings[f] \in Int
    /\ answer # NotYet => answer.video \in VideoBlocks /\ answer.audio \in AudioBlocks
    /\ Mirrored =>
         /\ answer # NotYet /\ ~Panics(Audio)
         /\ resolved = Resolve(Video, Audio, settings)

LEMMA SettingsRead ==
  ASSUME NEW o \in Options
  PROVE  \A f \in DOMAIN Settings(o) : Settings(o)[f] \in Int
  <1>1. DOMAIN Settings(o) = Wanted(o)
    BY DEF Settings
  <1> SUFFICES ASSUME NEW f \in Wanted(o) PROVE Settings(o)[f] \in Int
    BY <1>1
  <1>2. f \in OptionFields /\ o[f] \in Int
    BY BlockAssumption DEF Wanted
  <1>3. /\ Least(o[f], 7680) \in Int /\ Least(o[f], 4320) \in Int
        /\ Within(o[f], 1, 60) \in Int /\ Within(o[f], 100, 60000) \in Int
        /\ Within(o[f], 16, 512) \in Int
    BY <1>2 DEF Least, Within
  <1>4. /\ f = "width" => Settings(o)[f] = Least(o[f], 7680)
        /\ f = "height" => Settings(o)[f] = Least(o[f], 4320)
        /\ f = "fps" => Settings(o)[f] = Within(o[f], 1, 60)
        /\ f = "bitrate" => Settings(o)[f] = Within(o[f], 100, 60000)
        /\ f = "audioBitrate" => Settings(o)[f] = Within(o[f], 16, 512)
    BY DEF Settings
  <1> QED
    BY <1>2, <1>3, <1>4 DEF OptionFields

(* Whatever a block holds, the constraints read from it can be used. *)
LEMMA FieldsRead ==
  ASSUME NEW b, \A f \in DOMAIN b : b[f] \in Int, NEW f, NEW d \in Nat, d >= 1
  PROVE  /\ Positive(b, f, d) \in Nat /\ Positive(b, f, d) >= 1
         /\ Field(b, f, d) \in Int
  BY DEF Positive, Field

LEMMA VideoRead ==
  ASSUME NEW b, \A f \in DOMAIN b : b[f] \in Int
  PROVE  VideoFit(VideoConstraints(b))
  <1> DEFINE v == VideoConstraints(b)
  <1>1. v.minBps \in Nat /\ v.minBps >= 1 /\ v.maxBps \in Nat /\ v.maxBps >= 1
    <2>1. v.minBps = MinBitrate(b, 300000)
            /\ v.maxBps = MaxBitrate(b, 62500000, MinBitrate(b, 300000))
      BY DEF VideoConstraints
    <2>2. v.minBps \in Nat /\ v.minBps >= 1
      BY <2>1 DEF MinBitrate, Most
    <2>3. v.maxBps = (IF "maxBitRate" \in DOMAIN b THEN Most(b["maxBitRate"], v.minBps)
                     ELSE 62500000)
      BY <2>1 DEF MaxBitrate
    <2> HIDE DEF v
    <2>4. v.maxBps \in Nat /\ v.maxBps >= 1
      BY <2>2, <2>3 DEF Most
    <2> QED
      BY <2>2, <2>4
  <1>2. v.minWidth \in Int /\ v.minHeight \in Int /\ v.maxWidth \in Int /\ v.maxHeight \in Int
    <2>1. /\ v.minWidth = (IF Has(b, {"minWidth", "minHeight"}) THEN b["minWidth"] ELSE 320)
          /\ v.minHeight = (IF Has(b, {"minWidth", "minHeight"}) THEN b["minHeight"] ELSE 180)
          /\ v.maxWidth = (IF Has(b, {"maxWidth", "maxHeight"}) THEN b["maxWidth"] ELSE MaxWidth)
          /\ v.maxHeight = (IF Has(b, {"maxWidth", "maxHeight"}) THEN b["maxHeight"] ELSE MaxHeight)
      BY DEF VideoConstraints
    <2> QED
      BY <2>1 DEF Has, MaxWidth, MaxHeight
  <1>3. /\ v.maxFps \in Nat /\ v.maxFps >= 1 /\ v.maxPixels \in Nat /\ v.maxPixels >= 1
        /\ v.maxDelay \in Int
    <2>1. /\ v.maxFps = Positive(b, "frameRate", MaxFps)
          /\ v.maxPixels = Positive(b, "maxPixelsPerSecond", MaxWidth * MaxHeight * MaxFps)
          /\ v.maxDelay = Field(b, "maxDelay", 400)
      BY DEF VideoConstraints
    <2>2. MaxFps \in Nat /\ MaxFps >= 1 /\ MaxWidth * MaxHeight * MaxFps \in Nat
            /\ MaxWidth * MaxHeight * MaxFps >= 1
      BY DEF MaxFps, MaxWidth, MaxHeight
    <2> QED
      BY <2>1, <2>2, FieldsRead
  <1> HIDE DEF v
  <1>4. VideoFit(v)
    BY <1>1, <1>2, <1>3 DEF VideoFit
  <1> QED
    BY <1>4 DEF v

LEMMA AudioRead ==
  ASSUME NEW b, \A f \in DOMAIN b : b[f] \in Int
  PROVE  AudioFit(AudioConstraints(b))
  <1> DEFINE a == AudioConstraints(b)
  <1>1. a.minBps \in Nat /\ a.minBps >= 1 /\ a.maxBps \in Nat /\ a.maxBps >= 1
    <2>1. a.minBps = MinBitrate(b, 32000)
            /\ a.maxBps = MaxBitrate(b, 256000, MinBitrate(b, 32000))
      BY DEF AudioConstraints
    <2>2. a.minBps \in Nat /\ a.minBps >= 1
      BY <2>1 DEF MinBitrate, Most
    <2>3. a.maxBps = (IF "maxBitRate" \in DOMAIN b THEN Most(b["maxBitRate"], a.minBps)
                     ELSE 256000)
      BY <2>1 DEF MaxBitrate
    <2> HIDE DEF a
    <2>4. a.maxBps \in Nat /\ a.maxBps >= 1
      BY <2>2, <2>3 DEF Most
    <2> QED
      BY <2>2, <2>4
  <1>2. /\ a.maxSampleRate \in Nat /\ a.maxChannels \in Nat /\ a.maxChannels >= 1
        /\ a.maxDelay \in Int /\ a.minSampleRate = 16000
    <2>1. /\ a.maxSampleRate = Positive(b, "maxSampleRate", SampleRate)
          /\ a.maxChannels = Positive(b, "maxChannels", 2)
          /\ a.maxDelay = Field(b, "maxDelay", 400) /\ a.minSampleRate = 16000
      BY DEF AudioConstraints
    <2>2. SampleRate \in Nat /\ SampleRate >= 1
      BY DEF SampleRate
    <2> QED
      BY <2>1, <2>2, FieldsRead
  <1> HIDE DEF a
  <1>3. AudioFit(a)
    BY <1>1, <1>2 DEF AudioFit
  <1> QED
    BY <1>3 DEF a

LEMMA InitInv == QualityInit => Inv
  <1> SUFFICES ASSUME QualityInit PROVE Inv
    OBVIOUS
  <1>1. answer = NotYet /\ ~Mirrored
    BY DEF QualityInit, Mirrored
  <1>2. \A f \in DOMAIN settings : settings[f] \in Int
    BY SettingsRead DEF QualityInit
  <1> QED
    BY <1>1, <1>2 DEF Inv

LEMMA InvStep == Inv /\ [QualityNext]_qualityVars => Inv'
  <1> SUFFICES ASSUME Inv, [QualityNext]_qualityVars PROVE Inv'
    OBVIOUS
  <1>1. CASE UNCHANGED qualityVars
    BY <1>1 DEF qualityVars, Inv, Mirrored, Video, Audio
  <1>2. CASE ReceiveAnswer
    <2>1. /\ answer' \in [video : VideoBlocks, audio : AudioBlocks]
          /\ settings' = settings /\ ~Mirrored'
      BY <1>2 DEF ReceiveAnswer, Mirrored
    <2> QED
      BY <2>1 DEF Inv
  <1>3. CASE StartMedia
    <2>1. /\ answer # NotYet /\ ~Panics(Audio) /\ UNCHANGED <<settings, answer>>
          /\ resolved' = Resolve(Video, Audio, settings)
      BY <1>3 DEF StartMedia
    <2>2. Video' = Video /\ Audio' = Audio
      BY <2>1 DEF Video, Audio
    <2> QED
      BY <2>1, <2>2 DEF Inv
  <1>4. CASE Panic
    BY <1>4 DEF Panic, Inv, Mirrored, Video, Audio
  <1>5. CASE FallBack
    BY <1>5 DEF FallBack, Inv, Mirrored
  <1> QED
    BY <1>1, <1>2, <1>3, <1>4, <1>5 DEF QualityNext

LEMMA Invariance == QualitySpec => []Inv
  BY InitInv, InvStep, PTL DEF QualitySpec

(* The constraints that mirroring is resolved from can be used. *)
LEMMA Fit ==
  ASSUME Inv, Mirrored
  PROVE  /\ VideoFit(Video) /\ AudioFit(Audio) /\ ~Panics(Audio)
         /\ answer.video \in VideoBlocks /\ answer.audio \in AudioBlocks
         /\ resolved = Resolve(Video, Audio, settings)
  <1>1. answer.video \in VideoBlocks /\ answer.audio \in AudioBlocks
    BY DEF Inv
  <1>2. VideoFit(Video) /\ AudioFit(Audio)
    BY <1>1, BlockAssumption, VideoRead, AudioRead DEF Video, Audio
  <1> QED
    BY <1>1, <1>2 DEF Inv

-----------------------------------------------------------------------------
(* What is resolved.                                                       *)

(* The limits of the picture, and the picture asked for. *)
LEMMA Limits ==
  ASSUME NEW v, VideoFit(v)
  PROVE  /\ MaxSize(v)[1] \in Nat /\ MaxSize(v)[1] >= 180
         /\ MaxSize(v)[1] <= Most(v.maxWidth, MinSide)
         /\ MaxSize(v)[2] \in Nat /\ MaxSize(v)[2] >= 180
         /\ MaxSize(v)[2] <= Most(v.maxHeight, MinSide)
  <1>1. MaxSize(v) = <<Within(v.maxWidth, 180, 1920), Within(v.maxHeight, 180, 1080)>>
    BY DEF MaxSize, MinSide, MaxWidth, MaxHeight
  <1>2. v.maxWidth \in Int /\ v.maxHeight \in Int
    BY DEF VideoFit
  <1>3. /\ Within(v.maxWidth, 180, 1920) \in Nat /\ Within(v.maxWidth, 180, 1920) >= 180
        /\ Within(v.maxWidth, 180, 1920) <= Most(v.maxWidth, 180)
    BY <1>2 DEF Within, Most
  <1>4. /\ Within(v.maxHeight, 180, 1080) \in Nat /\ Within(v.maxHeight, 180, 1080) >= 180
        /\ Within(v.maxHeight, 180, 1080) <= Most(v.maxHeight, 180)
    BY <1>2 DEF Within, Most
  <1> QED
    BY <1>1, <1>3, <1>4 DEF MinSide

LEMMA WantedIsSize ==
  ASSUME Inv
  PROVE  /\ WantedSize[1] \in Nat /\ WantedSize[1] >= 2 /\ WantedSize[2] \in Nat /\ WantedSize[2] >= 2
         /\ WantedSize = <<Most(Field(settings, "width", 1920), 2),
                      Most(Field(settings, "height", 1080), 2)>>
  <1>1. Field(settings, "width", 1920) \in Int /\ Field(settings, "height", 1080) \in Int
    BY DEF Field, Inv
  <1>2. WantedSize = <<Most(Field(settings, "width", 1920), 2),
                  Most(Field(settings, "height", 1080), 2)>>
    BY DEF WantedSize, MaxWidth, MaxHeight
  <1>3. /\ Most(Field(settings, "width", 1920), 2) \in Nat
        /\ Most(Field(settings, "width", 1920), 2) >= 2
        /\ Most(Field(settings, "height", 1080), 2) \in Nat
        /\ Most(Field(settings, "height", 1080), 2) >= 2
    BY <1>1 DEF Most
  <1> QED
    BY <1>2, <1>3

(* The picture is what fits of the one asked for, unless the receiver's      *)
(* least forces a side up.                                                   *)
Fitted == FitInside(WantedSize[1], WantedSize[2], MaxSize(Video)[1], MaxSize(Video)[2])

LEMMA PictureSize ==
  ASSUME Inv, Mirrored
  PROVE  /\ resolved.size = <<Even(Most(Fitted[1], Least(Video.minWidth, MaxSize(Video)[1]))),
                              Even(Most(Fitted[2], Least(Video.minHeight, MaxSize(Video)[2])))>>
         /\ Fitted[1] \in 2 .. MaxSize(Video)[1]
         /\ Fitted[2] \in 2 .. MaxSize(Video)[2]
         /\ Distance(Even(Fitted[1]) * WantedSize[2], Even(Fitted[2]) * WantedSize[1])
              <= 2 * Most(WantedSize[1], WantedSize[2])
         /\ \/ Fitted = <<WantedSize[1], WantedSize[2]>>
            \/ Even(Fitted[1]) >= MaxSize(Video)[1] - 1
            \/ Even(Fitted[2]) >= MaxSize(Video)[2] - 1
  <1>1. VideoFit(Video) /\ resolved.size = Size(Video, settings)
    BY Fit DEF Resolve
  <1>2. /\ WantedSize[1] = Most(Field(settings, "width", 1920), 2)
        /\ WantedSize[2] = Most(Field(settings, "height", 1080), 2)
    BY WantedIsSize
  <1>3. Size(Video, settings)
          = <<Even(Most(Fitted[1], Least(Video.minWidth, MaxSize(Video)[1]))),
              Even(Most(Fitted[2], Least(Video.minHeight, MaxSize(Video)[2])))>>
    BY <1>2 DEF Size, Fitted
  <1> DEFINE w == WantedSize[1]
             h == WantedSize[2]
             W == MaxSize(Video)[1]
             H == MaxSize(Video)[2]
  <1>4. w \in Nat /\ w >= 2 /\ h \in Nat /\ h >= 2
    BY WantedIsSize
  <1>5. W \in Nat /\ W >= 2 /\ H \in Nat /\ H >= 2
    <2>1. /\ W \in Nat /\ W >= 180 /\ H \in Nat /\ H >= 180
      BY <1>1, Limits
    <2> HIDE DEF W, H
    <2> QED
      BY <2>1
  <1>6. Fitted = FitInside(w, h, W, H)
    BY DEF Fitted
  <1> HIDE DEF w, h, W, H
  <1>7. /\ Fitted[1] \in Nat /\ Fitted[1] >= 2 /\ Fitted[1] <= W
        /\ Fitted[2] \in Nat /\ Fitted[2] >= 2 /\ Fitted[2] <= H
        /\ Distance(Even(Fitted[1]) * h, Even(Fitted[2]) * w) <= 2 * Most(w, h)
        /\ \/ Fitted = <<w, h>>
           \/ Even(Fitted[1]) >= W - 1 \/ Even(Fitted[2]) >= H - 1
    BY <1>4, <1>5, <1>6, Fits
  <1>8. Fitted[1] \in 2 .. W /\ Fitted[2] \in 2 .. H
    BY <1>5, <1>7
  <1> QED
    BY <1>1, <1>3, <1>7, <1>8 DEF w, h, W, H

LEMMA Sides ==
  ASSUME NEW x \in Int, NEW W \in Int, NEW m \in Int, x >= 2, x <= W
  PROVE  /\ Even(Most(x, Least(m, W))) \in Nat
         /\ Even(Most(x, Least(m, W))) >= 2 /\ Even(Most(x, Least(m, W))) <= W
         /\ Even(Most(x, Least(m, W))) + 1 >= Least(m, W)
         /\ Even(Most(x, Least(m, W))) > m => Most(x, Least(m, W)) = x
  <1> DEFINE y == Most(x, Least(m, W))
  <1>1. /\ y \in Int /\ y >= 2 /\ y <= W /\ y >= Least(m, W)
        /\ Least(m, W) \in Int /\ Least(m, W) <= m
        /\ y \in {x, Least(m, W)}
    BY DEF Most, Least
  <1>2. Even(y) \in {y, y - 1} /\ Even(y) >= 2 /\ Even(y) \in Int
    BY <1>1, Evened
  <1> HIDE DEF y
  <1>3. /\ Even(y) \in Nat /\ Even(y) >= 2 /\ Even(y) <= W /\ Even(y) + 1 >= Least(m, W)
        /\ Even(y) > m => y = x
    BY <1>1, <1>2
  <1> QED
    BY <1>3 DEF y

(* The pixel rate. *)
LEMMA Rates ==
  ASSUME NEW v, VideoFit(v), NEW s, \A f \in DOMAIN s : s[f] \in Int,
         NEW size, Area(size) \in Nat, Area(size) >= 1
  PROVE  /\ FrameRate(v, s, size) \in Int
         /\ FrameRate(v, s, size) <= Most(v.maxFps, MinFps)
         /\ Area(size) * FrameRate(v, s, size) <= v.maxPixels \/ FrameRate(v, s, size) = MinFps
  <1> DEFINE max == Within(v.maxFps, MinFps, MaxFps)
             fps == Within(Field(s, "fps", max), MinFps, max)
             pixels == Area(size)
             left == v.maxPixels \div pixels
  <1>0. v.maxFps \in Nat /\ v.maxPixels \in Nat
    BY DEF VideoFit
  <1>1. max \in Int /\ max >= 5 /\ max <= 30 /\ max <= Most(v.maxFps, 5)
    BY <1>0 DEF Within, MinFps, MaxFps, Most
  <1>2. fps \in Int /\ fps >= 5 /\ fps <= max
    <2> HIDE DEF max
    <2>1. Field(s, "fps", max) \in Int
      BY <1>1 DEF Field
    <2> QED
      BY <1>1, <2>1, Clamped DEF MinFps
  <1>3. FrameRate(v, s, size)
          = IF pixels * fps > v.maxPixels THEN Within(left, MinFps, fps) ELSE fps
    BY DEF FrameRate, Area
  <1>4. left \in Nat /\ left * pixels <= v.maxPixels
    BY <1>0, Quotient
  <1> HIDE DEF fps, max, pixels, left
  <1>5. pixels \in Nat /\ pixels >= 1 /\ pixels = Area(size)
    BY DEF pixels
  <1>6. CASE ~(pixels * fps > v.maxPixels)
    <2>1. pixels * fps \in Int
      BY <1>2, <1>5
    <2>2. pixels * fps <= v.maxPixels
      BY <1>0, <1>6, <2>1
    <2>3. FrameRate(v, s, size) = fps
      BY <1>3, <1>6
    <2>4. fps <= Most(v.maxFps, 5)
      <3>1. Most(v.maxFps, 5) \in Int
        BY <1>0 DEF Most
      <3> QED
        BY <1>1, <1>2, <3>1
    <2> QED
      BY <1>2, <1>5, <2>2, <2>3, <2>4 DEF MinFps
  <1>7. CASE pixels * fps > v.maxPixels
    <2>1. left < fps
      <3>1. fps \in Nat
        BY <1>2
      <3>2. fps * pixels = pixels * fps /\ fps * pixels \in Nat /\ left * pixels \in Nat
        BY <3>1, <1>4, <1>5, Product
      <3>3. left * pixels < fps * pixels
        BY <1>0, <1>4, <1>7, <3>2
      <3> QED
        BY <3>1, <3>3, <1>4, <1>5, Cancel
    <2>2. FrameRate(v, s, size) = IF left < 5 THEN 5 ELSE left
      BY <1>2, <1>3, <1>4, <1>7, <2>1 DEF Within, MinFps
    <2>3. left * pixels = pixels * left
      BY <1>4, <1>5, Product
    <2>4. FrameRate(v, s, size) \in {5, left}
      BY <2>2
    <2>5. FrameRate(v, s, size) <= fps
      BY <1>2, <1>4, <2>1, <2>4
    <2>6. pixels * FrameRate(v, s, size) <= v.maxPixels \/ FrameRate(v, s, size) = 5
      BY <1>4, <2>3, <2>4
    <2>7. FrameRate(v, s, size) \in Int
      BY <1>4, <2>4
    <2>8. FrameRate(v, s, size) <= Most(v.maxFps, 5)
      <3>1. Most(v.maxFps, 5) \in Int
        BY <1>0 DEF Most
      <3> QED
        BY <1>1, <1>2, <2>5, <2>7, <3>1
    <2> QED
      BY <1>5, <2>6, <2>7, <2>8 DEF MinFps
  <1> QED
    BY <1>6, <1>7

-----------------------------------------------------------------------------
(* The theorems.                                                           *)

(* What is built keeps the constraints that were read from the ANSWER. *)
LEMMA ConstraintsKept ==
  ASSUME Inv, Mirrored
  PROVE  /\ resolved.size[1] <= Most(Video.maxWidth, MinSide)
         /\ resolved.size[2] <= Most(Video.maxHeight, MinSide)
         /\ resolved.fps <= Most(Video.maxFps, MinFps)
         /\ \/ Area(resolved.size) * resolved.fps <= Video.maxPixels
            \/ resolved.fps = MinFps
         /\ resolved.maxVideo <= Video.maxBps
         /\ resolved.audioBps <= Audio.maxBps
         /\ resolved.sampleRate <= Audio.maxSampleRate
         /\ resolved.channels <= Audio.maxChannels
         /\ resolved.delay <= Most(Video.maxDelay, 1)
         /\ resolved.delay <= Most(Audio.maxDelay, 1)
  <1>0. /\ VideoFit(Video) /\ AudioFit(Audio) /\ ~Panics(Audio)
        /\ \A f \in DOMAIN settings : settings[f] \in Int
    BY Fit DEF Inv
  <1>1. /\ resolved.fps = FrameRate(Video, settings, resolved.size)
        /\ resolved.audioBps = AudioBitrate(Audio, settings)
        /\ resolved.sampleRate = Within(SampleRate, Audio.minSampleRate, Audio.maxSampleRate)
        /\ resolved.channels = Within(2, 1, Most(Audio.maxChannels, 1))
        /\ resolved.delay = PlayoutDelay(Video, Audio)
    BY Fit DEF Resolve
  <1> DEFINE W == MaxSize(Video)[1]
             H == MaxSize(Video)[2]
  <1>2. /\ W \in Int /\ W <= Most(Video.maxWidth, MinSide)
        /\ H \in Int /\ H <= Most(Video.maxHeight, MinSide)
        /\ Most(Video.maxWidth, MinSide) \in Int /\ Most(Video.maxHeight, MinSide) \in Int
    <2>1. Video.maxWidth \in Int /\ Video.maxHeight \in Int /\ MinSide \in Int
      BY <1>0 DEF VideoFit, MinSide
    <2>2. Most(Video.maxWidth, MinSide) \in Int /\ Most(Video.maxHeight, MinSide) \in Int
      BY <2>1 DEF Most
    <2>3. /\ W \in Nat /\ W <= Most(Video.maxWidth, MinSide)
          /\ H \in Nat /\ H <= Most(Video.maxHeight, MinSide)
      BY <1>0, Limits
    <2> HIDE DEF W, H
    <2> QED
      BY <2>2, <2>3
  <1>3. /\ resolved.size[1] \in Nat /\ resolved.size[1] >= 2 /\ resolved.size[1] <= W
        /\ resolved.size[1] + 1 >= Least(Video.minWidth, W)
        /\ resolved.size[2] \in Nat /\ resolved.size[2] >= 2 /\ resolved.size[2] <= H
        /\ resolved.size[2] + 1 >= Least(Video.minHeight, H)
    <2>1. /\ resolved.size[1] = Even(Most(Fitted[1], Least(Video.minWidth, W)))
          /\ resolved.size[2] = Even(Most(Fitted[2], Least(Video.minHeight, H)))
          /\ Fitted[1] \in 2 .. W /\ Fitted[2] \in 2 .. H
      BY PictureSize
    <2>2. Video.minWidth \in Int /\ Video.minHeight \in Int
      BY <1>0 DEF VideoFit
    <2> HIDE DEF W, H
    <2>3. Fitted[1] \in Int /\ Fitted[1] >= 2 /\ Fitted[1] <= W
            /\ Fitted[2] \in Int /\ Fitted[2] >= 2 /\ Fitted[2] <= H
      BY <1>2, <2>1
    <2>4. LET x == Even(Most(Fitted[1], Least(Video.minWidth, W)))
          IN  x \in Nat /\ x >= 2 /\ x <= W /\ x + 1 >= Least(Video.minWidth, W)
      BY <1>2, <2>2, <2>3, Sides
    <2>5. LET x == Even(Most(Fitted[2], Least(Video.minHeight, H)))
          IN  x \in Nat /\ x >= 2 /\ x <= H /\ x + 1 >= Least(Video.minHeight, H)
      BY <1>2, <2>2, <2>3, Sides
    <2> QED
      BY <2>1, <2>4, <2>5
  <1>4. Area(resolved.size) \in Nat /\ Area(resolved.size) >= 1
    <2> DEFINE a == resolved.size[1]
               b == resolved.size[2]
    <2>1. a \in Nat /\ a >= 2 /\ b \in Nat /\ b >= 2
      BY <1>3
    <2>2. Area(resolved.size) = a * b
      BY DEF Area
    <2> HIDE DEF a, b
    <2>3. a * b \in Nat /\ 1 * b <= a * b
      BY <2>1, Grows, Product
    <2> QED
      BY <2>1, <2>2, <2>3
  <1>5. /\ resolved.fps <= Most(Video.maxFps, MinFps)
        /\ Area(resolved.size) * resolved.fps <= Video.maxPixels \/ resolved.fps = MinFps
    BY <1>0, <1>1, <1>4, Rates
  <1>6. resolved.audioBps <= Audio.maxBps
    <2> DEFINE m == Least(Audio.maxBps, MaxAudioBitrate)
    <2>1. Audio.maxBps \in Int /\ Audio.minBps \in Int /\ MaxAudioBitrate \in Int
      BY <1>0 DEF AudioFit, MaxAudioBitrate
    <2>2. m \in Int /\ m <= Audio.maxBps
      BY <2>1, Chosen
    <2> DEFINE asked == IF "audioBitrate" \in DOMAIN settings
                        THEN settings["audioBitrate"] * 1000 ELSE 128000
    <2>3. asked \in Int
      BY <1>0
    <2>4. AudioBitrate(Audio, settings) = Within(asked, Least(Audio.minBps, m), m)
      BY DEF AudioBitrate
    <2> HIDE DEF m, asked
    <2>5. Least(Audio.minBps, m) \in Int /\ Least(Audio.minBps, m) <= m
      BY <2>1, <2>2, Chosen
    <2>6. AudioBitrate(Audio, settings) \in Int /\ AudioBitrate(Audio, settings) <= m
      BY <2>2, <2>3, <2>4, <2>5, Clamped
    <2> QED
      BY <1>1, <2>1, <2>2, <2>6
  <1>7. resolved.sampleRate <= Audio.maxSampleRate
    <2>1. Audio.minSampleRate = 16000 /\ Audio.maxSampleRate \in Nat
            /\ ~(Audio.maxSampleRate < 16000)
      BY <1>0 DEF AudioFit, Panics
    <2> QED
      BY <1>1, <2>1 DEF Within, SampleRate
  <1>8. resolved.channels <= Audio.maxChannels
    BY <1>0, <1>1 DEF AudioFit, Within, Most
  <1>9. resolved.delay <= Most(Video.maxDelay, 1) /\ resolved.delay <= Most(Audio.maxDelay, 1)
    BY <1>0, <1>1 DEF AudioFit, VideoFit, PlayoutDelay, Least, Most
  <1>11. resolved.maxVideo <= Video.maxBps
    <2>1. resolved.maxVideo = Least(Video.maxBps, VideoBitrate)
      BY Fit DEF Resolve, MaxVideo
    <2> QED
      BY <1>0, <2>1 DEF VideoFit, Least, VideoBitrate
  <1>10. resolved.size[1] <= Most(Video.maxWidth, MinSide)
           /\ resolved.size[2] <= Most(Video.maxHeight, MinSide)
    <2> HIDE DEF W, H
    <2> QED
      BY <1>2, <1>3
  <1> QED
    BY <1>3, <1>5, <1>6, <1>7, <1>8, <1>9, <1>10, <1>11

(* "The receiver always wins", but over our own least values: for any options *)
(* and any ANSWER, what is built goes beyond a limit that the ANSWER itself   *)
(* sets by those alone.                                                       *)
THEOREM LeastValuesOnly == QualitySpec => []OnlyOurLeastExceeds
  <1>1. Inv => OnlyOurLeastExceeds
    <2> SUFFICES ASSUME Inv, Mirrored PROVE OnlyOurLeastExceeds
      BY DEF OnlyOurLeastExceeds
    <2> DEFINE v == answer.video
               a == answer.audio
    <2>1. /\ Has(v, {"maxWidth", "maxHeight"}) =>
                Video.maxWidth = v["maxWidth"] /\ Video.maxHeight = v["maxHeight"]
          /\ Has(v, {"frameRate"}) /\ v["frameRate"] > 0 => Video.maxFps = v["frameRate"]
          /\ Has(v, {"maxPixelsPerSecond"}) /\ v["maxPixelsPerSecond"] > 0 =>
                Video.maxPixels = v["maxPixelsPerSecond"]
          /\ Has(v, {"maxBitRate"}) =>
                Video.maxBps = Most(v["maxBitRate"], MinBitrate(v, 300000))
          /\ Has(v, {"maxDelay"}) => Video.maxDelay = v["maxDelay"]
      BY DEF Video, VideoConstraints, Has, Positive, Field, MaxBitrate
    <2>2. /\ Has(a, {"maxBitRate"}) =>
                Audio.maxBps = Most(a["maxBitRate"], MinBitrate(a, 32000))
          /\ Has(a, {"maxSampleRate"}) /\ a["maxSampleRate"] > 0 =>
                Audio.maxSampleRate = a["maxSampleRate"]
          /\ Has(a, {"maxChannels"}) /\ a["maxChannels"] > 0 =>
                Audio.maxChannels = a["maxChannels"]
          /\ Has(a, {"maxDelay"}) => Audio.maxDelay = a["maxDelay"]
      BY DEF Audio, AudioConstraints, Has, Positive, Field, MaxBitrate
    <2> QED
      BY <2>1, <2>2, ConstraintsKept DEF OnlyOurLeastExceeds
  <1> QED
    BY <1>1, Invariance, PTL

(* A picture that is mirrored keeps the shape of the size that was asked for, *)
(* for any size and any limits, and is shrunk no further than it takes.      *)
THEOREM ShapeKept == QualitySpec => []RequestKeepsShape
  <1>1. Inv => RequestKeepsShape
    <2> SUFFICES ASSUME Inv, Mirrored,
                        resolved.size[1] > Video.minWidth, resolved.size[2] > Video.minHeight
                 PROVE  /\ SameShape(resolved.size, WantedSize)
                        /\ \/ resolved.size = <<Even(WantedSize[1]), Even(WantedSize[2])>>
                           \/ resolved.size[1] >= MaxSize(Video)[1] - 1
                           \/ resolved.size[2] >= MaxSize(Video)[2] - 1
      BY DEF RequestKeepsShape
    <2> DEFINE W == MaxSize(Video)[1]
               H == MaxSize(Video)[2]
    <2>1. /\ resolved.size = <<Even(Most(Fitted[1], Least(Video.minWidth, W))),
                               Even(Most(Fitted[2], Least(Video.minHeight, H)))>>
          /\ Fitted[1] \in 2 .. W /\ Fitted[2] \in 2 .. H
      BY PictureSize
    <2>2. W \in Int /\ H \in Int /\ Video.minWidth \in Int /\ Video.minHeight \in Int
      <3>1. VideoFit(Video)
        BY Fit
      <3>2. W \in Nat /\ H \in Nat
        BY <3>1, Limits
      <3> HIDE DEF W, H
      <3> QED
        BY <3>1, <3>2 DEF VideoFit
    <2>3. resolved.size = <<Even(Fitted[1]), Even(Fitted[2])>>
      <3> HIDE DEF W, H
      <3>1. Fitted[1] \in Int /\ Fitted[1] >= 2 /\ Fitted[1] <= W
              /\ Fitted[2] \in Int /\ Fitted[2] >= 2 /\ Fitted[2] <= H
        BY <2>1, <2>2
      <3>2. /\ resolved.size[1] = Even(Most(Fitted[1], Least(Video.minWidth, W)))
            /\ resolved.size[2] = Even(Most(Fitted[2], Least(Video.minHeight, H)))
        BY <2>1
      <3>3. /\ Most(Fitted[1], Least(Video.minWidth, W)) = Fitted[1]
            /\ Most(Fitted[2], Least(Video.minHeight, H)) = Fitted[2]
        BY <2>2, <3>1, <3>2, Sides
      <3> QED
        BY <2>1, <3>3
    <2>4. SameShape(resolved.size, WantedSize)
      <3>1. resolved.size[1] = Even(Fitted[1]) /\ resolved.size[2] = Even(Fitted[2])
        BY <2>3
      <3>2. Distance(resolved.size[1] * WantedSize[2], resolved.size[2] * WantedSize[1])
              <= 2 * Most(WantedSize[1], WantedSize[2])
        BY <3>1, PictureSize
      <3> QED
        BY <3>2 DEF SameShape
    <2>5. \/ Fitted = <<WantedSize[1], WantedSize[2]>>
          \/ Even(Fitted[1]) >= W - 1 \/ Even(Fitted[2]) >= H - 1
      BY PictureSize
    <2> HIDE DEF W, H
    <2>6. \/ resolved.size = <<Even(WantedSize[1]), Even(WantedSize[2])>>
          \/ resolved.size[1] >= W - 1 \/ resolved.size[2] >= H - 1
      BY <2>3, <2>5
    <2> QED
      BY <2>4, <2>6 DEF W, H
  <1> QED
    BY <1>1, Invariance, PTL

(* The bitrate loop is given a range, and starts in it but for what whole    *)
(* kbit/s round off: what RateControl assumes of its constants.              *)
THEOREM RangeIsOne == QualitySpec => []BitratesInRange
  <1>1. Inv => BitratesInRange
    <2> SUFFICES ASSUME Inv, Mirrored
                 PROVE  /\ 1 <= resolved.minVideo /\ resolved.minVideo <= resolved.maxVideo
                        /\ resolved.maxVideo <= VideoBitrate
                        /\ resolved.minVideo - 1000 < resolved.videoKbps * 1000
                        /\ resolved.videoKbps * 1000 <= Most(resolved.maxVideo, 1000)
      BY DEF BitratesInRange
    <2>0. VideoFit(Video) /\ \A f \in DOMAIN settings : settings[f] \in Int
      BY Fit DEF Inv
    <2>1. /\ resolved.minVideo = MinVideo(Video) /\ resolved.maxVideo = MaxVideo(Video)
          /\ resolved.videoKbps = VideoKbps(Video, settings)
      BY Fit DEF Resolve
    <2> DEFINE lo == MinVideo(Video)
               hi == MaxVideo(Video)
               asked == IF "bitrate" \in DOMAIN settings THEN settings["bitrate"] * 1000
                        ELSE VideoBitrate
               chosen == Within(asked, lo, hi)
    <2>2. lo \in Nat /\ hi \in Nat /\ 1 <= lo /\ lo <= hi /\ hi <= VideoBitrate
      BY <2>0 DEF VideoFit, MinVideo, MaxVideo, Least, VideoBitrate
    <2>3. asked \in Int
      BY <2>0 DEF VideoBitrate
    <2>4. resolved.videoKbps = Most(chosen \div 1000, 1)
      BY <2>1 DEF VideoKbps
    <2> HIDE DEF lo, hi, asked
    <2>5. chosen \in Nat /\ lo <= chosen /\ chosen <= hi
      <3>1. chosen \in Int /\ lo <= chosen /\ chosen <= hi
        BY <2>2, <2>3 DEF Within
      <3> HIDE DEF chosen
      <3> QED
        BY <2>2, <3>1
    <2> HIDE DEF chosen
    <2>6. lo - 1000 < resolved.videoKbps * 1000 /\ resolved.videoKbps * 1000 <= Most(hi, 1000)
      BY <2>2, <2>4, <2>5 DEF Most
    <2> QED
      BY <2>1, <2>2, <2>6 DEF lo, hi
  <1> QED
    BY <1>1, Invariance, PTL

-----------------------------------------------------------------------------
(* The ladder as the recursive function it is.  SnappedSizes counts its    *)
(* steps from 0, and what must hold of every one of them is shown of the   *)
(* least step at which it does not: there is none.                         *)

(* The natural numbers are well-founded: a set of them has a least one. *)
LEMMA SmallestOf ==
  ASSUME NEW S \in SUBSET Nat, S # {}
  PROVE  \E x \in S : \A y \in S : x <= y
  <1> DEFINE less == {p \in Nat \X Nat : p[1] < p[2]}
  <1>1. OpToRel(<, Nat) = less
    BY DEF OpToRel
  <1>2. IsWellFoundedOn(less, Nat)
    BY <1>1, NatLessThanWellFounded
  <1>3. PICK x \in S : \A y \in S : <<y, x>> \notin less
    BY <1>2, WFMin
  <1>4. \A y \in S : ~(y < x)
    BY <1>3
  <1> QED
    BY <1>4

(* A step of snapped_sizes. *)
Taken(source, above, k) ==
  LET candidate == RungAt(source, source[2] - HeightStep * k)
  IN  IF IsMeaningfullySmaller(candidate, Head(above)) THEN <<candidate>> \o above ELSE above

Rungs(source, n, g) ==
  [k \in 0 .. n |-> IF k = 0 THEN <<source>> ELSE Taken(source, g[k - 1], k)]

LEMMA LadderExists ==
  ASSUME NEW source, NEW n \in Nat
  PROVE  \E g : g = Rungs(source, n, g)
  <1> DEFINE T == {m \in Nat : ~\E g : g = Rungs(source, m, g)}
  <1> SUFFICES ASSUME T # {}
               PROVE  FALSE
    OBVIOUS
  <1>1. PICK m \in T : \A i \in T : m <= i
    BY SmallestOf
  <1>2. m # 0
    <2> DEFINE g == [k \in 0 .. 0 |-> <<source>>]
    <2>1. g = Rungs(source, 0, g)
      BY DEF Rungs
    <2> QED
      BY <2>1, <1>1
  <1>3. m - 1 \in Nat /\ m - 1 \notin T
    BY <1>1, <1>2
  <1>4. PICK f : f = Rungs(source, m - 1, f)
    BY <1>3
  <1> DEFINE g == [k \in 0 .. m |-> IF k = m THEN Taken(source, f[m - 1], m) ELSE f[k]]
  <1>5. \A k \in 0 .. m - 1 : f[k] = IF k = 0 THEN <<source>> ELSE Taken(source, f[k - 1], k)
    BY <1>4 DEF Rungs
  <1>6. ASSUME NEW k \in 0 .. m
        PROVE  g[k] = IF k = 0 THEN <<source>> ELSE Taken(source, g[k - 1], k)
    <2>1. CASE k = m
      <3>1. m - 1 \in 0 .. m /\ m - 1 # m
        BY <1>1, <1>2
      <3>2. g[m - 1] = f[m - 1] /\ g[k] = Taken(source, f[m - 1], m)
        BY <2>1, <3>1
      <3> QED
        BY <1>2, <2>1, <3>2
    <2>2. CASE k # m /\ k # 0
      <3>1. k \in 0 .. m - 1 /\ k - 1 \in 0 .. m /\ k - 1 # m
        BY <1>1, <2>2
      <3>2. g[k] = f[k] /\ g[k - 1] = f[k - 1]
        BY <2>2, <3>1
      <3> QED
        BY <1>5, <2>2, <3>1, <3>2
    <2>3. CASE k = 0
      BY <1>2, <1>3, <1>5, <2>3
    <2> QED
      BY <2>1, <2>2, <2>3
  <1>7. g = [k \in 0 .. m |-> IF k = 0 THEN <<source>> ELSE Taken(source, g[k - 1], k)]
    <2>1. DOMAIN g = 0 .. m
      OBVIOUS
    <2>2. g = [k \in 0 .. m |-> g[k]]
      OBVIOUS
    <2> HIDE DEF g
    <2> QED
      BY <1>6, <2>2
  <1>8. g = Rungs(source, m, g)
    <2> HIDE DEF g
    <2> QED
      BY <1>7 DEF Rungs
  <1> QED
    BY <1>1, <1>8

LEMMA LadderIs ==
  ASSUME NEW source, Steps(source) \in Nat
  PROVE  \E f : f = Rungs(source, Steps(source), f) /\ SnappedSizes(source) = f[Steps(source)]
  <1> DEFINE n == Steps(source)
             found == CHOOSE g : g = Rungs(source, n, g)
  <1>1. SnappedSizes(source) = found[n]
    BY DEF SnappedSizes, Rungs, Taken
  <1>2. found = Rungs(source, n, found)
    BY LadderExists
  <1> HIDE DEF found
  <1> QED
    BY <1>1, <1>2

-----------------------------------------------------------------------------
(* Rungs.                                                                  *)

(* A picture with sides of 2 and more. *)
Picture == {p \in Nat \X Nat : p[1] >= 2 /\ p[2] >= 2}

LEMMA AreaGrows ==
  ASSUME NEW p \in Picture, NEW q \in Picture, p[1] <= q[1], p[2] <= q[2]
  PROVE  Area(p) \in Nat /\ Area(q) \in Nat /\ Area(p) <= Area(q) /\ Area(p) >= 4
  <1> DEFINE a == p[1]
             b == p[2]
             c == q[1]
             d == q[2]
  <1>1. /\ a \in Nat /\ b \in Nat /\ c \in Nat /\ d \in Nat
        /\ a >= 2 /\ b >= 2 /\ a <= c /\ b <= d
    BY DEF Picture
  <1>2. Area(p) = a * b /\ Area(q) = c * d
    BY DEF Area
  <1> HIDE DEF a, b, c, d
  <1>3. a * b <= c * b /\ b * c <= d * c /\ b * c = c * b /\ d * c = c * d
    BY <1>1, Grows, Product
  <1>4. a * b \in Nat /\ c * d \in Nat /\ c * b \in Nat
    BY <1>1, Product
  <1>5. 2 * b <= a * b /\ 2 * b >= 4 /\ 2 * b \in Nat
    BY <1>1, Grows
  <1>6. a * b <= c * d
    BY <1>3, <1>4
  <1>7. a * b >= 4
    BY <1>4, <1>5
  <1> QED
    BY <1>2, <1>4, <1>6, <1>7

(* A rung is a picture no larger than the source. *)
LEMMA RungFits ==
  ASSUME NEW source \in Picture, NEW h \in 2 .. source[2]
  PROVE  LET r == RungAt(source, h)
         IN  r \in Picture /\ r[1] <= source[1] /\ r[2] <= source[2]
  <1> DEFINE w == source[1]
             q == (h * w) \div source[2]
             r == RungAt(source, h)
  <1>1. w \in Nat /\ w >= 2 /\ source[2] \in Nat /\ source[2] >= 2 /\ h \in Nat /\ h <= source[2] /\ h >= 2
    BY DEF Picture
  <1>2. r = <<Most(Even(q), 2), Most(Even(h), 2)>>
    BY DEF RungAt
  <1> HIDE DEF w
  <1>3. q \in Nat /\ q <= w
    <2> DEFINE a == h * w
               b == source[2]
    <2>1. a \in Nat /\ b \in Nat /\ b > 0 /\ a <= b * w /\ b * w \in Nat
      BY <1>1, Grows, Product
    <2> HIDE DEF a, b
    <2>2. a \div b \in Nat /\ (a \div b) * b <= a
      BY <2>1, Quotient
    <2> DEFINE d == a \div b
    <2>3. d \in Nat /\ d * b <= b * w
      <3>1. d * b \in Nat
        BY <2>1, <2>2, Product
      <3> HIDE DEF d
      <3>2. d * b <= a
        BY <2>2 DEF d
      <3> QED
        BY <2>1, <2>2, <3>1, <3>2 DEF d
    <2> HIDE DEF d
    <2>4. ~(w < d)
      <3> SUFFICES ASSUME w < d
                   PROVE  FALSE
        OBVIOUS
      <3>1. (w + 1) * b <= d * b
        BY <1>1, <2>1, <2>3, Grows
      <3>2. (w + 1) * b = b * w + b
        BY <1>1, <2>1
      <3>3. d * b \in Nat
        BY <2>1, <2>3, Product
      <3> QED
        BY <2>1, <2>3, <3>1, <3>2, <3>3
    <2>5. d <= w
      BY <1>1, <2>3, <2>4
    <2> QED
      BY <2>2, <2>5 DEF a, b, d
  <1> HIDE DEF q
  <1>4. /\ Even(q) \in {q, q - 1} /\ Even(q) \in Int
        /\ Even(h) \in {h, h - 1} /\ Even(h) \in Int
    BY <1>1, <1>3, Evened
  <1>5. /\ Most(Even(q), 2) \in Nat /\ Most(Even(q), 2) >= 2 /\ Most(Even(q), 2) <= w
        /\ Most(Even(h), 2) \in Nat /\ Most(Even(h), 2) >= 2 /\ Most(Even(h), 2) <= source[2]
    BY <1>1, <1>3, <1>4 DEF Most
  <1> QED
    BY <1>2, <1>5 DEF Picture, w

(* A higher rung is a larger one. *)
LEMMA RungGrows ==
  ASSUME NEW source \in Picture, NEW g \in 2 .. source[2], NEW h \in 2 .. source[2], g <= h
  PROVE  Area(RungAt(source, g)) <= Area(RungAt(source, h))
  <1> DEFINE w == source[1]
             b == source[2]
             p == (g * w) \div b
             q == (h * w) \div b
  <1>1. /\ w \in Nat /\ b \in Nat /\ b >= 2
        /\ g \in Nat /\ h \in Nat /\ h <= b /\ g >= 2
    BY DEF Picture
  <1>2. /\ RungAt(source, g) = <<Most(Even(p), 2), Most(Even(g), 2)>>
        /\ RungAt(source, h) = <<Most(Even(q), 2), Most(Even(h), 2)>>
    BY DEF RungAt
  <1> HIDE DEF w, b
  <1>3. p \in Nat /\ q \in Nat /\ p <= q
    <2> DEFINE x == g * w
               y == h * w
    <2>1. x \in Nat /\ y \in Nat /\ x <= y
      BY <1>1, Grows, Product
    <2> HIDE DEF x, y
    <2> DEFINE d == x \div b
               e == y \div b
    <2>2. d \in Nat /\ d * b <= x /\ e \in Nat /\ y < (e + 1) * b
      BY <1>1, <2>1, Quotient
    <2> HIDE DEF d, e
    <2>3. d * b \in Nat /\ (e + 1) * b \in Nat /\ d * b < (e + 1) * b
      <3>1. d * b \in Nat /\ (e + 1) * b \in Nat
        BY <1>1, <2>2, Product
      <3> QED
        BY <2>1, <2>2, <3>1
    <2>4. d < e + 1
      BY <1>1, <2>2, <2>3, Cancel
    <2>5. d <= e
      BY <2>2, <2>4
    <2> QED
      BY <2>2, <2>5 DEF d, e, x, y
  <1> HIDE DEF p, q
  <1>4. Most(Even(p), 2) <= Most(Even(q), 2) /\ Most(Even(g), 2) <= Most(Even(h), 2)
    BY <1>1, <1>3 DEF Most, Even
  <1>5. RungAt(source, g) \in Picture /\ RungAt(source, h) \in Picture
    BY RungFits
  <1> QED
    BY <1>2, <1>4, <1>5, AreaGrows

(* A rung has the shape of the source. *)
LEMMA RungShape ==
  ASSUME NEW source \in Picture, NEW h \in 2 .. source[2]
  PROVE  SameShape(RungAt(source, h), source)
  <1> DEFINE w == source[1]
             b == source[2]
             q == (h * w) \div b
             x == Most(Even(q), 2)
             y == Most(Even(h), 2)
  <1>1. /\ w \in Nat /\ w >= 2 /\ b \in Nat /\ b >= 2
        /\ h \in Nat /\ h <= b /\ h >= 2
    BY DEF Picture
  <1>2. RungAt(source, h) = <<x, y>>
    BY DEF RungAt
  <1> HIDE DEF w, b
  <1> DEFINE a == h * w
  <1>3. a \in Nat
    BY <1>1, Product
  <1>4. q \in Nat /\ q * b <= a /\ a < (q + 1) * b
    <2> HIDE DEF a
    <2>1. a \div b \in Nat /\ (a \div b) * b <= a /\ a < (a \div b + 1) * b
      BY <1>1, <1>3, Quotient
    <2> QED
      BY <2>1 DEF a
  <1> HIDE DEF q
  <1>5. /\ x \in Nat /\ (x \in {q, q - 1} \/ (x = 2 /\ q < 2))
        /\ y \in Nat /\ y \in {h, h - 1}
    BY <1>1, <1>4, Evened DEF Most
  <1> HIDE DEF x, y
  <1>6. x * b \in Nat /\ y * w \in Nat /\ q * b \in Nat
    BY <1>1, <1>4, <1>5, Product
  <1>7. (q + 1) * b = q * b + b /\ (h - 1) * w = a - w /\ 2 * b \in Nat
    BY <1>1, <1>4
  <1>8. y * w <= a /\ a <= y * w + w
    BY <1>1, <1>3, <1>5, <1>6, <1>7
  <1>9. x * b <= y * w + 2 * Most(w, b) /\ y * w <= x * b + 2 * Most(w, b)
    <2>1. Most(w, b) \in Nat /\ Most(w, b) >= w /\ Most(w, b) >= b
      BY <1>1 DEF Most
    <2> DEFINE m == Most(w, b)
    <2> HIDE DEF m, a
    <2>m. m \in Nat /\ m >= w /\ m >= b
      BY <2>1 DEF m
    <2>2. CASE x = q
      <3>1. x * b <= a /\ a <= x * b + b
        BY <1>1, <1>3, <1>4, <1>6, <1>7, <2>2
      <3>2. x * b <= y * w + 2 * m /\ y * w <= x * b + 2 * m
        BY <1>1, <1>3, <1>6, <1>8, <2>m, <3>1
      <3> QED
        BY <3>2 DEF m
    <2>3. CASE x = q - 1
      <3>1. x * b = q * b - b
        BY <1>1, <1>4, <2>3
      <3>2. x * b <= a /\ a <= x * b + 2 * b
        BY <1>1, <1>3, <1>4, <1>6, <1>7, <3>1
      <3>3. x * b <= y * w + 2 * m /\ y * w <= x * b + 2 * m
        BY <1>1, <1>3, <1>6, <1>8, <2>m, <3>2
      <3> QED
        BY <3>3 DEF m
    <2>4. CASE x = 2 /\ q < 2
      <3>1. (q + 1) * b <= 2 * b
        BY <1>1, <1>4, <2>4, Grows
      <3>2. a <= x * b /\ x * b = 2 * b
        BY <1>1, <1>3, <1>4, <1>6, <1>7, <2>4, <3>1
      <3>3. x * b <= y * w + 2 * m /\ y * w <= x * b + 2 * m
        BY <1>1, <1>3, <1>6, <1>8, <2>m, <3>2
      <3> QED
        BY <3>3 DEF m
    <2> QED
      BY <1>5, <2>2, <2>3, <2>4
  <1>10. Most(w, b) \in Nat
    BY <1>1 DEF Most
  <1> DEFINE m == Most(w, b)
  <1>11. Distance(x * b, y * w) <= 2 * m
    <2> HIDE DEF m
    <2>1. m \in Nat /\ x * b <= y * w + 2 * m /\ y * w <= x * b + 2 * m
      BY <1>9, <1>10 DEF m
    <2> QED
      BY <1>6, <2>1 DEF Distance
  <1> QED
    BY <1>2, <1>11 DEF SameShape, w, b

-----------------------------------------------------------------------------
(* The ladder after n steps down.                                          *)

Step(source, k) == RungAt(source, source[2] - HeightStep * k)

Rises(rungs) ==
  \A i \in 1 .. Len(rungs) - 1 : 100 * Area(rungs[i]) <= 85 * Area(rungs[i + 1])

(* A step is near a rung: as large, and no smaller than it may be. *)
Near(source, k, rung) ==
  LET step == Area(Step(source, k))
  IN  Area(rung) >= step /\ 100 * step > 85 * Area(rung) - 100

LadderAt(source, n, rungs) ==
  /\ rungs \in Seq(Picture) /\ rungs # <<>>
  /\ rungs[Len(rungs)] = source
  /\ \A i \in DOMAIN rungs : rungs[i] = source \/ \E k \in 1 .. n : rungs[i] = Step(source, k)
  /\ Rises(rungs)
  /\ \A i \in 1 .. Len(rungs) - 1 : Area(rungs[i]) < Area(source)
  /\ \A k \in 1 .. n : \E i \in DOMAIN rungs : Near(source, k, rungs[i])

(* The steps end above 180 lines, or above the source. *)
LEMMA StepHeights ==
  ASSUME NEW source \in Picture
  PROVE  /\ Steps(source) \in Nat
         /\ \A k \in 1 .. Steps(source) : source[2] - HeightStep * k \in 2 .. source[2]
  <1> DEFINE b == source[2]
             d == b - Least(180, b)
             n == d \div 90
  <1>1. b \in Nat /\ b >= 2
    BY DEF Picture
  <1>2. d \in Nat /\ d + 2 <= b
    BY <1>1 DEF Least
  <1>3. n = Steps(source)
    BY DEF Steps, HeightStep
  <1> HIDE DEF b, d
  <1>4. n \in Nat /\ 90 * n <= d
    BY <1>2
  <1> HIDE DEF n
  <1>5. ASSUME NEW k \in 1 .. n
        PROVE  b - 90 * k \in 2 .. b
    BY <1>1, <1>2, <1>4
  <1> QED
    BY <1>3, <1>4, <1>5 DEF b, HeightStep

LEMMA StepFits ==
  ASSUME NEW source \in Picture, NEW k \in 1 .. Steps(source)
  PROVE  /\ Step(source, k) \in Picture
         /\ Area(Step(source, k)) \in Nat /\ Area(source) \in Nat
         /\ Area(Step(source, k)) >= 4
         /\ Area(Step(source, k)) <= Area(source)
         /\ SameShape(Step(source, k), source)
         /\ \A j \in 1 .. Steps(source) : j < k => Area(Step(source, k)) <= Area(Step(source, j))
  <1>1. source[2] - HeightStep * k \in 2 .. source[2]
    BY StepHeights
  <1>2. /\ Step(source, k) \in Picture
        /\ Step(source, k)[1] <= source[1] /\ Step(source, k)[2] <= source[2]
    BY <1>1, RungFits DEF Step
  <1>3. SameShape(Step(source, k), source)
    BY <1>1, RungShape DEF Step
  <1>4. ASSUME NEW j \in 1 .. Steps(source), j < k
        PROVE  Area(Step(source, k)) <= Area(Step(source, j))
    <2>1. source[2] - HeightStep * j \in 2 .. source[2]
      BY StepHeights
    <2>2. source[2] \in Nat /\ k \in Nat /\ j \in Nat
      BY StepHeights DEF Picture
    <2>3. source[2] - HeightStep * k <= source[2] - HeightStep * j
      BY <1>4, <2>2 DEF HeightStep
    <2> QED
      BY <1>1, <2>1, <2>3, RungGrows DEF Step
  <1> QED
    BY <1>2, <1>3, <1>4, AreaGrows

(* A size or one too near to another: what IsMeaningfullySmaller says. *)
LEMMA Smaller ==
  ASSUME NEW p, NEW q, Area(p) \in Nat, Area(q) \in Nat
  PROVE  /\ IsMeaningfullySmaller(p, q) => 100 * Area(p) <= 85 * Area(q)
         /\ ~IsMeaningfullySmaller(p, q) => 100 * Area(p) > 85 * Area(q) - 100
  <1> DEFINE a == Area(p)
             b == Area(q)
             d == (b * 85) \div 100
  <1>1. IsMeaningfullySmaller(p, q) <=> a <= d
    BY DEF IsMeaningfullySmaller
  <1>2. a \in Nat /\ b \in Nat
    OBVIOUS
  <1> HIDE DEF a, b
  <1>3. d \in Nat /\ 100 * d <= 85 * b /\ 85 * b < 100 * d + 100
    BY <1>2
  <1> HIDE DEF d
  <1>4. /\ a <= d => 100 * a <= 85 * b
        /\ ~(a <= d) => 100 * a > 85 * b - 100
    BY <1>2, <1>3
  <1> QED
    BY <1>1, <1>4 DEF a, b

LEMMA Prepended ==
  ASSUME NEW X, NEW c \in X, NEW s \in Seq(X), s # <<>>
  PROVE  LET v == <<c>> \o s
         IN  /\ v \in Seq(X) /\ v # <<>> /\ Len(v) = Len(s) + 1 /\ Len(s) \in Nat \ {0}
             /\ DOMAIN v = 1 .. Len(s) + 1
             /\ v[1] = c /\ Head(s) = s[1]
             /\ \A i \in 1 .. Len(s) : v[i + 1] = s[i]
             /\ \A i \in 2 .. Len(s) + 1 : i - 1 \in 1 .. Len(s) /\ v[i] = s[i - 1]
  OBVIOUS

LEMMA LadderStep ==
  ASSUME NEW source \in Picture, NEW k \in 1 .. Steps(source), NEW above,
         LadderAt(source, k - 1, above)
  PROVE  LadderAt(source, k, Taken(source, above, k))
  <1> DEFINE c == Step(source, k)
             n == Len(above)
             head == Head(above)
  <1>0. k \in Nat /\ k >= 1 /\ Steps(source) \in Nat /\ k <= Steps(source)
    BY StepHeights
  <1>1. /\ above \in Seq(Picture) /\ above # <<>> /\ above[n] = source
        /\ \A i \in DOMAIN above : above[i] = source \/ \E j \in 1 .. k - 1 : above[i] = Step(source, j)
        /\ Rises(above)
        /\ \A i \in 1 .. n - 1 : Area(above[i]) < Area(source)
        /\ \A j \in 1 .. k - 1 : \E i \in DOMAIN above : Near(source, j, above[i])
    BY DEF LadderAt
  <1>2. n \in Nat /\ n >= 1 /\ DOMAIN above = 1 .. n /\ head = above[1]
    BY <1>1
  <1>3. /\ c \in Picture /\ Area(c) \in Nat /\ Area(source) \in Nat
        /\ Area(c) >= 4 /\ Area(c) <= Area(source)
    BY StepFits
  <1>4. /\ Area(head) \in Nat /\ Area(c) <= Area(head) /\ Area(head) <= Area(source)
    <2>1. CASE head = source
      BY <1>3, <2>1
    <2>2. CASE \E j \in 1 .. k - 1 : head = Step(source, j)
      <3>1. PICK j \in 1 .. k - 1 : head = Step(source, j)
        BY <2>2
      <3>2. j \in 1 .. Steps(source) /\ j < k
        BY <1>0
      <3> QED
        BY <3>1, <3>2, StepFits
    <2> QED
      BY <1>1, <1>2, <2>1, <2>2
  <1>5. Taken(source, above, k) = IF IsMeaningfullySmaller(c, head) THEN <<c>> \o above ELSE above
    BY DEF Taken, Step
  <1>6. /\ IsMeaningfullySmaller(c, head) => 100 * Area(c) <= 85 * Area(head)
        /\ ~IsMeaningfullySmaller(c, head) => 100 * Area(c) > 85 * Area(head) - 100
    BY <1>3, <1>4, Smaller
  <1>7. \A j \in 1 .. k : j = k \/ j \in 1 .. k - 1
    BY <1>0
  <1>8. \A j \in 1 .. k - 1 : j \in 1 .. k
    BY <1>0
  <1> HIDE DEF c, head, n
  <1>9. CASE ~IsMeaningfullySmaller(c, head)
    <2>1. Near(source, k, above[1])
      <3>1. Area(above[1]) >= Area(c) /\ 100 * Area(c) > 85 * Area(above[1]) - 100
        BY <1>2, <1>3, <1>4, <1>6, <1>9
      <3> QED
        BY <3>1 DEF Near, c
    <2>2. \A j \in 1 .. k : \E i \in DOMAIN above : Near(source, j, above[i])
      BY <1>1, <1>2, <1>7, <2>1
    <2>3. \A i \in DOMAIN above : above[i] = source \/ \E j \in 1 .. k : above[i] = Step(source, j)
      BY <1>1, <1>8
    <2>4. LadderAt(source, k, above)
      BY <1>1, <2>2, <2>3 DEF LadderAt, n
    <2> QED
      BY <1>5, <1>9, <2>4
  <1>10. CASE IsMeaningfullySmaller(c, head)
    <2> DEFINE v == <<c>> \o above
    <2>1. /\ v \in Seq(Picture) /\ v # <<>> /\ Len(v) = n + 1
          /\ DOMAIN v = 1 .. n + 1
          /\ v[1] = c
          /\ \A i \in 1 .. n : v[i + 1] = above[i]
          /\ \A i \in 2 .. n + 1 : i - 1 \in 1 .. n /\ v[i] = above[i - 1]
      BY <1>1, <1>3, Prepended DEF n
    <2> HIDE DEF v
    <2>2. v[Len(v)] = source
      BY <1>1, <1>2, <2>1
    <2>3. \A i \in DOMAIN v : i = 1 \/ i \in 2 .. n + 1
      BY <1>2, <2>1
    <2>4. \A i \in DOMAIN v : v[i] = source \/ \E j \in 1 .. k : v[i] = Step(source, j)
      <3> TAKE i \in DOMAIN v
      <3>1. CASE i = 1
        <4>1. k \in 1 .. k /\ v[i] = Step(source, k)
          BY <1>0, <2>1, <3>1 DEF c
        <4> QED
          BY <4>1
      <3>2. CASE i \in 2 .. n + 1
        <4>1. i - 1 \in DOMAIN above /\ v[i] = above[i - 1]
          BY <1>2, <2>1, <3>2
        <4>2. above[i - 1] = source \/ \E j \in 1 .. k - 1 : above[i - 1] = Step(source, j)
          BY <1>1, <4>1
        <4>3. above[i - 1] = source \/ \E j \in 1 .. k : above[i - 1] = Step(source, j)
          BY <1>8, <4>2
        <4> QED
          BY <4>1, <4>3
      <3> QED
        BY <2>3, <3>1, <3>2
    <2>5. Rises(v)
      <3> SUFFICES ASSUME NEW i \in 1 .. n
                   PROVE  100 * Area(v[i]) <= 85 * Area(v[i + 1])
        BY <1>2, <2>1 DEF Rises
      <3>1. CASE i = 1
        <4>1. v[i] = c /\ v[i + 1] = head
          BY <1>2, <2>1, <3>1
        <4> QED
          BY <1>6, <1>10, <4>1
      <3>2. CASE i # 1
        <4>1. i \in 2 .. n + 1 /\ i - 1 \in 1 .. n - 1 /\ (i - 1) + 1 = i
          BY <1>2, <3>2
        <4>2. v[i] = above[i - 1] /\ v[i + 1] = above[i]
          BY <2>1, <4>1
        <4>3. 100 * Area(above[i - 1]) <= 85 * Area(above[(i - 1) + 1])
          BY <1>1, <4>1 DEF Rises, n
        <4> QED
          BY <4>1, <4>2, <4>3
      <3> QED
        BY <3>1, <3>2
    <2>6. \A i \in 1 .. Len(v) - 1 : Area(v[i]) < Area(source)
      <3> SUFFICES ASSUME NEW i \in 1 .. n
                   PROVE  Area(v[i]) < Area(source)
        BY <1>2, <2>1
      <3>1. CASE i = 1
        BY <1>3, <1>4, <1>6, <1>10, <2>1, <3>1
      <3>2. CASE i # 1
        <4>1. i \in 2 .. n + 1 /\ i - 1 \in 1 .. n - 1
          BY <1>2, <3>2
        <4>2. v[i] = above[i - 1]
          BY <2>1, <4>1
        <4> QED
          BY <1>1, <4>1, <4>2
      <3> QED
        BY <3>1, <3>2
    <2>7. \A j \in 1 .. k : \E i \in DOMAIN v : Near(source, j, v[i])
      <3> TAKE j \in 1 .. k
      <3>1. CASE j = k
        <4>1. Near(source, k, v[1])
          <5>1. Area(c) >= Area(c) /\ 100 * Area(c) > 85 * Area(c) - 100
            BY <1>3
          <5> QED
            BY <2>1, <5>1 DEF Near, c
        <4>2. 1 \in DOMAIN v
          BY <1>2, <2>1
        <4> QED
          BY <3>1, <4>1, <4>2
      <3>2. CASE j \in 1 .. k - 1
        <4>1. PICK i \in DOMAIN above : Near(source, j, above[i])
          BY <1>1, <3>2
        <4>2. i + 1 \in DOMAIN v /\ v[i + 1] = above[i]
          BY <1>2, <2>1
        <4> QED
          BY <4>1, <4>2
      <3> QED
        BY <1>7, <3>1, <3>2
    <2>8. LadderAt(source, k, v)
      BY <2>1, <2>2, <2>4, <2>5, <2>6, <2>7 DEF LadderAt
    <2> QED
      BY <1>5, <1>10, <2>8 DEF v
  <1> QED
    BY <1>9, <1>10

LEMMA LadderStart ==
  ASSUME NEW source \in Picture
  PROVE  LadderAt(source, 0, <<source>>)
  <1> DEFINE v == <<source>>
  <1>1. v \in Seq(Picture) /\ v # <<>> /\ Len(v) = 1 /\ DOMAIN v = {1} /\ v[1] = source
    OBVIOUS
  <1> HIDE DEF v
  <1>2. LadderAt(source, 0, v)
    BY <1>1 DEF LadderAt, Rises
  <1> QED
    BY <1>2 DEF v

LEMMA LadderWhole ==
  ASSUME NEW source \in Picture
  PROVE  LadderAt(source, Steps(source), SnappedSizes(source))
  <1> DEFINE n == Steps(source)
  <1>1. n \in Nat
    BY StepHeights
  <1>2. PICK f : f = Rungs(source, n, f) /\ SnappedSizes(source) = f[n]
    BY <1>1, LadderIs
  <1> HIDE DEF n
  <1>3. \A k \in 0 .. n : f[k] = IF k = 0 THEN <<source>> ELSE Taken(source, f[k - 1], k)
    <2> DEFINE g == Rungs(source, n, f)
    <2>1. \A k \in 0 .. n : g[k] = IF k = 0 THEN <<source>> ELSE Taken(source, f[k - 1], k)
      BY DEF Rungs
    <2>2. f = g
      BY <1>2
    <2> HIDE DEF g
    <2> QED
      BY <2>1, <2>2
  <1> DEFINE T == {k \in 0 .. n : ~LadderAt(source, k, f[k])}
  <1>4. T = {}
    <2> SUFFICES ASSUME T # {}
                 PROVE  FALSE
      OBVIOUS
    <2>1. T \in SUBSET Nat
      BY <1>1
    <2>2. PICK k \in T : \A j \in T : k <= j
      BY <2>1, SmallestOf
    <2>3. k # 0
      BY <1>1, <1>3, <2>2, LadderStart
    <2>4. k \in 1 .. n /\ k - 1 \in 0 .. n /\ k - 1 \notin T
      BY <1>1, <2>2, <2>3
    <2>5. LadderAt(source, k - 1, f[k - 1])
      BY <2>4
    <2>6. LadderAt(source, k, Taken(source, f[k - 1], k))
      BY <2>4, <2>5, LadderStep DEF n
    <2>7. f[k] = Taken(source, f[k - 1], k)
      BY <1>3, <2>3, <2>4
    <2> QED
      BY <2>2, <2>6, <2>7
  <1>5. n \in 0 .. n
    BY <1>1
  <1> QED
    BY <1>2, <1>4, <1>5 DEF n

(* The rung nearest to the picture is the picture: no other has its area. *)
LEMMA LadderTop ==
  ASSUME NEW source \in Picture, NEW n \in Nat, n <= Steps(source),
         NEW rungs, LadderAt(source, n, rungs)
  PROVE  NearestIndex(rungs, Area(source)) = Len(rungs)
  <1> DEFINE t == Area(source)
             m == Len(rungs)
             Nearest(i) == /\ \A j \in DOMAIN rungs : Gap(rungs[i], t) <= Gap(rungs[j], t)
                         /\ \A j \in 1 .. i - 1 : Gap(rungs[i], t) < Gap(rungs[j], t)
  <1>1. /\ rungs \in Seq(Picture) /\ rungs # <<>> /\ rungs[m] = source
        /\ \A i \in 1 .. m - 1 : Area(rungs[i]) < t
    BY DEF LadderAt
  <1>2. m \in Nat /\ m >= 1 /\ DOMAIN rungs = 1 .. m
    BY <1>1
  <1>3. t \in Nat /\ \A i \in 1 .. m : Area(rungs[i]) \in Nat
    <2>1. \A p \in Picture : Area(p) \in Nat
      <3> TAKE p \in Picture
      <3>1. p[1] <= p[1] /\ p[2] <= p[2]
        BY DEF Picture
      <3> QED
        BY <3>1, AreaGrows
    <2> QED
      BY <1>1, <1>2, <2>1
  <1> HIDE DEF t, m
  <1>4. Gap(rungs[m], t) = 0
    BY <1>1, <1>3 DEF Gap, t
  <1>5. \A i \in 1 .. m - 1 : Gap(rungs[i], t) \in Nat /\ Gap(rungs[i], t) > 0
    <2> TAKE i \in 1 .. m - 1
    <2>1. i \in 1 .. m /\ Area(rungs[i]) \in Nat /\ Area(rungs[i]) < t
      BY <1>1, <1>2, <1>3
    <2> QED
      BY <1>3, <2>1 DEF Gap
  <1>6. \A i \in 1 .. m : i = m \/ i \in 1 .. m - 1
    BY <1>2
  <1>7. m \in DOMAIN rungs /\ Nearest(m)
    BY <1>2, <1>4, <1>5, <1>6
  <1>8. \A i \in DOMAIN rungs : Nearest(i) => i = m
    <2> SUFFICES ASSUME NEW i \in 1 .. m - 1, Nearest(i)
                 PROVE  FALSE
      BY <1>2, <1>6
    <2>1. Gap(rungs[i], t) <= Gap(rungs[m], t)
      BY <1>2
    <2> QED
      BY <1>4, <1>5, <2>1
  <1>9. NearestIndex(rungs, t) = CHOOSE i \in DOMAIN rungs : Nearest(i)
    BY DEF NearestIndex
  <1> HIDE DEF Nearest
  <1>10. NearestIndex(rungs, t) = m
    BY <1>7, <1>8, <1>9
  <1> QED
    BY <1>10 DEF t, m

LEMMA OwnShape ==
  ASSUME NEW source \in Picture
  PROVE  SameShape(source, source)
  <1> DEFINE a == source[1]
             b == source[2]
  <1>1. a \in Nat /\ b \in Nat
    BY DEF Picture
  <1>2. a * b \in Nat /\ b * a = a * b
    BY <1>1, Product
  <1>3. SameShape(source, source) <=> Distance(a * b, b * a) <= 2 * Most(a, b)
    BY DEF SameShape
  <1>4. Most(a, b) \in Nat
    BY <1>1 DEF Most
  <1> HIDE DEF a, b
  <1>5. Distance(a * b, b * a) = 0
    BY <1>2 DEF Distance
  <1> QED
    BY <1>3, <1>4, <1>5

-----------------------------------------------------------------------------
(* The ladder of a cast: what is resolved is cut once, and never again.    *)
LadderCut ==
    Mirrored =>
      /\ sizes = SnappedSizes(resolved.size)
      /\ start = NearestIndex(sizes, Area(resolved.size))

LEMMA CutStep == LadderCut /\ [QualityNext]_qualityVars => LadderCut'
  BY DEF LadderCut, Mirrored, QualityNext, ReceiveAnswer, StartMedia, Panic, FallBack,
         qualityVars

(* What is resolved is a picture that can be cut. *)
LEMMA Resolvable ==
  ASSUME Inv, Mirrored
  PROVE  resolved.size \in Picture
  <1> DEFINE W == MaxSize(Video)[1]
             H == MaxSize(Video)[2]
  <1>1. /\ resolved.size = <<Even(Most(Fitted[1], Least(Video.minWidth, W))),
                             Even(Most(Fitted[2], Least(Video.minHeight, H)))>>
        /\ Fitted[1] \in 2 .. W /\ Fitted[2] \in 2 .. H
    BY PictureSize
  <1>2. VideoFit(Video)
    BY Fit
  <1>3. W \in Nat /\ H \in Nat
    BY <1>2, Limits
  <1>4. Video.minWidth \in Int /\ Video.minHeight \in Int
    BY <1>2 DEF VideoFit
  <1> HIDE DEF W, H
  <1>5. /\ Fitted[1] \in Int /\ Fitted[1] >= 2 /\ Fitted[1] <= W
        /\ Fitted[2] \in Int /\ Fitted[2] >= 2 /\ Fitted[2] <= H
    BY <1>1, <1>3
  <1>6. W \in Int /\ H \in Int
    BY <1>3
  <1>7. LET x == Even(Most(Fitted[1], Least(Video.minWidth, W)))
        IN  x \in Nat /\ x >= 2
    BY <1>4, <1>5, <1>6, Sides
  <1>8. LET x == Even(Most(Fitted[2], Least(Video.minHeight, H)))
        IN  x \in Nat /\ x >= 2
    BY <1>4, <1>5, <1>6, Sides
  <1> QED
    BY <1>1, <1>7, <1>8 DEF Picture

(* For any picture mirroring is resolved to, the ladder cut from it climbs by   *)
(* 15 % of area a rung, keeps the picture's shape, leaves no step out that   *)
(* is not that near to a rung, and is entered at its top.                    *)
THEOREM LadderIsSound == QualitySpec => []LadderSound
  <1>1. QualityInit => LadderCut
    BY DEF QualityInit, LadderCut, Mirrored
  <1>2. Inv /\ LadderCut => LadderSound
    <2> SUFFICES ASSUME Inv, LadderCut, Mirrored
                 PROVE  LET source == resolved.size
                        IN  /\ sizes[Len(sizes)] = source
                            /\ start = Len(sizes)
                            /\ \A i \in 1 .. Len(sizes) - 1 :
                                 100 * Area(sizes[i]) <= 85 * Area(sizes[i + 1])
                            /\ \A i \in DOMAIN sizes : SameShape(sizes[i], source)
                            /\ \A k \in 1 .. Steps(source) :
                                 LET step == Area(RungAt(source, source[2] - HeightStep * k))
                                 IN  \E i \in DOMAIN sizes :
                                       /\ Area(sizes[i]) >= step
                                       /\ 100 * step > 85 * Area(sizes[i]) - 100
      BY DEF LadderSound
    <2> DEFINE source == resolved.size
               n == Steps(source)
    <2>1. source \in Picture
      BY Resolvable DEF LadderCut
    <2>2. /\ sizes = SnappedSizes(source)
          /\ start = NearestIndex(sizes, Area(source))
      BY DEF LadderCut
    <2> HIDE DEF source
    <2>3. n \in Nat /\ n <= n
      BY <2>1, StepHeights
    <2>4. LadderAt(source, n, sizes)
      BY <2>1, <2>2, LadderWhole
    <2>5. start = Len(sizes)
      BY <2>1, <2>2, <2>3, <2>4, LadderTop
    <2>6. \A i \in DOMAIN sizes : SameShape(sizes[i], source)
      <3> TAKE i \in DOMAIN sizes
      <3>1. CASE sizes[i] = source
        BY <2>1, <3>1, OwnShape
      <3>2. CASE \E k \in 1 .. n : sizes[i] = Step(source, k)
        BY <2>1, <3>2, StepFits
      <3> QED
        BY <2>4, <3>1, <3>2 DEF LadderAt
    <2>7. \A k \in 1 .. n : \E i \in DOMAIN sizes :
            LET step == Area(RungAt(source, source[2] - HeightStep * k))
            IN  Area(sizes[i]) >= step /\ 100 * step > 85 * Area(sizes[i]) - 100
      BY <2>4 DEF LadderAt, Near, Step
    <2> QED
      BY <2>4, <2>5, <2>6, <2>7 DEF LadderAt, Rises, source
  <1> QED
    BY <1>1, <1>2, CutStep, Invariance, PTL DEF QualitySpec
=============================================================================
