-------------------------- MODULE RateControlProofs --------------------------
(***************************************************************************)
(* What RateControl promises for every range, ladder, period and set of    *)
(* throughputs: the bitrate stays in the negotiated range and within what  *)
(* the link was measured to carry, and the picture grows only after a      *)
(* proving period of headroom.  And what it is told, by Bandwidth, for     *)
(* every ring of slices and set of round trips: the ring is a window over  *)
(* the last slices, a confirmation counts where it belongs, no estimate    *)
(* outlives the traffic it was made from, and none is below what the link  *)
(* was seen to carry.                                                      *)
(***************************************************************************)
EXTENDS RateControl, Bandwidth, FiniteSetTheorems, WellFoundedInduction, TLAPS

-----------------------------------------------------------------------------
(* The bitrate asked for.                                                  *)

(* A clamped target is in the range. *)
LEMMA ClampedInRange ==
    ASSUME NEW t \in Nat
    PROVE  Clamped(t) \in MinBps .. MaxBps
  BY RangeAssumption DEF Clamped, Higher, Lower

(* next_bitrate keeps a bitrate of the range in the range. *)
LEMMA NextInRange ==
    ASSUME NEW b \in MinBps .. MaxBps, NEW e \in Nat
    PROVE  NextBitrate(b, e) \in MinBps .. MaxBps
  <1> DEFINE t == IF Usable(e) < b THEN Usable(e) ELSE Increased(b)
  <1>1. t \in Nat
    BY RangeAssumption DEF Usable, Increased
  <1>2. Clamped(t) \in MinBps .. MaxBps
    BY <1>1, ClampedInRange
  <1>3. NextBitrate(b, e) \in {Clamped(t), b}
    BY DEF NextBitrate
  <1> QED
    BY <1>2, <1>3

(* What it asks for is within the estimate, or within the dead band above    *)
(* the floor.                                                                *)
LEMMA NextWithinEstimate ==
    ASSUME NEW b \in MinBps .. MaxBps, NEW e \in Nat
    PROVE  LET n == NextBitrate(b, e)
           IN  n <= e \/ n - (n \div 20) <= MinBps
  <1> DEFINE n == NextBitrate(b, e)
  <1>b. b \in Nat /\ MinBps \in Nat /\ MaxBps \in Nat /\ b >= MinBps /\ b <= MaxBps
    BY RangeAssumption
  <1>1. CASE Usable(e) < b
    <2> DEFINE t == Clamped(Usable(e))
    <2>1. t = Higher(MinBps, Usable(e))
      BY <1>1, <1>b DEF Clamped, Higher, Lower, Usable
    <2>2. t <= b /\ t \in Nat
      BY <1>1, <1>b, <2>1 DEF Higher, Usable
    <2>3. n = IF b - t > b \div 20 THEN t ELSE b
      BY <1>1, <1>b, <2>2 DEF NextBitrate
    <2>4. Usable(e) <= e
      BY DEF Usable
    <2>5. CASE n = t
      BY <1>b, <2>1, <2>4, <2>5 DEF Higher, Usable
    <2>6. CASE n = b /\ b - t <= b \div 20 /\ t = MinBps
      BY <1>b, <2>6
    <2>7. CASE n = b /\ b - t <= b \div 20 /\ t = Usable(e)
      <3>1. b - (b \div 20) <= (4 * e) \div 5
        BY <1>b, <2>7 DEF Usable
      <3>2. b <= e
        BY <1>b, <3>1
      <3> QED
        BY <2>7, <3>2
    <2> QED
      BY <1>b, <2>1, <2>2, <2>3, <2>5, <2>6, <2>7 DEF Higher, Usable
  <1>2. CASE ~(Usable(e) < b)
    <2> DEFINE t == Clamped(Increased(b))
    <2>1. b <= Usable(e)
      BY <1>2, <1>b DEF Usable
    <2>2. t <= Increased(b)
      BY <1>b, RangeAssumption DEF Clamped, Higher, Lower, Increased
    <2>3. Increased(b) <= e /\ b <= e
      BY <1>b, <2>1 DEF Increased, Usable
    <2>4. n \in {t, b}
      BY <1>2 DEF NextBitrate
    <2>5. t \in Nat
      BY <1>b, ClampedInRange, RangeAssumption DEF Increased
    <2> QED
      BY <1>b, <2>2, <2>3, <2>4, <2>5 DEF Increased
  <1> QED
    BY <1>1, <1>2

-----------------------------------------------------------------------------
(* The invariant: headroom lasts only as long as the ceiling was seen and    *)
(* the size was held, and nothing counts it when the size is the user's.     *)
HeadroomTrue ==
    /\ headroomFor # NoHeadroom => headroomFor <= belowFor /\ headroomFor <= heldFor
    /\ ~autoSize => headroomFor = NoHeadroom

RInv == RateTypeOK /\ HeadroomTrue

LEMMA LongestNat == Longest \in Nat /\ MinHold <= Longest /\ Proving <= Longest
  BY PeriodAssumption DEF Longest, Higher

LEMMA InitRInv == RateInit => RInv
  <1> SUFFICES ASSUME RateInit PROVE RInv
    OBVIOUS
  <1>1. autoRate \in BOOLEAN /\ autoSize \in BOOLEAN /\ due \in BOOLEAN
    BY DEF RateInit
  <1>2. bps \in MinBps .. MaxBps /\ rung \in 1 .. Rungs /\ link \in Link
    BY RangeAssumption, LadderAssumption DEF RateInit
  <1>3. heldFor \in 0 .. Longest /\ belowFor \in 0 .. Longest
    BY LongestNat DEF RateInit
  <1>4. headroomFor = NoHeadroom
    BY DEF RateInit
  <1> QED
    BY <1>1, <1>2, <1>3, <1>4 DEF RInv, RateTypeOK, HeadroomTrue

(* What one observation of the ladder does to the ages. *)
LEMMA ObserveKeeps ==
    ASSUME RateTypeOK, HeadroomTrue, bps' \in MinBps .. MaxBps, Observe, autoSize,
           belowFor' = IF AtCeiling THEN belowFor ELSE 0
    PROVE  /\ rung' \in 1 .. Rungs
           /\ heldFor' \in 0 .. Longest
           /\ headroomFor' \in 0 .. Longest \cup {NoHeadroom}
           /\ headroomFor' # NoHeadroom =>
                 headroomFor' <= belowFor' /\ headroomFor' <= heldFor'
           /\ rung' > rung => heldFor >= Proving /\ belowFor >= Proving
  <1>t. /\ rung \in 1 .. Rungs /\ heldFor \in 0 .. Longest
        /\ belowFor \in 0 .. Longest
        /\ headroomFor \in 0 .. Longest \cup {NoHeadroom}
    BY DEF RateTypeOK
  <1>h. /\ Headroom \in 0 .. Longest \cup {NoHeadroom}
        /\ Headroom # NoHeadroom => /\ AtCeiling
                                    /\ Headroom <= belowFor /\ Headroom <= heldFor
    BY <1>t, LongestNat DEF Headroom, HeadroomTrue, NoHeadroom
  <1>1. CASE GoesDown /\ Moved(rung - 1)
    BY <1>1, <1>t, LongestNat, LadderAssumption DEF GoesDown, Moved, NoHeadroom
  <1>2. CASE GoesUp /\ Moved(rung + 1)
    <2>1. Headroom >= Proving /\ Headroom # NoHeadroom /\ rung < Rungs
      BY <1>2, PeriodAssumption DEF GoesUp, NoHeadroom
    <2> QED
      BY <1>2, <2>1, <1>t, <1>h, LongestNat, PeriodAssumption, LadderAssumption
         DEF Moved, NoHeadroom
  <1>3. CASE ~GoesDown /\ ~GoesUp /\ headroomFor' = Headroom /\ UNCHANGED <<rung, heldFor>>
    BY <1>3, <1>t, <1>h, LadderAssumption DEF NoHeadroom
  <1> QED
    BY <1>1, <1>2, <1>3 DEF Observe

LEMMA ControlKeeps == RInv /\ ControlRate => RInv'
  <1> SUFFICES ASSUME RateTypeOK, HeadroomTrue, ControlRate PROVE RInv'
    BY DEF RInv
  <1>l. link \in Nat
    BY LinkAssumption DEF RateTypeOK
  <1>1. bps' \in MinBps .. MaxBps
    BY <1>l, NextInRange DEF ControlRate, RateTypeOK
  <1>2. belowFor' = (IF AtCeiling THEN belowFor ELSE 0) /\ belowFor' \in 0 .. Longest
    BY LongestNat DEF ControlRate, RateTypeOK
  <1>3. CASE autoSize
    <2>1. Observe
      BY <1>3 DEF ControlRate
    <2> QED
      BY <1>1, <1>2, <1>3, <2>1, ObserveKeeps DEF RInv, RateTypeOK, HeadroomTrue, ControlRate
  <1>4. CASE ~autoSize
    BY <1>1, <1>2, <1>4 DEF RInv, RateTypeOK, HeadroomTrue, ControlRate
  <1> QED
    BY <1>3, <1>4

LEMMA IntervalKeeps == RInv /\ Interval => RInv'
  BY LongestNat DEF RInv, RateTypeOK, HeadroomTrue, Interval, Older, Lower, NoHeadroom

LEMMA NextRInv == RInv /\ [RateNext]_rateVars => RInv'
  <1>1. RInv /\ NoEstimate => RInv'
    <2> SUFFICES ASSUME RInv, NoEstimate PROVE RInv'
      OBVIOUS
    <2>1. due' \in BOOLEAN
      BY DEF NoEstimate
    <2>2. UNCHANGED <<autoRate, autoSize, bps, rung, heldFor, headroomFor, link, belowFor>>
      BY DEF NoEstimate
    <2> QED
      BY <2>1, <2>2 DEF RInv, RateTypeOK, HeadroomTrue
  <1>2. RInv /\ LinkChanges => RInv'
    BY DEF RInv, RateTypeOK, HeadroomTrue, LinkChanges
  <1>3. RInv /\ UNCHANGED rateVars => RInv'
    BY DEF RInv, RateTypeOK, HeadroomTrue, rateVars
  <1> QED
    BY <1>1, <1>2, <1>3, ControlKeeps, IntervalKeeps DEF RateNext

LEMMA Invariance == RateSpec => []RInv
  BY InitRInv, NextRInv, PTL DEF RateSpec

-----------------------------------------------------------------------------
(* The variables keep their types; above all the bitrate never leaves the    *)
(* range negotiated with the receiver (control_rate, next_bitrate).          *)
THEOREM TypeCorrect == RateSpec => []RateTypeOK
  <1>1. RInv => RateTypeOK
    BY DEF RInv
  <1> QED
    BY Invariance, <1>1, PTL

(* What the loop asks for is within the measured throughput, but for the     *)
(* floor and the dead band (next_bitrate).                                   *)
THEOREM StaysWithinLink == RateSpec => WithinLink
  <1>1. RInv => [ControlRate /\ autoRate =>
                    bps' <= link \/ bps' - (bps' \div 20) <= MinBps]_rateVars
    BY LinkAssumption, NextWithinEstimate DEF RInv, RateTypeOK, ControlRate
  <1> QED
    BY Invariance, <1>1, PTL DEF WithinLink

(* The ladder grows the picture only after a proving period of unbroken      *)
(* headroom at an unchanged size (ResolutionLadder::observe).                *)
THEOREM GrowthIsProven == RateSpec => UpIsProven
  <1>1. RInv /\ [RateNext]_rateVars =>
           [rung' > rung => heldFor >= Proving /\ belowFor >= Proving]_rateVars
    <2> SUFFICES ASSUME RateTypeOK, HeadroomTrue, RateNext, rung' > rung
                 PROVE  heldFor >= Proving /\ belowFor >= Proving
      BY DEF RInv
    <2>1. ControlRate /\ autoSize
      BY DEF RateNext, ControlRate, NoEstimate, Interval, LinkChanges, RateTypeOK
    <2>2. bps' \in MinBps .. MaxBps
      BY <2>1, LinkAssumption, NextInRange DEF ControlRate, RateTypeOK
    <2> QED
      BY <2>1, <2>2, ObserveKeeps DEF ControlRate
  <1> QED
    BY Invariance, <1>1, PTL DEF RateSpec, UpIsProven

-----------------------------------------------------------------------------
(* Bandwidth: division.                                                    *)

(* Division by a positive number. *)
LEMMA DivMod ==
    ASSUME NEW a \in Int, NEW n \in Nat \ {0}
    PROVE  /\ a \div n \in Int /\ a % n \in 0 .. n - 1
           /\ a = n * (a \div n) + (a % n)
  OBVIOUS

LEMMA Multiples ==
    ASSUME NEW n \in Nat \ {0}, NEW p \in Int, NEW q \in Int, p < q
    PROVE  n * p + n <= n * q /\ n * p \in Int /\ n * q \in Int
  <1>1. n * (q - p) >= n
    BY p < q
  <1>2. n * (q - p) = n * q - n * p
    OBVIOUS
  <1>3. n * p \in Int /\ n * q \in Int
    OBVIOUS
  <1> QED
    BY <1>1, <1>2, <1>3

LEMMA Unique ==
    ASSUME NEW n \in Nat \ {0}, NEW q \in Int, NEW r \in 0 .. n - 1
    PROVE  (n * q + r) \div n = q /\ (n * q + r) % n = r
  <1> DEFINE a == n * q + r
             d == a \div n
             m == a % n
  <1>1. a \in Int /\ n * q \in Int
    OBVIOUS
  <1>2. d \in Int /\ m \in 0 .. n - 1 /\ a = n * d + m
    BY <1>1, DivMod
  <1> HIDE DEF d, m
  <1>3. ~(d < q)
    <2> SUFFICES ASSUME d < q
                 PROVE  FALSE
      OBVIOUS
    <2>1. n * d + n <= n * q /\ n * d \in Int
      BY <1>2, Multiples
    <2> QED
      BY <1>1, <1>2, <2>1
  <1>4. ~(q < d)
    <2> SUFFICES ASSUME q < d
                 PROVE  FALSE
      OBVIOUS
    <2>1. n * q + n <= n * d /\ n * d \in Int
      BY <1>2, Multiples
    <2> QED
      BY <1>1, <1>2, <2>1
  <1>5. d = q
    BY <1>2, <1>3, <1>4
  <1>6. m = r
    BY <1>1, <1>2, <1>5
  <1> QED
    BY <1>5, <1>6 DEF d, m

LEMMA DivGrows ==
    ASSUME NEW n \in Nat \ {0}, NEW a \in Int, NEW b \in Int, a <= b
    PROVE  a \div n <= b \div n
  <1> DEFINE p == a \div n
             q == b \div n
  <1>1. /\ p \in Int /\ q \in Int
        /\ a = n * p + (a % n) /\ b = n * q + (b % n)
        /\ a % n \in 0 .. n - 1 /\ b % n \in 0 .. n - 1
    BY DivMod
  <1> HIDE DEF p, q
  <1>2. ~(q < p)
    <2> SUFFICES ASSUME q < p
                 PROVE  FALSE
      OBVIOUS
    <2>1. n * q + n <= n * p /\ n * q \in Int /\ n * p \in Int
      BY <1>1, Multiples
    <2> DEFINE l == a % n
               m == b % n
    <2>2. a = n * p + l /\ b = n * q + m /\ l \in 0 .. n - 1 /\ m \in 0 .. n - 1
      BY <1>1
    <2> HIDE DEF l, m
    <2> QED
      BY <2>1, <2>2
  <1>3. p <= q
    BY <1>1, <1>2
  <1> QED
    BY <1>3 DEF p, q

(* n multiples more are n more. *)
LEMMA DivShift ==
    ASSUME NEW n \in Nat \ {0}, NEW q \in Int, NEW a \in Int
    PROVE  (n * q + a) \div n = q + a \div n /\ (n * q + a) % n = a % n
  <1> DEFINE d == a \div n
             m == a % n
  <1>1. d \in Int /\ m \in 0 .. n - 1 /\ a = n * d + m
    BY DivMod
  <1>2. n * q + a = n * (q + d) + m
    <2>1. n * (q + d) = n * q + n * d
      BY <1>1
    <2>2. n * q \in Int /\ n * d \in Int
      BY <1>1
    <2> HIDE DEF d, m
    <2> QED
      BY <1>1, <2>1, <2>2
  <1> HIDE DEF d, m
  <1>3. (n * (q + d) + m) \div n = q + d /\ (n * (q + d) + m) % n = m
    BY <1>1, Unique
  <1> QED
    BY <1>2, <1>3 DEF d, m

(* The ring. *)
LEMMA RingStep ==
    ASSUME NEW n \in Nat \ {0}, NEW a \in Int, NEW b \in Int
    PROVE  ((a % n) + b) % n = (a + b) % n
  <1> DEFINE d == a \div n
             m == a % n
  <1>1. d \in Int /\ m \in 0 .. n - 1 /\ a = n * d + m /\ n * d \in Int
    BY DivMod
  <1>2. a + b = n * d + (m + b) /\ m + b \in Int
    <2> HIDE DEF d, m
    <2> QED
      BY <1>1
  <1>3. (n * d + (m + b)) % n = (m + b) % n
    <2> HIDE DEF d, m
    <2> QED
      BY <1>1, <1>2, DivShift
  <1> QED
    BY <1>2, <1>3

LEMMA RingApart ==
    ASSUME NEW n \in Nat \ {0}, NEW a \in Int, NEW b \in Int, a < b, b - a < n
    PROVE  a % n # b % n
  <1> SUFFICES ASSUME a % n = b % n
               PROVE  FALSE
    OBVIOUS
  <1> DEFINE p == a \div n
             q == b \div n
             m == a % n
  <1>1. /\ p \in Int /\ q \in Int /\ m \in 0 .. n - 1
        /\ a = n * p + m /\ b = n * q + m
        /\ n * p \in Int /\ n * q \in Int
    BY DivMod
  <1> HIDE DEF p, q, m
  <1>2. p < q
    <2>1. CASE q < p
      <3>1. n * q + n <= n * p
        BY <1>1, <2>1, Multiples
      <3> QED
        BY <1>1, <3>1
    <2>2. p # q
      BY <1>1
    <2> QED
      BY <1>1, <2>1, <2>2
  <1>3. n * p + n <= n * q
    BY <1>1, <1>2, Multiples
  <1> QED
    BY <1>1, <1>3

-----------------------------------------------------------------------------
(* Bandwidth: trackers.                                                    *)

Tracker == [history : [Ring -> Nat], head : Ring, started : Nat, first : Int, last : Int]

(* The newest slice starts where a slice does, and the head is its place in  *)
(* the ring.                                                                 *)
Aligned(tr) ==
    /\ tr.started = SliceLen * SliceOf(tr.started)
    /\ tr.head = SliceOf(tr.started) % Slices

LEMMA SliceIsNat ==
    ASSUME NEW t \in Nat
    PROVE  SliceOf(t) \in Nat /\ SliceOf(t) <= t
  <1> DEFINE q == t \div SliceLen
             r == t % SliceLen
  <1>1. q \in Int /\ r \in 0 .. SliceLen - 1 /\ t = SliceLen * q + r /\ SliceLen \in Nat \ {0}
    BY DivMod, RingAssumption
  <1> HIDE DEF q, r
  <1>2. ~(q < 0)
    <2> SUFFICES ASSUME q < 0
                 PROVE  FALSE
      OBVIOUS
    <2>1. SliceLen * q + SliceLen <= SliceLen * 0 /\ SliceLen * q \in Int
      BY <1>1, Multiples
    <2> QED
      BY <1>1, <2>1
  <1>3. q <= SliceLen * q
    <2>1. SliceLen - 1 \in Nat /\ q \in Nat
      BY <1>1, <1>2
    <2>2. (SliceLen - 1) * q \in Nat
      BY <2>1
    <2>3. (SliceLen - 1) * q = SliceLen * q - q
      BY <1>1
    <2>4. SliceLen * q \in Int
      BY <1>1
    <2> QED
      BY <1>1, <2>2, <2>3, <2>4
  <1>4. SliceLen * q \in Int
    BY <1>1
  <1>5. q \in Nat /\ q <= t
    BY <1>1, <1>2, <1>3, <1>4
  <1> QED
    BY <1>5 DEF SliceOf, q

(* How far a tracker is moved on. *)
LEMMA Passed ==
    ASSUME NEW tr \in Tracker, Aligned(tr), NEW t \in Int
    PROVE  LET p == SlicesPassed(tr, t)
               k == SliceOf(tr.started)
               e == tr.started + p * SliceLen
           IN  /\ p \in Nat /\ k \in Nat /\ e \in Nat
               /\ SliceOf(e) = k + p
               /\ e = SliceLen * (k + p)
               /\ k + p = IF t <= tr.started THEN k ELSE SliceOf(t)
               /\ e <= t \/ e = tr.started
  <1> DEFINE k == SliceOf(tr.started)
             p == SlicesPassed(tr, t)
             e == tr.started + p * SliceLen
  <1>1. /\ tr.started \in Nat /\ k \in Nat /\ tr.started = SliceLen * k
        /\ SliceLen \in Nat \ {0}
    BY SliceIsNat, RingAssumption DEF Tracker, Aligned
  <1> HIDE DEF k
  <1>2. CASE t <= tr.started
    <2>1. p = 0
      BY <1>2 DEF SlicesPassed
    <2>2. e = tr.started /\ k + p = k
      BY <1>1, <2>1
    <2>3. SliceOf(tr.started) = k
      BY DEF k
    <2> QED
      BY <1>1, <1>2, <2>1, <2>2, <2>3 DEF k
  <1>3. CASE ~(t <= tr.started)
    <2> DEFINE r == t - tr.started
    <2>1. r \in Nat /\ t = SliceLen * k + r /\ t \in Nat
      BY <1>1, <1>3
    <2>2. p = r \div SliceLen
      BY <1>3 DEF SlicesPassed
    <2>3. p \in Nat
      BY <2>1, <2>2, SliceIsNat DEF SliceOf
    <2>4. SliceOf(t) = k + p
      <3> HIDE DEF r
      <3>1. (SliceLen * k + r) \div SliceLen = k + r \div SliceLen
        BY <1>1, <2>1, DivShift
      <3> QED
        BY <2>1, <2>2, <3>1 DEF SliceOf
    <2>5. e = SliceLen * (k + p)
      <3> HIDE DEF p
      <3>1. SliceLen * (k + p) = SliceLen * k + p * SliceLen
        BY <1>1, <2>3
      <3> QED
        BY <1>1, <3>1
    <2>6. SliceOf(e) = k + p /\ e \in Nat
      <3> HIDE DEF p, e
      <3>1. (SliceLen * (k + p) + 0) \div SliceLen = k + p
        BY <1>1, <2>3, Unique
      <3>2. SliceLen * (k + p) \in Nat
        BY <1>1, <2>3
      <3> QED
        BY <2>5, <3>1, <3>2 DEF SliceOf
    <2>7. e <= t
      <3>1. /\ r \div SliceLen \in Int /\ r % SliceLen \in 0 .. SliceLen - 1
            /\ r = SliceLen * (r \div SliceLen) + (r % SliceLen)
        <4> HIDE DEF r
        <4> QED
          BY <1>1, <2>1, DivMod
      <3> DEFINE m == r % SliceLen
      <3>2. r = SliceLen * p + m /\ m \in Nat
        BY <2>2, <3>1, <1>1
      <3> HIDE DEF r, p, m
      <3>3. SliceLen * p = p * SliceLen /\ p * SliceLen \in Nat
        BY <1>1, <2>3
      <3>4. p * SliceLen <= r
        BY <2>1, <3>2, <3>3
      <3> QED
        BY <1>1, <2>1, <3>3, <3>4 DEF r
    <2> QED
      BY <1>1, <1>3, <2>3, <2>4, <2>5, <2>6, <2>7 DEF k
  <1> QED
    BY <1>2, <1>3

LEMMA Advanced ==
    ASSUME NEW tr \in Tracker, Aligned(tr), NEW t \in Int
    PROVE  LET new == AdvanceTo(tr, t)
               p == SlicesPassed(tr, t)
           IN  /\ new \in Tracker /\ Aligned(new)
               /\ new.first = tr.first /\ new.last = tr.last
               /\ new.started = tr.started + p * SliceLen
               /\ new.head = SliceOf(new.started) % Slices
               /\ \A i \in Ring : new.history[i] =
                    IF p >= Slices \/ \E step \in 1 .. p : i = (tr.head + step) % Slices
                    THEN 0 ELSE tr.history[i]
  <1> DEFINE p == SlicesPassed(tr, t)
             k == SliceOf(tr.started)
             e == tr.started + p * SliceLen
             h == [i \in Ring |->
                     IF p >= Slices \/ \E step \in 1 .. p : i = (tr.head + step) % Slices
                     THEN 0 ELSE tr.history[i]]
             new == AdvanceTo(tr, t)
  <1>1. /\ p \in Nat /\ k \in Nat /\ e \in Nat
        /\ SliceOf(e) = k + p /\ e = SliceLen * (k + p)
    BY Passed
  <1>2. new = [tr EXCEPT !.history = h, !.head = (@ + p) % Slices, !.started = @ + p * SliceLen]
    BY DEF AdvanceTo
  <1>3. h \in [Ring -> Nat]
    BY DEF Tracker
  <1>4. (tr.head + p) % Slices = (k + p) % Slices
    <2> HIDE DEF p, k
    <2>1. tr.head = k % Slices
      BY DEF Aligned, k
    <2>2. k \in Int /\ p \in Int /\ Slices \in Nat \ {0}
      BY <1>1, RingAssumption
    <2>3. ((k % Slices) + p) % Slices = (k + p) % Slices
      BY <2>2, RingStep, Zenon
    <2> QED
      BY <2>1, <2>3
  <1>5. (k + p) % Slices \in Ring
    <2> HIDE DEF p, k
    <2> QED
      BY <1>1, DivMod, RingAssumption DEF Ring
  <1> HIDE DEF h, p, k
  <1>6. /\ new.history = h /\ new.head = (tr.head + p) % Slices /\ new.started = e
        /\ new.first = tr.first /\ new.last = tr.last
    BY <1>2 DEF Tracker
  <1>7. new \in Tracker
    BY <1>1, <1>2, <1>3, <1>4, <1>5 DEF Tracker
  <1> HIDE DEF new, e
  <1>8. Aligned(new)
    BY <1>1, <1>4, <1>6 DEF Aligned
  <1>9. new.head = SliceOf(new.started) % Slices
    BY <1>8 DEF Aligned
  <1> QED
    BY <1>6, <1>7, <1>8, <1>9 DEF new, e, h, p

LEMMA Accumulated ==
    ASSUME NEW tr \in Tracker, Aligned(tr), NEW n \in Nat, NEW t \in Int
    PROVE  LET moved == AdvanceTo(tr, t)
               new == Accumulate(tr, n, t)
           IN  /\ new \in Tracker /\ Aligned(new)
               /\ new.started = moved.started /\ new.last = t
               /\ \A i \in Ring : new.history[i] =
                    moved.history[i] + (IF i = moved.head THEN n ELSE 0)
  <1> DEFINE moved == AdvanceTo(tr, t)
             new == Accumulate(tr, n, t)
             h == [moved.history EXCEPT ![moved.head] = @ + n]
             first == IF moved.first = Never THEN t ELSE moved.first
  <1>1. moved \in Tracker /\ Aligned(moved)
    BY Advanced
  <1>2. new = [moved EXCEPT !.history[moved.head] = @ + n,
                            !.first = IF @ = Never THEN t ELSE @, !.last = t]
    BY DEF Accumulate
  <1> HIDE DEF moved, new
  <1>3. h \in [Ring -> Nat]
    BY <1>1 DEF Tracker
  <1>4. \A i \in Ring : h[i] = moved.history[i] + (IF i = moved.head THEN n ELSE 0)
    BY <1>1 DEF Tracker
  <1>5. first \in Int
    BY <1>1 DEF Tracker
  <1>6. /\ new.history = h /\ new.head = moved.head /\ new.started = moved.started
        /\ new.first = first /\ new.last = t
        /\ new = [history |-> h, head |-> moved.head, started |-> moved.started,
                  first |-> first, last |-> t]
    BY <1>1, <1>2 DEF Tracker
  <1> HIDE DEF h, first
  <1>7. new \in Tracker
    BY <1>1, <1>3, <1>5, <1>6 DEF Tracker
  <1>8. Aligned(new)
    BY <1>1, <1>6 DEF Aligned
  <1> QED
    BY <1>4, <1>6, <1>7, <1>8 DEF moved, new

-----------------------------------------------------------------------------
(* Bandwidth: what a tracker keeps, by slice numbers.                      *)

KeptIn(tr, s) ==
    LET edge == SliceOf(tr.started)
    IN  IF s <= edge /\ s + Slices > edge THEN tr.history[s % Slices] ELSE 0

(* A tracker moved on to t and given n is the window moved on and given n.   *)
LEMMA Slides ==
    ASSUME NEW tr \in Tracker, Aligned(tr), NEW t \in Int, NEW n \in Nat,
           NEW new \in Tracker, new.started = AdvanceTo(tr, t).started,
           \A i \in Ring : new.history[i] =
              AdvanceTo(tr, t).history[i] + (IF i = AdvanceTo(tr, t).head THEN n ELSE 0)
    PROVE  LET edge == SliceOf(tr.started)
               to == SliceOf(new.started)
           IN  /\ edge \in Nat /\ to \in Nat
               /\ to = IF t <= tr.started THEN edge ELSE SliceOf(t)
               /\ to >= edge
               /\ \A s \in Nat : KeptIn(new, s) =
                     (IF s + Slices > to THEN KeptIn(tr, s) ELSE 0) + (IF s = to THEN n ELSE 0)
  <1> DEFINE p == SlicesPassed(tr, t)
             k == SliceOf(tr.started)
             e == SliceOf(new.started)
             moved == AdvanceTo(tr, t)
  <1>0. Slices \in Nat \ {0} /\ Slices \in Int
    BY RingAssumption
  <1>1. /\ p \in Nat /\ k \in Nat /\ e = k + p
        /\ e = IF t <= tr.started THEN k ELSE SliceOf(t)
    BY Passed, Advanced
  <1>2. /\ Slices \in Nat \ {0} /\ Slices \in Int
        /\ moved.head = e % Slices /\ tr.head = k % Slices
        /\ \A i \in Ring : moved.history[i] =
             IF p >= Slices \/ \E step \in 1 .. p : i = (tr.head + step) % Slices
             THEN 0 ELSE tr.history[i]
    <2>1. moved.head = SliceOf(moved.started) % Slices /\ moved.started = new.started
      BY Advanced
    <2>2. moved.head = e % Slices
      <3> HIDE DEF moved
      <3> QED
        BY <2>1
    <2>3. tr.head = k % Slices
      BY DEF Aligned
    <2>4. \A i \in Ring : moved.history[i] =
             IF p >= Slices \/ \E step \in 1 .. p : i = (tr.head + step) % Slices
             THEN 0 ELSE tr.history[i]
      BY Advanced
    <2> HIDE DEF moved, p, k, e
    <2> QED
      BY <1>0, <2>2, <2>3, <2>4
  <1>3. \A i \in Ring : new.history[i] = moved.history[i] + (IF i = moved.head THEN n ELSE 0)
    OBVIOUS
  <1>4. \A i \in Ring : tr.history[i] \in Nat
    BY DEF Tracker
  <1> HIDE DEF p, moved
  <1>5. ASSUME NEW s \in Nat
        PROVE  KeptIn(new, s) =
                 (IF s + Slices > e THEN KeptIn(tr, s) ELSE 0) + (IF s = e THEN n ELSE 0)
    <2> DEFINE i == s % Slices
    <2>0. s \in Int /\ k \in Int /\ e \in Int
      BY <1>1
    <2>1. i \in Ring
      BY <1>2, <2>0, DivMod DEF Ring
    <2>2. /\ KeptIn(new, s) = IF s <= e /\ s + Slices > e THEN new.history[i] ELSE 0
          /\ KeptIn(tr, s) = IF s <= k /\ s + Slices > k THEN tr.history[i] ELSE 0
      BY DEF KeptIn
    <2> HIDE DEF k, e
    <2>3. CASE ~(s <= e /\ s + Slices > e)
      <3>1. s # e /\ (s + Slices > e => ~(s <= k))
        BY <1>1, <1>2, <2>3
      <3> HIDE DEF i
      <3> QED
        BY <2>2, <2>3, <3>1
    <2>4. CASE s <= e /\ s + Slices > e
      <3>1. i = moved.head <=> s = e
        <4>1. CASE s = e
          BY <1>2, <4>1
        <4>2. CASE s # e
          <5>1. s < e /\ e - s < Slices
            BY <1>1, <1>2, <2>4, <4>2
          <5>2. s % Slices # e % Slices
            BY <1>2, <2>0, <5>1, RingApart
          <5> QED
            BY <1>2, <4>2, <5>2
        <4> QED
          BY <4>1, <4>2
      <3>2. ASSUME NEW step \in 1 .. p
            PROVE  (tr.head + step) % Slices = (k + step) % Slices
        <4>1. step \in Int
          OBVIOUS
        <4>2. ((k % Slices) + step) % Slices = (k + step) % Slices
          BY <1>0, <2>0, <4>1, RingStep, Zenon
        <4> QED
          BY <1>2, <4>2
      <3>3. CASE s <= k
        <4>1. s + Slices > k /\ ~(p >= Slices)
          BY <1>1, <1>2, <2>4, <3>3
        <4>2. ASSUME NEW step \in 1 .. p
              PROVE  i # (tr.head + step) % Slices
          <5>1. k + step \in Int /\ s < k + step /\ (k + step) - s < Slices
            BY <1>1, <1>2, <2>4, <3>3
          <5>2. s % Slices # (k + step) % Slices
            BY <1>2, <2>0, <5>1, RingApart
          <5> QED
            BY <3>2, <5>2
        <4>3. moved.history[i] = tr.history[i]
          BY <1>2, <2>1, <4>1, <4>2
        <4> HIDE DEF i
        <4>4. KeptIn(tr, s) = tr.history[i]
          BY <2>2, <3>3, <4>1
        <4> QED
          BY <1>3, <2>1, <2>2, <2>4, <3>1, <4>3, <4>4
      <3>4. CASE ~(s <= k)
        <4>1. s - k \in 1 .. p /\ k + (s - k) = s
          BY <1>1, <2>4, <3>4
        <4>2. i = (tr.head + (s - k)) % Slices
          BY <3>2, <4>1
        <4>3. moved.history[i] = 0
          BY <1>2, <2>1, <4>1, <4>2
        <4> HIDE DEF i
        <4>4. KeptIn(tr, s) = 0
          BY <2>2, <3>4
        <4> QED
          BY <1>3, <2>1, <2>2, <2>4, <3>1, <4>3, <4>4
      <3> QED
        BY <3>3, <3>4
    <2> QED
      BY <2>3, <2>4
  <1>6. e \in Nat /\ e >= k
    BY <1>1
  <1> HIDE DEF k, e
  <1> QED
    BY <1>1, <1>5, <1>6 DEF k, e

-----------------------------------------------------------------------------
(* Bandwidth: the invariant.                                               *)

EstimatorInv ==
    /\ now \in 0 .. MaxTime /\ flight \in 0 .. MaxFlight /\ heard \in Int
    /\ packets \in Tracker /\ Aligned(packets)
    /\ confirmed \in Tracker /\ Aligned(confirmed)
    /\ confirmed.started <= now
    /\ confirmed.last <= heard
    /\ roundTrip \in RoundTrips \cup {Never}
    /\ EstimateIsFresh

LEMMA NewTrackerAligned ==
    /\ NewTracker \in Tracker /\ Aligned(NewTracker)
    /\ NewTracker.started = 0 /\ NewTracker.last = Never /\ SliceOf(0) = 0
    /\ \A s \in Nat : KeptIn(NewTracker, s) = 0
  <1>1. SliceOf(0) = 0
    <2>1. (SliceLen * 0 + 0) \div SliceLen = 0
      BY Unique, RingAssumption
    <2>2. SliceLen * 0 + 0 = 0
      BY RingAssumption
    <2> QED
      BY <2>1, <2>2 DEF SliceOf
  <1>2. 0 % Slices = 0 /\ 0 \in Ring
    <2>1. (Slices * 0 + 0) % Slices = 0
      BY Unique, RingAssumption
    <2>2. Slices * 0 + 0 = 0 /\ 0 \in 0 .. Slices - 1
      BY RingAssumption
    <2> QED
      BY <2>1, <2>2 DEF Ring
  <1>3. NewTracker \in Tracker
    BY <1>2 DEF NewTracker, Tracker, Never
  <1>4. Aligned(NewTracker)
    <2>1. SliceLen * 0 = 0
      BY RingAssumption
    <2> QED
      BY <1>1, <1>2, <2>1 DEF NewTracker, Aligned
  <1>5. ASSUME NEW s \in Nat
        PROVE  KeptIn(NewTracker, s) = 0
    <2>1. s % Slices \in Ring
      BY DivMod, RingAssumption DEF Ring
    <2> QED
      BY <2>1 DEF KeptIn, NewTracker
  <1> QED
    BY <1>1, <1>3, <1>4, <1>5 DEF NewTracker

LEMMA EstimatorInitInv == EstimatorInit => EstimatorInv
  <1> SUFFICES ASSUME EstimatorInit
               PROVE  EstimatorInv
    OBVIOUS
  <1>1. EstimateIsFresh
    BY DEF EstimatorInit, EstimateIsFresh
  <1>2. Never \in Int
    BY DEF Never
  <1> QED
    BY <1>1, <1>2, NewTrackerAligned, TimeAssumption DEF EstimatorInit, EstimatorInv

(* Histories with half a window in common both reach into this half.         *)
LEMMA OverlapIsFresh ==
    ASSUME NEW sent \in Tracker, NEW conf \in Tracker, now \in Nat,
           HistoriesOverlap(sent, conf)
    PROVE  2 * (now - sent.last) <= Window + 1 /\ 2 * (now - conf.last) <= Window + 1
  <1> DEFINE half == Window \div 2
             later(a, b)   == IF a >= b THEN a ELSE b
             earlier(a, b) == IF a <= b THEN a ELSE b
             start == later(later(sent.first, conf.first), now - Window)
             end   == earlier(sent.last, conf.last)
  <1>1. Window \in Nat
    BY RingAssumption DEF Window
  <1>2. half \in Nat /\ 2 * half >= Window - 1
    BY <1>1
  <1>3. /\ sent.first \in Int /\ conf.first \in Int
        /\ sent.last \in Int /\ conf.last \in Int
    BY DEF Tracker
  <1>4. end - start >= half
    BY DEF HistoriesOverlap
  <1>5. start >= now - Window /\ end <= sent.last /\ end <= conf.last
    BY <1>1, <1>3
  <1>6. start \in Int /\ end \in Int
    BY <1>1, <1>3
  <1> HIDE DEF half, start, end
  <1> QED
    BY <1>1, <1>2, <1>3, <1>4, <1>5, <1>6

(* What a confirmation and an estimate make of the confirmed tracker.        *)
LEMMA ConfirmedMoves ==
    ASSUME EstimatorInv, NEW n \in Nat, NEW rtt \in RoundTrips \cup {Never}
    PROVE  LET t == SentAt(rtt)
               new == Accumulate(confirmed, n, t)
           IN  /\ t \in Int /\ t <= now
               /\ new \in Tracker /\ Aligned(new)
               /\ new.started <= now /\ new.last = t
  <1> DEFINE t == SentAt(rtt)
             new == Accumulate(confirmed, n, t)
             p == SlicesPassed(confirmed, t)
  <1>1. now \in Nat /\ confirmed \in Tracker /\ Aligned(confirmed) /\ confirmed.started <= now
    BY DEF EstimatorInv
  <1>2. t \in Int /\ t <= now
    BY <1>1, TimeAssumption DEF SentAt
  <1> HIDE DEF t
  <1>3. new \in Tracker /\ Aligned(new) /\ new.last = t /\ new.started = AdvanceTo(confirmed, t).started
    <2>1. t \in Int
      BY <1>2
    <2> QED
      BY <1>1, <2>1, Accumulated
  <1>4. AdvanceTo(confirmed, t).started = confirmed.started + p * SliceLen
    BY <1>1, <1>2, Advanced
  <1>5. confirmed.started + p * SliceLen <= now
    <2>1. LET e == confirmed.started + p * SliceLen
          IN  e \in Nat /\ (e <= t \/ e = confirmed.started)
      BY <1>1, <1>2, Passed
    <2> QED
      BY <1>1, <1>2, <2>1
  <1> QED
    BY <1>2, <1>3, <1>4, <1>5 DEF t

LEMMA ControlMoves ==
    ASSUME EstimatorInv
    PROVE  /\ AdvanceTo(packets, now) \in Tracker /\ Aligned(AdvanceTo(packets, now))
           /\ AdvanceTo(packets, now).last = packets.last
           /\ AdvanceTo(confirmed, now) \in Tracker /\ Aligned(AdvanceTo(confirmed, now))
           /\ AdvanceTo(confirmed, now).last = confirmed.last
           /\ AdvanceTo(confirmed, now).started <= now
  <1>1. /\ now \in Int /\ now \in Nat /\ packets \in Tracker /\ Aligned(packets)
        /\ confirmed \in Tracker /\ Aligned(confirmed) /\ confirmed.started <= now
    BY DEF EstimatorInv
  <1>2. AdvanceTo(packets, now) \in Tracker /\ Aligned(AdvanceTo(packets, now))
        /\ AdvanceTo(packets, now).last = packets.last
    BY <1>1, Advanced
  <1> DEFINE p == SlicesPassed(confirmed, now)
             e == confirmed.started + p * SliceLen
  <1>3. AdvanceTo(confirmed, now) \in Tracker /\ Aligned(AdvanceTo(confirmed, now))
        /\ AdvanceTo(confirmed, now).last = confirmed.last
        /\ AdvanceTo(confirmed, now).started = e
    BY <1>1, Advanced
  <1>4. e \in Nat /\ (e <= now \/ e = confirmed.started)
    BY <1>1, Passed
  <1>5. e <= now
    <2> HIDE DEF e
    <2> QED
      BY <1>1, <1>4
  <1> QED
    BY <1>2, <1>3, <1>5

LEMMA EstimatorNextInv == EstimatorInv /\ [EstimatorNext]_estimatorVars => EstimatorInv'
  <1> SUFFICES ASSUME EstimatorInv, [EstimatorNext]_estimatorVars
               PROVE  EstimatorInv'
    OBVIOUS
  <1>t. now \in Nat /\ now <= MaxTime /\ MaxTime \in Nat /\ MaxFlight \in Nat
    BY TimeAssumption DEF EstimatorInv
  <1>1. CASE ClockTick
    <2>1. EstimateIsFresh'
      BY <1>1 DEF ClockTick, EstimateIsFresh
    <2>2. now' \in 0 .. MaxTime /\ (confirmed.started <= now')
      BY <1>1, <1>t DEF ClockTick, EstimatorInv, Tracker
    <2> QED
      BY <1>1, <2>1, <2>2 DEF ClockTick, EstimatorInv, Aligned
  <1>2. CASE BurstSent
    <2>1. PICK n \in 1 .. MaxFlight - flight :
             /\ packets' = Accumulate(packets, n, now)
             /\ flight' = flight + n
             /\ estimate' = NoBandwidth
             /\ UNCHANGED <<now, confirmed, roundTrip, heard>>
      BY <1>2 DEF BurstSent
    <2>2. EstimateIsFresh'
      BY <2>1 DEF EstimateIsFresh
    <2>3. packets' \in Tracker /\ Aligned(packets')
      <3>1. n \in Nat /\ now \in Int /\ packets \in Tracker /\ Aligned(packets)
        BY DEF EstimatorInv
      <3> QED
        BY <2>1, <3>1, Accumulated
    <2>4. flight' \in 0 .. MaxFlight
      BY <1>t, <2>1 DEF EstimatorInv
    <2>5. (Aligned(packets))'
      BY <2>3 DEF Aligned, SliceOf
    <2> QED
      BY <2>1, <2>2, <2>3, <2>4, <2>5 DEF EstimatorInv, Aligned, SliceOf
  <1>3. CASE BytesConfirmed
    <2>1. PICK n \in 1 .. flight, rtt \in RoundTrips \cup {roundTrip} :
             /\ roundTrip' = rtt
             /\ confirmed' = Accumulate(confirmed, n, SentAt(rtt))
             /\ flight' = flight - n
             /\ heard' = now
             /\ estimate' = NoBandwidth
             /\ UNCHANGED <<now, packets>>
      BY <1>3 DEF BytesConfirmed
    <2>2. EstimateIsFresh'
      BY <2>1 DEF EstimateIsFresh
    <2>3. n \in Nat /\ rtt \in RoundTrips \cup {Never}
      BY DEF EstimatorInv
    <2>4. /\ confirmed' \in Tracker /\ Aligned(confirmed')
          /\ confirmed'.started <= now /\ confirmed'.last <= now
      BY <2>1, <2>3, ConfirmedMoves
    <2>5. flight' \in 0 .. MaxFlight
      BY <1>t, <2>1 DEF EstimatorInv
    <2> QED
      BY <1>t, <2>1, <2>2, <2>3, <2>4, <2>5 DEF EstimatorInv, Aligned, SliceOf
  <1>4. CASE ControlDue
    <2>1. UNCHANGED <<now, roundTrip, flight, heard>>
      BY <1>4 DEF ControlDue
    <2>2. CASE now < Window
      <3>1. estimate' = NoBandwidth /\ UNCHANGED <<packets, confirmed>>
        BY <1>4, <2>2 DEF ControlDue
      <3>2. EstimateIsFresh'
        BY <3>1 DEF EstimateIsFresh
      <3> QED
        BY <2>1, <3>1, <3>2 DEF EstimatorInv, Aligned, SliceOf
    <2>3. CASE ~(now < Window)
      <3>1. /\ packets' = AdvanceTo(packets, now) /\ confirmed' = AdvanceTo(confirmed, now)
            /\ estimate' = Estimated(packets', confirmed')
        BY <1>4, <2>3 DEF ControlDue
      <3>2. /\ packets' \in Tracker /\ Aligned(packets') /\ packets'.last = packets.last
            /\ confirmed' \in Tracker /\ Aligned(confirmed')
            /\ confirmed'.last = confirmed.last /\ confirmed'.started <= now
        BY <3>1, ControlMoves
      <3>3. EstimateIsFresh'
        <4> SUFFICES ASSUME estimate' # NoBandwidth
                     PROVE  /\ now >= Window
                            /\ 2 * (now - heard) <= Window + 1
                            /\ 2 * (now - packets'.last) <= Window + 1
          BY <2>1 DEF EstimateIsFresh, Window
        <4>1. HistoriesOverlap(packets', confirmed')
          BY <3>1 DEF Estimated
        <4>2. /\ 2 * (now - packets'.last) <= Window + 1
              /\ 2 * (now - confirmed'.last) <= Window + 1
          BY <1>t, <3>2, <4>1, OverlapIsFresh
        <4>3. confirmed'.last <= heard /\ heard \in Int /\ confirmed'.last \in Int
          BY <3>2 DEF EstimatorInv, Tracker
        <4>4. Window \in Nat
          BY RingAssumption DEF Window
        <4> QED
          BY <1>t, <2>3, <4>2, <4>3, <4>4
      <3> QED
        BY <2>1, <3>2, <3>3 DEF EstimatorInv, Aligned, SliceOf
    <2> QED
      BY <2>2, <2>3
  <1>5. CASE UNCHANGED estimatorVars
    BY <1>5 DEF estimatorVars, EstimatorInv, EstimateIsFresh, Aligned, SliceOf
  <1> QED
    BY <1>1, <1>2, <1>3, <1>4, <1>5 DEF EstimatorNext

LEMMA EstimatorInvariant == EstimatorSpec => []EstimatorInv
  BY EstimatorInitInv, EstimatorNextInv, PTL DEF EstimatorSpec

(* estimate_bps: no estimate is made of a link on which nothing was sent or  *)
(* confirmed for half a window, nor before the first window is full.         *)
THEOREM EstimatesAreFresh == EstimatorSpec => []EstimateIsFresh
  <1>1. EstimatorInv => EstimateIsFresh
    BY DEF EstimatorInv
  <1> QED
    BY <1>1, EstimatorInvariant, PTL

-----------------------------------------------------------------------------
(* Bandwidth: the steps as steps of the window.                            *)

LEMMA SliceGrows ==
    ASSUME NEW a \in Int, NEW b \in Int, a <= b
    PROVE  SliceOf(a) \in Int /\ SliceOf(b) \in Int /\ SliceOf(a) <= SliceOf(b)
  BY DivGrows, DivMod, RingAssumption DEF SliceOf

(* The slice in which a confirmation counts. *)
LEMMA CountsIn ==
    ASSUME EstimatorInv, NEW n \in Nat, NEW rtt \in RoundTrips \cup {Never}
    PROVE  LET to == SliceOf(Accumulate(confirmed, n, SentAt(rtt)).started)
               edge == SliceOf(confirmed.started)
           IN  /\ to \in Nat /\ edge \in Nat /\ to >= edge
               /\ to <= SliceOf(now) /\ to >= SliceOf(SentAt(rtt))
               /\ \A s \in Nat : KeptIn(Accumulate(confirmed, n, SentAt(rtt)), s) =
                     (IF s + Slices > to THEN KeptIn(confirmed, s) ELSE 0)
                        + (IF s = to THEN n ELSE 0)
  <1> DEFINE t == SentAt(rtt)
             new == Accumulate(confirmed, n, t)
             to == SliceOf(new.started)
             edge == SliceOf(confirmed.started)
  <1>1. /\ now \in Int /\ confirmed \in Tracker /\ Aligned(confirmed)
        /\ confirmed.started <= now /\ confirmed.started \in Int
    BY DEF EstimatorInv, Tracker
  <1>2. t \in Int /\ t <= now
    BY ConfirmedMoves
  <1> HIDE DEF t
  <1>3. /\ new \in Tracker /\ new.started = AdvanceTo(confirmed, t).started
        /\ \A i \in Ring : new.history[i] =
             AdvanceTo(confirmed, t).history[i] + (IF i = AdvanceTo(confirmed, t).head THEN n ELSE 0)
    BY <1>1, <1>2, Accumulated
  <1> HIDE DEF new
  <1>4. /\ edge \in Nat /\ to \in Nat
        /\ to = IF t <= confirmed.started THEN edge ELSE SliceOf(t)
        /\ to >= edge
        /\ \A s \in Nat : KeptIn(new, s) =
              (IF s + Slices > to THEN KeptIn(confirmed, s) ELSE 0) + (IF s = to THEN n ELSE 0)
    BY <1>1, <1>2, <1>3, Slides
  <1>5. SliceOf(t) <= SliceOf(now) /\ edge <= SliceOf(now)
    BY <1>1, <1>2, SliceGrows
  <1>6. t <= confirmed.started => SliceOf(t) <= edge
    BY <1>1, <1>2, SliceGrows
  <1>7. to <= SliceOf(now) /\ to >= SliceOf(t)
    <2>1. SliceOf(t) \in Int /\ SliceOf(now) \in Int
      BY <1>1, <1>2, SliceGrows
    <2> HIDE DEF to, edge
    <2> QED
      BY <1>4, <1>5, <1>6, <2>1
  <1> QED
    BY <1>4, <1>7 DEF new, t

(* on_bytes_confirmed: what is confirmed counts in a slice of the round trip *)
(* just past, for any round trips a report may tell.                         *)
THEOREM ConfirmationsAreDated == EstimatorSpec => DatedInRoundTrip
  <1>1. EstimatorInv /\ [EstimatorNext]_estimatorVars =>
          [BytesConfirmed =>
             /\ SliceOf(confirmed'.started) <= SliceOf(now)
             /\ SliceOf(confirmed'.started) >= SliceOf(SentAt(roundTrip'))]_estimatorVars
    <2> SUFFICES ASSUME EstimatorInv, BytesConfirmed
                 PROVE  /\ SliceOf(confirmed'.started) <= SliceOf(now)
                        /\ SliceOf(confirmed'.started) >= SliceOf(SentAt(roundTrip'))
      OBVIOUS
    <2>1. PICK n \in 1 .. flight, rtt \in RoundTrips \cup {roundTrip} :
             roundTrip' = rtt /\ confirmed' = Accumulate(confirmed, n, SentAt(rtt))
      BY DEF BytesConfirmed
    <2>2. n \in Nat /\ rtt \in RoundTrips \cup {Never}
      BY DEF EstimatorInv
    <2> DEFINE to == SliceOf(Accumulate(confirmed, n, SentAt(rtt)).started)
    <2>3. to <= SliceOf(now) /\ to >= SliceOf(SentAt(rtt))
      BY <2>2, CountsIn
    <2> QED
      BY <2>1, <2>3
  <1> QED
    BY <1>1, EstimatorInvariant, PTL DEF EstimatorSpec, DatedInRoundTrip

LEMMA KeptIsKeptIn ==
    /\ Edge = SliceOf(confirmed.started)
    /\ KeptBytes = [s \in 0 .. MaxTime |-> KeptIn(confirmed, s)]
  BY DEF Edge, KeptBytes, KeptIn

LEMMA EstimatorInitWindow == EstimatorInit => IsWindow!WindowInit
  <1> SUFFICES ASSUME EstimatorInit
               PROVE  IsWindow!WindowInit
    OBVIOUS
  <1>1. confirmed = NewTracker
    BY DEF EstimatorInit
  <1>2. Edge = 0
    BY <1>1, NewTrackerAligned, KeptIsKeptIn
  <1>3. KeptBytes = [s \in 0 .. MaxTime |-> 0]
    BY <1>1, NewTrackerAligned, KeptIsKeptIn
  <1> QED
    BY <1>2, <1>3 DEF IsWindow!WindowInit

(* A step that gives the confirmed tracker n, in the slice to, is one of the *)
(* window.                                                                   *)
LEMMA WindowTakes ==
    ASSUME NEW n \in 0 .. MaxFlight, NEW to \in 0 .. MaxTime,
           Edge \in Nat, to >= Edge, Edge' = to,
           \A s \in Nat : KeptIn(confirmed', s) =
             (IF s + Slices > to THEN KeptIn(confirmed, s) ELSE 0) + (IF s = to THEN n ELSE 0)
    PROVE  IsWindow!WindowNext
  <1>1. Edge' = IsWindow!Later(Edge, to)
    BY DEF IsWindow!Later
  <1>2. KeptBytes' = [s \in 0 .. MaxTime |-> KeptIn(confirmed', s)]
    BY DEF KeptBytes, Edge, KeptIn, SliceOf
  <1>3. KeptBytes = [s \in 0 .. MaxTime |-> KeptIn(confirmed, s)]
    BY KeptIsKeptIn
  <1>4. KeptBytes' = [s \in 0 .. MaxTime |->
                   (IF s + Slices > Edge' THEN KeptBytes[s] ELSE 0) + (IF s = Edge' THEN n ELSE 0)]
    <2>1. \A s \in 0 .. MaxTime : KeptIn(confirmed', s) =
             (IF s + Slices > Edge' THEN KeptBytes[s] ELSE 0) + (IF s = Edge' THEN n ELSE 0)
      BY <1>3
    <2> QED
      BY <1>2, <2>1
  <1>5. IsWindow!WindowTakes(n, to)
    BY <1>1, <1>4 DEF IsWindow!WindowTakes
  <1> QED
    BY <1>5 DEF IsWindow!WindowNext

LEMMA EstimatorNextWindow ==
    ASSUME EstimatorInv, EstimatorInv', [EstimatorNext]_estimatorVars
    PROVE  [IsWindow!WindowNext]_(IsWindow!windowVars)
  <1>t. /\ now \in Nat /\ now <= MaxTime /\ MaxTime \in Nat /\ MaxFlight \in Nat
        /\ SliceOf(now) \in Nat /\ SliceOf(now) <= now
    BY TimeAssumption, SliceIsNat DEF EstimatorInv
  <1>1. CASE UNCHANGED confirmed
    <2>1. UNCHANGED <<Edge, KeptBytes>>
      BY <1>1 DEF Edge, KeptBytes, SliceOf
    <2> QED
      BY <2>1 DEF IsWindow!windowVars
  <1>2. CASE BytesConfirmed
    <2>1. PICK n \in 1 .. flight, rtt \in RoundTrips \cup {roundTrip} :
             confirmed' = Accumulate(confirmed, n, SentAt(rtt))
      BY <1>2 DEF BytesConfirmed
    <2>2. n \in Nat /\ n \in 0 .. MaxFlight /\ rtt \in RoundTrips \cup {Never}
      BY <1>t DEF EstimatorInv
    <2> DEFINE new == Accumulate(confirmed, n, SentAt(rtt))
               to == SliceOf(new.started)
               edge == SliceOf(confirmed.started)
    <2>3. /\ to \in Nat /\ edge \in Nat /\ to >= edge /\ to <= SliceOf(now)
          /\ \A s \in Nat : KeptIn(new, s) =
                (IF s + Slices > to THEN KeptIn(confirmed, s) ELSE 0) + (IF s = to THEN n ELSE 0)
      BY <2>2, CountsIn
    <2>4. Edge = edge /\ Edge' = to
      BY <2>1 DEF Edge, SliceOf
    <2> HIDE DEF to, edge
    <2>5. to \in 0 .. MaxTime
      BY <1>t, <2>3
    <2> HIDE DEF new
    <2>6. confirmed' = new
      BY <2>1 DEF new
    <2> QED
      BY <2>2, <2>3, <2>4, <2>5, <2>6, WindowTakes
  <1>3. CASE ControlDue /\ confirmed' = AdvanceTo(confirmed, now)
    <2> DEFINE new == AdvanceTo(confirmed, now)
               to == SliceOf(new.started)
               edge == SliceOf(confirmed.started)
    <2>1. /\ confirmed \in Tracker /\ Aligned(confirmed) /\ new \in Tracker /\ now \in Int
          /\ new.started <= now /\ new.started \in Int
      BY ControlMoves DEF EstimatorInv, Tracker
    <2>2. \A i \in Ring : new.history[i] = new.history[i] + (IF i = new.head THEN 0 ELSE 0)
      <3>1. \A i \in Ring : new.history[i] \in Nat
        <4> HIDE DEF new
        <4> QED
          BY <2>1 DEF Tracker
      <3> HIDE DEF new
      <3> QED
        BY <3>1
    <2>3. /\ to \in Nat /\ edge \in Nat /\ to >= edge
          /\ \A s \in Nat : KeptIn(new, s) =
                (IF s + Slices > to THEN KeptIn(confirmed, s) ELSE 0) + (IF s = to THEN 0 ELSE 0)
      BY <2>1, <2>2, Slides
    <2>4. to <= SliceOf(now)
      BY <2>1, SliceGrows
    <2>5. Edge = edge /\ Edge' = to
      BY <1>3 DEF Edge, SliceOf
    <2> HIDE DEF to, edge
    <2>6. to \in 0 .. MaxTime /\ 0 \in 0 .. MaxFlight
      BY <1>t, <2>3, <2>4
    <2> HIDE DEF new
    <2>7. confirmed' = new
      BY <1>3 DEF new
    <2> QED
      BY <2>3, <2>5, <2>6, <2>7, WindowTakes
  <1>4. \/ UNCHANGED confirmed
        \/ BytesConfirmed
        \/ ControlDue /\ confirmed' = AdvanceTo(confirmed, now)
    BY DEF EstimatorNext, ClockTick, BurstSent, ControlDue, estimatorVars
  <1> QED
    BY <1>1, <1>2, <1>3, <1>4

(* FlowTracker: the ring of slices, its head and its start are a window over *)
(* the last slices, for any number and length of slices and any round trips. *)
THEOREM RingIsWindow == EstimatorSpec => ConfirmedIsWindow
  <1>1. EstimatorInit => IsWindow!WindowInit
    BY EstimatorInitWindow
  <1>2. EstimatorInv /\ EstimatorInv' /\ [EstimatorNext]_estimatorVars
          => [IsWindow!WindowNext]_(IsWindow!windowVars)
    BY EstimatorNextWindow
  <1> QED
    BY <1>1, <1>2, EstimatorInvariant, PTL
       DEF EstimatorSpec, ConfirmedIsWindow, IsWindow!WindowSpec

-----------------------------------------------------------------------------
(* What is summed over the ring is a number.                               *)

(* A step of the fold behind SumFunction, for the sets of at most n. *)
Small(S, n) == {s \in SUBSET S : Cardinality(s) <= n}
Added(f, s, g) == LET x == CHOOSE y \in s : TRUE IN f[x] + g[s \ {x}]
Summed(f, S, n, g) == [s \in Small(S, n) |-> IF s = {} THEN 0 ELSE Added(f, s, g)]

LEMMA LeastOf ==
    ASSUME NEW S \in SUBSET Nat, S # {}
    PROVE  \E x \in S : \A y \in S : x <= y
  <1> DEFINE less == {p \in Nat \X Nat : p[1] < p[2]}
  <1>1. OpToRel(<, Nat) = less
    BY DEF OpToRel
  <1>2. IsWellFoundedOn(less, Nat)
    BY <1>1, NatLessThanWellFounded
  <1>3. PICK x \in S : \A y \in S : <<y, x>> \notin less
    BY <1>2, WFMin
  <1>4. \A y \in S : ~(y < x)
    BY <1>3
  <1> QED
    BY <1>4

LEMMA Fewer ==
    ASSUME NEW S, IsFiniteSet(S), NEW s \in SUBSET S, s # {}
    PROVE  LET x == CHOOSE y \in s : TRUE
           IN  /\ x \in s /\ s \ {x} \in SUBSET S
               /\ Cardinality(s) \in Nat \ {0}
               /\ Cardinality(s \ {x}) = Cardinality(s) - 1
  <1>1. IsFiniteSet(s)
    BY FS_Subset
  <1>2. Cardinality(s) \in Nat /\ Cardinality(s) # 0
    BY <1>1, FS_CardinalityType, FS_EmptySet
  <1> QED
    BY <1>1, <1>2, FS_RemoveElement

LEMMA SumExists ==
    ASSUME NEW S, IsFiniteSet(S), NEW f, NEW n \in Nat
    PROVE  \E g : g = Summed(f, S, n, g)
  <1> DEFINE T == {m \in Nat : ~\E g : g = Summed(f, S, m, g)}
  <1> SUFFICES ASSUME T # {}
               PROVE  FALSE
    OBVIOUS
  <1>1. PICK m \in T : \A i \in T : m <= i
    BY LeastOf
  <1>2. m # 0
    <2> DEFINE g == [s \in Small(S, 0) |-> 0]
    <2>1. \A s \in Small(S, 0) : s = {}
      <3> SUFFICES ASSUME NEW s \in SUBSET S, Cardinality(s) <= 0
                   PROVE  s = {}
        BY DEF Small
      <3>1. IsFiniteSet(s)
        BY FS_Subset
      <3>2. Cardinality(s) = 0
        BY <3>1, FS_CardinalityType
      <3> QED
        BY <3>1, <3>2, FS_EmptySet
    <2>2. g = Summed(f, S, 0, g)
      BY <2>1 DEF Summed
    <2> QED
      BY <1>1, <2>2
  <1>3. m - 1 \in Nat /\ m - 1 \notin T
    BY <1>1, <1>2
  <1>4. PICK h : h = Summed(f, S, m - 1, h)
    BY <1>3
  <1>5. \A s \in Small(S, m - 1) : h[s] = IF s = {} THEN 0 ELSE Added(f, s, h)
    <2> DEFINE k == Summed(f, S, m - 1, h)
    <2>1. \A s \in Small(S, m - 1) : k[s] = IF s = {} THEN 0 ELSE Added(f, s, h)
      BY DEF Summed
    <2>2. h = k
      BY <1>4
    <2> HIDE DEF k
    <2> QED
      BY <2>1, <2>2
  <1> DEFINE g == [s \in Small(S, m) |->
                     IF s \in Small(S, m - 1) THEN h[s] ELSE Added(f, s, h)]
  <1>6. ASSUME NEW s \in Small(S, m)
        PROVE  g[s] = IF s = {} THEN 0 ELSE Added(f, s, g)
    <2>1. s \in SUBSET S /\ Cardinality(s) <= m
      BY DEF Small
    <2>2. CASE s = {}
      <3>1. Cardinality(s) = 0
        BY <2>2, FS_EmptySet
      <3>2. s \in Small(S, m - 1)
        BY <1>3, <2>1, <3>1 DEF Small
      <3> QED
        BY <1>5, <2>2, <3>2
    <2>3. CASE s # {}
      <3> DEFINE x == CHOOSE y \in s : TRUE
      <3>1. /\ s \ {x} \in SUBSET S /\ Cardinality(s) \in Nat
            /\ Cardinality(s \ {x}) = Cardinality(s) - 1
        BY <2>1, <2>3, Fewer
      <3>2. s \ {x} \in Small(S, m - 1) /\ s \ {x} \in Small(S, m)
        BY <1>3, <2>1, <3>1 DEF Small
      <3>3. g[s \ {x}] = h[s \ {x}]
        BY <3>2
      <3>4. Added(f, s, g) = Added(f, s, h)
        BY <3>3 DEF Added
      <3>5. g[s] = Added(f, s, h)
        BY <1>5, <2>3
      <3> QED
        BY <2>3, <3>4, <3>5
    <2> QED
      BY <2>2, <2>3
  <1>7. g = [s \in Small(S, m) |-> IF s = {} THEN 0 ELSE Added(f, s, g)]
    <2>1. g = [s \in Small(S, m) |-> g[s]]
      OBVIOUS
    <2> HIDE DEF g
    <2> QED
      BY <1>6, <2>1
  <1>8. g = Summed(f, S, m, g)
    <2> HIDE DEF g
    <2> QED
      BY <1>7 DEF Summed
  <1> QED
    BY <1>1, <1>8

LEMMA AllSmall ==
    ASSUME NEW S, IsFiniteSet(S)
    PROVE  Small(S, Cardinality(S)) = SUBSET S
  BY FS_Subset DEF Small

LEMMA SumIsNat ==
    ASSUME NEW S, IsFiniteSet(S), NEW f \in [S -> Nat]
    PROVE  SumFunction(f) \in Nat
  <1> DEFINE n == Cardinality(S)
             iter == CHOOSE g : g = Summed(f, S, n, g)
  <1>1. n \in Nat
    BY FS_CardinalityType
  <1>2. iter = Summed(f, S, n, iter)
    BY <1>1, SumExists
  <1>3. SumFunction(f) = iter[S]
    BY AllSmall DEF SumFunction, SumFunctionOnSet, FoldFunctionOnSet, MapThenFoldSet,
                    Summed, Added
  <1> HIDE DEF iter
  <1>4. \A s \in SUBSET S : iter[s] = IF s = {} THEN 0 ELSE Added(f, s, iter)
    <2> DEFINE k == Summed(f, S, n, iter)
    <2>1. \A s \in SUBSET S : k[s] = IF s = {} THEN 0 ELSE Added(f, s, iter)
      BY AllSmall DEF Summed
    <2>2. iter = k
      BY <1>2
    <2> HIDE DEF k
    <2> QED
      BY <2>1, <2>2
  <1> DEFINE T == {m \in Nat : \E s \in SUBSET S : Cardinality(s) = m /\ iter[s] \notin Nat}
  <1>5. T = {}
    <2> SUFFICES ASSUME T # {}
                 PROVE  FALSE
      OBVIOUS
    <2>1. PICK m \in T : \A i \in T : m <= i
      BY LeastOf
    <2>2. PICK s \in SUBSET S : Cardinality(s) = m /\ iter[s] \notin Nat
      BY <2>1
    <2>3. s # {}
      BY <1>4, <2>2
    <2> DEFINE x == CHOOSE y \in s : TRUE
    <2>4. /\ x \in s /\ s \ {x} \in SUBSET S
          /\ m \in Nat \ {0} /\ Cardinality(s \ {x}) = m - 1
      BY <2>2, <2>3, Fewer
    <2>5. iter[s \ {x}] \in Nat
      <3>1. m - 1 \in Nat /\ m - 1 \notin T
        BY <2>1, <2>4
      <3> QED
        BY <2>4, <3>1
    <2>6. f[x] \in Nat
      BY <2>4
    <2>7. iter[s] = f[x] + iter[s \ {x}]
      BY <1>4, <2>3 DEF Added
    <2> QED
      BY <2>2, <2>5, <2>6, <2>7
  <1>6. IsFiniteSet(S) /\ S \in SUBSET S
    OBVIOUS
  <1> QED
    BY <1>1, <1>3, <1>5, <1>6

-----------------------------------------------------------------------------
(* What an estimate comes to.                                              *)

(* An idle sender does not make a slow link: the estimate is for the time    *)
(* spent sending, so it is no less than what got through in the window.      *)
EstimateCovers ==
    estimate # NoBandwidth => Total(confirmed) > 0 /\ estimate >= Total(confirmed)

LEMMA TotalIsNat ==
    ASSUME NEW tr \in Tracker
    PROVE  Total(tr) \in Nat
  <1>1. 0 \in Int /\ Slices - 1 \in Int
    BY RingAssumption
  <1>2. IsFiniteSet(Ring)
    BY <1>1, FS_Interval DEF Ring
  <1>3. tr.history \in [Ring -> Nat]
    BY DEF Tracker
  <1> QED
    BY <1>2, <1>3, SumIsNat DEF Total

(* Nothing is sent for longer than the window, or for no time.               *)
LEMMA TimeInWindow ==
    ASSUME NEW sent \in Nat
    PROVE  TransmitTime(sent) \in 1 .. Window /\ Window \in Nat \ {0}
  <1> DEFINE w == Window
             capacity == w * PerTick
             carried == IF sent > capacity THEN capacity ELSE IF sent = 0 THEN 1 ELSE sent
             a == w * carried
             q == a \div capacity
             r == a % capacity
  <1>1. w \in Nat \ {0} /\ PerTick \in Nat \ {0}
    BY RingAssumption, TimeAssumption DEF Window
  <1>2. capacity \in Nat \ {0}
    <2> HIDE DEF w
    <2> QED
      BY <1>1
  <1>3. TransmitTime(sent) = IF q = 0 THEN 1 ELSE q
    BY DEF TransmitTime
  <1> HIDE DEF w, capacity
  <1>4. carried \in Nat /\ carried <= capacity
    BY <1>2
  <1> HIDE DEF carried
  <1>5. a \in Nat /\ a <= w * capacity /\ w * capacity \in Nat
    <2>1. w * (capacity - carried) \in Nat
      BY <1>1, <1>2, <1>4
    <2>2. w * (capacity - carried) = w * capacity - w * carried
      BY <1>1, <1>2, <1>4
    <2>3. w * capacity \in Nat /\ w * carried \in Nat
      BY <1>1, <1>2, <1>4
    <2> QED
      BY <2>1, <2>2, <2>3
  <1> HIDE DEF a
  <1>6. q \in Int /\ r \in 0 .. capacity - 1 /\ a = capacity * q + r
    <2>1. a \in Int
      BY <1>5
    <2> QED
      BY <1>2, <2>1, DivMod
  <1> HIDE DEF q, r
  <1>7. ~(w < q)
    <2> SUFFICES ASSUME w < q
                 PROVE  FALSE
      OBVIOUS
    <2>1. capacity * w + capacity <= capacity * q /\ capacity * w \in Int /\ capacity * q \in Int
      BY <1>1, <1>2, <1>6, Multiples
    <2>2. capacity * w = w * capacity
      BY <1>1, <1>2
    <2> QED
      BY <1>2, <1>5, <1>6, <2>1, <2>2
  <1>8. ~(q < 0)
    <2> SUFFICES ASSUME q < 0
                 PROVE  FALSE
      OBVIOUS
    <2>1. capacity * q + capacity <= capacity * 0 /\ capacity * q \in Int
      BY <1>2, <1>6, Multiples
    <2> QED
      BY <1>2, <1>5, <1>6, <2>1
  <1>9. TransmitTime(sent) \in 1 .. w
    BY <1>1, <1>3, <1>6, <1>7, <1>8
  <1> QED
    BY <1>1, <1>9 DEF w

LEMMA EstimateIs ==
    ASSUME NEW sent \in Tracker, NEW conf \in Tracker
    PROVE  /\ Estimated(sent, conf) \in Nat \cup {NoBandwidth}
           /\ Estimated(sent, conf) # NoBandwidth =>
                Total(conf) > 0 /\ Estimated(sent, conf) >= Total(conf)
  <1> DEFINE c == Total(conf)
             t == TransmitTime(Total(sent))
             w == Window
             a == c * w
             q == a \div t
             r == a % t
  <1>1. c \in Nat /\ Total(sent) \in Nat
    BY TotalIsNat
  <1>2. t \in 1 .. w /\ w \in Nat \ {0}
    BY <1>1, TimeInWindow
  <1>3. Estimated(sent, conf) = NoBandwidth \/ (c # 0 /\ Estimated(sent, conf) = q)
    BY DEF Estimated
  <1> HIDE DEF c, t, w
  <1>4. t \in Nat \ {0}
    BY <1>2
  <1>5. a \in Nat /\ t * c <= a /\ t * c \in Nat
    <2>1. c * (w - t) \in Nat
      BY <1>1, <1>2
    <2>2. c * (w - t) = c * w - t * c
      BY <1>1, <1>2
    <2>3. c * w \in Nat /\ t * c \in Nat
      BY <1>1, <1>2
    <2> QED
      BY <2>1, <2>2, <2>3
  <1> HIDE DEF a
  <1>6. q \in Int /\ r \in 0 .. t - 1 /\ a = t * q + r
    <2>1. a \in Int
      BY <1>5
    <2> QED
      BY <1>4, <2>1, DivMod
  <1> HIDE DEF q, r
  <1>7. ~(q < c)
    <2> SUFFICES ASSUME q < c
                 PROVE  FALSE
      OBVIOUS
    <2>1. t * q + t <= t * c /\ t * q \in Int
      BY <1>1, <1>4, <1>6, Multiples
    <2> QED
      BY <1>4, <1>5, <1>6, <2>1
  <1>8. q \in Nat /\ q >= c
    BY <1>1, <1>6, <1>7
  <1> QED
    BY <1>1, <1>3, <1>8 DEF c

EstimateInv ==
    /\ estimate \in Nat \cup {NoBandwidth}
    /\ heard \in 0 .. MaxTime \cup {Never}
    /\ EstimateCovers

LEMMA EstimateStep ==
    EstimatorInv /\ EstimateInv /\ [EstimatorNext]_estimatorVars => EstimateInv'
  <1> SUFFICES ASSUME EstimatorInv, EstimateInv, [EstimatorNext]_estimatorVars
               PROVE  EstimateInv'
    OBVIOUS
  <1>1. CASE ClockTick \/ BurstSent
    BY <1>1 DEF ClockTick, BurstSent, EstimateInv, EstimateCovers
  <1>2. CASE BytesConfirmed
    BY <1>2 DEF BytesConfirmed, EstimatorInv, EstimateInv, EstimateCovers
  <1>3. CASE ControlDue
    <2>1. UNCHANGED heard
      BY <1>3 DEF ControlDue
    <2>2. CASE now < Window
      BY <1>3, <2>1, <2>2 DEF ControlDue, EstimateInv, EstimateCovers
    <2>3. CASE ~(now < Window)
      <3>1. /\ packets' = AdvanceTo(packets, now) /\ confirmed' = AdvanceTo(confirmed, now)
            /\ estimate' = Estimated(packets', confirmed')
        BY <1>3, <2>3 DEF ControlDue
      <3>2. packets' \in Tracker /\ confirmed' \in Tracker
        BY <3>1, ControlMoves
      <3>3. /\ estimate' \in Nat \cup {NoBandwidth}
            /\ estimate' # NoBandwidth => Total(confirmed') > 0 /\ estimate' >= Total(confirmed')
        BY <3>1, <3>2, EstimateIs
      <3>4. EstimateCovers'
        BY <3>3 DEF EstimateCovers, Total, NoBandwidth
      <3> QED
        BY <2>1, <3>3, <3>4 DEF EstimateInv
    <2> QED
      BY <2>2, <2>3
  <1>4. CASE UNCHANGED estimatorVars
    BY <1>4 DEF estimatorVars, EstimateInv, EstimateCovers, Total
  <1> QED
    BY <1>1, <1>2, <1>3, <1>4 DEF EstimatorNext

LEMMA EstimateInvariant == EstimatorSpec => []EstimateInv
  <1>1. EstimatorInit => EstimateInv
    BY DEF EstimatorInit, EstimateInv, EstimateCovers
  <1> QED
    BY <1>1, EstimateStep, EstimatorInvariant, PTL DEF EstimatorSpec

(* Every variable of Bandwidth keeps its type, the estimate too, which is a  *)
(* quotient of sums over the ring.                                           *)
THEOREM EstimatorTyped == EstimatorSpec => []EstimatorTypes
  <1>1. EstimatorInv /\ EstimateInv => EstimatorTypes
    <2>1. \A tr \in Tracker : TrackerOK(tr)
      BY DEF Tracker, TrackerOK
    <2> QED
      BY <2>1 DEF EstimatorInv, EstimateInv, EstimatorTypes
  <1> QED
    BY <1>1, EstimatorInvariant, EstimateInvariant, PTL

(* "Only the fraction of the window we were actually transmitting in counts, *)
(* or an idle sender looks like a slow link": an estimate is never less than *)
(* what was confirmed in the window, however little was sent.                *)
THEOREM EstimatesCover == EstimatorSpec => []EstimateCovers
  <1>1. EstimateInv => EstimateCovers
    BY DEF EstimateInv
  <1> QED
    BY <1>1, EstimateInvariant, PTL

=============================================================================
