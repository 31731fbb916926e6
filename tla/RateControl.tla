----------------------------- MODULE RateControl -----------------------------
(***************************************************************************)
(* The bitrate loop of the mirror sender (control_rate of sender.rs), the  *)
(* bitrate it asks for (next_bitrate of bandwidth.rs) and the resolution   *)
(* ladder behind it (ladder.rs), on a link whose throughput changes at     *)
(* will.  Time passes in control intervals; an instant the code stores is  *)
(* the number of intervals since, counted up to the longest period that    *)
(* anything compares it with.                                              *)
(***************************************************************************)
EXTENDS Integers

CONSTANTS
    MinBps, MaxBps,  \* the range of RateControl, in the unit of Link
    StartBps,        \* where the encoder starts
    Rungs,           \* how many sizes the ladder has, 1 the smallest
    MinHold,         \* MIN_SIZE_CHANGE_PERIOD in control intervals
    Proving,         \* PROVING_PERIOD in control intervals
    Link             \* what the receiver may be seen to confirm; 0 is nothing

ASSUME RangeAssumption ==
    /\ MinBps \in Nat \ {0} /\ MaxBps \in Nat /\ StartBps \in Nat
    /\ MinBps <= StartBps /\ StartBps <= MaxBps
ASSUME LadderAssumption == Rungs \in Nat \ {0}
ASSUME PeriodAssumption == MinHold \in Nat /\ Proving \in Nat
ASSUME LinkAssumption == Link \subseteq Nat

VARIABLES
    autoRate,     \* the user left the bitrate automatic (set_bitrate is there)
    autoSize,     \* the user left the resolution automatic (set_size is there)
    bps,          \* current_bps
    rung,         \* the ladder's index
    heldFor,      \* since changed_at
    headroomFor,  \* since headroom_since, NoHeadroom when that is None
    due,          \* CONTROL_INTERVAL has passed since last_control
    link,         \* external: the throughput estimate_bps will find
    belowFor      \* since the loop last saw less than the ceiling

rateVars == <<autoRate, autoSize, bps, rung, heldFor, headroomFor, due, link, belowFor>>

NoHeadroom == -1
Higher(a, b) == IF a >= b THEN a ELSE b
Lower(a, b) == IF a <= b THEN a ELSE b

(* No period is compared with anything longer. *)
Longest == Higher(MinHold, Proving)

(* Every variable has its type, and the bitrate stays in the negotiated range. *)
RateTypeOK ==
    /\ autoRate \in BOOLEAN /\ autoSize \in BOOLEAN /\ due \in BOOLEAN
    /\ bps \in MinBps .. MaxBps
    /\ rung \in 1 .. Rungs
    /\ heldFor \in 0 .. Longest
    /\ headroomFor \in 0 .. Longest \cup {NoHeadroom}
    /\ link \in Link
    /\ belowFor \in 0 .. Longest

(* The cast starts at the size the ladder was cut from, its largest. *)
RateInit ==
    /\ autoRate \in BOOLEAN
    /\ autoSize \in BOOLEAN
    /\ bps = StartBps
    /\ rung = Rungs
    /\ heldFor = 0
    /\ headroomFor = NoHeadroom
    /\ due = FALSE
    /\ link \in Link
    /\ belowFor = 0

-----------------------------------------------------------------------------
(* next_bitrate.                                                           *)

(* Mutant: nothing is left to other traffic. *)
UsableAll(estimate) == estimate

(* "Don't ever try to use *all* of the network bandwidth!" *)
Usable(estimate) == (4 * estimate) \div 5

(* Mutant: an increase the dead band swallows. *)
IncreasedLittle(current) == (21 * current) \div 20

Increased(current) == (11 * current) \div 10

Clamped(target) == Higher(MinBps, Lower(target, MaxBps))

(* Below the target drop to what is usable, else edge up; a change of a      *)
(* twentieth or less is not made.                                            *)
NextBitrate(current, estimate) ==
    LET target == Clamped(IF Usable(estimate) < current
                          THEN Usable(estimate) ELSE Increased(current))
        delta  == IF target >= current THEN target - current ELSE current - target
    IN  IF delta > current \div 20 THEN target ELSE current

-----------------------------------------------------------------------------
(* ResolutionLadder::observe, once the bitrate is bps'.                    *)

AtFloor == bps' <= MinBps
AtCeiling == bps' >= MaxBps

(* Mutant: one observation without headroom does not restart the clock. *)
HeadroomKept ==
    IF headroomFor = NoHeadroom /\ AtCeiling THEN 0 ELSE headroomFor

(* headroom_since as this observation leaves it. *)
Headroom ==
    IF ~AtCeiling THEN NoHeadroom
    ELSE IF headroomFor = NoHeadroom THEN 0 ELSE headroomFor

MayMove == heldFor >= MinHold

GoesDown == MayMove /\ AtFloor /\ rung > 1
GoesUp == MayMove /\ ~GoesDown /\ Headroom >= Proving /\ rung < Rungs

Moved(to) ==
    /\ rung' = to
    /\ heldFor' = 0
    /\ headroomFor' = NoHeadroom

Observe ==
    \/ GoesDown /\ Moved(rung - 1)
    \/ GoesUp /\ Moved(rung + 1)
    \/ ~GoesDown /\ ~GoesUp /\ headroomFor' = Headroom /\ UNCHANGED <<rung, heldFor>>

-----------------------------------------------------------------------------
(* control_rate when estimate_bps has no answer: nothing was confirmed lately, *)
(* or what was sent and what was confirmed have too little time in common.    *)
NoEstimate ==
    /\ due
    /\ due' = FALSE
    /\ UNCHANGED <<autoRate, autoSize, bps, rung, heldFor, headroomFor, link, belowFor>>

ControlRate ==
    /\ due
    /\ link > 0
    /\ due' = FALSE
    /\ bps' = IF autoRate THEN NextBitrate(bps, link) ELSE bps
    /\ IF autoSize THEN Observe ELSE UNCHANGED <<rung, heldFor, headroomFor>>
    /\ belowFor' = IF AtCeiling THEN belowFor ELSE 0
    /\ UNCHANGED <<autoRate, autoSize, link>>

Older(age) == IF age = NoHeadroom THEN age ELSE Lower(age + 1, Longest)

Interval ==
    /\ due' = TRUE
    /\ heldFor' = Older(heldFor)
    /\ headroomFor' = Older(headroomFor)
    /\ belowFor' = Older(belowFor)
    /\ UNCHANGED <<autoRate, autoSize, bps, rung, link>>

LinkChanges ==
    /\ link' \in Link
    /\ UNCHANGED <<autoRate, autoSize, bps, rung, heldFor, headroomFor, due, belowFor>>

RateNext == NoEstimate \/ ControlRate \/ Interval \/ LinkChanges

RateSpec == RateInit /\ [][RateNext]_rateVars

(* Time passes, the sender's loop comes round, and a link that confirms what *)
(* is sent has an estimate again and again.                                  *)
RateFairSpec == RateSpec /\ WF_rateVars(Interval) /\ SF_rateVars(ControlRate)

-----------------------------------------------------------------------------
(* Properties.                                                             *)

(* The safety margin, the increase and the dead band together: what the loop *)
(* asks the encoder for is never more than the link was measured to carry,   *)
(* but for the floor and for a change too small to be made.                  *)
WithinLink ==
    [][ControlRate /\ autoRate =>
          bps' <= link \/ bps' - (bps' \div 20) <= MinBps]_rateVars

(* The picture grows only after a whole proving period in which the size was *)
(* left alone and every observation found the bitrate at its ceiling.        *)
UpIsProven ==
    [][rung' > rung => heldFor >= Proving /\ belowFor >= Proving]_rateVars

(* On a link that lasts and could carry the ceiling, the bitrate climbs back *)
(* to where a tenth more is held to be too small a change, a twentieth below *)
(* the ceiling; it need not reach it (ClimbsEveryTime).                      *)
Generous == link > 0 /\ Usable(link) >= MaxBps
ClimbsBack ==
    <>[](autoRate /\ Generous) => <>[](MaxBps - bps <= bps \div 20)

(* Of next_bitrate (bandwidth.rs): "The dead-band only suppresses tiny       *)
(* *reductions*: a climb is always a full 10% step, which clears the 5%      *)
(* threshold by construction."  The step that the ceiling cuts short does    *)
(* not, and the ladder, which goes up from the ceiling alone, waits for ever. *)
ClimbsEveryTime ==
    [][ControlRate /\ autoRate /\ Usable(link) >= bps /\ bps < MaxBps => bps' > bps]_rateVars

=============================================================================
