------------------------------ MODULE Bandwidth ------------------------------
(***************************************************************************)
(* The bandwidth estimator of the mirror sender (bandwidth.rs) and the     *)
(* calls the sender's thread makes to it: bursts as they are sent, bytes   *)
(* as the receiver confirms them, dated one round trip back, and an        *)
(* estimate whenever the control loop asks.  The sent and the packets tracker *)
(* get their samples together, and of the sent one only the instants are   *)
(* read: packets stands for both.  Time is counted in ticks since the      *)
(* estimator was made.                                                     *)
(***************************************************************************)
EXTENDS Integers, Functions

CONSTANTS
    Slices,      \* NUM_TIMESLICES
    SliceLen,    \* ticks in a slice
    PerTick,     \* packets a tick can carry: MAX_PACKETS_PER_BURST and BURST_INTERVAL
    RoundTrips,  \* the round trips a report may tell, in ticks
    MaxTime,     \* bound: ticks
    MaxFlight    \* bound: packets sent and not confirmed

ASSUME RingAssumption == Slices \in Nat \ {0} /\ SliceLen \in Nat \ {0}
ASSUME TimeAssumption ==
    /\ RoundTrips \subseteq Nat
    /\ PerTick \in Nat \ {0}
    /\ MaxTime \in Nat /\ MaxFlight \in Nat

VARIABLES
    now,          \* the clock
    packets,      \* the tracker of what was sent
    confirmed,    \* the tracker of what the receiver confirmed
    roundTrip,    \* round_trip, Never while unknown
    estimate,     \* what estimate_bps returned in this step
    flight,       \* sent and not confirmed
    heard         \* when the receiver last confirmed something, Never before

estimatorVars == <<now, packets, confirmed, roundTrip, estimate, flight, heard>>

Window == Slices * SliceLen  \* HISTORY_WINDOW
Never == -1000000
NoBandwidth == -1
Ring == 0 .. Slices - 1

-----------------------------------------------------------------------------
(* FlowTracker.                                                            *)

NewTracker == [history |-> [i \in Ring |-> 0], head |-> 0, started |-> 0,
               first |-> Never, last |-> Never]

(* Slices between the start of the newest one and t; none for an earlier t. *)
SlicesPassed(tr, t) == IF t <= tr.started THEN 0 ELSE (t - tr.started) \div SliceLen

(* Mutant: the slices passed over keep what they held. *)
AdvanceKeeping(tr, t) ==
    LET passed == SlicesPassed(tr, t)
    IN  [tr EXCEPT !.head = (@ + passed) % Slices, !.started = @ + passed * SliceLen]

(* advance_to: the slices passed over are emptied. *)
AdvanceTo(tr, t) ==
    LET passed == SlicesPassed(tr, t)
    IN  [tr EXCEPT
           !.history = [i \in Ring |->
               IF \/ passed >= Slices
                  \/ \E step \in 1 .. passed : i = (tr.head + step) % Slices
               THEN 0 ELSE tr.history[i]],
           !.head = (@ + passed) % Slices,
           !.started = @ + passed * SliceLen]

Accumulate(tr, n, t) ==
    LET moved == AdvanceTo(tr, t)
    IN  [moved EXCEPT !.history[moved.head] = @ + n,
                      !.first = IF @ = Never THEN t ELSE @,
                      !.last = t]

Total(tr) == SumFunction(tr.history)

-----------------------------------------------------------------------------
EstimatorInit ==
    /\ now = 0
    /\ packets = NewTracker
    /\ confirmed = NewTracker
    /\ roundTrip = Never
    /\ estimate = NoBandwidth
    /\ flight = 0
    /\ heard = Never

ClockTick ==
    /\ now < MaxTime
    /\ now' = now + 1
    /\ estimate' = NoBandwidth
    /\ UNCHANGED <<packets, confirmed, roundTrip, flight, heard>>

(* on_burst_sent; what a tick sends is one burst. *)
BurstSent == \E n \in 1 .. MaxFlight - flight :
    /\ packets.last # now
    /\ packets' = Accumulate(packets, n, now)
    /\ flight' = flight + n
    /\ estimate' = NoBandwidth
    /\ UNCHANGED <<now, confirmed, roundTrip, heard>>

(* Mutant: bytes are dated ahead instead of back. *)
DatedAhead(rtt) == IF rtt = Never THEN now ELSE now + rtt

SentAt(rtt) == IF rtt = Never THEN now ELSE now - rtt

(* service_rtcp for one packet: the round trip an earlier one told, if any   *)
(* (on_round_trip), then the bytes of the frames this one retires            *)
(* (on_bytes_confirmed).                                                     *)
BytesConfirmed == \E n \in 1 .. flight, rtt \in RoundTrips \cup {roundTrip} :
    /\ roundTrip' = rtt
    /\ confirmed' = Accumulate(confirmed, n, SentAt(rtt))
    /\ flight' = flight - n
    /\ heard' = now
    /\ estimate' = NoBandwidth
    /\ UNCHANGED <<now, packets>>

(* Mutant: the two histories are compared whatever they have in common. *)
AnyOverlap(sent, conf) == sent.first # Never /\ conf.first # Never

(* histories_overlap: half a window in common, counting from when both had   *)
(* begun, at the earliest from the start of the window.                      *)
HistoriesOverlap(sent, conf) ==
    LET later(a, b)   == IF a >= b THEN a ELSE b
        earlier(a, b) == IF a <= b THEN a ELSE b
        start == later(later(sent.first, conf.first), now - Window)
        end   == earlier(sent.last, conf.last)
    IN  /\ sent.first # Never /\ conf.first # Never
        /\ end > start /\ end - start >= Window \div 2

(* The part of the window spent transmitting, from the packets sent in it. *)
TransmitTime(sent) ==
    LET capacity == Window * PerTick
        carried  == IF sent > capacity THEN capacity ELSE IF sent = 0 THEN 1 ELSE sent
        time     == (Window * carried) \div capacity
    IN  IF time = 0 THEN 1 ELSE time

(* estimate_bps, in packets per window. *)
Estimated(sent, conf) ==
    IF Total(conf) = 0 \/ ~HistoriesOverlap(sent, conf) THEN NoBandwidth
    ELSE (Total(conf) * Window) \div TransmitTime(Total(sent))

(* control_rate, its interval over (RateControl has the interval; here any   *)
(* time will do): before a full window has gone by nothing moves.            *)
ControlDue ==
    /\ IF now < Window
       THEN estimate' = NoBandwidth /\ UNCHANGED <<packets, confirmed>>
       ELSE /\ packets' = AdvanceTo(packets, now)
            /\ confirmed' = AdvanceTo(confirmed, now)
            /\ estimate' = Estimated(packets', confirmed')
    /\ UNCHANGED <<now, roundTrip, flight, heard>>

EstimatorNext == ClockTick \/ BurstSent \/ BytesConfirmed \/ ControlDue

EstimatorSpec == EstimatorInit /\ [][EstimatorNext]_estimatorVars

-----------------------------------------------------------------------------
(* Properties.                                                             *)

TrackerOK(tr) ==
    /\ DOMAIN tr = {"history", "head", "started", "first", "last"}
    /\ tr.history \in [Ring -> Nat]
    /\ tr.head \in Ring
    /\ tr.started \in Nat
    /\ tr.first \in Int /\ tr.last \in Int

(* Every variable has its type. *)
EstimatorTypes ==
    /\ now \in 0 .. MaxTime
    /\ TrackerOK(packets) /\ TrackerOK(confirmed)
    /\ roundTrip \in RoundTrips \cup {Never}
    /\ estimate \in Nat \cup {NoBandwidth}
    /\ flight \in 0 .. MaxFlight
    /\ heard \in 0 .. MaxTime \cup {Never}

SliceOf(t) == t \div SliceLen

(* The ring, read by slice numbers. *)
Edge == SliceOf(confirmed.started)
KeptBytes == [s \in 0 .. MaxTime |->
                IF s <= Edge /\ s + Slices > Edge THEN confirmed.history[s % Slices] ELSE 0]

(* FlowTracker: the ring, its head and its start together are a window over  *)
(* the last slices: nothing that is due to count is wiped, nothing that has  *)
(* left the window still counts, whatever instants the samples are dated to. *)
IsWindow ==
    INSTANCE FlowWindow WITH Horizon <- MaxTime, Most <- MaxFlight, edge <- Edge, kept <- KeptBytes
ConfirmedIsWindow == IsWindow!WindowSpec

(* on_bytes_confirmed: what is confirmed counts in a slice of the round trip *)
(* just past: in none before the bytes were sent, in none still to come,     *)
(* although each estimate moves the window on to the present.                *)
DatedInRoundTrip ==
    [][BytesConfirmed =>
          /\ SliceOf(confirmed'.started) <= SliceOf(now)
          /\ SliceOf(confirmed'.started) >= SliceOf(SentAt(roundTrip'))]_estimatorVars

(* estimate_bps: a link that has gone dead is not read as a slow one: after  *)
(* half a window without a confirmation, or without sending, there is no     *)
(* estimate, and none before the first window is full.                       *)
EstimateIsFresh ==
    estimate # NoBandwidth =>
        /\ now >= Window
        /\ 2 * (now - heard) <= Window + 1
        /\ 2 * (now - packets.last) <= Window + 1

=============================================================================
