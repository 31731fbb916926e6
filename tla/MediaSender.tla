----------------------------- MODULE MediaSender -----------------------------
(***************************************************************************)
(* The mirror-sender thread of sender.rs between its encoder and a UDP     *)
(* network that loses, delays and reorders: the retransmit history of each *)
(* stream, the receiver's acknowledgements with their 8-bit frame ids, the *)
(* retransmissions they ask for, the recycled packet buffers and the       *)
(* Sender Reports.  The receiver is external: it collects packets, and     *)
(* reports how far it is complete and what it misses.                      *)
(*                                                                         *)
(* Frames enter the history in the order of their ids and leave it from    *)
(* the front, so a history is the interval oldest .. next - 1.             *)
(***************************************************************************)
EXTENDS Integers, FiniteSets

CONSTANTS
    Stream,       \* the streams of the session, by SSRC
    PerFrame,     \* how many packets each frame is split into
    MostPackets,  \* bound on them
    Cap,          \* MAX_HISTORY_FRAMES
    IdSpan,       \* how many frame ids the wire tells apart: 256
    MaxFrames,    \* bound on the frames of a stream
    MaxFeedback   \* bound on the RTCP packets under way

ASSUME CapAssumption == Cap \in Nat \ {0}
ASSUME SpanAssumption == IdSpan \in Nat \ {0} /\ IdSpan % 2 = 0
ASSUME EnvironmentAssumption ==
    /\ {MaxFrames, MaxFeedback, MostPackets} \subseteq Nat
    /\ PerFrame \in [0 .. MaxFrames - 1 -> 1 .. MostPackets]

VARIABLES
    next,        \* next_frame_id of each stream
    oldest,      \* the id at the front of the history (next, when it is empty)
    checkpoint,  \* the last frame the sender believes fully received
    spare,       \* how many spare buffers a stream keeps
    reported,    \* streams whose last_report is recent
    toReceiver,  \* RTP packets under way
    toSender,    \* RTCP feedback under way
    reports,     \* streams whose Sender Report went out
    complete,    \* external: the last frame the receiver is complete up to
    partial,     \* external: the packets it has beyond that
    strayed      \* ghost: the streams of which an id was, or could have come to
                 \* be, read against a reference half the id space away

senderVars == <<next, oldest, checkpoint, spare, reported>>
wireVars   == <<toReceiver, toSender, reports>>
vars == <<senderVars, wireVars, complete, partial, strayed>>

Frame == 0 .. MaxFrames - 1
Packet == 0 .. MostPackets - 1
Rtp == [stream : Stream, frame : Frame, packet : Packet]

(* The NACK of a whole frame. *)
AllPacketsLost == MostPackets

Feedback == [stream : Stream, checkpoint : Frame \cup {-1},
             nacks : SUBSET (Frame \X (0 .. AllPacketsLost))]

(* Every variable has its type; no count of buffers goes below zero. *)
TypeOK ==
    /\ next \in [Stream -> 0 .. MaxFrames]
    /\ oldest \in [Stream -> Nat]
    /\ checkpoint \in [Stream -> Nat \cup {-1}]
    /\ spare \in [Stream -> Nat]
    /\ reported \subseteq Stream
    /\ toReceiver \subseteq Rtp
    /\ toSender \subseteq Feedback
    /\ reports \subseteq Stream
    /\ complete \in [Stream -> Frame \cup {-1}]
    /\ partial \in [Stream -> SUBSET (Frame \X Packet)]
    /\ strayed \subseteq Stream

Init ==
    /\ next = [s \in Stream |-> 0]
    /\ oldest = [s \in Stream |-> 0]
    /\ checkpoint = [s \in Stream |-> -1]
    /\ spare = [s \in Stream |-> 0]
    /\ reported = {}
    /\ toReceiver = {}
    /\ toSender = {}
    /\ reports = {}
    /\ complete = [s \in Stream |-> -1]
    /\ partial = [s \in Stream |-> {}]
    /\ strayed = {}

Larger(a, b) == IF a >= b THEN a ELSE b
Smaller(a, b) == IF a <= b THEN a ELSE b

HistoryLen(s) == next[s] - oldest[s]
InHistory(s, f) == f \in oldest[s] .. next[s] - 1

(* A frame more than half the id space past the last acknowledged one. *)
StraysAhead(s) == next[s] - checkpoint[s] >= IdSpan \div 2

(* An acknowledgement more than half the id space behind the last one. *)
StraysBehind(m) == checkpoint[m.stream] - m.checkpoint > IdSpan \div 2

PacketIds(f) == 0 .. PerFrame[f] - 1
PacketsOf(s, f) == {[stream |-> s, frame |-> f, packet |-> p] : p \in PacketIds(f)}

-----------------------------------------------------------------------------
(* The sender thread.                                                      *)

(* Mutant: a full history is cleared and the frame is not kept. *)
SendFrameIfRoom(s) ==
    /\ next[s] < MaxFrames
    /\ strayed' = IF StraysAhead(s) THEN strayed \cup {s} ELSE strayed
    /\ \E taken \in SUBSET PacketsOf(s, next[s]) :
          toReceiver' = toReceiver \cup taken
    /\ next' = [next EXCEPT ![s] = @ + 1]
    /\ oldest' = [oldest EXCEPT
           ![s] = IF HistoryLen(s) >= Cap THEN next[s] + 1 ELSE @]
    /\ UNCHANGED <<checkpoint, spare, reported, toSender, reports,
                   complete, partial>>

(* send_frame: a spare buffer is taken if there is one, any of the packets   *)
(* may find the send buffer full, the frame enters the history, and the      *)
(* oldest leaves it when there are more than Cap.                            *)
SendFrame(s) ==
    /\ next[s] < MaxFrames
    /\ strayed' = IF StraysAhead(s) THEN strayed \cup {s} ELSE strayed
    /\ \E taken \in SUBSET PacketsOf(s, next[s]) :
          toReceiver' = toReceiver \cup taken
    /\ next' = [next EXCEPT ![s] = @ + 1]
    /\ LET evict == HistoryLen(s) + 1 > Cap
           left  == IF spare[s] > 0 THEN spare[s] - 1 ELSE 0
       IN /\ oldest' = [oldest EXCEPT ![s] = IF evict THEN @ + 1 ELSE @]
          /\ spare' = [spare EXCEPT ![s] = IF evict THEN left + 1 ELSE left]
    /\ UNCHANGED <<checkpoint, reported, toSender, reports,
                   complete, partial>>

(* Mutant: the id is taken in the window above the reference only. *)
ExpandForward(low, reference) == reference + ((low - reference) % IdSpan)

(* The id nearest the reference that the wire would show as low. *)
Expand(low, reference) ==
    LET delta == (low - reference) % IdSpan
    IN  reference + IF delta >= IdSpan \div 2 THEN delta - IdSpan ELSE delta

(* Mutant: the packet after the one that was asked for. *)
ResendNext(s, from, f, p) ==
    IF f \notin from .. next[s] - 1 THEN {}
    ELSE IF p = AllPacketsLost THEN PacketsOf(s, f)
    ELSE {k \in PacketsOf(s, f) : k.packet = p + 1}

(* What one NACK brings back, once the history starts at from. *)
Resend(s, from, f, p) ==
    IF f \notin from .. next[s] - 1 THEN {}
    ELSE IF p = AllPacketsLost THEN PacketsOf(s, f)
    ELSE {k \in PacketsOf(s, f) : k.packet = p}

(* parse_feedback: the frames that are asked for are read against the frame  *)
(* after the acknowledged one.                                               *)
Asked(m, acknowledged) ==
    {<<Expand(n[1] % IdSpan, acknowledged + 1), n[2]>> : n \in m.nacks}

(* Mutant: the acknowledgement replaces the checkpoint, however old it is. *)
ReceiveRtcpBackwards(m) ==
    LET s    == m.stream
        from == Larger(oldest[s],
                       Smaller(Expand(m.checkpoint % IdSpan, checkpoint[s]) + 1,
                               next[s]))
    IN  /\ m \in toSender
        /\ strayed' = IF StraysBehind(m) THEN strayed \cup {s} ELSE strayed
        /\ toSender' = toSender \ {m}
        /\ checkpoint' = [checkpoint EXCEPT
               ![s] = Expand(m.checkpoint % IdSpan, checkpoint[s])]
        /\ oldest' = [oldest EXCEPT ![s] = from]
        /\ spare' = [spare EXCEPT ![s] = @ + (from - oldest[s])]
        /\ UNCHANGED <<next, reported, toReceiver, reports, complete, partial>>

(* service_rtcp for one packet: the checkpoint never goes back, what it      *)
(* covers leaves the history (its bytes counted as confirmed), and what is   *)
(* left of the frames asked for goes out again.                              *)
ReceiveRtcp(m) ==
    LET s    == m.stream
        read == Expand(m.checkpoint % IdSpan, checkpoint[s])
        ack  == Larger(checkpoint[s], read)
        from == Larger(oldest[s], Smaller(ack + 1, next[s]))
        again == UNION {Resend(s, from, n[1], n[2]) : n \in Asked(m, read)}
    IN  /\ m \in toSender
        /\ strayed' = IF StraysBehind(m) THEN strayed \cup {s} ELSE strayed
        /\ toSender' = toSender \ {m}
        /\ checkpoint' = [checkpoint EXCEPT ![s] = ack]
        /\ oldest' = [oldest EXCEPT ![s] = from]
        /\ spare' = [spare EXCEPT ![s] = @ + (from - oldest[s])]
        /\ toReceiver' = toReceiver \cup again
        /\ UNCHANGED <<next, reported, reports, complete, partial>>

(* start_media opens the socket without a peer (net::bound_udp). *)
Connected == FALSE

(* A report is due for a stream that has sent and has not reported lately.   *)
(* socket.send needs a peer; its failure is ignored.                         *)
SendReport(s) ==
    /\ next[s] > 0
    /\ s \notin reported
    /\ reports' = IF Connected THEN reports \cup {s} ELSE reports
    /\ reported' = reported \cup {s}
    /\ UNCHANGED <<next, oldest, checkpoint, spare, toReceiver,
                   toSender, complete, partial, strayed>>

(* SENDER_REPORT_INTERVAL has passed. *)
ReportInterval(s) ==
    /\ s \in reported
    /\ reported' = reported \ {s}
    /\ UNCHANGED <<next, oldest, checkpoint, spare, wireVars,
                   complete, partial, strayed>>

-----------------------------------------------------------------------------
(* The network and the receiver.                                           *)

Lose(k) ==
    /\ k \in toReceiver
    /\ toReceiver' = toReceiver \ {k}
    /\ UNCHANGED <<senderVars, toSender, reports, complete, partial, strayed>>

LoseFeedback(m) ==
    /\ m \in toSender
    /\ toSender' = toSender \ {m}
    /\ UNCHANGED <<senderVars, toReceiver, reports, complete, partial, strayed>>

(* The receiver is complete up to the last frame before the first gap. *)
Deliver(k) ==
    LET s    == k.stream
        have == partial[s] \cup {<<k.frame, k.packet>>}
        Whole(f) == f \in Frame /\ \A p \in PacketIds(f) : <<f, p>> \in have
    IN  /\ k \in toReceiver
        /\ toReceiver' = toReceiver \ {k}
        /\ \/ /\ k.frame <= complete[s]
              /\ UNCHANGED <<complete, partial>>
           \/ /\ k.frame > complete[s]
              /\ \E n \in complete[s] .. MaxFrames - 1 :
                    /\ \A f \in complete[s] + 1 .. n : Whole(f)
                    /\ ~Whole(n + 1)
                    /\ complete' = [complete EXCEPT ![s] = n]
                    /\ partial' = [partial EXCEPT ![s] = {h \in have : h[1] > n}]
        /\ UNCHANGED <<senderVars, toSender, reports, strayed>>

(* The newest frame the receiver has seen anything of. *)
Seen(s) == {complete[s]} \cup {h[1] : h \in partial[s]}

Missing(s) ==
    {m \in Frame \X Packet :
        /\ m[2] \in PacketIds(m[1])
        /\ m[1] > complete[s] /\ m \notin partial[s]
        /\ \E g \in Seen(s) : m[1] <= g}

(* A frame none of which arrived is asked for as a whole. *)
Nacks(s) ==
    {<<m[1], IF \E h \in partial[s] : h[1] = m[1] THEN m[2] ELSE AllPacketsLost>> :
        m \in Missing(s)}

SendFeedback(s) ==
    /\ Cardinality(toSender) < MaxFeedback
    /\ toSender' = toSender \cup
           {[stream |-> s, checkpoint |-> complete[s], nacks |-> Nacks(s)]}
    /\ UNCHANGED <<senderVars, toReceiver, reports, complete, partial, strayed>>

-----------------------------------------------------------------------------
Next ==
    \/ \E s \in Stream : \/ SendFrame(s) \/ SendReport(s) \/ ReportInterval(s)
                         \/ SendFeedback(s)
    \/ \E m \in toSender : ReceiveRtcp(m) \/ LoseFeedback(m)
    \/ \E k \in toReceiver : Deliver(k) \/ Lose(k)

Spec == Init /\ [][Next]_vars

(* The thread is scheduled; feedback is received or lost, but not under way  *)
(* for ever.  Of the environment: the receiver reports again and again, of   *)
(* the reports sent again and again one arrives, and so does a packet of the *)
(* frame the receiver waits for when it is sent again and again.             *)
Current(m) == m.checkpoint = complete[m.stream] /\ m.nacks = Nacks(m.stream)
Needed(k) ==
    /\ k.frame = complete[k.stream] + 1
    /\ <<k.frame, k.packet>> \notin partial[k.stream]

FeedbackLands == \E m \in toSender : ReceiveRtcp(m) \/ LoseFeedback(m)
CurrentHeard(s) ==
    \E m \in toSender : m.stream = s /\ Current(m) /\ ReceiveRtcp(m)
NeededArrives(s) ==
    \E k \in toReceiver : k.stream = s /\ Needed(k) /\ Deliver(k)

Fairness ==
    /\ WF_vars(FeedbackLands)
    /\ \A s \in Stream :
          /\ WF_vars(SendReport(s)) /\ SF_vars(SendFeedback(s))
          /\ SF_vars(CurrentHeard(s)) /\ SF_vars(NeededArrives(s))

FairSpec == Spec /\ Fairness

-----------------------------------------------------------------------------
(* Properties.                                                             *)

(* Buffers are recycled, not piled up: a stream holds at most one more than  *)
(* the history cap, between its history and its spares.                      *)
BuffersBounded ==
    \A s \in Stream : HistoryLen(s) <= Cap /\ HistoryLen(s) + spare[s] <= Cap + 1

(* The sender never believes in more than the receiver has, so no byte is    *)
(* counted as confirmed (on_bytes_confirmed) that did not arrive: unless the *)
(* stream has strayed, in which case expand_frame_id may read an old id as   *)
(* one not sent yet.                                                         *)
ConfirmedArrived == \A s \in Stream \ strayed : checkpoint[s] <= complete[s]

(* Of the last Cap frames, whatever the receiver still misses can be sent    *)
(* again, unless the stream has strayed.                                     *)
MissingIsKept ==
    \A s \in Stream \ strayed : \A f \in Frame :
        next[s] - Cap <= f /\ f < next[s] /\ f > complete[s] => InHistory(s, f)

(* The checkpoint only moves forward, and an acknowledgement that arrives is *)
(* taken for what it says, unless the stream has strayed.                    *)
AcksRead ==
    [][\A m \in toSender : ReceiveRtcp(m) =>
          /\ checkpoint'[m.stream] >= checkpoint[m.stream]
          /\ m.stream \notin strayed' =>
                 checkpoint'[m.stream] = Larger(checkpoint[m.stream], m.checkpoint)]_vars

(* No gap stays for ever: again and again the receiver is complete up to all *)
(* it has seen, unless the frame it waits for had to leave the history or    *)
(* the stream has strayed, so that what is asked for is not understood.      *)
GapsFill ==
    \A s \in Stream :
        []<>(\/ \A g \in Seen(s) : g <= complete[s]
            \/ complete[s] + 1 < next[s] - Cap
            \/ s \in strayed)

=============================================================================
