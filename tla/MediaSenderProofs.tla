-------------------------- MODULE MediaSenderProofs --------------------------
(***************************************************************************)
(* Theorems about MediaSender, for any history cap, id space, number of    *)
(* streams and packets.  The buffers need only the sender.  What the       *)
(* sender believes of the receiver needs the receiver too: feedback never  *)
(* claims more than the receiver has, the receiver never has more than was *)
(* sent, and so, until a stream strays, every acknowledgement lies in the  *)
(* window in which ExpandInverts says the 8-bit id is read correctly.      *)
(***************************************************************************)
EXTENDS MediaSender, TLAPS

(* Division with remainder, for any integer and any positive divisor. *)
LEMMA DivisionInt ==
  ASSUME NEW a \in Int, NEW n \in Nat \ {0}
  PROVE  /\ a \div n \in Int /\ a % n \in 0 .. n - 1
         /\ a = n * (a \div n) + (a % n)
  OBVIOUS

(* A multiple of n strictly inside an interval around 0 is a small one. *)
LEMMA Multiple ==
  ASSUME NEW n \in Nat \ {0}, NEW k \in Int, NEW d \in Int, d = n * k
  PROVE  /\ d < n => k <= 0
         /\ d > -n => k >= 0
         /\ d > -(2 * n) => k >= -1
  <1>1. k >= 1 => n * k >= n
    OBVIOUS
  <1>2. k <= -1 => n * k <= -n
    OBVIOUS
  <1>3. k <= -2 => n * k <= -(2 * n)
    OBVIOUS
  <1> QED
    BY <1>1, <1>2, <1>3

(* expand_frame_id gives back the id it was made from, when that is in the    *)
(* window of half the id space around the reference.                          *)
LEMMA ExpandInverts ==
  ASSUME NEW a \in Int, NEW c \in Int,
         a - c < IdSpan \div 2, c - a <= IdSpan \div 2
  PROVE  Expand(a % IdSpan, c) = a
  <1> DEFINE h == IdSpan \div 2
             r == a % IdSpan
             delta == (r - c) % IdSpan
             q == (a \div IdSpan) + ((r - c) \div IdSpan)
  <1>1. IdSpan \in Nat \ {0} /\ h \in Nat /\ IdSpan = 2 * h /\ h > 0
    BY SpanAssumption
  <1>2. r \in Int /\ a \div IdSpan \in Int /\ a = IdSpan * (a \div IdSpan) + r
    BY <1>1, DivisionInt
  <1>3. /\ delta \in 0 .. IdSpan - 1 /\ (r - c) \div IdSpan \in Int
        /\ r - c = IdSpan * ((r - c) \div IdSpan) + delta
    <2>1. r - c \in Int
      BY <1>2
    <2> QED
      BY <2>1, <1>1, DivisionInt
  <1>4. q \in Int /\ a - c - delta = IdSpan * q
    <2> DEFINE x == a \div IdSpan
               y == (r - c) \div IdSpan
    <2>1. x \in Int /\ y \in Int /\ q = x + y
      BY <1>2, <1>3
    <2>2. IdSpan * (x + y) = IdSpan * x + IdSpan * y
      BY <1>1, <2>1
    <2>3. a = IdSpan * x + r /\ r - c = IdSpan * y + delta
      BY <1>2, <1>3
    <2>4. IdSpan * x \in Int /\ IdSpan * y \in Int
      BY <1>1, <2>1
    <2> HIDE DEF x, y, q, delta, r
    <2> QED
      BY <1>1, <1>2, <1>3, <2>1, <2>2, <2>3, <2>4
  <1> HIDE DEF h, r, delta, q
  <1>5. CASE a >= c
    <2>1. q = 0
      BY <1>1, <1>3, <1>4, <1>5, Multiple DEF h
    <2>2. delta = a - c
      BY <1>1, <1>3, <1>4, <2>1
    <2> QED
      BY <1>1, <2>2 DEF Expand, h, r, delta
  <1>6. CASE a < c
    <2>1. q = -1
      <3>1. a - c - delta < 0 /\ a - c - delta > -(2 * IdSpan)
        BY <1>1, <1>3, <1>6 DEF h
      <3>2. q >= -1 /\ q <= 0
        BY <3>1, <1>1, <1>3, <1>4, Multiple
      <3>3. q # 0
        BY <3>1, <1>4, <1>1
      <3> QED
        BY <3>2, <3>3, <1>4
    <2>2. delta = a - c + IdSpan
      BY <1>1, <1>3, <1>4, <2>1
    <2>3. delta >= h
      BY <2>2, <1>1 DEF h
    <2> QED
      BY <1>1, <2>2, <2>3 DEF Expand, h, r, delta
  <1> QED
    BY <1>5, <1>6

(* Buffers: eviction and reuse pair up. *)
BuffersInv == \A s \in Stream : oldest[s] <= next[s]

BInv == TypeOK /\ BuffersInv /\ BuffersBounded

(* What is under way was sent, and the receiver has nothing else. *)
OnlySent ==
    /\ \A k \in toReceiver : k.frame < next[k.stream]
    /\ \A s \in Stream : complete[s] < next[s]
    /\ \A s \in Stream : \A h \in partial[s] : h[1] < next[s]

(* A stream that has not strayed has half the id space under way at most. *)
NotTooFar == \A s \in Stream \ strayed : next[s] - checkpoint[s] <= IdSpan \div 2

(* Feedback is at most out of date. *)
HonestFeedback == \A m \in toSender : m.checkpoint <= complete[m.stream]

(* The history starts right behind the acknowledged frames, or is full. *)
Kept == \A s \in Stream : HistoryLen(s) = Cap \/ oldest[s] <= checkpoint[s] + 1

AInv == /\ BInv
        /\ OnlySent /\ NotTooFar /\ HonestFeedback /\ Kept /\ ConfirmedArrived

LEMMA Constants ==
  /\ Cap \in Nat \ {0} /\ IdSpan \in Nat \ {0}
  /\ MostPackets \in Nat /\ MaxFrames \in Nat
  /\ \A f \in Frame : PerFrame[f] \in 1 .. MostPackets
  /\ MaxFeedback \in Nat /\ IdSpan \div 2 \in Nat \ {0}
  BY CapAssumption, SpanAssumption, EnvironmentAssumption DEF Frame

LEMMA ExpandInt ==
  ASSUME NEW a \in Int, NEW c \in Int
  PROVE  Expand(a % IdSpan, c) \in Int
  <1>1. a % IdSpan \in Int
    BY Constants, DivisionInt
  <1>2. (a % IdSpan) - c \in Int
    BY <1>1
  <1>3. ((a % IdSpan) - c) % IdSpan \in Int
    BY <1>2, Constants, DivisionInt
  <1> QED
    BY <1>3, Constants DEF Expand

(* What a packet sent again can be. *)
LEMMA ResendRtp ==
  ASSUME TypeOK, NEW s \in Stream, NEW from \in Nat, NEW f, NEW p
  PROVE  \A k \in Resend(s, from, f, p) :
            k \in Rtp /\ k.stream = s /\ k.frame < next[s]
  <1> SUFFICES ASSUME NEW k \in Resend(s, from, f, p)
               PROVE  k \in Rtp /\ k.stream = s /\ k.frame < next[s]
    OBVIOUS
  <1>1. f \in from .. next[s] - 1 /\ k \in PacketsOf(s, f)
    BY DEF Resend
  <1>2. f \in Frame /\ f < next[s]
    BY <1>1, Constants DEF TypeOK, Frame
  <1>3. PacketIds(f) \subseteq Packet
    BY <1>2, Constants DEF PacketIds, Packet
  <1> QED
    BY <1>1, <1>2, <1>3 DEF PacketsOf, Rtp

(* The ids an acknowledgement is turned into, and where the history then starts. *)
LEMMA RtcpTypes ==
  ASSUME TypeOK, NEW m \in toSender
  PROVE  LET s    == m.stream
             read == Expand(m.checkpoint % IdSpan, checkpoint[s])
             ack  == Larger(checkpoint[s], read)
             from == Larger(oldest[s], Smaller(ack + 1, next[s]))
         IN  /\ s \in Stream /\ m.checkpoint \in Frame \cup {-1}
             /\ read \in Int /\ ack \in Nat \cup {-1} /\ from \in Nat
             /\ ack >= checkpoint[s] /\ ack >= read
             /\ from >= oldest[s]
             /\ oldest[s] <= next[s] => from <= next[s]
             /\ from > oldest[s] => from <= ack + 1
  <1> DEFINE s == m.stream
             read == Expand(m.checkpoint % IdSpan, checkpoint[s])
             ack  == Larger(checkpoint[s], read)
             from == Larger(oldest[s], Smaller(ack + 1, next[s]))
  <1>1. s \in Stream /\ m.checkpoint \in Frame \cup {-1}
    BY DEF TypeOK, Feedback
  <1>2. checkpoint[s] \in Nat \cup {-1} /\ oldest[s] \in Nat /\ next[s] \in Nat
    BY <1>1, Constants DEF TypeOK
  <1>3. read \in Int
    <2>1. m.checkpoint \in Int /\ checkpoint[s] \in Int
      BY <1>1, <1>2, Constants DEF Frame
    <2> QED
      BY <2>1, ExpandInt
  <1> HIDE DEF read, s
  <1>4. ack \in Nat \cup {-1} /\ ack >= checkpoint[s] /\ ack >= read
    BY <1>2, <1>3 DEF Larger
  <1> HIDE DEF ack
  <1>5. /\ from \in Nat /\ from >= oldest[s]
        /\ oldest[s] <= next[s] => from <= next[s]
        /\ from > oldest[s] => from <= ack + 1
    BY <1>2, <1>4 DEF Larger, Smaller
  <1> QED
    BY <1>1, <1>3, <1>4, <1>5 DEF s, read, ack

LEMMA TypeStep == TypeOK /\ [Next]_vars => TypeOK'
  <1> SUFFICES ASSUME TypeOK, [Next]_vars PROVE TypeOK'
    OBVIOUS
  <1> USE Constants
  <1>1. ASSUME NEW s \in Stream, SendFrame(s) PROVE TypeOK'
    <2>1. next[s] \in 0 .. MaxFrames - 1 /\ oldest[s] \in Nat /\ spare[s] \in Nat
      BY <1>1 DEF TypeOK, SendFrame
    <2>2. next' \in [Stream -> 0 .. MaxFrames]
      BY <1>1, <2>1 DEF TypeOK, SendFrame
    <2>3. oldest' \in [Stream -> Nat] /\ spare' \in [Stream -> Nat]
      BY <1>1, <2>1 DEF TypeOK, SendFrame
    <2>4. PacketsOf(s, next[s]) \subseteq Rtp
      <3>1. next[s] \in Frame
        BY <2>1 DEF Frame
      <3>2. PacketIds(next[s]) \subseteq Packet
        BY <3>1, Constants DEF PacketIds, Packet
      <3> QED
        BY <3>1, <3>2 DEF PacketsOf, Rtp
    <2>5. toReceiver' \subseteq Rtp
      BY <1>1, <2>4 DEF TypeOK, SendFrame
    <2> QED
      BY <1>1, <2>2, <2>3, <2>5 DEF TypeOK, SendFrame
  <1>2. ASSUME NEW s \in Stream, SendReport(s) \/ ReportInterval(s) PROVE TypeOK'
    BY <1>2 DEF TypeOK, SendReport, ReportInterval, wireVars
  <1>3. ASSUME NEW s \in Stream, SendFeedback(s) PROVE TypeOK'
    <2>1. Nacks(s) \subseteq Frame \X (0 .. AllPacketsLost)
      BY DEF Nacks, Missing, AllPacketsLost, Packet
    <2>2. [stream |-> s, checkpoint |-> complete[s], nacks |-> Nacks(s)] \in Feedback
      BY <2>1 DEF TypeOK, Feedback
    <2> QED
      BY <1>3, <2>2 DEF TypeOK, SendFeedback, senderVars
  <1>4. ASSUME NEW m \in toSender, ReceiveRtcp(m) PROVE TypeOK'
    <2> DEFINE s == m.stream
               read == Expand(m.checkpoint % IdSpan, checkpoint[s])
               ack  == Larger(checkpoint[s], read)
               from == Larger(oldest[s], Smaller(ack + 1, next[s]))
    <2>1. s \in Stream /\ ack \in Nat \cup {-1} /\ from \in Nat /\ from >= oldest[s]
      BY RtcpTypes
    <2>2. /\ toSender' = toSender \ {m}
          /\ checkpoint' = [checkpoint EXCEPT ![s] = ack]
          /\ oldest' = [oldest EXCEPT ![s] = from]
          /\ spare' = [spare EXCEPT ![s] = @ + (from - oldest[s])]
          /\ toReceiver' = toReceiver \cup
                UNION {Resend(s, from, n[1], n[2]) : n \in Asked(m, read)}
          /\ UNCHANGED <<next, reported, reports, complete, partial>>
      BY <1>4 DEF ReceiveRtcp
    <2>3. \A n \in Asked(m, read) : Resend(s, from, n[1], n[2]) \subseteq Rtp
      BY <2>1, ResendRtp
    <2> HIDE DEF s, read, ack, from
    <2>4. toReceiver' \subseteq Rtp
      BY <2>2, <2>3 DEF TypeOK
    <2>5. oldest[s] \in Nat /\ spare[s] \in Nat
      BY <2>1 DEF TypeOK
    <2>6. spare' \in [Stream -> Nat]
      BY <2>1, <2>2, <2>5 DEF TypeOK
    <2>7. strayed' \subseteq Stream
      BY <1>4, <2>1 DEF ReceiveRtcp, TypeOK, s
    <2> QED
      BY <2>1, <2>2, <2>4, <2>6, <2>7 DEF TypeOK
  <1>5. ASSUME NEW k \in toReceiver, Deliver(k) PROVE TypeOK'
    <2> DEFINE s == k.stream
               have == partial[s] \cup {<<k.frame, k.packet>>}
    <2>1. s \in Stream /\ <<k.frame, k.packet>> \in Frame \X Packet
      BY DEF TypeOK, Rtp
    <2>2. have \subseteq Frame \X Packet
      BY <2>1 DEF TypeOK
    <2>3. complete[s] \in Frame \cup {-1}
      BY <2>1 DEF TypeOK
    <2>4. CASE UNCHANGED <<complete, partial>>
      BY <1>5, <2>4 DEF Deliver, TypeOK, senderVars
    <2>5. CASE \E n \in complete[s] .. MaxFrames - 1 :
                  /\ complete' = [complete EXCEPT ![s] = n]
                  /\ partial' = [partial EXCEPT ![s] = {h \in have : h[1] > n}]
      <3>1. PICK n \in complete[s] .. MaxFrames - 1 :
                  /\ complete' = [complete EXCEPT ![s] = n]
                  /\ partial' = [partial EXCEPT ![s] = {h \in have : h[1] > n}]
        BY <2>5
      <3>2. n \in Frame \cup {-1}
        BY <2>3 DEF Frame
      <3>3. {h \in have : h[1] > n} \subseteq Frame \X Packet
        BY <2>2
      <3>4. /\ complete' \in [Stream -> Frame \cup {-1}]
            /\ partial' \in [Stream -> SUBSET (Frame \X Packet)]
        BY <2>1, <3>1, <3>2, <3>3 DEF TypeOK
      <3> QED
        BY <1>5, <3>4 DEF Deliver, TypeOK, senderVars
    <2> QED
      BY <1>5, <2>4, <2>5 DEF Deliver
  <1>6. ASSUME NEW k \in toReceiver, Lose(k) PROVE TypeOK'
    BY <1>6 DEF TypeOK, Lose, senderVars
  <1>7. ASSUME NEW m \in toSender, LoseFeedback(m) PROVE TypeOK'
    BY <1>7 DEF TypeOK, LoseFeedback, senderVars
  <1>8. CASE UNCHANGED vars
    BY <1>8 DEF TypeOK, vars, senderVars, wireVars
  <1> QED
    BY <1>1, <1>2, <1>3, <1>4, <1>5, <1>6, <1>7, <1>8 DEF Next

LEMMA InitType == Init => TypeOK
  BY Constants DEF Init, TypeOK

(* The sender's and the wire's variables keep their types. *)
THEOREM TypeCorrect == Spec => []TypeOK
  BY InitType, TypeStep, PTL DEF Spec

-----------------------------------------------------------------------------
(* The buffers.                                                            *)

LEMMA BuffersStep == BInv /\ [Next]_vars => BuffersInv' /\ BuffersBounded'
  <1> SUFFICES ASSUME BInv, [Next]_vars, NEW t \in Stream
               PROVE  /\ oldest'[t] <= next'[t]
                      /\ next'[t] - oldest'[t] <= Cap
                      /\ next'[t] - oldest'[t] + spare'[t] <= Cap + 1
    BY DEF BuffersInv, BuffersBounded, HistoryLen
  <1>1. /\ next[t] \in Nat /\ oldest[t] \in Nat /\ spare[t] \in Nat
        /\ oldest[t] <= next[t]
        /\ next[t] - oldest[t] <= Cap
        /\ next[t] - oldest[t] + spare[t] <= Cap + 1
    BY Constants DEF BInv, TypeOK, BuffersInv, BuffersBounded, HistoryLen
  <1>2. ASSUME NEW s \in Stream, SendFrame(s)
        PROVE  /\ oldest'[t] <= next'[t]
               /\ next'[t] - oldest'[t] <= Cap
               /\ next'[t] - oldest'[t] + spare'[t] <= Cap + 1
    <2>1. CASE s = t
      <3> DEFINE evict == next[t] - oldest[t] + 1 > Cap
                 left  == IF spare[t] > 0 THEN spare[t] - 1 ELSE 0
      <3>1. /\ next'[t] = next[t] + 1
            /\ oldest'[t] = IF evict THEN oldest[t] + 1 ELSE oldest[t]
            /\ spare'[t] = IF evict THEN left + 1 ELSE left
        BY <1>2, <2>1 DEF SendFrame, HistoryLen, BInv, TypeOK
      <3> QED
        BY <1>1, <3>1, Constants
    <2>2. CASE s # t
      <3>1. next'[t] = next[t] /\ oldest'[t] = oldest[t] /\ spare'[t] = spare[t]
        BY <1>2, <2>2 DEF SendFrame, BInv, TypeOK
      <3> QED
        BY <1>1, <3>1
    <2> QED
      BY <2>1, <2>2
  <1>3. ASSUME NEW m \in toSender, ReceiveRtcp(m)
        PROVE  /\ oldest'[t] <= next'[t]
               /\ next'[t] - oldest'[t] <= Cap
               /\ next'[t] - oldest'[t] + spare'[t] <= Cap + 1
    <2> DEFINE s == m.stream
               read == Expand(m.checkpoint % IdSpan, checkpoint[s])
               ack  == Larger(checkpoint[s], read)
               from == Larger(oldest[s], Smaller(ack + 1, next[s]))
    <2>1. /\ s \in Stream /\ from \in Nat /\ from >= oldest[s]
          /\ oldest[s] <= next[s] => from <= next[s]
      BY RtcpTypes DEF BInv
    <2>2. /\ oldest' = [oldest EXCEPT ![s] = from]
          /\ spare' = [spare EXCEPT ![s] = @ + (from - oldest[s])]
          /\ next' = next
      BY <1>3 DEF ReceiveRtcp
    <2> HIDE DEF s, read, ack, from
    <2>3. CASE s = t
      <3>1. oldest'[t] = from /\ spare'[t] = spare[t] + (from - oldest[t])
        BY <2>2, <2>3 DEF BInv, TypeOK
      <3> QED
        BY <1>1, <2>1, <2>2, <2>3, <3>1, Constants
    <2>4. CASE s # t
      BY <1>1, <2>2, <2>4 DEF BInv, TypeOK
    <2> QED
      BY <2>3, <2>4
  <1>4. CASE UNCHANGED <<next, oldest, spare>>
    BY <1>1, <1>4
  <1> QED
    BY <1>2, <1>3, <1>4 DEF Next, vars, SendReport, ReportInterval, SendFeedback,
       LoseFeedback, Deliver, Lose, senderVars

LEMMA InitBuffers == Init => BInv
  <1> SUFFICES ASSUME Init PROVE BInv
    OBVIOUS
  <1>1. \A s \in Stream : next[s] = 0 /\ oldest[s] = 0 /\ spare[s] = 0
    BY DEF Init
  <1> QED
    BY <1>1, InitType, Constants DEF BInv, BuffersInv, BuffersBounded, HistoryLen

(* However long the session and whatever is acknowledged, lost or reordered, a *)
(* stream's history stays within its cap, and history and spares together hold *)
(* at most one buffer more (evict_oldest, send_frame).                         *)
THEOREM BuffersStayBounded == Spec => []BuffersBounded
  <1>1. BInv /\ [Next]_vars => BInv'
    BY TypeStep, BuffersStep DEF BInv
  <1>2. BInv => BuffersBounded
    BY DEF BInv
  <1> QED
    BY InitBuffers, <1>1, <1>2, PTL DEF Spec

-----------------------------------------------------------------------------
(* What the sender believes of the receiver.                               *)

(* Until its stream strays, an acknowledgement is within half the id space    *)
(* of the checkpoint it is read against.                                      *)
LEMMA AckIsRead ==
  ASSUME AInv, NEW m \in toSender, m.stream \notin strayed, ~StraysBehind(m)
  PROVE  Expand(m.checkpoint % IdSpan, checkpoint[m.stream]) = m.checkpoint
  <1> DEFINE s == m.stream
             a == m.checkpoint
             c == checkpoint[s]
             n == next[s]
             e == complete[s]
             h == IdSpan \div 2
  <1>1. s \in Stream /\ a \in Int
    BY Constants DEF AInv, BInv, TypeOK, Feedback, Frame
  <1>2. c \in Int /\ n \in Int /\ e \in Int
    BY <1>1, Constants DEF AInv, BInv, TypeOK, Frame
  <1>3. a <= e
    BY DEF AInv, HonestFeedback
  <1>4. e < n /\ n - c <= h
    BY <1>1 DEF AInv, OnlySent, NotTooFar
  <1>5. h \in Int
    BY SpanAssumption
  <1>6. ~(c - a > h)
    BY DEF StraysBehind
  <1> HIDE DEF s, a, c, n, e, h
  <1>7. a - c < h /\ c - a <= h
    BY <1>1, <1>2, <1>3, <1>4, <1>5, <1>6, Constants
  <1> QED
    BY <1>1, <1>2, <1>7, ExpandInverts DEF a, c, h, s

Rest == OnlySent /\ NotTooFar /\ HonestFeedback /\ Kept /\ ConfirmedArrived

LEMMA Numbers ==
  ASSUME TypeOK, NEW s \in Stream
  PROVE  /\ next[s] \in Nat /\ oldest[s] \in Nat
         /\ checkpoint[s] \in Int /\ complete[s] \in Int
  BY Constants DEF TypeOK, Frame

LEMMA RestSendFrame ==
  ASSUME AInv, NEW s \in Stream, SendFrame(s)
  PROVE  Rest'
  <1>1. TypeOK /\ TypeOK' /\ Rest /\ BuffersBounded
    <2>1. [Next]_vars
      BY DEF Next
    <2> QED
      BY <2>1, TypeStep DEF AInv, BInv, Rest
  <1>2. /\ next' = [next EXCEPT ![s] = @ + 1]
        /\ UNCHANGED <<checkpoint, complete, partial, toSender>>
        /\ strayed' = IF StraysAhead(s) THEN strayed \cup {s} ELSE strayed
    BY DEF SendFrame
  <1>3. \A t \in Stream : next'[t] = IF t = s THEN next[t] + 1 ELSE next[t]
    BY <1>1, <1>2 DEF TypeOK
  <1>4. OnlySent'
    <2>1. \A k \in toReceiver' : k.frame < next'[k.stream]
      <3> SUFFICES ASSUME NEW k \in toReceiver' PROVE k.frame < next'[k.stream]
        OBVIOUS
      <3>1. k.stream \in Stream /\ k.frame \in Nat
        BY <1>1 DEF TypeOK, Rtp, Frame
      <3>2. CASE k \in toReceiver
        BY <3>1, <3>2, <1>1, <1>3, Numbers DEF Rest, OnlySent
      <3>3. CASE k \in PacketsOf(s, next[s])
        <4>1. k.stream = s /\ k.frame = next[s]
          BY <3>3 DEF PacketsOf
        <4> QED
          BY <4>1, <1>1, <1>3, Numbers
      <3> QED
        BY <3>2, <3>3 DEF SendFrame
    <2>2. \A t \in Stream : complete'[t] < next'[t]
      BY <1>1, <1>2, <1>3, Numbers DEF Rest, OnlySent
    <2>3. \A t \in Stream : \A h \in partial'[t] : h[1] < next'[t]
      <3> SUFFICES ASSUME NEW t \in Stream, NEW h \in partial[t]
                   PROVE  h[1] < next'[t]
        BY <1>2
      <3>1. h[1] \in Nat
        BY <1>1 DEF TypeOK, Frame
      <3> QED
        BY <3>1, <1>1, <1>3, Numbers DEF Rest, OnlySent
    <2> QED
      BY <2>1, <2>2, <2>3 DEF OnlySent
  <1>5. NotTooFar'
    <2> SUFFICES ASSUME NEW t \in Stream, t \notin strayed'
                 PROVE  next'[t] - checkpoint[t] <= IdSpan \div 2
      BY <1>2 DEF NotTooFar
    <2>1. t \notin strayed /\ next[t] - checkpoint[t] <= IdSpan \div 2
      BY <1>1, <1>2 DEF Rest, NotTooFar
    <2>2. CASE t = s
      <3>1. ~(next[s] - checkpoint[s] >= IdSpan \div 2)
        BY <1>2, <2>2 DEF StraysAhead
      <3> QED
        BY <1>1, <1>3, <2>2, <3>1, Numbers, Constants
    <2>3. CASE t # s
      BY <1>3, <2>1, <2>3
    <2> QED
      BY <2>2, <2>3
  <1>6. HonestFeedback' /\ ConfirmedArrived'
    BY <1>1, <1>2 DEF Rest, HonestFeedback, ConfirmedArrived
  <1>7. Kept'
    <2> SUFFICES ASSUME NEW t \in Stream
                 PROVE  \/ next'[t] - oldest'[t] = Cap
                        \/ oldest'[t] <= checkpoint'[t] + 1
      BY DEF Kept, HistoryLen
    <2>1. \/ next[t] - oldest[t] = Cap
          \/ oldest[t] <= checkpoint[t] + 1
      BY <1>1 DEF Rest, Kept, HistoryLen
    <2>2. next[t] - oldest[t] <= Cap
      BY <1>1 DEF BuffersBounded, HistoryLen
    <2>3. oldest'[t] = IF t = s /\ next[t] - oldest[t] + 1 > Cap
                       THEN oldest[t] + 1 ELSE oldest[t]
      BY <1>1 DEF SendFrame, HistoryLen, TypeOK
    <2> QED
      BY <1>1, <1>2, <1>3, <2>1, <2>2, <2>3, Numbers, Constants
  <1> QED
    BY <1>4, <1>5, <1>6, <1>7 DEF Rest

LEMMA RestReceiveRtcp ==
  ASSUME AInv, NEW m \in toSender, ReceiveRtcp(m)
  PROVE  Rest'
  <1> DEFINE s == m.stream
             read == Expand(m.checkpoint % IdSpan, checkpoint[s])
             ack  == Larger(checkpoint[s], read)
             from == Larger(oldest[s], Smaller(ack + 1, next[s]))
  <1>1. TypeOK /\ Rest
    BY DEF AInv, BInv, Rest
  <1>2. /\ s \in Stream /\ m.checkpoint \in Int /\ ack \in Int /\ from \in Nat
        /\ ack >= checkpoint[s] /\ from >= oldest[s]
        /\ from > oldest[s] => from <= ack + 1
    BY <1>1, RtcpTypes, Constants DEF Frame
  <1>3. s \notin strayed' => s \notin strayed /\ read = m.checkpoint
    BY AckIsRead DEF ReceiveRtcp
  <1>4. /\ checkpoint' = [checkpoint EXCEPT ![s] = ack]
        /\ oldest' = [oldest EXCEPT ![s] = from]
        /\ UNCHANGED <<next, complete, partial>>
        /\ toSender' \subseteq toSender /\ strayed \subseteq strayed'
        /\ toReceiver' = toReceiver \cup
              UNION {Resend(s, from, n[1], n[2]) : n \in Asked(m, read)}
    BY DEF ReceiveRtcp
  <1>5. s \notin strayed' => ack <= complete[s]
    <2> SUFFICES ASSUME s \notin strayed' PROVE ack <= complete[s]
      OBVIOUS
    <2>1. m.checkpoint <= complete[s] /\ checkpoint[s] <= complete[s]
      BY <1>1, <1>2, <1>3 DEF Rest, HonestFeedback, ConfirmedArrived
    <2> QED
      BY <1>3, <2>1 DEF Larger
  <1>6. \A f, p : \A k \in Resend(s, from, f, p) : k.frame < next[k.stream]
    BY <1>1, <1>2, ResendRtp
  <1> HIDE DEF s, read, ack, from
  <1>7. \A t \in Stream : /\ checkpoint'[t] = IF t = s THEN ack ELSE checkpoint[t]
                          /\ oldest'[t] = IF t = s THEN from ELSE oldest[t]
    BY <1>1, <1>4 DEF TypeOK
  <1>8. OnlySent'
    <2>1. \A k \in toReceiver' : k.frame < next[k.stream]
      BY <1>1, <1>4, <1>6 DEF Rest, OnlySent
    <2> QED
      BY <1>1, <1>4, <2>1 DEF Rest, OnlySent
  <1>9. NotTooFar'
    <2> SUFFICES ASSUME NEW t \in Stream, t \notin strayed'
                 PROVE  next[t] - checkpoint'[t] <= IdSpan \div 2
      BY <1>4 DEF NotTooFar
    <2>1. next[t] - checkpoint[t] <= IdSpan \div 2
      BY <1>1, <1>4 DEF Rest, NotTooFar
    <2>2. next[t] \in Int /\ checkpoint[t] \in Int
      BY <1>1, Numbers
    <2> QED
      BY <1>2, <1>7, <2>1, <2>2, Constants
  <1>10. HonestFeedback'
    BY <1>1, <1>4 DEF Rest, HonestFeedback
  <1>11. ConfirmedArrived'
    <2> SUFFICES ASSUME NEW t \in Stream, t \notin strayed'
                 PROVE  checkpoint'[t] <= complete[t]
      BY <1>4 DEF ConfirmedArrived
    <2>1. checkpoint[t] <= complete[t]
      BY <1>1, <1>4 DEF Rest, ConfirmedArrived
    <2> QED
      BY <1>5, <1>7, <2>1
  <1>12. Kept'
    <2> SUFFICES ASSUME NEW t \in Stream
                 PROVE  \/ next[t] - oldest'[t] = Cap
                        \/ oldest'[t] <= checkpoint'[t] + 1
      BY <1>4 DEF Kept, HistoryLen
    <2>1. \/ next[t] - oldest[t] = Cap
          \/ oldest[t] <= checkpoint[t] + 1
      BY <1>1 DEF Rest, Kept, HistoryLen
    <2>2. next[t] \in Nat /\ oldest[t] \in Nat /\ checkpoint[t] \in Int
      BY <1>1, Numbers
    <2> QED
      BY <1>2, <1>7, <2>1, <2>2
  <1> QED
    BY <1>8, <1>9, <1>10, <1>11, <1>12 DEF Rest

LEMMA RestDeliver ==
  ASSUME AInv, NEW k \in toReceiver, Deliver(k)
  PROVE  Rest'
  <1> DEFINE s == k.stream
             have == partial[s] \cup {<<k.frame, k.packet>>}
  <1>1. TypeOK /\ Rest
    BY DEF AInv, BInv, Rest
  <1>2. UNCHANGED <<senderVars, strayed>> /\ toSender' = toSender /\ toReceiver' \subseteq toReceiver
    BY DEF Deliver
  <1>3. s \in Stream /\ k.frame \in Nat /\ k.frame < next[s]
    BY <1>1 DEF TypeOK, Rtp, Frame, Rest, OnlySent
  <1>4. CASE UNCHANGED <<complete, partial>>
    BY <1>1, <1>2, <1>4 DEF Rest, OnlySent, NotTooFar, HonestFeedback, Kept,
       ConfirmedArrived, HistoryLen, senderVars
  <1>5. CASE \E n \in complete[s] .. MaxFrames - 1 :
               /\ \A f \in complete[s] + 1 .. n :
                     f \in Frame /\ \A p \in PacketIds(f) : <<f, p>> \in have
               /\ complete' = [complete EXCEPT ![s] = n]
               /\ partial' = [partial EXCEPT ![s] = {h \in have : h[1] > n}]
    <2>1. PICK n \in complete[s] .. MaxFrames - 1 :
               /\ \A f \in complete[s] + 1 .. n :
                     f \in Frame /\ \A p \in PacketIds(f) : <<f, p>> \in have
               /\ complete' = [complete EXCEPT ![s] = n]
               /\ partial' = [partial EXCEPT ![s] = {h \in have : h[1] > n}]
      BY <1>5
    <2>2. \A h \in have : h[1] < next[s]
      BY <1>1, <1>3 DEF Rest, OnlySent
    <2>3. complete[s] \in Int /\ n \in Int /\ n >= complete[s]
      BY <1>1, <1>3, Numbers, Constants
    <2>4. n < next[s]
      <3>1. CASE n = complete[s]
        BY <1>1, <1>3, <3>1 DEF Rest, OnlySent
      <3>2. CASE n > complete[s]
        <4>1. n \in complete[s] + 1 .. n
          BY <2>3, <3>2
        <4>2. 0 \in PacketIds(n)
          BY <2>1, <4>1, Constants DEF PacketIds
        <4>3. <<n, 0>> \in have
          BY <2>1, <4>1, <4>2
        <4> QED
          BY <2>2, <4>3
      <3> QED
        BY <2>3, <3>1, <3>2
    <2> HIDE DEF have, s
    <2>5. \A t \in Stream :
            /\ complete'[t] = IF t = s THEN n ELSE complete[t]
            /\ partial'[t] = IF t = s THEN {h \in have : h[1] > n} ELSE partial[t]
      BY <1>1, <2>1 DEF TypeOK
    <2>6. \A t \in Stream : complete'[t] >= complete[t] /\ complete'[t] \in Int
      <3> SUFFICES ASSUME NEW t \in Stream
                   PROVE  complete'[t] >= complete[t] /\ complete'[t] \in Int
        OBVIOUS
      <3>1. complete[t] \in Int
        BY <1>1, Numbers
      <3>2. complete'[t] = IF t = s THEN n ELSE complete[t]
        BY <2>5
      <3>3. CASE t = s
        BY <2>3, <3>2, <3>3
      <3>4. CASE t # s
        BY <3>1, <3>2, <3>4
      <3> QED
        BY <3>3, <3>4
    <2>7. OnlySent'
      BY <1>1, <1>2, <2>2, <2>4, <2>5 DEF Rest, OnlySent, senderVars
    <2>8. HonestFeedback'
      <3> SUFFICES ASSUME NEW m \in toSender
                   PROVE  m.checkpoint <= complete'[m.stream]
        BY <1>2 DEF HonestFeedback
      <3>1. /\ m.stream \in Stream /\ m.checkpoint \in Int
            /\ m.checkpoint <= complete[m.stream]
        BY <1>1, Constants DEF TypeOK, Feedback, Frame, Rest, HonestFeedback
      <3> QED
        BY <1>1, <2>6, <3>1, Numbers
    <2>9. ConfirmedArrived'
      <3>1. \A t \in Stream \ strayed :
                checkpoint[t] <= complete[t] /\ checkpoint'[t] = checkpoint[t]
        BY <1>1, <1>2 DEF Rest, ConfirmedArrived, senderVars
      <3> QED
        BY <1>1, <1>2, <2>6, <3>1, Numbers DEF ConfirmedArrived
    <2>10. NotTooFar' /\ Kept'
      BY <1>1, <1>2 DEF Rest, NotTooFar, Kept, HistoryLen, senderVars
    <2> QED
      BY <2>7, <2>8, <2>9, <2>10 DEF Rest
  <1> QED
    BY <1>4, <1>5 DEF Deliver

LEMMA RestStep == AInv /\ [Next]_vars => Rest'
  <1> SUFFICES ASSUME AInv, [Next]_vars PROVE Rest'
    OBVIOUS
  <1>1. TypeOK /\ Rest
    BY DEF AInv, BInv, Rest
  <1>2. CASE \E s \in Stream : SendFeedback(s)
    <2>1. PICK s \in Stream : SendFeedback(s)
      BY <1>2
    <2>2. UNCHANGED <<senderVars, toReceiver, complete, partial, strayed>>
      BY <2>1 DEF SendFeedback
    <2>3. HonestFeedback'
      <3> SUFFICES ASSUME NEW m \in toSender'
                   PROVE  m.checkpoint <= complete[m.stream]
        BY <2>2 DEF HonestFeedback
      <3>1. CASE m \in toSender
        BY <1>1, <3>1 DEF Rest, HonestFeedback
      <3>2. CASE m = [stream |-> s, checkpoint |-> complete[s], nacks |-> Nacks(s)]
        BY <1>1, <3>2, Numbers
      <3> QED
        BY <2>1, <3>1, <3>2 DEF SendFeedback
    <2> QED
      BY <1>1, <2>2, <2>3 DEF Rest, OnlySent, NotTooFar, Kept, ConfirmedArrived,
         HistoryLen, senderVars
  <1>3. CASE /\ UNCHANGED <<next, oldest, checkpoint, complete, partial, strayed>>
             /\ toReceiver' \subseteq toReceiver /\ toSender' \subseteq toSender
    BY <1>1, <1>3 DEF Rest, OnlySent, NotTooFar, HonestFeedback, Kept,
       ConfirmedArrived, HistoryLen
  <1>4. CASE \E s \in Stream : SendReport(s) \/ ReportInterval(s)
    BY <1>3, <1>4 DEF SendReport, ReportInterval, wireVars
  <1>5. CASE \/ \E m \in toSender : LoseFeedback(m)
             \/ \E k \in toReceiver : Lose(k)
             \/ UNCHANGED vars
    BY <1>3, <1>5 DEF LoseFeedback, Lose, vars, senderVars, wireVars
  <1> QED
    BY <1>2, <1>4, <1>5, RestSendFrame, RestReceiveRtcp, RestDeliver DEF Next

LEMMA InitA == Init => AInv
  <1> SUFFICES ASSUME Init PROVE AInv
    OBVIOUS
  <1>1. /\ toReceiver = {} /\ toSender = {}
        /\ \A s \in Stream : /\ next[s] = 0 /\ oldest[s] = 0 /\ checkpoint[s] = -1
                             /\ complete[s] = -1 /\ partial[s] = {}
    BY DEF Init
  <1> QED
    BY <1>1, InitBuffers, Constants DEF AInv, OnlySent, NotTooFar, HonestFeedback,
       Kept, ConfirmedArrived

LEMMA AInvariant == Spec => []AInv
  <1>1. AInv /\ [Next]_vars => AInv'
    BY TypeStep, BuffersStep, RestStep DEF AInv, BInv, Rest
  <1> QED
    BY InitA, <1>1, PTL DEF Spec

(* Until a stream strays (a frame, or an acknowledgement, half the id space     *)
(* away from the checkpoint), the sender never counts a frame as received that *)
(* was not (service_rtcp, expand_frame_id): across every wrap of the 8-bit     *)
(* ids, with every acknowledgement lost, late or out of order.                 *)
THEOREM OnlyArrivedConfirmed == Spec => []ConfirmedArrived
  <1>1. AInv => ConfirmedArrived
    BY DEF AInv
  <1> QED
    BY AInvariant, <1>1, PTL

(* Until then, whatever the receiver misses of the last Cap frames can be sent *)
(* again: nothing it lacks was retired from the history.                       *)
THEOREM MissingStaysKept == Spec => []MissingIsKept
  <1>1. AInv => MissingIsKept
    <2> SUFFICES ASSUME AInv, NEW s \in Stream, s \notin strayed, NEW f \in Frame,
                        next[s] - Cap <= f, f < next[s], f > complete[s]
                 PROVE  InHistory(s, f)
      BY DEF MissingIsKept
    <2>1. /\ next[s] - oldest[s] = Cap \/ oldest[s] <= checkpoint[s] + 1
          /\ checkpoint[s] <= complete[s] /\ f \in Nat /\ TypeOK
      BY DEF AInv, BInv, Kept, HistoryLen, ConfirmedArrived, Frame
    <2>2. f >= oldest[s] /\ f <= next[s] - 1
      BY <2>1, Numbers, Constants
    <2> QED
      BY <2>1, <2>2, Numbers DEF InHistory
  <1> QED
    BY AInvariant, <1>1, PTL

(* And every acknowledgement is taken for what it says: the checkpoint becomes *)
(* the larger of the two, and never moves back whether the stream strayed or   *)
(* not.                                                                        *)
THEOREM EveryAckRead == Spec => AcksRead
  <1>1. ASSUME AInv, NEW m \in toSender, ReceiveRtcp(m)
        PROVE  /\ checkpoint'[m.stream] >= checkpoint[m.stream]
               /\ m.stream \notin strayed' =>
                    checkpoint'[m.stream] = Larger(checkpoint[m.stream], m.checkpoint)
    <2> DEFINE s == m.stream
               read == Expand(m.checkpoint % IdSpan, checkpoint[s])
               ack  == Larger(checkpoint[s], read)
    <2>1. TypeOK /\ s \in Stream /\ ack >= checkpoint[s]
      BY <1>1, RtcpTypes DEF AInv, BInv
    <2>2. s \notin strayed' => read = m.checkpoint
      BY <1>1, AckIsRead DEF ReceiveRtcp
    <2>3. checkpoint' = [checkpoint EXCEPT ![s] = ack]
      BY <1>1 DEF ReceiveRtcp
    <2> HIDE DEF s, read
    <2>4. checkpoint'[s] = ack
      BY <2>1, <2>3 DEF TypeOK
    <2> QED
      BY <2>1, <2>2, <2>4 DEF s
  <1>2. AInv => [\A m \in toSender : ReceiveRtcp(m) =>
                    /\ checkpoint'[m.stream] >= checkpoint[m.stream]
                    /\ m.stream \notin strayed' =>
                         checkpoint'[m.stream]
                           = Larger(checkpoint[m.stream], m.checkpoint)]_vars
    BY <1>1
  <1> QED
    BY AInvariant, <1>2, PTL DEF AcksRead
=============================================================================
