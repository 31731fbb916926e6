-------------------------- MODULE MirrorSessionProofs -------------------------
(***************************************************************************)
(* Safety of mirroring for any number of casts and codecs and any receiver *)
(* that keeps the order of a connection: types, the instance a cast goes   *)
(* on with, the reason it gives for its end, and what it leaves behind.    *)
(***************************************************************************)
EXTENDS MirrorSession, TLAPS

-----------------------------------------------------------------------------
(* The invariant.                                                          *)

SessionOK ==
    /\ cast \in Cast \cup {0}
    /\ phase \in {"preparing", "negotiating", "selecting", "starting", "built",
                  "streaming", "encoder", "sender", "control", "joining", "over"}
    /\ screen \in BOOLEAN /\ audio \in BOOLEAN /\ stopWanted \in BOOLEAN
    /\ streams \in SUBSET Index
    /\ pipeline \in {"none", "built", "playing", "failed", "null"}
    /\ sender \in {"none", "running", "stopped"}
    /\ lastEvent \in Reason \cup {"none"}
    /\ stop \in BOOLEAN

ThreadOK ==
    /\ channel \in {"none", "connecting", "launching", "offering", "negotiated",
                    "checking", "receiving", "stopping", "ended"}
    /\ answer \in SUBSET Index
    /\ instance \in Instance \cup {None}
    /\ overdue \in BOOLEAN /\ confirmed \in BOOLEAN
    /\ reason \in Reason \cup {"none"}
    /\ told \in SUBSET Instance
    /\ events \in Seq(Reason)

ReceiverOK ==
    /\ link \in {"up", "broken", "closed"}
    /\ inbox \in Seq(Message)
    /\ requests \in [Cast -> Seq(RequestMessage)]
    /\ app \in Instance \cup {None} /\ stopping \in BOOLEAN
    /\ launched \in 0 .. MaxCasts
    /\ abandoned \in SUBSET Instance /\ ended \in SUBSET Instance

(* The session and the thread walk together, and the instance is known from  *)
(* the OFFER on.                                                             *)
Walk ==
    /\ phase = "preparing" => channel = "none"
    /\ phase = "negotiating" <=> channel \in {"connecting", "launching", "offering"}
    /\ phase = "selecting" <=> channel = "negotiated"
    /\ phase = "over" => channel \in {"none", "ended"}
    /\ streams # {} => channel \in {"checking", "receiving", "stopping", "ended"}
    /\ channel \in {"none", "connecting", "launching"} => instance = None
    /\ channel \in {"offering", "negotiated", "checking", "receiving", "stopping"}
         => instance # None
    /\ confirmed => channel = "ended"
    /\ reason # "none" => channel \in {"stopping", "ended"}

TInv == SessionOK /\ ThreadOK /\ ReceiverOK /\ Walk

(* The cast under way has left its loop, so the end of its instance may be   *)
(* its own doing.                                                            *)
Ours(i) == i = instance /\ channel \in {"stopping", "ended"}

(* The cast need not wonder that instance i has ended. *)
Explained(i) == i \in ended \cup abandoned \/ Ours(i)

(* Instances are numbered as they are launched: one that has ended never     *)
(* runs again.                                                               *)
Numbered ==
    /\ app <= launched /\ instance <= launched
    /\ \A k \in 1 .. Len(inbox) : inbox[k].type \in {"status", "close"}
                                    => inbox[k].app <= launched
    /\ \A c \in Cast : \A k \in 1 .. Len(requests[c]) : requests[c][k].app <= launched

(* What a message of the inbox tells, whenever it is read.                   *)
(* A CLOSE is about an instance that has ended; one that was named and has   *)
(* ended did so for a reason; and once the cast knows its instance, a status *)
(* without it tells that it is gone.                                         *)
Truthful(m) ==
    /\ m.type = "close" => m.app # None /\ m.app # app
    /\ m.type \in {"status", "close"} /\ m.app \notin {None, app} => Explained(m.app)
    /\ m.type = "status" /\ m.app # instance /\ instance # None => app # instance

(* A status that no longer names what an earlier one did tells the same. *)
Ordered ==
    \A j, k \in 1 .. Len(inbox) :
        /\ j < k /\ inbox[j].type = "status" /\ inbox[k].type = "status"
        /\ inbox[j].app # None /\ inbox[k].app # inbox[j].app
        => app # inbox[j].app

(* Only what runs and was told to stop shuts down. *)
Asked ==
    /\ stopping => app \in told
    /\ \A c \in Cast : \A k \in 1 .. Len(requests[c]) :
         requests[c][k].type = "stop" =>
            requests[c][k].app # None
              /\ (requests[c][k].app = app => app \in told)

(* What became of the instances. *)
Fates ==
    /\ \A i \in told : i \in abandoned \/ Ours(i)
    /\ instance # None /\ app # instance => Explained(instance)
    /\ reason \in {"stopped", "closed"} => instance \in ended \cup abandoned
    /\ confirmed => instance # None /\ app # instance
    /\ streams # {} /\ channel \in {"stopping", "ended"}
         => instance \in told \/ link = "broken"

Truth == \A k \in 1 .. Len(inbox) : Truthful(inbox[k])

Inv == Numbered /\ Truth /\ Ordered /\ Asked /\ Fates

-----------------------------------------------------------------------------
(* Sequences and messages.                                                 *)

LEMMA Rest ==
  ASSUME NEW S, NEW s \in Seq(S), s # <<>>
  PROVE  /\ Head(s) \in S /\ Head(s) = s[1] /\ 1 \in 1 .. Len(s)
         /\ Tail(s) \in Seq(S)
         /\ \A k \in 1 .. Len(Tail(s)) : k + 1 \in 1 .. Len(s) /\ Tail(s)[k] = s[k + 1]
  OBVIOUS

LEMMA OneMore ==
  ASSUME NEW S, NEW s \in Seq(S), NEW m \in S
  PROVE  /\ s \o <<m>> \in Seq(S) /\ Len(s \o <<m>>) = Len(s) + 1
         /\ \A k \in 1 .. Len(s) : (s \o <<m>>)[k] = s[k]
         /\ (s \o <<m>>)[Len(s) + 1] = m
  OBVIOUS

LEMMA TwoMore ==
  ASSUME NEW S, NEW s \in Seq(S), NEW m \in S, NEW n \in S
  PROVE  s \o (<<m>> \o <<n>>) = (s \o <<m>>) \o <<n>>
  OBVIOUS

LEMMA MessageParts ==
  ASSUME NEW m \in Message
  PROVE  /\ m.type \in {"status", "close"} => m.app \in Instance \cup {None}
         /\ m.type = "answer" => m.accepted \in SUBSET Index
  BY DEF Message

LEMMA Makes ==
  /\ \A i \in Instance \cup {None} :
       /\ [type |-> "status", app |-> i] \in Message
       /\ [type |-> "close", app |-> i] \in Message
       /\ \A t \in {"launch", "offer", "stop"} : Request(t, i) \in RequestMessage
  /\ [type |-> "launchError"] \in Message /\ [type |-> "rejected"] \in Message
  /\ \A a \in SUBSET Index : [type |-> "answer", accepted |-> a] \in Message
  BY DEF Message, RequestMessage, Request

-----------------------------------------------------------------------------
(* Types, and the walk of session and thread.                              *)

QuietStep ==
    \/ NothingToOffer \/ StartMedia \/ StartMediaFails \/ Play
    \/ StopEncoder \/ DropSender \/ DropChannel \/ JoinChannel

LeaveStep == StopRequested \/ DeviceEnded \/ CaptureClosed \/ PipelineError

LEMMA InitTypes == Init => TInv
  <1> SUFFICES ASSUME Init PROVE TInv
    OBVIOUS
  <1> USE DEF Init
  <1>1. SessionOK
    BY DEF SessionOK, Index
  <1>2. ThreadOK
    <2>1. /\ channel = "none" /\ answer = {} /\ instance = None /\ reason = "none"
          /\ overdue = FALSE /\ confirmed = FALSE /\ told = {} /\ events = <<>>
      OBVIOUS
    <2>2. <<>> \in Seq(Reason)
      OBVIOUS
    <2> HIDE DEF Init
    <2> QED
      BY <2>1, <2>2 DEF ThreadOK
  <1>3. ReceiverOK
    <2>1. /\ link = "closed" /\ inbox = <<>> /\ requests = [c \in Cast |-> <<>>]
          /\ app = None /\ stopping = FALSE /\ launched = 0
          /\ abandoned = {} /\ ended = {}
      OBVIOUS
    <2>2. inbox \in Seq(Message) /\ requests \in [Cast -> Seq(RequestMessage)]
      BY <2>1
    <2>3. launched \in 0 .. MaxCasts
      BY <2>1, CastsAssumption
    <2> HIDE DEF Init
    <2> QED
      BY <2>1, <2>2, <2>3 DEF ReceiverOK
  <1>4. Walk
    BY DEF Walk
  <1> QED
    BY <1>1, <1>2, <1>3, <1>4 DEF TInv

LEMMA BeginTypes == TInv /\ Begin => TInv'
  <1> SUFFICES ASSUME TInv, Begin PROVE TInv'
    OBVIOUS
  <1> USE DEF Begin, Session
  <1>1. SessionOK'
    <2>1. cast' \in Cast \cup {0}
      BY CastsAssumption DEF TInv, SessionOK, Cast
    <2>2. screen' \in BOOLEAN /\ audio' \in BOOLEAN
      BY DEF TInv, SessionOK
    <2> QED
      BY <2>1, <2>2 DEF SessionOK
  <1>2. ThreadOK'
    <2>1. told' \in SUBSET Instance
      BY DEF TInv, ThreadOK
    <2>2. /\ channel' = "none" /\ answer' = {} /\ instance' = None /\ reason' = "none"
          /\ overdue' = FALSE /\ confirmed' = FALSE /\ events' = <<>>
      OBVIOUS
    <2>3. <<>> \in Seq(Reason)
      OBVIOUS
    <2> HIDE DEF Begin
    <2> QED
      BY <2>1, <2>2, <2>3 DEF ThreadOK
  <1>3. ReceiverOK'
    <2>1. abandoned' \in SUBSET Instance /\ ended' = {}
      BY DEF TInv, ReceiverOK, ThreadOK
    <2>2. /\ UNCHANGED <<requests, app, stopping, launched>>
          /\ link' = "closed" /\ inbox' = <<>>
      OBVIOUS
    <2>3. <<>> \in Seq(Message)
      OBVIOUS
    <2> HIDE DEF Begin
    <2>4. stopping' \in BOOLEAN
      BY <2>2 DEF TInv, ReceiverOK
    <2> QED
      BY <2>1, <2>2, <2>3, <2>4 DEF TInv, ReceiverOK
  <1>4. Walk'
    BY DEF Walk
  <1> QED
    BY <1>1, <1>2, <1>3, <1>4 DEF TInv

(* A step of the session that touches nobody else's state. *)
LEMMA QuietTypes == TInv /\ (QuietStep \/ LeaveStep) => TInv'
  <1> SUFFICES ASSUME TInv, QuietStep \/ LeaveStep PROVE TInv'
    OBVIOUS
  <1> USE DEF QuietStep, LeaveStep, NothingToOffer, StartMedia, StartMediaFails, Play,
              StopEncoder, DropSender, DropChannel, JoinChannel, StopRequested,
              DeviceEnded, CaptureClosed, PipelineError, LeaveLoop, Session
  <1>1. UNCHANGED <<castVars, threadVars, wireVars, appVars, abandoned, streams>>
    BY DEF notSession, mediaVars
  <1>2. events' \in Seq(Reason) /\ lastEvent' \in Reason \cup {"none"}
    <2>1. events \in Seq(Reason) /\ lastEvent \in Reason \cup {"none"}
      BY DEF TInv, ThreadOK, SessionOK
    <2>2. \/ UNCHANGED <<events, lastEvent>>
          \/ events # <<>> /\ lastEvent' = Head(events) /\ events' = Tail(events)
      BY DEF notSession
    <2> HIDE DEF QuietStep, LeaveStep
    <2> QED
      BY <2>1, <2>2
  <1>3. /\ pipeline' \in {"none", "built", "playing", "failed", "null"}
        /\ sender' \in {"none", "running", "stopped"}
    BY DEF mediaVars, TInv, SessionOK
  <1>4. stop' \in BOOLEAN
    BY DEF TInv, SessionOK
  <1>5. /\ phase \notin {"negotiating", "selecting"}
        /\ phase' \in {"over", "built", "streaming", "encoder", "sender", "control", "joining"}
        /\ phase' = "over" => channel = "none" \/ channel = "ended"
    BY DEF TInv, Walk
  <1> HIDE DEF QuietStep, LeaveStep
  <1> USE DEF castVars, threadVars, wireVars, appVars
  <1>6. SessionOK'
    <2>1. screen' \in BOOLEAN /\ audio' \in BOOLEAN /\ stopWanted' \in BOOLEAN
      BY <1>1 DEF TInv, SessionOK
    <2> QED
      BY <1>1, <1>2, <1>3, <1>4, <1>5, <2>1 DEF TInv, SessionOK
  <1>7. ThreadOK'
    <2>1. overdue' \in BOOLEAN /\ confirmed' \in BOOLEAN
      BY <1>1 DEF TInv, ThreadOK
    <2> QED
      BY <1>1, <1>2, <2>1 DEF TInv, ThreadOK
  <1>8. ReceiverOK'
    <2>1. stopping' \in BOOLEAN
      BY <1>1 DEF TInv, ReceiverOK
    <2> QED
      BY <1>1, <2>1 DEF TInv, ReceiverOK
  <1>9. Walk'
    BY <1>1, <1>5 DEF TInv, Walk
  <1> QED
    BY <1>6, <1>7, <1>8, <1>9 DEF TInv

LEMMA SetupTypes == TInv /\ (StartNegotiation \/ Select \/ AskStop) => TInv'
  <1> SUFFICES ASSUME TInv, StartNegotiation \/ Select \/ AskStop PROVE TInv'
    OBVIOUS
  <1> USE DEF StartNegotiation, Select, AskStop, Session
  <1> USE DEF castVars, threadVars, mediaVars, wireVars, appVars
  <1>1. UNCHANGED <<cast, screen, audio, pipeline, sender, lastEvent, answer, instance,
                    overdue, reason, told, confirmed, stop, events, wireVars, appVars,
                    abandoned>>
    OBVIOUS
  <1>2. streams' \in SUBSET Index
    BY DEF Selection, TInv, SessionOK, ThreadOK
  <1>3. \/ UNCHANGED <<phase, channel, streams>> /\ phase # "over"
        \/ /\ phase = "preparing" /\ phase' = "negotiating"
           /\ channel' = "connecting" /\ streams' = streams
        \/ /\ phase = "selecting" /\ phase' = "starting" /\ channel' = "checking"
    OBVIOUS
  <1>4. stopWanted' \in BOOLEAN
    BY DEF TInv, SessionOK
  <1> HIDE DEF StartNegotiation, Select, AskStop
  <1>5. SessionOK'
    <2>1. screen' \in BOOLEAN /\ audio' \in BOOLEAN /\ stop' \in BOOLEAN
      BY <1>1 DEF TInv, SessionOK
    <2> QED
      BY <1>1, <1>2, <1>3, <1>4, <2>1 DEF TInv, SessionOK
  <1>6. ThreadOK'
    <2>1. overdue' \in BOOLEAN /\ confirmed' \in BOOLEAN
      BY <1>1 DEF TInv, ThreadOK
    <2> QED
      BY <1>1, <1>3, <2>1 DEF TInv, ThreadOK
  <1>7. ReceiverOK'
    <2>1. stopping' \in BOOLEAN
      BY <1>1 DEF TInv, ReceiverOK
    <2> QED
      BY <1>1, <2>1 DEF TInv, ReceiverOK
  <1>8. Walk'
    BY <1>1, <1>3 DEF TInv, Walk
  <1> QED
    BY <1>5, <1>6, <1>7, <1>8 DEF TInv

GiveUpStep == SelectFails \/ ConnectFails \/ NegotiationTimesOut \/ Refused \/ NegotiationFails

(* What the ways to give up the negotiation have in common. *)
LEMMA GivesUp ==
  ASSUME TInv, GiveUpStep
  PROVE  /\ channel \in {"connecting", "launching", "offering", "negotiated"} /\ streams = {}
         /\ phase' = "over" /\ channel' = "ended" /\ link' = "closed" /\ inbox' = <<>>
         /\ ~confirmed /\ reason = "none"
         /\ UNCHANGED <<castVars, mediaVars, lastEvent, answer, instance, overdue, reason,
                        told, confirmed, stop, events, requests, appVars, abandoned>>
  <1>1. channel \in {"connecting", "launching", "offering", "negotiated"}
    BY DEF GiveUpStep, SelectFails, ConnectFails, NegotiationTimesOut, Refused,
           NegotiationFails, TInv, Walk
  <1>2. Unavailable
    BY DEF GiveUpStep, SelectFails, ConnectFails, NegotiationTimesOut, Refused,
           NegotiationFails
  <1>3. streams = {} /\ ~confirmed /\ reason = "none"
    BY <1>1 DEF TInv, Walk
  <1> QED
    BY <1>1, <1>2, <1>3 DEF Unavailable

LEMMA GiveUpTypes == TInv /\ GiveUpStep => TInv'
  <1> SUFFICES ASSUME TInv, GiveUpStep PROVE TInv'
    OBVIOUS
  <1> USE DEF castVars, mediaVars, appVars
  <1>1. SessionOK'
    <2>1. screen' \in BOOLEAN /\ audio' \in BOOLEAN /\ stopWanted' \in BOOLEAN /\ stop' \in BOOLEAN
      BY GivesUp DEF TInv, SessionOK
    <2> QED
      BY GivesUp, <2>1 DEF TInv, SessionOK
  <1>2. ThreadOK'
    <2>1. overdue' \in BOOLEAN /\ confirmed' \in BOOLEAN
      BY GivesUp DEF TInv, ThreadOK
    <2> QED
      BY GivesUp, <2>1 DEF TInv, ThreadOK
  <1>3. ReceiverOK'
    <2>1. stopping' \in BOOLEAN
      BY GivesUp DEF TInv, ReceiverOK
    <2>2. <<>> \in Seq(Message)
      OBVIOUS
    <2> QED
      BY GivesUp, <2>1, <2>2 DEF TInv, ReceiverOK
  <1>4. Walk'
    BY GivesUp DEF TInv, Walk
  <1> QED
    BY <1>1, <1>2, <1>3, <1>4 DEF TInv

ThreadStep ==
    \/ Connect \/ AdoptApp \/ Answered \/ SkipMessage \/ CheckStop \/ NothingNew
    \/ StopSeen \/ AppGone \/ AppClosed \/ ConnectionLost \/ AppStopped \/ GiveUp
    \/ DeadlinePasses

(* A step of the thread: what it reads, what it writes and how it goes on. *)
LEMMA ThreadWay ==
  ASSUME TInv, ThreadStep
  PROVE  /\ UNCHANGED <<castVars, mediaVars, lastEvent, stop, appVars, abandoned>>
         /\ inbox' \in {inbox, <<>>} \/ (inbox # <<>> /\ inbox' = Tail(inbox))
         /\ link' \in {link, "up", "closed"}
         /\ overdue' \in BOOLEAN /\ confirmed' \in BOOLEAN
         /\ reason' \in Reason \cup {"none"}
         /\ channel \notin {"none", "ended"}
  <1> USE DEF ThreadStep, Connect, AdoptApp, Answered, SkipMessage, CheckStop, NothingNew,
              StopSeen, AppGone, AppClosed, ConnectionLost, AppStopped, GiveUp,
              DeadlinePasses, TellApp, Return, Receive, Channel
  <1>1. UNCHANGED <<castVars, mediaVars, lastEvent, stop, appVars, abandoned>>
    BY DEF notThread
  <1>2. inbox' \in {inbox, <<>>} \/ (inbox # <<>> /\ inbox' = Tail(inbox))
    BY DEF Gone, wireVars
  <1>3. link' \in {link, "up", "closed"}
    BY DEF wireVars
  <1>4. overdue' \in BOOLEAN
    BY DEF TInv, ThreadOK, threadVars
  <1>5. confirmed' \in BOOLEAN
    BY DEF TInv, ThreadOK, threadVars
  <1>6. reason' \in Reason \cup {"none"}
    BY DEF TInv, ThreadOK, threadVars, Reason
  <1>7. channel \notin {"none", "ended"}
    OBVIOUS
  <1> HIDE DEF ThreadStep
  <1> QED
    BY <1>1, <1>2, <1>3, <1>4, <1>5, <1>6, <1>7

(* The requests it writes, the answer and instance it takes from a message,  *)
(* and the reason it reports.                                                *)
LEMMA ThreadTypes == TInv /\ ThreadStep => TInv'
  <1> SUFFICES ASSUME TInv, ThreadStep PROVE TInv'
    OBVIOUS
  <1>i. inbox \in Seq(Message) /\ events \in Seq(Reason) /\ link \in {"up", "broken", "closed"}
    BY DEF TInv, ReceiverOK, ThreadOK
  <1>h. inbox # <<>> => Head(inbox) \in Message
    BY <1>i
  <1>j. instance \in Instance \cup {None}
    BY DEF TInv, ThreadOK
  <1>a. inbox # <<>> /\ Head(inbox).type = "status" => Head(inbox).app \in Instance \cup {None}
    BY <1>h, MessageParts
  <1>b. inbox # <<>> /\ Head(inbox).type = "answer" => Head(inbox).accepted \in SUBSET Index
    BY <1>h, MessageParts
  <1>r. \/ requests' = requests
        \/ \E r \in RequestMessage : requests' = [requests EXCEPT ![cast] = @ \o <<r>>]
    <2>1. CASE Connect
      BY <2>1, Makes DEF Connect
    <2>2. CASE AdoptApp
      BY <2>2, <1>a, Makes DEF AdoptApp, Send, Receive
    <2>3. CASE StopSeen \/ AppGone \/ AppClosed \/ ConnectionLost
      BY <2>3, <1>j, Makes DEF StopSeen, AppGone, AppClosed, ConnectionLost, TellApp, Send
    <2>4. CASE Answered \/ SkipMessage \/ CheckStop \/ NothingNew \/ AppStopped \/ GiveUp
               \/ DeadlinePasses
      BY <2>4 DEF Answered, SkipMessage, CheckStop, NothingNew, AppStopped, GiveUp,
                  DeadlinePasses, Return, wireVars
    <2> QED
      BY <2>1, <2>2, <2>3, <2>4 DEF ThreadStep
  <1>1. SessionOK'
    <2>1. phase' \in {phase, "selecting"}
      BY DEF ThreadStep, Connect, AdoptApp, Answered, SkipMessage, CheckStop, NothingNew,
             StopSeen, AppGone, AppClosed, ConnectionLost, AppStopped, GiveUp,
             DeadlinePasses, TellApp, Return
    <2>2. screen' \in BOOLEAN /\ audio' \in BOOLEAN /\ stopWanted' \in BOOLEAN /\ stop' \in BOOLEAN
      BY ThreadWay DEF TInv, SessionOK, castVars
    <2> QED
      BY ThreadWay, <2>1, <2>2 DEF TInv, SessionOK, castVars, mediaVars
  <1>2. ThreadOK'
    <2>1. events' \in Seq(Reason)
      <3>1. events' = events \/ \E w \in Reason : events' = Append(events, w)
        BY DEF ThreadStep, Connect, AdoptApp, Answered, SkipMessage, CheckStop, NothingNew,
               StopSeen, AppGone, AppClosed, ConnectionLost, AppStopped, GiveUp,
               DeadlinePasses, TellApp, Return, TInv, ThreadOK
      <3> QED
        BY <3>1, <1>i
    <2>2. answer' \in SUBSET Index /\ instance' \in Instance \cup {None}
      <3>1. CASE AdoptApp
        BY <3>1, <1>a DEF AdoptApp, Receive, TInv, ThreadOK
      <3>2. CASE Answered
        BY <3>2, <1>b DEF Answered, Receive, TInv, ThreadOK
      <3>3. CASE ThreadStep /\ ~AdoptApp /\ ~Answered
        <4>1. UNCHANGED <<answer, instance>>
          BY <3>3 DEF ThreadStep, Connect, SkipMessage, CheckStop, NothingNew,
                 StopSeen, AppGone, AppClosed, ConnectionLost, AppStopped, GiveUp,
                 DeadlinePasses, TellApp, Return, threadVars
        <4> QED
          BY <4>1 DEF TInv, ThreadOK
      <3> QED
        BY <3>1, <3>2, <3>3
    <2>3. told' \in SUBSET Instance
      <3>1. told' = told \/ (channel # "none" /\ told' = told \cup {instance} /\ instance # None)
        BY DEF ThreadStep, Connect, AdoptApp, Answered, SkipMessage, CheckStop, NothingNew,
               StopSeen, AppGone, AppClosed, ConnectionLost, AppStopped, GiveUp,
               DeadlinePasses, TellApp, Return, threadVars, TInv, Walk, Channel
      <3> QED
        BY <3>1, <1>j DEF TInv, ThreadOK
    <2>4. channel' \in {"none", "connecting", "launching", "offering", "negotiated",
                        "checking", "receiving", "stopping", "ended"}
      BY DEF ThreadStep, Connect, AdoptApp, Answered, SkipMessage, CheckStop, NothingNew,
             StopSeen, AppGone, AppClosed, ConnectionLost, AppStopped, GiveUp,
             DeadlinePasses, TellApp, Return, threadVars, TInv, ThreadOK, Channel
    <2> QED
      BY ThreadWay, <2>1, <2>2, <2>3, <2>4 DEF ThreadOK
  <1>3. ReceiverOK'
    <2>1. inbox' \in Seq(Message)
      <3>1. <<>> \in Seq(Message) /\ (inbox # <<>> => Tail(inbox) \in Seq(Message))
        BY <1>i
      <3> QED
        BY <3>1, <1>i, ThreadWay
    <2>2. requests' \in [Cast -> Seq(RequestMessage)]
      <3>1. requests \in [Cast -> Seq(RequestMessage)]
        BY DEF TInv, ReceiverOK
      <3>2. ASSUME NEW r \in RequestMessage, requests' = [requests EXCEPT ![cast] = @ \o <<r>>]
            PROVE  requests' \in [Cast -> Seq(RequestMessage)]
        <4>1. \A c \in Cast : requests[c] \o <<r>> \in Seq(RequestMessage)
          BY <3>1, OneMore
        <4> QED
          BY <3>1, <3>2, <4>1
      <3> QED
        BY <3>1, <3>2, <1>r
    <2>3. stopping' \in BOOLEAN
      BY ThreadWay DEF TInv, ReceiverOK, appVars
    <2> QED
      BY ThreadWay, <1>i, <2>1, <2>2, <2>3 DEF TInv, ReceiverOK, appVars
  <1>4. Walk'
    <2> USE DEF Channel, mediaVars
    <2>s. UNCHANGED streams
      BY ThreadWay
    <2>1. CASE Connect
      BY <2>1, <2>s DEF Connect, TInv, Walk
    <2>2. CASE AdoptApp
      BY <2>2, <2>s, <1>a DEF AdoptApp, Receive, TInv, Walk
    <2>3. CASE Answered
      BY <2>3, <2>s DEF Answered, TInv, Walk
    <2>4. CASE SkipMessage \/ DeadlinePasses
      BY <2>4, <2>s DEF SkipMessage, DeadlinePasses, threadVars, TInv, Walk
    <2>5. CASE CheckStop \/ NothingNew
      BY <2>5, <2>s DEF CheckStop, NothingNew, TInv, Walk
    <2>6. CASE StopSeen \/ AppGone \/ AppClosed \/ ConnectionLost
      BY <2>6, <2>s DEF StopSeen, AppGone, AppClosed, ConnectionLost, TellApp, TInv, Walk
    <2>7. CASE AppStopped \/ GiveUp
      BY <2>7, <2>s DEF AppStopped, GiveUp, Return, TInv, Walk
    <2> QED
      BY <2>1, <2>2, <2>3, <2>4, <2>5, <2>6, <2>7 DEF ThreadStep
  <1> QED
    BY <1>1, <1>2, <1>3, <1>4 DEF TInv

-----------------------------------------------------------------------------
(* The receiver and the network: types.                                    *)

RequestStep(c) == Launch(c) \/ HandleOffer(c) \/ HandleStop(c)

EndStep == ShutDown \/ WorldEndsApp

(* The end of an instance is told by one message or two. *)
LEMMA EndTold ==
  ASSUME TInv, AppEnds
  PROVE  /\ app' = None /\ stopping' = FALSE
         /\ UNCHANGED <<castVars, phase, mediaVars, lastEvent, threadVars, stop, events,
                        abandoned, link, requests, launched>>
         /\ \/ inbox' = inbox
            \/ inbox' = inbox \o <<[type |-> "status", app |-> None]>>
            \/ inbox' = (inbox \o <<[type |-> "close", app |-> app]>>)
                          \o <<[type |-> "status", app |-> None]>>
  <1>1. inbox \in Seq(Message) /\ app \in Instance \cup {None}
    BY DEF TInv, ReceiverOK
  <1>2. (inbox \o <<[type |-> "close", app |-> app]>>) \o <<[type |-> "status", app |-> None]>>
          = inbox \o (<<[type |-> "close", app |-> app]>> \o <<[type |-> "status", app |-> None]>>)
    <2>1. None \in Instance \cup {None}
      OBVIOUS
    <2> QED
      BY <1>1, <2>1, Makes, TwoMore
  <1>3. /\ app' = None /\ stopping' = FALSE
        /\ UNCHANGED <<notReceiver, link, requests, launched>>
    BY DEF AppEnds
  <1>4. \/ inbox' = inbox
        \/ inbox' = inbox \o <<[type |-> "status", app |-> None]>>
        \/ inbox' = inbox \o (<<[type |-> "close", app |-> app]>>
                                 \o <<[type |-> "status", app |-> None]>>)
    BY DEF AppEnds, Tell, Status
  <1> QED
    BY <1>2, <1>3, <1>4 DEF notReceiver

(* What the receiver writes into the inbox when it handles a request, and    *)
(* what else such a step changes.                                            *)
LEMMA RequestHandled ==
  ASSUME TInv, NEW c \in Cast, RequestStep(c)
  PROVE  /\ UNCHANGED <<castVars, phase, mediaVars, lastEvent, threadVars, stop, events,
                        abandoned, link, ended>>
         /\ requests[c] # <<>> /\ requests' = [requests EXCEPT ![c] = Tail(@)]
         /\ \/ UNCHANGED <<app, launched>>
            \/ app = None /\ launched < MaxCasts /\ app' = launched + 1 /\ launched' = app'
         /\ stopping' \in BOOLEAN
         /\ \/ inbox' = inbox
            \/ inbox' = inbox \o <<[type |-> "status", app |-> app']>>
            \/ \E m \in Message : /\ inbox' = inbox \o <<m>>
                                  /\ m.type \notin {"status", "close"}
  <1>1. UNCHANGED <<notReceiver, link, ended>>
    BY DEF RequestStep, Launch, HandleOffer, HandleStop, appVars
  <1>2. requests[c] # <<>> /\ requests' = [requests EXCEPT ![c] = Tail(@)]
    BY DEF RequestStep, Launch, HandleOffer, HandleStop, Handle
  <1>3. \/ UNCHANGED <<app, launched>>
        \/ app = None /\ launched < MaxCasts /\ app' = launched + 1 /\ launched' = app'
    BY DEF RequestStep, Launch, HandleOffer, HandleStop, appVars
  <1>4. stopping' \in BOOLEAN
    BY DEF RequestStep, Launch, HandleOffer, HandleStop, appVars, TInv, ReceiverOK
  <1>5. \/ inbox' = inbox
        \/ inbox' = inbox \o <<[type |-> "status", app |-> app']>>
        \/ \E m \in Message : inbox' = inbox \o <<m>> /\ m.type \notin {"status", "close"}
    <2>1. CASE Launch(c)
      <3>1. \/ inbox' = inbox
            \/ inbox' = inbox \o <<[type |-> "status", app |-> app']>>
            \/ inbox' = inbox \o <<[type |-> "launchError"]>>
        BY <2>1 DEF Launch, Reply, Tell, Status
      <3>2. [type |-> "launchError"].type \notin {"status", "close"}
        OBVIOUS
      <3> QED
        BY <3>1, <3>2, Makes
    <2>2. CASE HandleOffer(c)
      <3>1. \/ inbox' = inbox
            \/ inbox' = inbox \o <<[type |-> "rejected"]>>
            \/ \E a \in SUBSET Index : inbox' = inbox \o <<[type |-> "answer", accepted |-> a]>>
        BY <2>2 DEF HandleOffer, Reply, Tell, Offer
      <3>2. [type |-> "rejected"].type \notin {"status", "close"}
        OBVIOUS
      <3>3. \A a : [type |-> "answer", accepted |-> a].type \notin {"status", "close"}
        OBVIOUS
      <3> QED
        BY <3>1, <3>2, <3>3, Makes
    <2>3. CASE HandleStop(c)
      BY <2>3 DEF HandleStop
    <2> QED
      BY <2>1, <2>2, <2>3 DEF RequestStep
  <1> QED
    BY <1>1, <1>2, <1>3, <1>4, <1>5 DEF notReceiver

LEMMA WorldTypes ==
  TInv /\ ((\E c \in Cast : RequestStep(c)) \/ EndStep \/ VolunteerStatus \/ LinkFails) => TInv'
  <1> SUFFICES ASSUME TInv,
                      (\E c \in Cast : RequestStep(c)) \/ EndStep \/ VolunteerStatus \/ LinkFails
               PROVE  TInv'
    OBVIOUS
  <1>t. /\ inbox \in Seq(Message) /\ requests \in [Cast -> Seq(RequestMessage)]
        /\ app \in Instance \cup {None} /\ launched \in 0 .. MaxCasts
        /\ ended \in SUBSET Instance
    BY DEF TInv, ReceiverOK
  <1>1. UNCHANGED <<castVars, phase, mediaVars, lastEvent, threadVars, stop, events, abandoned>>
    BY RequestHandled, EndTold
       DEF EndStep, ShutDown, WorldEndsApp, VolunteerStatus, LinkFails, notReceiver
  <1>2. SessionOK'
    <2>1. screen' \in BOOLEAN /\ audio' \in BOOLEAN /\ stopWanted' \in BOOLEAN /\ stop' \in BOOLEAN
      BY <1>1 DEF TInv, SessionOK, castVars
    <2> QED
      BY <1>1, <2>1 DEF TInv, SessionOK, castVars, mediaVars
  <1>3. ThreadOK'
    <2>1. overdue' \in BOOLEAN /\ confirmed' \in BOOLEAN
      BY <1>1 DEF TInv, ThreadOK, threadVars
    <2> QED
      BY <1>1, <2>1 DEF TInv, ThreadOK, threadVars
  <1>4. Walk'
    BY <1>1 DEF TInv, Walk, threadVars, mediaVars
  <1>5. ReceiverOK'
    <2>n. None \in Instance \cup {None}
      OBVIOUS
    <2>1. CASE \E c \in Cast : RequestStep(c)
      <3>1. PICK c \in Cast : RequestStep(c)
        BY <2>1
      <3>2. requests' \in [Cast -> Seq(RequestMessage)]
        <4>1. requests[c] # <<>> /\ requests' = [requests EXCEPT ![c] = Tail(@)]
          BY <3>1, RequestHandled
        <4>2. Tail(requests[c]) \in Seq(RequestMessage)
          BY <1>t, <4>1
        <4> QED
          BY <1>t, <4>1, <4>2
      <3>3. app' \in Instance \cup {None} /\ launched' \in 0 .. MaxCasts
        <4>1. \/ UNCHANGED <<app, launched>>
              \/ launched < MaxCasts /\ app' = launched + 1 /\ launched' = app'
          BY <3>1, RequestHandled
        <4> QED
          BY <1>t, <4>1, CastsAssumption DEF Instance
      <3>4. inbox' \in Seq(Message)
        <4>1. [type |-> "status", app |-> app'] \in Message
          BY <3>3, Makes
        <4>2. \A m \in Message : inbox \o <<m>> \in Seq(Message)
          BY <1>t, OneMore
        <4> QED
          BY <1>t, <3>1, <4>1, <4>2, RequestHandled
      <3>5. stopping' \in BOOLEAN
        BY <3>1, RequestHandled
      <3>6. link' \in {"up", "broken", "closed"} /\ abandoned' \in SUBSET Instance
              /\ ended' \in SUBSET Instance
        BY <3>1, RequestHandled DEF TInv, ReceiverOK
      <3> QED
        BY <3>2, <3>3, <3>4, <3>5, <3>6 DEF ReceiverOK
    <2>2. CASE EndStep
      <3>1. AppEnds /\ ended' \in {ended, ended \cup {app}} /\ app # None
        BY <2>2 DEF EndStep, ShutDown, WorldEndsApp
      <3>2. inbox' \in Seq(Message)
        <4>1. [type |-> "status", app |-> None] \in Message /\ [type |-> "close", app |-> app] \in Message
          BY <1>t, <2>n, Makes
        <4>2. \A s \in Seq(Message), m \in Message : s \o <<m>> \in Seq(Message)
          BY OneMore
        <4> QED
          BY <1>t, <3>1, <4>1, <4>2, EndTold
      <3>3. stopping' \in BOOLEAN
        BY <3>1, EndTold
      <3>4. ended' \in SUBSET Instance
        BY <1>t, <3>1
      <3> QED
        BY <1>t, <3>1, <3>2, <3>3, <3>4, EndTold DEF TInv, ReceiverOK
    <2>3. CASE VolunteerStatus
      <3>1. UNCHANGED <<link, requests, app, stopping, launched, ended, abandoned>>
        BY <2>3 DEF VolunteerStatus, appVars, notReceiver
      <3>2. inbox' \in {inbox, inbox \o <<[type |-> "status", app |-> app]>>}
        BY <2>3 DEF VolunteerStatus, Tell, Status
      <3>3. inbox' \in Seq(Message)
        <4>1. [type |-> "status", app |-> app] \in Message
          BY <1>t, Makes
        <4> QED
          BY <1>t, <3>2, <4>1, OneMore
      <3>4. stopping' \in BOOLEAN
        BY <3>1 DEF TInv, ReceiverOK
      <3> QED
        BY <3>1, <3>3, <3>4 DEF TInv, ReceiverOK
    <2>4. CASE LinkFails
      <3>1. UNCHANGED <<requests, app, stopping, launched, ended, abandoned>> /\ link' = "broken"
        BY <2>4 DEF LinkFails, appVars, notReceiver
      <3>2. inbox' \in Seq(Message)
        <4>1. <<>> \in Seq(Message)
          OBVIOUS
        <4> QED
          BY <1>t, <2>4, <4>1 DEF LinkFails
      <3>3. stopping' \in BOOLEAN
        BY <3>1 DEF TInv, ReceiverOK
      <3> QED
        BY <3>1, <3>2, <3>3 DEF TInv, ReceiverOK
    <2> QED
      BY <2>1, <2>2, <2>3, <2>4
  <1> QED
    BY <1>2, <1>3, <1>4, <1>5 DEF TInv

LEMMA TypeStep == TInv /\ [Next]_vars => TInv'
  <1> SUFFICES ASSUME TInv, [Next]_vars PROVE TInv'
    OBVIOUS
  <1>1. CASE UNCHANGED vars
    <2>1. UNCHANGED <<castVars, phase, mediaVars, lastEvent, threadVars, stop, events,
                      wireVars, appVars, abandoned>>
      BY <1>1 DEF vars
    <2> QED
      BY <2>1 DEF castVars, mediaVars, threadVars, wireVars, appVars, TInv,
                  SessionOK, ThreadOK, ReceiverOK, Walk
  <1>2. CASE Begin
    BY <1>2, BeginTypes
  <1>3. CASE SessionStep
    BY <1>3, QuietTypes, SetupTypes, GiveUpTypes
       DEF SessionStep, QuietStep, LeaveStep, GiveUpStep
  <1>4. CASE ChannelStep \/ DeadlinePasses
    BY <1>4, GiveUpTypes, ThreadTypes DEF ChannelStep, ThreadStep, GiveUpStep
  <1>5. CASE WorldStep
    BY <1>5, QuietTypes, SetupTypes, WorldTypes DEF WorldStep, LeaveStep, RequestStep, EndStep
  <1> QED
    BY <1>1, <1>2, <1>3, <1>4, <1>5 DEF Next

LEMMA TypesKept == Spec => []TInv
  BY InitTypes, TypeStep, PTL DEF Spec

(* Every variable has its type. *)
THEOREM TypeCorrect == Spec => []TypeOK
  <1>1. TInv => TypeOK
    BY DEF TInv, TypeOK, SessionOK, ThreadOK, ReceiverOK
  <1> QED
    BY <1>1, TypesKept, PTL

-----------------------------------------------------------------------------
(* The invariant is kept.                                                  *)

LEMMA InitInv == Init => Inv
  <1> SUFFICES ASSUME Init PROVE Inv
    OBVIOUS
  <1>1. /\ app = None /\ instance = None /\ launched = 0 /\ stopping = FALSE
        /\ inbox = <<>> /\ requests = [c \in Cast |-> <<>>]
        /\ told = {} /\ streams = {} /\ reason = "none" /\ confirmed = FALSE
    BY DEF Init
  <1>2. Len(inbox) = 0 /\ \A c \in Cast : Len(requests[c]) = 0
    BY <1>1
  <1>3. Numbered
    BY <1>1, <1>2 DEF Numbered, None
  <1>4. Truth /\ Ordered
    BY <1>2 DEF Truth, Ordered
  <1>5. Asked
    BY <1>1, <1>2 DEF Asked
  <1>6. Fates
    BY <1>1 DEF Fates
  <1> QED
    BY <1>3, <1>4, <1>5, <1>6 DEF Inv

(* The next cast starts with an empty inbox; of the instances told to stop   *)
(* only the one that runs matters on, and it is abandoned: its cast has not  *)
(* seen it gone.                                                             *)
LEMMA BeginInv == TInv /\ Inv /\ Begin => Inv'
  <1> SUFFICES ASSUME TInv, Inv, Begin PROVE Inv'
    OBVIOUS
  <1>1. /\ UNCHANGED <<app, launched, requests, stopping>>
        /\ instance' = None /\ channel' = "none" /\ inbox' = <<>> /\ streams' = {}
        /\ reason' = "none" /\ confirmed' = FALSE
        /\ told' = told \cap {app}
        /\ abandoned' = IF confirmed THEN abandoned \cap told'
                        ELSE (abandoned \cup {instance}) \cap told'
    BY DEF Begin
  <1>2. Len(inbox') = 0
    BY <1>1
  <1>3. Numbered'
    <2>1. launched \in Nat
      BY DEF TInv, ReceiverOK
    <2> QED
      BY <1>1, <1>2, <2>1 DEF Inv, Numbered, None
  <1>4. Truth' /\ Ordered'
    BY <1>2 DEF Truth, Ordered
  <1>5. Asked'
    BY <1>1 DEF Inv, Asked
  <1>6. Fates'
    <2>1. ASSUME NEW i \in told' PROVE i \in abandoned'
      <3>1. i = app /\ i \in told /\ (i \in abandoned \/ i = instance)
        BY <1>1, <2>1 DEF Inv, Fates, Ours
      <3>2. i = instance => ~confirmed
        BY <3>1 DEF Inv, Fates
      <3> QED
        BY <1>1, <2>1, <3>1, <3>2
    <2> QED
      BY <1>1, <2>1 DEF Fates
  <1> QED
    BY <1>3, <1>4, <1>5, <1>6 DEF Inv

(* Steps of the session. *)
LEMMA SessionInv ==
  TInv /\ Inv /\ (QuietStep \/ LeaveStep \/ StartNegotiation \/ Select \/ AskStop) => Inv'
  <1> SUFFICES ASSUME TInv, Inv,
                      QuietStep \/ LeaveStep \/ StartNegotiation \/ Select \/ AskStop
               PROVE  Inv'
    OBVIOUS
  <1>1. UNCHANGED <<instance, reason, told, confirmed, wireVars, appVars, abandoned>>
    BY DEF QuietStep, LeaveStep, NothingToOffer, StartMedia, StartMediaFails, Play,
           StopEncoder, DropSender, DropChannel, JoinChannel, StopRequested,
           DeviceEnded, CaptureClosed, PipelineError, LeaveLoop, StartNegotiation,
           Select, AskStop, notSession, threadVars
  <1>2. \/ UNCHANGED <<streams, channel>>
        \/ channel' = "connecting" /\ UNCHANGED streams
             /\ channel \notin {"stopping", "ended"}
        \/ channel' = "checking" /\ channel \notin {"stopping", "ended"}
    <2>1. CASE QuietStep \/ LeaveStep \/ AskStop
      BY <2>1 DEF QuietStep, LeaveStep, NothingToOffer, StartMedia, StartMediaFails, Play,
           StopEncoder, DropSender, DropChannel, JoinChannel, StopRequested,
           DeviceEnded, CaptureClosed, PipelineError, LeaveLoop, AskStop, notSession,
           threadVars, mediaVars
    <2>2. CASE StartNegotiation
      BY <2>2 DEF StartNegotiation, Session, mediaVars, TInv, Walk
    <2>3. CASE Select
      BY <2>3 DEF Select, Session, TInv, Walk
    <2> QED
      BY <2>1, <2>2, <2>3
  <1>3. UNCHANGED <<link, inbox, requests, app, stopping, launched, ended>>
    BY <1>1 DEF wireVars, appVars
  <1>4. \A i : (Ours(i) => Ours(i)') /\ (Explained(i) => Explained(i)')
    BY <1>1, <1>2, <1>3 DEF Ours, Explained
  <1>5. Numbered'
    BY <1>1, <1>3 DEF Inv, Numbered
  <1>6. \A m : Truthful(m) => Truthful(m)'
    BY <1>1, <1>3, <1>4 DEF Truthful
  <1>7. Truth' /\ Ordered'
    BY <1>3, <1>6 DEF Inv, Truth, Ordered
  <1>8. Asked'
    BY <1>1, <1>3 DEF Inv, Asked
  <1>9. Fates'
    BY <1>1, <1>2, <1>3, <1>4 DEF Inv, Fates
  <1> QED
    BY <1>5, <1>7, <1>8, <1>9 DEF Inv

LEMMA GiveUpInv == TInv /\ Inv /\ GiveUpStep => Inv'
  <1> SUFFICES ASSUME TInv, Inv, GiveUpStep PROVE Inv'
    OBVIOUS
  <1>1. /\ UNCHANGED <<instance, reason, told, confirmed, requests, app, stopping, launched,
                       ended, abandoned, streams>>
        /\ channel' = "ended" /\ inbox' = <<>> /\ streams = {}
        /\ channel \notin {"stopping", "ended"}
    BY GivesUp DEF appVars, mediaVars
  <1>2. Len(inbox') = 0
    BY <1>1
  <1>3. \A i : (Ours(i) => Ours(i)') /\ (Explained(i) => Explained(i)')
    BY <1>1 DEF Ours, Explained
  <1>4. Numbered' /\ Truth' /\ Ordered'
    BY <1>1, <1>2 DEF Inv, Numbered, Truth, Ordered
  <1>5. Asked'
    BY <1>1 DEF Inv, Asked
  <1>6. Fates'
    BY <1>1, <1>3 DEF Inv, Fates
  <1> QED
    BY <1>4, <1>5, <1>6 DEF Inv

(* The thread reads its inbox from the front. *)
LEMMA Reads ==
  ASSUME TInv, ThreadStep
  PROVE  \E d \in {0, 1} : \A k \in 1 .. Len(inbox') :
            k + d \in 1 .. Len(inbox) /\ inbox'[k] = inbox[k + d]
  <1>1. inbox \in Seq(Message)
    BY DEF TInv, ReceiverOK
  <1>2. CASE inbox' = inbox
    <2>1. \A k \in 1 .. Len(inbox') : k + 0 \in 1 .. Len(inbox) /\ inbox'[k] = inbox[k + 0]
      BY <1>1, <1>2
    <2> QED
      BY <2>1
  <1>3. CASE inbox' = <<>>
    <2>1. Len(inbox') = 0
      BY <1>3
    <2> QED
      BY <2>1
  <1>4. CASE inbox # <<>> /\ inbox' = Tail(inbox)
    BY <1>1, <1>4, Rest
  <1> QED
    BY <1>2, <1>3, <1>4, ThreadWay

(* What it knows of its instance. *)
LEMMA ThreadKnows ==
  ASSUME TInv, Inv, ThreadStep
  PROVE  /\ UNCHANGED <<app, stopping, launched, ended, abandoned, streams>>
         /\ \/ UNCHANGED instance
            \/ /\ channel = "launching" /\ channel' = "offering"
               /\ inbox # <<>> /\ inbox' = Tail(inbox)
               /\ Head(inbox).type = "status" /\ Head(inbox).app # None
               /\ instance' = Head(inbox).app
         /\ \/ UNCHANGED told
            \/ instance # None /\ told' = told \cup {instance} /\ channel' = "stopping"
         /\ channel \in {"stopping", "ended"} => channel' \in {"stopping", "ended"}
         /\ \/ UNCHANGED reason
            \/ channel = "receiving" /\ instance # None /\ reason' = "stopped" /\ Gone
            \/ /\ channel = "receiving" /\ instance # None /\ reason' = "closed"
               /\ inbox # <<>> /\ Head(inbox).type = "close" /\ Head(inbox).app = instance
            \/ reason' \notin {"stopped", "closed"}
         /\ UNCHANGED confirmed \/ (Gone /\ instance # None /\ UNCHANGED instance)
  <1>1. UNCHANGED <<app, stopping, launched, ended, abandoned, streams>>
    BY ThreadWay DEF appVars, mediaVars
  <1> USE DEF ThreadStep, Connect, AdoptApp, Answered, SkipMessage, CheckStop, NothingNew,
              StopSeen, AppGone, AppClosed, ConnectionLost, AppStopped, GiveUp,
              DeadlinePasses, TellApp, Return, Receive, Channel, threadVars
  <1>2. \/ UNCHANGED instance
        \/ /\ channel = "launching" /\ channel' = "offering"
           /\ inbox # <<>> /\ inbox' = Tail(inbox)
           /\ Head(inbox).type = "status" /\ Head(inbox).app # None
           /\ instance' = Head(inbox).app
    OBVIOUS
  <1>3. \/ UNCHANGED told
        \/ instance # None /\ told' = told \cup {instance} /\ channel' = "stopping"
    BY DEF TInv, Walk
  <1>4. channel \in {"stopping", "ended"} => channel' \in {"stopping", "ended"}
    OBVIOUS
  <1>5. \/ UNCHANGED reason
        \/ channel = "receiving" /\ instance # None /\ reason' = "stopped" /\ Gone
        \/ /\ channel = "receiving" /\ instance # None /\ reason' = "closed"
           /\ inbox # <<>> /\ Head(inbox).type = "close" /\ Head(inbox).app = instance
        \/ reason' \notin {"stopped", "closed"}
    BY DEF TInv, Walk
  <1>6. UNCHANGED confirmed \/ (Gone /\ instance # None /\ UNCHANGED instance)
    BY DEF TInv, Walk
  <1> HIDE DEF ThreadStep, TInv, Inv
  <1> QED
    BY <1>1, <1>2, <1>3, <1>4, <1>5, <1>6

(* What it writes. *)
LEMMA ThreadAsks ==
  ASSUME TInv, Inv, ThreadStep
  PROVE  \/ requests' = requests
         \/ \E r \in RequestMessage :
              /\ requests' = [requests EXCEPT ![cast] = @ \o <<r>>]
              /\ r.app \in {None, instance'}
              /\ r.type = "stop" => r.app # None /\ r.app \in told'
  <1>1. CASE Connect
    <2>1. Request("launch", None) \in RequestMessage /\ Request("launch", None).app = None
            /\ Request("launch", None).type # "stop"
      BY Makes DEF Request
    <2> QED
      BY <1>1, <2>1 DEF Connect
  <1>2. CASE AdoptApp
    <2>1. instance' = Head(inbox).app /\ instance' \in Instance \cup {None}
      BY <1>2, ThreadTypes DEF AdoptApp, TInv, ThreadOK, ThreadStep
    <2>2. Request("offer", instance') \in RequestMessage
            /\ Request("offer", instance').app = instance'
            /\ Request("offer", instance').type # "stop"
      BY <2>1, Makes DEF Request
    <2> QED
      BY <1>2, <2>1, <2>2 DEF AdoptApp, Send
  <1>3. CASE StopSeen \/ AppGone \/ AppClosed \/ ConnectionLost
    <2>1. instance \in Instance /\ UNCHANGED instance
      BY <1>3 DEF StopSeen, AppGone, AppClosed, ConnectionLost, TellApp, TInv, ThreadOK, Walk
    <2>2. Request("stop", instance) \in RequestMessage
            /\ Request("stop", instance).app = instance
      BY <2>1, Makes DEF Request
    <2>3. \/ requests' = requests
          \/ /\ requests' = [requests EXCEPT ![cast] = @ \o <<Request("stop", instance)>>]
             /\ told' = told \cup {instance}
      BY <1>3 DEF StopSeen, AppGone, AppClosed, ConnectionLost, TellApp, Send
    <2>4. instance # None
      BY <2>1 DEF Instance, None
    <2> QED
      BY <2>1, <2>2, <2>3, <2>4
  <1>4. CASE Answered \/ SkipMessage \/ CheckStop \/ NothingNew \/ AppStopped \/ GiveUp
             \/ DeadlinePasses
    BY <1>4 DEF Answered, SkipMessage, CheckStop, NothingNew, AppStopped, GiveUp,
                DeadlinePasses, Return, wireVars
  <1> QED
    BY <1>1, <1>2, <1>3, <1>4 DEF ThreadStep

(* What is explained, and what a message tells, after a step. *)
ExplainedNext(i) ==
    i \in ended' \cup abandoned' \/ (i = instance' /\ channel' \in {"stopping", "ended"})

TruthfulNext(m) ==
    /\ m.type = "close" => m.app # None /\ m.app # app'
    /\ m.type \in {"status", "close"} /\ m.app \notin {None, app'} => ExplainedNext(m.app)
    /\ m.type = "status" /\ m.app # instance' /\ instance' # None => app' # instance'

LEMMA TruthNext == (\A k \in 1 .. Len(inbox') : TruthfulNext(inbox'[k])) => Truth'
  BY DEF Truth, Truthful, TruthfulNext, Explained, ExplainedNext, Ours

LEMMA ThreadInv == TInv /\ Inv /\ ThreadStep => Inv'
  <1> SUFFICES ASSUME TInv, Inv, ThreadStep PROVE Inv'
    OBVIOUS
  <1>t. /\ inbox \in Seq(Message) /\ requests \in [Cast -> Seq(RequestMessage)]
        /\ launched \in Nat
    BY DEF TInv, ReceiverOK
  <1>d. PICK d \in {0, 1} : \A k \in 1 .. Len(inbox') :
            k + d \in 1 .. Len(inbox) /\ inbox'[k] = inbox[k + d]
    BY Reads
  <1>u. UNCHANGED <<app, stopping, launched, ended, abandoned, streams>>
    BY ThreadKnows
  <1>l. Len(inbox') \in Nat /\ Len(inbox) \in Nat
    <2>1. inbox' \in Seq(Message)
      BY ThreadTypes DEF TInv, ReceiverOK
    <2> QED
      BY <2>1, <1>t
  (* The head of the inbox, if that is what made the instance known. *)
  <1>h. instance' # instance =>
          /\ channel = "launching" /\ channel' = "offering" /\ instance = None
          /\ instance' = inbox[1].app /\ inbox[1].app # None /\ inbox[1].type = "status"
          /\ Len(inbox) > 0 /\ inbox' = Tail(inbox)
    <2>1. inbox # <<>> => Head(inbox) = inbox[1] /\ Len(inbox) > 0
      BY <1>t
    <2>2. channel = "launching" => instance = None
      BY DEF TInv, Walk
    <2> QED
      BY <2>1, <2>2, ThreadKnows
  <1>e. \A i : Explained(i) => ExplainedNext(i)
    BY <1>u, <1>h, ThreadKnows DEF Explained, ExplainedNext, Ours
  <1>o. \A i : Ours(i) => Ours(i)'
    BY <1>h, ThreadKnows DEF Ours
  <1>1. Numbered'
    <2>1. instance' <= launched
      BY <1>h, <1>l, <1>t DEF Inv, Numbered
    <2>2. \A k \in 1 .. Len(inbox') : inbox'[k].type \in {"status", "close"}
                                        => inbox'[k].app <= launched
      BY <1>d DEF Inv, Numbered
    <2>3. \A c \in Cast : \A k \in 1 .. Len(requests'[c]) : requests'[c][k].app <= launched
      <3>1. CASE requests' = requests
        BY <3>1 DEF Inv, Numbered
      <3>2. ASSUME NEW r \in RequestMessage,
                   requests' = [requests EXCEPT ![cast] = @ \o <<r>>],
                   r.app \in {None, instance'}
            PROVE  \A c \in Cast : \A k \in 1 .. Len(requests'[c]) : requests'[c][k].app <= launched
        <4>1. r.app <= launched
          BY <3>2, <2>1, <1>t DEF None
        <4>2. ASSUME NEW c \in Cast, NEW k \in 1 .. Len(requests'[c])
              PROVE  requests'[c][k].app <= launched
          <5>1. requests'[c] = requests[c] \/ requests'[c] = requests[c] \o <<r>>
            BY <3>2, <1>t
          <5>2. \A j \in 1 .. Len(requests[c]) : requests[c][j].app <= launched
            BY DEF Inv, Numbered
          <5>3. requests[c] \in Seq(RequestMessage)
            BY <1>t
          <5>4. requests'[c][k] = r
                  \/ (k \in 1 .. Len(requests[c]) /\ requests'[c][k] = requests[c][k])
            BY <5>1, <5>3, <4>2
          <5> QED
            BY <4>1, <5>2, <5>4
        <4> QED
          BY <4>2
      <3> QED
        BY <3>1, <3>2, ThreadAsks
    <2> QED
      BY <2>1, <2>2, <2>3, <1>u DEF Inv, Numbered
  <1>2. Truth'
    <2>1. ASSUME NEW k \in 1 .. Len(inbox') PROVE TruthfulNext(inbox'[k])
      <3>1. k + d \in 1 .. Len(inbox) /\ inbox'[k] = inbox[k + d] /\ Truthful(inbox[k + d])
        BY <1>d DEF Inv, Truth
      <3>2. CASE UNCHANGED instance
        BY <3>1, <3>2, <1>u, <1>e DEF Truthful, TruthfulNext
      <3>3. CASE instance' # instance
        <4>1. inbox'[k] = inbox[k + 1] /\ k + 1 \in 1 .. Len(inbox) /\ 1 \in 1 .. Len(inbox)
          BY <1>h, <1>t, <3>3, Rest
        <4>2. inbox'[k].type = "status" /\ inbox'[k].app # instance' => app # instance'
          <5>1. 1 < k + 1
            BY <1>l
          <5> QED
            BY <1>h, <3>3, <4>1, <5>1 DEF Inv, Ordered
        <4> QED
          BY <3>1, <4>2, <1>u, <1>e DEF Truthful, TruthfulNext
      <3> QED
        BY <3>2, <3>3
    <2> QED
      BY <2>1, TruthNext
  <1>3. Ordered'
    <2>1. ASSUME NEW j \in 1 .. Len(inbox'), NEW k \in 1 .. Len(inbox'), j < k,
                 inbox'[j].type = "status", inbox'[k].type = "status",
                 inbox'[j].app # None, inbox'[k].app # inbox'[j].app
          PROVE  app' # inbox'[j].app
      <3>1. j + d \in 1 .. Len(inbox) /\ k + d \in 1 .. Len(inbox) /\ j + d < k + d
        BY <1>d, <1>l, <2>1
      <3> QED
        BY <1>d, <1>u, <2>1, <3>1 DEF Inv, Ordered
    <2> QED
      BY <2>1 DEF Ordered
  <1>4. Asked'
    <2>1. told \subseteq told'
      BY ThreadKnows
    <2>2. ASSUME NEW c \in Cast, NEW k \in 1 .. Len(requests'[c]), requests'[c][k].type = "stop"
          PROVE  /\ requests'[c][k].app # None
                 /\ requests'[c][k].app = app => app \in told'
      <3>1. requests[c] \in Seq(RequestMessage)
        BY <1>t
      <3>2. \A j \in 1 .. Len(requests[c]) : requests[c][j].type = "stop" =>
               requests[c][j].app # None /\ (requests[c][j].app = app => app \in told)
        BY DEF Inv, Asked
      <3>3. CASE requests' = requests
        BY <3>2, <3>3, <2>1, <2>2
      <3>4. ASSUME NEW r \in RequestMessage,
                   requests' = [requests EXCEPT ![cast] = @ \o <<r>>],
                   r.type = "stop" => r.app # None /\ r.app \in told'
            PROVE  /\ requests'[c][k].app # None
                   /\ requests'[c][k].app = app => app \in told'
        <4>1. requests'[c] = requests[c] \/ requests'[c] = requests[c] \o <<r>>
          BY <3>4, <1>t
        <4>2. requests'[c][k] = r
                \/ (k \in 1 .. Len(requests[c]) /\ requests'[c][k] = requests[c][k])
          BY <3>1, <4>1, <2>2
        <4> QED
          BY <2>1, <2>2, <3>2, <3>4, <4>2
      <3> QED
        BY <3>3, <3>4, ThreadAsks
    <2>3. stopping' => app' \in told'
      BY <1>u, <2>1 DEF Inv, Asked
    <2> QED
      BY <1>u, <2>2, <2>3 DEF Asked
  <1>5. Fates'
    <2>g. Gone /\ instance # None => app # instance
      <3>1. inbox # <<>> => Head(inbox) = inbox[1] /\ 1 \in 1 .. Len(inbox)
        BY <1>t
      <3> QED
        BY <3>1 DEF Gone, Inv, Truth, Truthful
    <2>c. inbox # <<>> /\ Head(inbox).type = "close" /\ Head(inbox).app = instance
            => app # instance
      <3>1. inbox # <<>> => Head(inbox) = inbox[1] /\ 1 \in 1 .. Len(inbox)
        BY <1>t
      <3> QED
        BY <3>1 DEF Inv, Truth, Truthful
    <2>1. \A i \in told' : i \in abandoned' \/ Ours(i)'
      <3>1. CASE UNCHANGED told
        BY <3>1, <1>u, <1>o DEF Inv, Fates
      <3>2. CASE told' = told \cup {instance} /\ channel' = "stopping"
        <4>1. UNCHANGED instance
          BY <3>2, <1>h
        <4> QED
          BY <3>2, <4>1, <1>u, <1>o DEF Inv, Fates, Ours
      <3> QED
        BY <3>1, <3>2, ThreadKnows
    <2>2. instance' # None /\ app' # instance' => ExplainedNext(instance')
      <3>1. CASE UNCHANGED instance
        BY <3>1, <1>u, <1>e DEF Inv, Fates
      <3>2. CASE instance' # instance
        <4>1. 1 \in 1 .. Len(inbox)
          BY <3>2, <1>h, <1>l
        <4> QED
          BY <3>2, <4>1, <1>h, <1>u, <1>e DEF Inv, Truth, Truthful
      <3> QED
        BY <3>1, <3>2
    <2>3. reason' \in {"stopped", "closed"} => instance' \in ended' \cup abandoned'
      <3>1. CASE UNCHANGED reason
        <4>1. reason \in {"stopped", "closed"} => UNCHANGED instance
          BY <1>h DEF TInv, Walk
        <4> QED
          BY <3>1, <4>1, <1>u DEF Inv, Fates
      <3>2. CASE channel = "receiving" /\ instance # None /\ app # instance
        <4>1. UNCHANGED instance /\ ~Ours(instance)
          BY <3>2, <1>h DEF Ours
        <4> QED
          BY <3>2, <4>1, <1>u DEF Inv, Fates, Explained
      <3> QED
        BY <3>1, <3>2, <2>g, <2>c, ThreadKnows
    <2>4. confirmed' => instance' # None /\ app' # instance'
      <3>1. confirmed => UNCHANGED instance
        BY <1>h DEF TInv, Walk
      <3> QED
        BY <3>1, <1>u, <2>g, ThreadKnows DEF Inv, Fates
    <2>5. streams' # {} /\ channel' \in {"stopping", "ended"}
            => instance' \in told' \/ link' = "broken"
      <3>1. CASE StopSeen \/ AppGone \/ AppClosed \/ ConnectionLost
        BY <3>1 DEF StopSeen, AppGone, AppClosed, ConnectionLost, TellApp
      <3>2. CASE AppStopped \/ GiveUp
        BY <3>2, <1>u DEF AppStopped, GiveUp, Return, Inv, Fates
      <3>3. CASE SkipMessage \/ DeadlinePasses
        BY <3>3, <1>u DEF SkipMessage, DeadlinePasses, threadVars, wireVars, Inv, Fates
      <3>4. CASE Connect \/ AdoptApp \/ Answered \/ CheckStop \/ NothingNew
        BY <3>4 DEF Connect, AdoptApp, Answered, CheckStop, NothingNew, Channel
      <3> QED
        BY <3>1, <3>2, <3>3, <3>4 DEF ThreadStep
    <2> QED
      BY <2>1, <2>2, <2>3, <2>4, <2>5 DEF Fates, Explained, ExplainedNext, Ours
  <1> QED
    BY <1>1, <1>2, <1>3, <1>4, <1>5 DEF Inv

(* A request that is handled asks for what was asked before. *)
LEMMA RequestAsked ==
  ASSUME TInv, Inv, NEW c \in Cast, RequestStep(c)
  PROVE  /\ stopping' => app' # None /\ app' \in told /\ UNCHANGED app
         /\ \A e \in Cast : \A k \in 1 .. Len(requests'[e]) :
              \E j \in 1 .. Len(requests[e]) : requests'[e][k] = requests[e][j]
  <1>t. requests \in [Cast -> Seq(RequestMessage)] /\ told \in SUBSET Instance
    BY DEF TInv, ReceiverOK, ThreadOK
  <1>n. None \notin told
    BY <1>t DEF Instance, None
  <1>1. requests[c] # <<>> /\ requests' = [requests EXCEPT ![c] = Tail(@)]
    BY RequestHandled
  <1>2. stopping' => app' # None /\ app' \in told /\ UNCHANGED app
    <2>0. stopping => app \in told
      BY DEF Inv, Asked
    <2>1. CASE Launch(c)
      <3>1. stopping' = stopping /\ (app' = app \/ app = None)
        BY <2>1 DEF Launch
      <3> QED
        BY <2>0, <3>1, <1>n
    <2>2. CASE HandleOffer(c)
      <3>1. UNCHANGED <<stopping, app>>
        BY <2>2 DEF HandleOffer, appVars
      <3> QED
        BY <2>0, <3>1, <1>n
    <2>3. CASE HandleStop(c)
      <3>1. /\ UNCHANGED app /\ Head(requests[c]).type = "stop"
            /\ stopping' = (stopping \/ Head(requests[c]).app = app)
        BY <2>3 DEF HandleStop, Handle
      <3>2. Head(requests[c]) = requests[c][1] /\ 1 \in 1 .. Len(requests[c])
        BY <1>t, <1>1
      <3>3. Head(requests[c]).app = app => app \in told
        BY <3>1, <3>2 DEF Inv, Asked
      <3> QED
        BY <2>0, <3>1, <3>3, <1>n
    <2> QED
      BY <2>1, <2>2, <2>3 DEF RequestStep
  <1>3. ASSUME NEW e \in Cast, NEW k \in 1 .. Len(requests'[e])
        PROVE  \E j \in 1 .. Len(requests[e]) : requests'[e][k] = requests[e][j]
    <2>1. CASE e # c
      BY <1>1, <1>t, <1>3, <2>1
    <2>2. CASE e = c
      <3>1. requests'[e] = Tail(requests[e]) /\ requests[e] # <<>>
              /\ requests[e] \in Seq(RequestMessage)
        BY <1>1, <1>t, <2>2
      <3>2. k + 1 \in 1 .. Len(requests[e]) /\ requests'[e][k] = requests[e][k + 1]
        BY <3>1, <1>3, Rest
      <3> QED
        BY <3>2
    <2> QED
      BY <2>1, <2>2
  <1> QED
    BY <1>2, <1>3

WorldMove == (\E c \in Cast : RequestStep(c)) \/ EndStep \/ VolunteerStatus \/ LinkFails

(* What becomes of the application, and of what is on its way to it. *)
LEMMA WorldKnows ==
  ASSUME TInv, Inv, WorldMove
  PROVE  /\ UNCHANGED <<instance, channel, reason, confirmed, told, abandoned, streams>>
         /\ \/ UNCHANGED <<app, launched>>
            \/ app = None /\ app' = launched + 1 /\ launched' = launched + 1
            \/ app # None /\ app' = None /\ UNCHANGED launched /\ ExplainedNext(app)
         /\ ended \subseteq ended' /\ (link = "broken" => link' = "broken")
         /\ stopping' => app' # None /\ app' \in told /\ UNCHANGED app
         /\ \A e \in Cast : \A k \in 1 .. Len(requests'[e]) :
              \E j \in 1 .. Len(requests[e]) : requests'[e][k] = requests[e][j]
  <1>a. /\ stopping => app # None /\ app \in told
        /\ app \in told => app \in abandoned \/ Ours(app)
    BY DEF Inv, Asked, Fates, TInv, ThreadOK, Instance, None
  <1>1. CASE \E c \in Cast : RequestStep(c)
    <2>1. PICK c \in Cast : RequestStep(c)
      BY <1>1
    <2>2. UNCHANGED <<mediaVars, threadVars, abandoned, link, ended>>
      BY <2>1, RequestHandled
    <2>3. \/ UNCHANGED <<app, launched>>
          \/ app = None /\ app' = launched + 1 /\ launched' = launched + 1
      BY <2>1, RequestHandled
    <2> QED
      BY <2>1, <2>2, <2>3, RequestAsked DEF mediaVars, threadVars
  <1>2. CASE EndStep
    <2>1. AppEnds /\ app # None
      BY <1>2 DEF EndStep, ShutDown, WorldEndsApp
    <2>2. \/ stopping /\ UNCHANGED ended
          \/ ended' = ended \cup {app}
      BY <1>2 DEF EndStep, ShutDown, WorldEndsApp
    <2>3. /\ app' = None /\ stopping' = FALSE
          /\ UNCHANGED <<mediaVars, threadVars, abandoned, link, requests, launched>>
      BY <2>1, EndTold
    <2>4. ExplainedNext(app)
      BY <2>2, <2>3, <1>a DEF ExplainedNext, Ours, threadVars
    <2> QED
      BY <2>1, <2>2, <2>3, <2>4 DEF mediaVars, threadVars
  <1>3. CASE VolunteerStatus
    <2>1. UNCHANGED <<mediaVars, threadVars, abandoned, link, requests, app, stopping,
                      launched, ended>>
      BY <1>3 DEF VolunteerStatus, notReceiver, appVars
    <2> QED
      BY <2>1, <1>a DEF mediaVars, threadVars
  <1>4. CASE LinkFails
    <2>1. /\ UNCHANGED <<mediaVars, threadVars, abandoned, requests, app, stopping,
                         launched, ended>>
          /\ link' = "broken"
      BY <1>4 DEF LinkFails, notReceiver, appVars
    <2> QED
      BY <2>1, <1>a DEF mediaVars, threadVars
  <1> QED
    BY <1>1, <1>2, <1>3, <1>4 DEF WorldMove

(* What the cast is told: a status of what runs now, or the CLOSE of what    *)
(* has just ended.                                                           *)
FreshMessage(m) ==
    /\ m.type = "status" => m.app = app'
    /\ m.type = "close" => m.app = app /\ app # None /\ app' = None

LEMMA WorldTells ==
  ASSUME TInv, WorldMove, NEW k \in 1 .. Len(inbox')
  PROVE  \/ k \in 1 .. Len(inbox) /\ inbox'[k] = inbox[k]
         \/ k > Len(inbox) /\ FreshMessage(inbox'[k])
  <1>t. inbox \in Seq(Message) /\ app \in Instance \cup {None}
    BY DEF TInv, ReceiverOK
  <1>p. app' \in Instance \cup {None}
    BY WorldTypes DEF TInv, ReceiverOK, WorldMove
  <1>1. CASE inbox' = inbox
    BY <1>1
  <1>2. CASE inbox' = <<>>
    <2>1. Len(inbox') = 0
      BY <1>2
    <2> QED
      BY <2>1
  <1>3. ASSUME NEW m \in Message, inbox' = inbox \o <<m>>, FreshMessage(m)
        PROVE  \/ k \in 1 .. Len(inbox) /\ inbox'[k] = inbox[k]
               \/ k > Len(inbox) /\ FreshMessage(inbox'[k])
    <2>1. /\ Len(inbox') = Len(inbox) + 1 /\ inbox'[Len(inbox) + 1] = m
          /\ \A j \in 1 .. Len(inbox) : inbox'[j] = inbox[j]
      BY <1>3, <1>t, OneMore
    <2>2. Len(inbox) \in Nat
      BY <1>t
    <2>3. k \in 1 .. Len(inbox) \/ k = Len(inbox) + 1
      BY <2>1, <2>2
    <2> QED
      BY <2>1, <2>2, <2>3, <1>3
  <1>4. ASSUME NEW m \in Message, NEW n \in Message, inbox' = (inbox \o <<m>>) \o <<n>>,
               FreshMessage(m), FreshMessage(n)
        PROVE  \/ k \in 1 .. Len(inbox) /\ inbox'[k] = inbox[k]
               \/ k > Len(inbox) /\ FreshMessage(inbox'[k])
    <2>1. /\ inbox \o <<m>> \in Seq(Message) /\ Len(inbox \o <<m>>) = Len(inbox) + 1
          /\ \A j \in 1 .. Len(inbox) : (inbox \o <<m>>)[j] = inbox[j]
          /\ (inbox \o <<m>>)[Len(inbox) + 1] = m
      BY <1>t, OneMore
    <2>2. \/ k = Len(inbox) + 2 /\ inbox'[k] = n
          \/ k \in 1 .. Len(inbox) + 1 /\ inbox'[k] = (inbox \o <<m>>)[k]
      BY <1>4, <2>1
    <2>3. Len(inbox) \in Nat
      BY <1>t
    <2>4. k \in 1 .. Len(inbox) + 1 => k \in 1 .. Len(inbox) \/ k = Len(inbox) + 1
      BY <2>3
    <2> QED
      BY <2>1, <2>2, <2>3, <2>4, <1>4
  <1>5. CASE \E c \in Cast : RequestStep(c)
    <2>1. [type |-> "status", app |-> app'] \in Message
            /\ FreshMessage([type |-> "status", app |-> app'])
      BY <1>p, Makes DEF FreshMessage
    <2>2. \A m \in Message : m.type \notin {"status", "close"} => FreshMessage(m)
      BY DEF FreshMessage
    <2> QED
      BY <1>5, <1>1, <1>3, <2>1, <2>2, RequestHandled
  <1>6. CASE EndStep
    <2>1. AppEnds /\ app # None
      BY <1>6 DEF EndStep, ShutDown, WorldEndsApp
    <2>2. app' = None
      BY <2>1, EndTold
    <2>3. [type |-> "status", app |-> None] \in Message
            /\ FreshMessage([type |-> "status", app |-> None])
      BY <1>p, <2>2, Makes DEF FreshMessage
    <2>4. [type |-> "close", app |-> app] \in Message
            /\ FreshMessage([type |-> "close", app |-> app])
      BY <1>t, <2>1, <2>2, Makes DEF FreshMessage
    <2> QED
      BY <1>1, <1>3, <1>4, <2>1, <2>3, <2>4, EndTold
  <1>7. CASE VolunteerStatus
    <2>1. app' = app /\ inbox' \in {inbox, inbox \o <<[type |-> "status", app |-> app]>>}
      BY <1>7 DEF VolunteerStatus, appVars, Tell, Status
    <2>2. [type |-> "status", app |-> app] \in Message
            /\ FreshMessage([type |-> "status", app |-> app])
      BY <1>t, <2>1, Makes DEF FreshMessage
    <2> QED
      BY <1>1, <1>3, <2>1, <2>2
  <1>8. CASE LinkFails
    BY <1>1, <1>2, <1>8 DEF LinkFails
  <1> QED
    BY <1>5, <1>6, <1>7, <1>8 DEF WorldMove

LEMMA WorldInv == TInv /\ Inv /\ WorldMove => Inv'
  <1> SUFFICES ASSUME TInv, Inv, WorldMove PROVE Inv'
    OBVIOUS
  <1>t. /\ inbox \in Seq(Message) /\ launched \in Nat /\ launched' \in Nat
        /\ Len(inbox) \in Nat /\ Len(inbox') \in Nat
        /\ app \in Nat /\ app' \in Nat /\ instance \in Nat
    <2>1. TInv'
      BY WorldTypes DEF WorldMove
    <2> QED
      BY <2>1 DEF TInv, ReceiverOK, ThreadOK, Instance, None
  <1>u. UNCHANGED <<instance, channel, reason, confirmed, told, abandoned, streams>>
    BY WorldKnows
  <1>w. \/ UNCHANGED <<app, launched>>
        \/ app = None /\ app' = launched + 1 /\ launched' = launched + 1
        \/ app # None /\ app' = None /\ UNCHANGED launched /\ ExplainedNext(app)
    BY WorldKnows
  <1>e. \A i : Explained(i) => ExplainedNext(i)
    BY <1>u, WorldKnows DEF Explained, ExplainedNext, Ours
  (* An instance that has been seen and does not run will not run again. *)
  <1>g. \A i \in Nat : i <= launched /\ i # None /\ app # i => app' # i
    BY <1>w, <1>t DEF None
  <1>r. \A e \in Cast : \A k \in 1 .. Len(requests'[e]) :
          \E j \in 1 .. Len(requests[e]) : requests'[e][k] = requests[e][j]
    BY WorldKnows
  <1>f. launched <= launched' /\ app' <= launched'
    BY <1>w, <1>t DEF Inv, Numbered, None
  <1>m. ASSUME NEW k \in 1 .. Len(inbox), inbox[k].type \in {"status", "close"}
        PROVE  inbox[k].app \in Nat /\ inbox[k].app <= launched
    <2>1. inbox[k] \in Message
      BY <1>t
    <2> QED
      BY <1>m, <2>1, MessageParts DEF Instance, None, Inv, Numbered
  <1>1. Numbered'
    <2>1. ASSUME NEW k \in 1 .. Len(inbox'), inbox'[k].type \in {"status", "close"}
          PROVE  inbox'[k].app <= launched'
      <3>1. CASE k \in 1 .. Len(inbox) /\ inbox'[k] = inbox[k]
        BY <2>1, <3>1, <1>m, <1>f, <1>t
      <3>2. CASE FreshMessage(inbox'[k])
        BY <2>1, <3>2, <1>f, <1>t DEF FreshMessage, Inv, Numbered
      <3> QED
        BY <3>1, <3>2, WorldTells
    <2>2. ASSUME NEW c \in Cast, NEW k \in 1 .. Len(requests'[c])
          PROVE  requests'[c][k].app <= launched'
      <3>1. requests'[c][k].app <= launched
        BY <1>r DEF Inv, Numbered
      <3>2. requests'[c][k].app \in Nat
        <4>1. TInv'
          BY WorldTypes DEF WorldMove
        <4>2. requests'[c][k] \in RequestMessage
          BY <4>1 DEF TInv, ReceiverOK
        <4> QED
          BY <4>2 DEF RequestMessage, Instance, None
      <3> QED
        BY <3>1, <3>2, <1>f, <1>t
    <2>3. instance' <= launched'
      BY <1>u, <1>f, <1>t DEF Inv, Numbered
    <2> QED
      BY <2>1, <2>2, <2>3, <1>f DEF Numbered
  <1>2. Truth'
    <2>1. ASSUME NEW k \in 1 .. Len(inbox') PROVE TruthfulNext(inbox'[k])
      <3>1. CASE k \in 1 .. Len(inbox) /\ inbox'[k] = inbox[k]
        <4> DEFINE m == inbox[k]
        <4>0. Truthful(m)
          BY <3>1 DEF Inv, Truth
        <4>1. m.type = "close" => m.app # None /\ m.app # app'
          BY <3>1, <4>0, <1>m, <1>g DEF Truthful
        <4>2. m.type \in {"status", "close"} /\ m.app \notin {None, app'} => ExplainedNext(m.app)
          BY <4>0, <1>e, <1>w DEF Truthful
        <4>3. m.type = "status" /\ m.app # instance' /\ instance' # None => app' # instance'
          BY <4>0, <1>u, <1>g, <1>t DEF Truthful, Inv, Numbered
        <4> HIDE DEF m
        <4>4. TruthfulNext(m)
          BY <4>1, <4>2, <4>3 DEF TruthfulNext
        <4> QED
          BY <4>4, <3>1 DEF m
      <3>2. CASE FreshMessage(inbox'[k])
        BY <3>2, <1>w DEF FreshMessage, TruthfulNext
      <3> QED
        BY <3>1, <3>2, WorldTells
    <2> QED
      BY <2>1, TruthNext
  <1>3. Ordered'
    <2>1. ASSUME NEW j \in 1 .. Len(inbox'), NEW k \in 1 .. Len(inbox'), j < k,
                 inbox'[j].type = "status", inbox'[k].type = "status",
                 inbox'[j].app # None, inbox'[k].app # inbox'[j].app
          PROVE  app' # inbox'[j].app
      <3>1. CASE k \in 1 .. Len(inbox) /\ inbox'[k] = inbox[k]
        <4>1. j \in 1 .. Len(inbox)
          BY <2>1, <3>1, <1>t
        <4>2. inbox'[j] = inbox[j]
          BY <4>1, <1>t, WorldTells
        <4>3. app # inbox[j].app
          BY <2>1, <3>1, <4>1, <4>2 DEF Inv, Ordered
        <4> QED
          BY <2>1, <4>1, <4>2, <4>3, <1>m, <1>g
      <3>2. CASE FreshMessage(inbox'[k])
        BY <2>1, <3>2 DEF FreshMessage
      <3> QED
        BY <3>1, <3>2, WorldTells
    <2> QED
      BY <2>1 DEF Ordered
  <1>4. Asked'
    <2>1. stopping' => app' \in told'
      BY <1>u, WorldKnows
    <2>2. ASSUME NEW c \in Cast, NEW k \in 1 .. Len(requests'[c]), requests'[c][k].type = "stop"
          PROVE  /\ requests'[c][k].app # None
                 /\ requests'[c][k].app = app' => app' \in told'
      <3>1. PICK j \in 1 .. Len(requests[c]) : requests'[c][k] = requests[c][j]
        BY <1>r
      <3>2. /\ requests[c][j].app # None /\ requests[c][j].app <= launched
            /\ requests[c][j].app = app => app \in told
        BY <2>2, <3>1 DEF Inv, Asked, Numbered
      <3>3. requests[c][j].app \in Nat
        <4>1. requests[c] \in Seq(RequestMessage)
          BY DEF TInv, ReceiverOK
        <4>2. requests[c][j] \in RequestMessage
          BY <4>1
        <4> QED
          BY <4>2 DEF RequestMessage, Instance, None
      <3> QED
        BY <3>1, <3>2, <3>3, <1>g, <1>u
    <2> QED
      BY <2>1, <2>2 DEF Asked
  <1>5. Fates'
    <2>1. \A i \in told' : i \in abandoned' \/ Ours(i)'
      BY <1>u DEF Inv, Fates, Ours
    <2>2. instance' # None /\ app' # instance' => ExplainedNext(instance')
      BY <1>u, <1>e, <1>w DEF Inv, Fates
    <2>3. reason' \in {"stopped", "closed"} => instance' \in ended' \cup abandoned'
      BY <1>u, WorldKnows DEF Inv, Fates
    <2>4. confirmed' => instance' # None /\ app' # instance'
      BY <1>u, <1>g, <1>t DEF Inv, Fates, Numbered
    <2>5. streams' # {} /\ channel' \in {"stopping", "ended"}
            => instance' \in told' \/ link' = "broken"
      BY <1>u, WorldKnows DEF Inv, Fates
    <2> QED
      BY <2>1, <2>2, <2>3, <2>4, <2>5 DEF Fates, Explained, ExplainedNext, Ours
  <1> QED
    BY <1>1, <1>2, <1>3, <1>4, <1>5 DEF Inv

-----------------------------------------------------------------------------
(* The theorems.                                                           *)

LEMMA InvStep == TInv /\ Inv /\ [Next]_vars => Inv'
  <1> SUFFICES ASSUME TInv, Inv, [Next]_vars PROVE Inv'
    OBVIOUS
  <1>1. CASE UNCHANGED vars
    <2>1. UNCHANGED <<threadVars, streams, wireVars, appVars, abandoned>>
      BY <1>1 DEF vars, mediaVars
    <2>2. UNCHANGED <<channel, instance, reason, told, confirmed, streams, link, inbox, requests,
                      app, stopping, launched, ended, abandoned>>
      BY <2>1 DEF threadVars, wireVars, appVars
    <2>3. \A i : Explained(i) => ExplainedNext(i)
      BY <2>2 DEF Explained, ExplainedNext, Ours
    <2>4. Numbered' /\ Ordered' /\ Asked'
      BY <2>2 DEF Inv, Numbered, Ordered, Asked
    <2>5. Truth'
      BY <2>2 DEF Inv, Truth, Truthful, Explained, Ours
    <2>6. Fates'
      BY <2>2 DEF Inv, Fates, Explained, Ours
    <2> QED
      BY <2>4, <2>5, <2>6 DEF Inv
  <1>2. CASE Begin
    BY <1>2, BeginInv
  <1>3. CASE SessionStep
    BY <1>3, SessionInv, GiveUpInv DEF SessionStep, QuietStep, LeaveStep, GiveUpStep
  <1>4. CASE ChannelStep \/ DeadlinePasses
    BY <1>4, GiveUpInv, ThreadInv DEF ChannelStep, ThreadStep, GiveUpStep
  <1>5. CASE WorldStep
    BY <1>5, SessionInv, WorldInv DEF WorldStep, LeaveStep, RequestStep, EndStep, WorldMove
  <1> QED
    BY <1>1, <1>2, <1>3, <1>4, <1>5 DEF Next

LEMMA Invariance == Spec => [](TInv /\ Inv)
  BY InitTypes, TypeStep, InitInv, InvStep, PTL DEF Spec

(* "Relaunching the application mid-shutdown gets the new session killed":   *)
(* however many casts follow each other and however the messages of two      *)
(* connections interleave, no cast goes on with an instance that was told to *)
(* stop, unless that one's cast never saw it gone.                           *)
THEOREM FreshInstance == Spec => []FreshApp
  <1>1. Inv => FreshApp
    BY DEF Inv, Fates, Ours, FreshApp, Mirrored
  <1> QED
    BY <1>1, Invariance, PTL

(* A cast that reports that the receiver stopped or closed it is right: the  *)
(* instance was ended by another hand, or is one an earlier cast stopped     *)
(* without awaiting its end.                                                 *)
THEOREM HonestEnd == Spec => []HonestReason
  <1>1. Inv => HonestReason
    BY DEF Inv, Fates, HonestReason
  <1> QED
    BY <1>1, Invariance, PTL

(* A cast that got as far as its streams leaves no application behind that   *)
(* it could have told to stop, and what it saw gone is gone.                 *)
THEOREM NothingLeft == Spec => []LeavesNoApp
  <1>1. TInv /\ Inv => LeavesNoApp
    BY DEF TInv, Walk, Inv, Fates, LeavesNoApp
  <1> QED
    BY <1>1, Invariance, PTL
=============================================================================
