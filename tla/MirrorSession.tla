----------------------------- MODULE MirrorSession ---------------------------
(***************************************************************************)
(* Mirroring to one receiver, cast after cast: the session (run,           *)
(* offer_codecs, select_streams, start_media and run_until_stopped in      *)
(* streaming/mod.rs), the thread that keeps the control connection         *)
(* (negotiate and run in streaming/channel.rs) and the receiver, which is  *)
(* external.                                                               *)
(*                                                                         *)
(* A cast begins when its predecessor is over (module CastSessions).  Each *)
(* has a connection of its own, in order both ways; what one cast has sent *)
(* may still be on its way when the next one begins.  Pings are left out:  *)
(* they are answered wherever a message is awaited and nothing counts them.*)
(***************************************************************************)
EXTENDS Naturals, Sequences

CONSTANTS
    MaxCasts,   \* bound: how many casts are made
    MaxInbox,   \* bound: status messages are volunteered up to this backlog
    Codecs      \* how many video codecs can be encoded

ASSUME CastsAssumption == MaxCasts \in Nat
ASSUME CodecsAssumption == Codecs \in Nat

VARIABLES
    cast,         \* the number of the cast under way
    screen,       \* the casts are of a screen, and not only of audio
    audio,        \* there is a system audio monitor to record
    stopWanted,   \* its stop channel has resolved
    phase,        \* where its session stands
    answer,       \* the stream indexes the receiver accepted
    streams,      \* the streams the media sender was given
    pipeline,     \* the encoder pipeline
    sender,       \* the media sender thread
    lastEvent,    \* the end reason the session recorded
    channel,      \* where the connection's thread stands
    instance,     \* MirrorChannel.session_id: an instance of the application
    overdue,      \* the loop's deadline has passed
    reason,       \* why run left its loop
    stop,         \* ChannelControl.stop
    events,       \* the ChannelEvents the session has not received
    link,         \* the connection
    inbox,        \* what the receiver has sent on it
    requests,     \* by cast: what the receiver has not handled
    app,          \* external: the instance that runs on the receiver, or None
    stopping,     \* external: it is shutting down
    launched,     \* external: how many instances there have been
    ended,        \* ghost: instances others ended while this cast went on
    told,         \* ghost: instances we sent a STOP for
    confirmed,    \* ghost: this cast saw its instance gone
    abandoned     \* ghost: instances told to stop and not seen gone

castVars   == <<cast, screen, audio, stopWanted>>
mediaVars  == <<streams, pipeline, sender>>
threadVars == <<channel, answer, instance, overdue, reason, told, confirmed>>
wireVars   == <<link, inbox, requests>>
appVars    == <<app, stopping, launched, ended>>
vars == <<castVars, phase, mediaVars, lastEvent, threadVars, stop, events,
          wireVars, appVars, abandoned>>

(* What each of the three leaves alone. *)
notSession  == <<castVars, threadVars, events, wireVars, appVars, abandoned>>
notThread   == <<castVars, mediaVars, lastEvent, stop, appVars, abandoned>>
notReceiver == <<castVars, phase, mediaVars, lastEvent, threadVars, stop,
                 events, abandoned>>

Cast     == 1 .. MaxCasts
None     == 0
Instance == 1 .. MaxCasts      \* at most one per LAUNCH
Audio    == 0                  \* AUDIO_INDEX; codec i has index i
Index    == 0 .. Codecs
Reason   == {"stopped", "closed", "lost"}

Message ==
    [type : {"status", "close"}, app : Instance \cup {None}]
        \cup [type : {"launchError", "rejected"}]
        \cup [type : {"answer"}, accepted : SUBSET Index]
RequestMessage == [type : {"launch", "offer", "stop"}, app : Instance \cup {None}]

(* Every variable has its type. *)
TypeOK ==
    /\ cast \in Cast \cup {0}
    /\ phase \in {"preparing", "negotiating", "selecting", "starting", "built",
                  "streaming", "encoder", "sender", "control", "joining", "over"}
    /\ screen \in BOOLEAN /\ audio \in BOOLEAN /\ stopWanted \in BOOLEAN
    /\ answer \in SUBSET Index /\ streams \in SUBSET Index
    /\ pipeline \in {"none", "built", "playing", "failed", "null"}
    /\ sender \in {"none", "running", "stopped"}
    /\ lastEvent \in Reason \cup {"none"}
    /\ channel \in {"none", "connecting", "launching", "offering", "negotiated",
                    "checking", "receiving", "stopping", "ended"}
    /\ stop \in BOOLEAN /\ overdue \in BOOLEAN
    /\ instance \in Instance \cup {None}
    /\ reason \in Reason \cup {"none"}
    /\ events \in Seq(Reason)
    /\ link \in {"up", "broken", "closed"}
    /\ inbox \in Seq(Message)
    /\ requests \in [Cast -> Seq(RequestMessage)]
    /\ app \in Instance \cup {None} /\ stopping \in BOOLEAN
    /\ launched \in 0 .. MaxCasts
    /\ told \in SUBSET Instance /\ abandoned \in SUBSET Instance
    /\ ended \in SUBSET Instance
    /\ confirmed \in BOOLEAN

Init ==
    /\ cast = 0 /\ phase = "over"
    /\ screen \in BOOLEAN /\ audio \in BOOLEAN /\ stopWanted = FALSE
    /\ answer = {} /\ streams = {}
    /\ pipeline = "none" /\ sender = "none" /\ lastEvent = "none"
    /\ channel = "none" /\ stop = FALSE /\ instance = None
    /\ overdue = FALSE /\ reason = "none" /\ events = <<>>
    /\ link = "closed" /\ inbox = <<>>
    /\ requests = [c \in Cast |-> <<>>]
    /\ app = None /\ stopping = FALSE /\ launched = 0
    /\ told = {} /\ confirmed = FALSE /\ abandoned = {} /\ ended = {}

-----------------------------------------------------------------------------
(* The session.                                                            *)

Session(from, to) == phase = from /\ phase' = to

(* The next cast. *)
Begin ==
    /\ cast < MaxCasts
    /\ Session("over", "preparing")
    /\ cast' = cast + 1
    /\ stopWanted' = FALSE
    /\ streams' = {} /\ pipeline' = "none" /\ sender' = "none"
    /\ lastEvent' = "none"
    /\ channel' = "none" /\ answer' = {} /\ instance' = None
    /\ overdue' = FALSE /\ reason' = "none" /\ confirmed' = FALSE
    /\ stop' = FALSE /\ events' = <<>>
    /\ link' = "closed" /\ inbox' = <<>>
    /\ told' = told \cap {app} /\ ended' = {}     \* no other can be met again
    /\ abandoned' = IF confirmed THEN abandoned \cap told'
                    ELSE (abandoned \cup {instance}) \cap told'
    /\ UNCHANGED <<screen, audio, requests, app, stopping, launched>>

(* The streams of the OFFER: one per codec, best first, and one for audio. *)
Offer == {i \in Index : IF i = Audio THEN audio ELSE screen}

(* No audio to record for a speaker, or no encoder for a screen. *)
NothingToOffer ==
    /\ Offer = {} \/ (screen /\ Codecs = 0)
    /\ Session("preparing", "over")
    /\ UNCHANGED <<notSession, mediaVars, lastEvent, stop>>

StartNegotiation ==
    /\ Offer # {} /\ (screen => Codecs > 0)
    /\ Session("preparing", "negotiating")
    /\ channel' = "connecting"
    /\ UNCHANGED <<castVars, mediaVars, lastEvent, answer, instance, overdue,
                   reason, told, confirmed, stop, events, wireVars, appVars,
                   abandoned>>

(* Unavailable: the MirrorChannel is dropped with its connection, and the    *)
(* session goes on over HTTP (module Fallback).                              *)
Unavailable ==
    /\ phase' = "over"
    /\ channel' = "ended"
    /\ link' = "closed" /\ inbox' = <<>>
    /\ UNCHANGED <<castVars, mediaVars, lastEvent, answer, instance, overdue,
                   reason, told, confirmed, stop, events, requests, appVars,
                   abandoned>>

Usable == IF screen THEN answer \ {Audio} # {} ELSE Audio \in answer

(* Nothing usable was accepted, or the codec that was has no encoder. *)
SelectFails ==
    /\ phase = "selecting"
    /\ ~Usable \/ screen
    /\ Unavailable

(* select_streams: the best codec that was accepted, and audio if it was. *)
Selection ==
    {i \in answer \cap Offer :
        i # Audio => \A j \in (answer \cap Offer) \ {Audio} : i <= j}

(* ChannelControl::spawn: from here on the application is stopped again. *)
Select ==
    /\ Usable
    /\ Session("selecting", "starting")
    /\ streams' = Selection
    /\ channel' = "checking"
    /\ UNCHANGED <<castVars, pipeline, sender, lastEvent, answer, instance,
                   overdue, reason, told, confirmed, stop, events, wireVars,
                   appVars, abandoned>>

(* The socket is bound, the pipeline built, the sender thread started. *)
StartMedia ==
    /\ Session("starting", "built")
    /\ pipeline' = "built" /\ sender' = "running"
    /\ UNCHANGED <<notSession, streams, lastEvent, stop>>

StartMediaFails ==
    /\ Session("starting", "control")
    /\ UNCHANGED <<notSession, mediaVars, lastEvent, stop>>

(* The encoder starts, or run returns and drops what it holds. *)
Play ==
    /\ \/ Session("built", "streaming") /\ pipeline' = "playing"
       \/ Session("built", "sender") /\ pipeline' = "failed"
    /\ UNCHANGED <<notSession, streams, sender, lastEvent, stop>>

(* run_until_stopped returns. *)
LeaveLoop ==
    /\ Session("streaming", "encoder")
    /\ UNCHANGED <<castVars, mediaVars, threadVars, stop, wireVars, appVars,
                   abandoned>>

StopRequested ==
    /\ stopWanted
    /\ LeaveLoop
    /\ UNCHANGED <<lastEvent, events>>

(* The screen sharing is ended from the system menu, or the pipeline fails. *)
CaptureClosed ==
    /\ screen
    /\ LeaveLoop
    /\ UNCHANGED <<lastEvent, events>>

PipelineError ==
    /\ LeaveLoop
    /\ UNCHANGED <<lastEvent, events>>

(* An event is always there when the thread ends of itself. *)
DeviceEnded ==
    /\ events # <<>>
    /\ LeaveLoop
    /\ lastEvent' = Head(events)
    /\ events' = Tail(events)

StopEncoder ==
    /\ Session("encoder", "sender")
    /\ pipeline' = "null"
    /\ UNCHANGED <<notSession, streams, sender, lastEvent, stop>>

(* The sender thread is stopped and joined. *)
DropSender ==
    /\ Session("sender", "control")
    /\ sender' = "stopped"
    /\ UNCHANGED <<notSession, streams, pipeline, lastEvent, stop>>

(* ChannelControl::drop, and its join. *)
DropChannel ==
    /\ Session("control", "joining")
    /\ stop' = TRUE
    /\ UNCHANGED <<notSession, mediaVars, lastEvent>>

JoinChannel ==
    /\ channel = "ended"
    /\ Session("joining", "over")
    /\ UNCHANGED <<notSession, mediaVars, lastEvent, stop>>

AskStop ==
    /\ phase # "over" /\ ~stopWanted
    /\ stopWanted' = TRUE
    /\ UNCHANGED <<cast, screen, audio, phase, mediaVars, lastEvent, threadVars,
                   stop, events, wireVars, appVars, abandoned>>

-----------------------------------------------------------------------------
(* The connection's thread.                                                *)

Channel(from, to) == channel = from /\ channel' = to

(* A request is written into the connection, and lost if that is broken. *)
Send(messages) ==
    requests' = IF link = "broken" THEN requests
                ELSE [requests EXCEPT ![cast] = @ \o messages]

Request(type, instanceOf) == [type |-> type, app |-> instanceOf]

Receive(type) ==
    /\ inbox # <<>> /\ Head(inbox).type = type
    /\ inbox' = Tail(inbox)

(* A status without the instance. *)
Gone == inbox # <<>> /\ Head(inbox).type = "status" /\ Head(inbox).app # instance

(* CONNECT and LAUNCH. *)
Connect ==
    /\ Channel("connecting", "launching")
    /\ link' = "up"
    /\ requests' = [requests EXCEPT ![cast] = @ \o <<Request("launch", None)>>]
    /\ UNCHANGED <<notThread, phase, answer, instance, overdue, reason, told,
                   confirmed, events, inbox>>

ConnectFails ==
    /\ channel = "connecting"
    /\ Unavailable

(* wait_for_app: the first status that names the application will do; the    *)
(* streams are then offered to that instance.                                *)
AdoptApp ==
    /\ Channel("launching", "offering")
    /\ ~overdue
    /\ Receive("status") /\ Head(inbox).app # None
    /\ instance' = Head(inbox).app
    /\ Send(<<Request("offer", Head(inbox).app)>>)
    /\ UNCHANGED <<notThread, phase, answer, overdue, reason, told, confirmed,
                   events, link>>

NegotiationTimesOut ==
    /\ channel \in {"launching", "offering"} /\ overdue
    /\ Unavailable

(* The launch or the offer is refused. *)
Refused ==
    /\ ~overdue
    /\ inbox # <<>>
    /\ \/ channel = "launching" /\ Head(inbox).type = "launchError"
       \/ channel = "offering" /\ Head(inbox).type = "rejected"
    /\ Unavailable

(* The ANSWER: negotiate returns and the session looks at what was accepted. *)
Answered ==
    /\ Channel("offering", "negotiated")
    /\ ~overdue
    /\ Receive("answer")
    /\ answer' = Head(inbox).accepted
    /\ phase' = "selecting"
    /\ UNCHANGED <<notThread, instance, overdue, reason, told, confirmed, events,
                   link, requests>>

(* Any other message is skipped, a status without the application included. *)
SkipMessage ==
    /\ ~overdue
    /\ inbox # <<>>
    /\ \/ /\ channel = "launching" /\ Head(inbox).type # "launchError"
          /\ ~(Head(inbox).type = "status" /\ Head(inbox).app # None)
       \/ channel = "offering" /\ Head(inbox).type \notin {"answer", "rejected"}
       \/ channel = "stopping" /\ ~Gone
    /\ inbox' = Tail(inbox)
    /\ UNCHANGED <<notThread, phase, threadVars, events, link, requests>>

NegotiationFails ==
    /\ channel \in {"launching", "offering"}
    /\ link = "broken" /\ inbox = <<>>
    /\ Unavailable

(* run: a turn of the loop looks at the flag, then reads. *)
CheckStop ==
    /\ Channel("checking", "receiving")
    /\ ~stop
    /\ UNCHANGED <<notThread, phase, answer, instance, overdue, reason, told,
                   confirmed, events, wireVars>>

(* A read that times out, and a message that means nothing here. *)
NothingNew ==
    /\ Channel("receiving", "checking")
    /\ \/ inbox = <<>> /\ link # "broken" /\ inbox' = inbox
       \/ /\ inbox # <<>> /\ inbox' = Tail(inbox)
          /\ Head(inbox).type = "status" => Head(inbox).app = instance
          /\ Head(inbox).type = "close" => Head(inbox).app # instance
    /\ UNCHANGED <<notThread, phase, answer, instance, overdue, reason, told,
                   confirmed, events, link, requests>>

(* The loop is left: the application is told to stop, and awaited. *)
TellApp(why) ==
    /\ channel' = "stopping"
    /\ reason' = why
    /\ overdue' = FALSE
    /\ Send(<<Request("stop", instance)>>)
    /\ told' = IF link = "broken" THEN told ELSE told \cup {instance}
    /\ UNCHANGED <<notThread, phase, answer, instance, confirmed, events, link>>

(* Mutant: the connection is closed on the application. *)
StopSeenAbruptly ==
    /\ channel = "checking" /\ stop
    /\ channel' = "ended"
    /\ UNCHANGED <<notThread, phase, answer, instance, overdue, reason, told,
                   confirmed, events, wireVars>>

StopSeen ==
    /\ channel = "checking" /\ stop
    /\ TellApp("none")
    /\ UNCHANGED inbox

(* Mutant: only a CLOSE is taken for the end. *)
AppGoneUnread ==
    /\ Channel("receiving", "checking")
    /\ Gone
    /\ inbox' = Tail(inbox)
    /\ UNCHANGED <<notThread, phase, answer, instance, overdue, reason, told,
                   confirmed, events, link, requests>>

AppGone ==
    /\ channel = "receiving"
    /\ Gone
    /\ inbox' = Tail(inbox)
    /\ TellApp("stopped")

AppClosed ==
    /\ channel = "receiving"
    /\ Receive("close") /\ Head(inbox).app = instance
    /\ TellApp("closed")

ConnectionLost ==
    /\ channel = "receiving"
    /\ link = "broken" /\ inbox = <<>>
    /\ TellApp("lost")
    /\ UNCHANGED inbox

(* run returns, which drops the connection; a reason is reported. *)
Return(why) ==
    /\ channel' = "ended"
    /\ link' = IF link = "broken" THEN link ELSE "closed"
    /\ inbox' = <<>>
    /\ events' = IF why = "none" THEN events ELSE Append(events, why)
    /\ UNCHANGED <<notThread, phase, answer, instance, overdue, told, requests>>

(* Mutant: any status is taken for the confirmation. *)
AppStoppedAny ==
    /\ channel = "stopping" /\ ~overdue
    /\ inbox # <<>> /\ Head(inbox).type = "status"
    /\ confirmed' = TRUE
    /\ Return(reason)
    /\ UNCHANGED reason

(* Mutant: the confirmation is reported as the receiver's doing. *)
AppStoppedReported ==
    /\ channel = "stopping" /\ ~overdue
    /\ Gone
    /\ confirmed' = TRUE /\ reason' = "stopped"
    /\ Return("stopped")

(* await_app_stopped: a status without the instance. *)
AppStopped ==
    /\ channel = "stopping" /\ ~overdue
    /\ Gone
    /\ confirmed' = TRUE
    /\ Return(reason)
    /\ UNCHANGED reason

(* Mutant: the confirmation is awaited for as long as it takes. *)
GiveUpNever ==
    /\ channel = "stopping"
    /\ link = "broken" /\ inbox = <<>>
    /\ Return(reason)
    /\ UNCHANGED <<reason, confirmed>>

(* Three seconds are over, or the connection is gone. *)
GiveUp ==
    /\ channel = "stopping"
    /\ overdue \/ (link = "broken" /\ inbox = <<>>)
    /\ Return(reason)
    /\ UNCHANGED <<reason, confirmed>>

(* Twelve seconds from the start of the negotiation, three from the STOP. *)
DeadlinePasses ==
    /\ channel \in {"launching", "offering", "stopping"}
    /\ ~overdue
    /\ overdue' = TRUE
    /\ UNCHANGED <<notThread, phase, channel, answer, instance, reason, told,
                   confirmed, events, wireVars>>

-----------------------------------------------------------------------------
(* The receiver and the network.                                           *)

(* A message to the current cast, if its connection still carries any. *)
Tell(messages) ==
    inbox' = IF link = "up" THEN inbox \o messages ELSE inbox

Status(instanceOf) == <<[type |-> "status", app |-> instanceOf]>>

(* Cast c's next request reaches the receiver; the answer is only read when  *)
(* that cast is the one under way.                                           *)
Handle(c, type) ==
    /\ requests[c] # <<>> /\ Head(requests[c]).type = type
    /\ requests' = [requests EXCEPT ![c] = Tail(@)]

Reply(c, messages) == IF c = cast THEN Tell(messages) ELSE inbox' = inbox

(* LAUNCH starts the application, unless it runs already: then its status is *)
(* all there is to tell, even if it is shutting down.                        *)
Launch(c) ==
    /\ Handle(c, "launch")
    /\ \/ /\ app = None /\ launched < MaxCasts
          /\ app' = launched + 1 /\ launched' = launched + 1
          /\ Reply(c, Status(launched + 1))
       \/ /\ app # None
          /\ Reply(c, Status(app))
          /\ UNCHANGED <<app, launched>>
       \/ /\ Reply(c, <<[type |-> "launchError"]>>)
          /\ UNCHANGED <<app, launched>>
    /\ UNCHANGED <<notReceiver, link, stopping, ended>>

(* An OFFER to an instance that runs is answered. *)
HandleOffer(c) ==
    /\ Handle(c, "offer")
    /\ IF Head(requests[c]).app = app
       THEN \/ Reply(c, <<[type |-> "rejected"]>>)
            \/ \E accepted \in SUBSET Offer :
                   Reply(c, <<[type |-> "answer", accepted |-> accepted]>>)
       ELSE inbox' = inbox
    /\ UNCHANGED <<notReceiver, link, appVars>>

HandleStop(c) ==
    /\ Handle(c, "stop")
    /\ stopping' = (stopping \/ Head(requests[c]).app = app)
    /\ UNCHANGED <<notReceiver, link, inbox, app, launched, ended>>

(* The end of an instance is told by a status, and by a CLOSE to those that  *)
(* had a connection to it.                                                   *)
AppEnds ==
    /\ app' = None /\ stopping' = FALSE
    /\ \/ Tell(Status(None))
       \/ Tell(<<[type |-> "close", app |-> app]>> \o Status(None))
    /\ UNCHANGED <<notReceiver, link, requests, launched>>

ShutDown ==
    /\ app # None /\ stopping
    /\ AppEnds
    /\ UNCHANGED ended

(* The application is closed on the device, or another sender replaces it. *)
WorldEndsApp ==
    /\ app # None
    /\ AppEnds
    /\ ended' = ended \cup {app}

(* The volume changed, say: every status lists what runs. *)
VolunteerStatus ==
    /\ link = "up" /\ Len(inbox) < MaxInbox
    /\ Tell(Status(app))
    /\ UNCHANGED <<notReceiver, link, requests, appVars>>

(* The connection breaks, with or without what was on its way here; what was *)
(* on its way to the receiver it may or may not handle.  (A receiver that    *)
(* falls silent is one that takes no step.)                                  *)
LinkFails ==
    /\ link = "up"
    /\ link' = "broken"
    /\ inbox' \in {inbox, <<>>}
    /\ UNCHANGED <<notReceiver, requests, appVars>>

-----------------------------------------------------------------------------
(* What the session does of itself, each step after a bounded wait. *)
SessionStep ==
    \/ NothingToOffer \/ StartNegotiation \/ SelectFails \/ Select
    \/ StartMedia \/ StartMediaFails \/ Play
    \/ StopRequested \/ DeviceEnded
    \/ StopEncoder \/ DropSender \/ DropChannel \/ JoinChannel

ChannelStep ==
    \/ Connect \/ ConnectFails \/ AdoptApp \/ NegotiationTimesOut \/ Refused
    \/ Answered \/ SkipMessage \/ NegotiationFails
    \/ CheckStop \/ NothingNew \/ StopSeen \/ AppGone \/ AppClosed
    \/ ConnectionLost \/ AppStopped \/ GiveUp

WorldStep ==
    \/ CaptureClosed \/ PipelineError \/ AskStop
    \/ \E c \in Cast : Launch(c) \/ HandleOffer(c) \/ HandleStop(c)
    \/ ShutDown \/ WorldEndsApp \/ VolunteerStatus \/ LinkFails

Next == Begin \/ SessionStep \/ ChannelStep \/ DeadlinePasses \/ WorldStep

Spec == Init /\ [][Next]_vars

(* The task and the thread are scheduled and time passes; every read of the  *)
(* thread returns within a second.  Nothing is assumed of the receiver.      *)
Fairness == WF_vars(SessionStep) /\ WF_vars(ChannelStep) /\ WF_vars(DeadlinePasses)

FairSpec == Spec /\ Fairness

-----------------------------------------------------------------------------
(* Properties.                                                             *)

Mirrored == channel \in {"checking", "receiving"}

(* await_app_stopped: relaunching the application mid-shutdown gets the new  *)
(* session killed.  So no cast goes on with an instance that an earlier one  *)
(* told to stop, unless that one never saw it gone.                          *)
FreshApp ==
    Mirrored /\ instance \in told => instance \in abandoned

(* The session is told that the receiver ended the cast only when it did so: *)
(* our own STOP is not reported, nor that of an earlier cast seen through.   *)
HonestReason ==
    reason \in {"stopped", "closed"} => instance \in ended \cup abandoned

(* "From here on the app is running; ChannelControl's Drop stops it again": *)
(* a cast that got that far has told the application to stop when it is      *)
(* over, or cannot reach it; and what it saw gone is gone.                   *)
LeavesNoApp ==
    /\ phase = "over" /\ streams # {} => instance \in told \/ link = "broken"
    /\ confirmed => app # instance

(* A stop ends the cast, whatever the receiver does, and also while it is     *)
(* being negotiated, when nothing looks at the stop.                         *)
StopEnds == stopWanted ~> (phase = "over")

(* A cast whose application was closed on the device ends, and so does one   *)
(* whose connection broke.                                                   *)
DeviceLossEnds ==
    (phase = "streaming" /\ (instance \in ended \/ link = "broken")) ~> (phase = "over")
=============================================================================
