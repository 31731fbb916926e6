------------------------------- MODULE Service -------------------------------
(***************************************************************************)
(* The daemon as the extension sees it: the status and the end reason of   *)
(* the casts, the task that forwards changes as signals, the replies to    *)
(* method calls, the idle exit, a crash and the activation by the bus      *)
(* (main.rs); and the extension's copy of all this (daemon.js and          *)
(* castMenu.js).  What a cast does in between is CastSessions' subject:    *)
(* here its session begins, plays and ends whenever it may.                *)
(*                                                                         *)
(* The daemon writes its signals and replies on one connection, which      *)
(* keeps their order; a call is a task of its own, so between the value it *)
(* reads and the reply it writes other messages may be written.            *)
(***************************************************************************)
EXTENDS Naturals, Sequences, FiniteSets, SequencesExt

CONSTANTS
    IdleExit,  \* IDLE_EXIT in ticks
    MaxCasts,  \* bound: casts asked for
    MaxOpens,  \* bound: openings of the menu
    MaxWay     \* bound: messages under way, each way, that one more is added to

ASSUME BoundAssumption ==
    IdleExit \in Nat /\ MaxCasts \in Nat \ {0} /\ MaxOpens \in Nat /\ MaxWay \in Nat

VARIABLES
    up,         \* a daemon owns the bus name
    status,     \* SharedState.status, with the cast it is about
    lastEvent,  \* SharedState.last_event, with the cast that wrote it
    events,     \* Event::State waiting for the forwarder
    accepted,   \* casts accepted so far, which number them
    session,    \* the newest cast begun, and where it stands
    idleFor,    \* since last_activity
    leaving,    \* where the idle exit stands
    calls,      \* calls the daemon has not handled
    answers,    \* replies not yet written
    wire,       \* what the extension will be handed, in order
    subscribed, \* the proxy's signal handlers are connected
    menu,       \* _state and _activeDeviceId
    opens,      \* times the menu was opened
    earliest,   \* for each cast, the oldest cast not over when it was accepted
    late,       \* a cast was accepted after the idle exit had decided
    behind      \* menu was set from an overtaken reply, or missed a signal

sessionVars == <<lastEvent, accepted, session, earliest>>
busVars == <<calls, answers, wire>>
menuVars == <<menu, subscribed, opens, behind>>
vars == <<up, status, events, idleFor, leaving, late, sessionVars, busVars, menuVars>>

Cast == 1 .. MaxCasts
NoCast == 0
Status == [state : {"idle", "connecting", "casting", "error"}, cast : 0 .. MaxCasts]
Reason == [kind : {"", "error", "ended"}, cast : 0 .. MaxCasts]
Idle == [state |-> "idle", cast |-> NoCast]
NoReason == [kind |-> "", cast |-> NoCast]
Over == "over"

GetStatus == [call |-> "GetStatus", why |-> "", about |-> NoCast]
StartCast == [call |-> "StartCast", why |-> "", about |-> NoCast]
GetLastEvent(why, about) == [call |-> "GetLastEvent", why |-> why, about |-> about]

Signal(of) == [is |-> "signal", of |-> of, stale |-> FALSE]
StatusReply(of) == [is |-> "status", of |-> of, stale |-> FALSE]
ReasonReply(of, c) == [is |-> "reason", of |-> of, why |-> c.why, about |-> c.about]
DaemonGone == [is |-> "gone"]

(* The extension is enabled while a daemon with a cast, an idle one or none  *)
(* is there; it asks for the status without waking a daemon.                 *)
Init ==
    /\ up \in BOOLEAN
    /\ accepted \in IF up THEN {0, 1} ELSE {0}
    /\ session = [cast |-> accepted, at |-> IF accepted = 0 THEN Over ELSE "playing"]
    /\ status = IF accepted = 0 THEN Idle ELSE [state |-> "casting", cast |-> 1]
    /\ lastEvent = NoReason
    /\ events = 0
    /\ idleFor = 0
    /\ leaving = "waiting"
    /\ calls = IF up THEN {GetStatus} ELSE {}
    /\ answers = {}
    /\ wire = <<>>
    /\ subscribed = FALSE
    /\ menu = Idle
    /\ opens = 0
    /\ earliest = [c \in Cast |-> c]
    /\ late = FALSE
    /\ behind = FALSE

-----------------------------------------------------------------------------
(* The session of a cast (session.rs, run).                                *)

(* set_status: the change is announced, and it is activity. *)
SetStatus(state, cast) ==
    /\ status' = [state |-> state, cast |-> cast]
    /\ events' = events + 1
    /\ idleFor' = 0

FirstNotOver == IF session.at = Over THEN session.cast + 1 ELSE session.cast

Begins ==
    /\ session.at = Over /\ session.cast < accepted
    /\ session' = [cast |-> session.cast + 1, at |-> "setup"]
    /\ SetStatus("connecting", session.cast + 1)
    /\ UNCHANGED <<up, lastEvent, accepted, earliest, leaving, late, busVars, menuVars>>

Plays ==
    /\ session.at = "setup"
    /\ session' = [session EXCEPT !.at = "playing"]
    /\ SetStatus("casting", session.cast)
    /\ UNCHANGED <<up, lastEvent, accepted, earliest, leaving, late, busVars, menuVars>>

(* The cast comes to its end: stopped or cancelled, which leaves no reason,  *)
(* failed, or (from its loop only) ended by the device.                      *)
Ends(kind) ==
    /\ session.at \in IF kind = "ended" THEN {"playing"} ELSE {"setup", "playing"}
    /\ session' = [session EXCEPT !.at = IF kind = "error" THEN "failed" ELSE "done"]
    /\ lastEvent' = IF kind = "" THEN lastEvent
                    ELSE [kind |-> kind, cast |-> session.cast]
    /\ UNCHANGED <<up, status, events, idleFor, leaving, late, accepted, earliest,
                   busVars, menuVars>>

Reports ==
    /\ session.at \in {"failed", "done"}
    /\ session' = [session EXCEPT !.at = Over]
    /\ IF session.at = "failed" THEN SetStatus("error", session.cast)
       ELSE SetStatus("idle", NoCast)
    /\ UNCHANGED <<up, lastEvent, accepted, earliest, leaving, late, busVars, menuVars>>

SessionStep == Begins \/ Plays \/ (\E kind \in {"", "error", "ended"} : Ends(kind)) \/ Reports

-----------------------------------------------------------------------------
(* The method calls: each touches last_activity.                           *)

Handled(c) ==
    /\ up
    /\ c \in calls
    /\ calls' = calls \ {c}
    /\ idleFor' = 0

HandleGetStatus ==
    /\ Handled(GetStatus)
    /\ answers' = answers \cup {StatusReply(status)}
    /\ UNCHANGED <<up, status, events, leaving, late, sessionVars, wire, menuVars>>

HandleGetLastEvent == \E c \in calls :
    /\ c.call = "GetLastEvent"
    /\ Handled(c)
    /\ answers' = answers \cup {ReasonReply(lastEvent, c)}
    /\ UNCHANGED <<up, status, events, leaving, late, sessionVars, wire, menuVars>>

(* The device is unknown, or cannot show what is asked for. *)
RefuseStartCast ==
    /\ Handled(StartCast)
    /\ UNCHANGED <<up, status, events, leaving, late, sessionVars, answers, wire, menuVars>>

(* Mutant: an accepted cast is no activity. *)
AcceptUntouched ==
    /\ up /\ StartCast \in calls
    /\ calls' = calls \ {StartCast}
    /\ accepted' = accepted + 1
    /\ earliest' = [earliest EXCEPT ![accepted'] = FirstNotOver]
    /\ lastEvent' = NoReason
    /\ late' = (leaving = "decided")
    /\ UNCHANGED <<up, status, events, idleFor, leaving, session, answers, wire, menuVars>>

(* Mutant: the previous end reason is left. *)
AcceptUncleared ==
    /\ Handled(StartCast)
    /\ accepted' = accepted + 1
    /\ earliest' = [earliest EXCEPT ![accepted'] = FirstNotOver]
    /\ late' = (leaving = "decided")
    /\ UNCHANGED <<up, status, events, leaving, session, lastEvent, answers, wire, menuVars>>

(* "Fresh start: clear any previous session's end reason."  The previous     *)
(* session may still run.  StopCast only brings its end nearer.              *)
AcceptStartCast ==
    /\ Handled(StartCast)
    /\ accepted' = accepted + 1
    /\ earliest' = [earliest EXCEPT ![accepted'] = FirstNotOver]
    /\ lastEvent' = NoReason
    /\ late' = (leaving = "decided")
    /\ UNCHANGED <<up, status, events, leaving, session, answers, wire, menuVars>>

WriteReply == \E a \in answers :
    /\ Len(wire) < MaxWay
    /\ answers' = answers \ {a}
    /\ wire' = Append(wire, a)
    /\ UNCHANGED <<up, status, events, idleFor, leaving, late, sessionVars, calls, menuVars>>

(* A status reply is overtaken by a signal that tells something else. *)
Overtaken(a) == IF a.is = "status" /\ a.of # status THEN [a EXCEPT !.stale = TRUE] ELSE a

(* The forwarder: an event carries nothing, the status is read when its turn *)
(* comes.                                                                    *)
Forward ==
    /\ events > 0
    /\ Len(wire) < MaxWay
    /\ events' = events - 1
    /\ wire' = Append(wire, Signal(status))
    /\ answers' = {Overtaken(a) : a \in answers}
    /\ UNCHANGED <<up, status, idleFor, leaving, late, sessionVars, calls, menuVars>>

-----------------------------------------------------------------------------
(* The life of the daemon.                                                 *)

(* Nobody hears the answer; a status asked for reads as idle.  The bus first *)
(* tells that the name has no owner.                                         *)
NoReply(c) == IF c.call = "GetStatus" THEN StatusReply(Idle) ELSE ReasonReply(NoReason, c)
Unanswered ==
    {NoReply(c) : c \in {c \in calls : c.call # "StartCast"}}
      \cup {IF a.is = "status" THEN StatusReply(Idle)
            ELSE [a EXCEPT !.of = NoReason] : a \in answers}

Gone ==
    /\ Len(wire) < MaxWay
    /\ up' = FALSE
    /\ status' = Idle
    /\ lastEvent' = NoReason
    /\ events' = 0
    /\ session' = [cast |-> accepted, at |-> Over]
    /\ leaving' = "waiting"
    /\ late' = FALSE
    /\ calls' = {}
    /\ answers' = {}
    /\ wire' = wire \o <<DaemonGone>> \o SetToSeq(Unanswered)
    /\ UNCHANGED <<idleFor, accepted, earliest, menuVars>>

Crash == up /\ Gone

(* A session waits for nothing but its predecessor, and between the two      *)
(* looks of the idle exit lies nothing: neither takes as long as a tick.     *)
(* During a cast the time does not matter, its end being activity.           *)
Tick ==
    /\ up
    /\ ~(session.at = Over /\ session.cast < accepted)
    /\ leaving # "quiet"
    /\ status.state \in {"idle", "error"}
    /\ idleFor <= IdleExit
    /\ idleFor' = idleFor + 1
    /\ UNCHANGED <<up, status, events, leaving, late, sessionVars, busVars, menuVars>>

(* Every 30 seconds: the status is read, then the last activity, and from    *)
(* then on nothing keeps the daemon.                                         *)
ReadStatus ==
    /\ up
    /\ leaving = "waiting"
    /\ status.state \in {"idle", "error"}
    /\ leaving' = "quiet"
    /\ UNCHANGED <<up, status, events, idleFor, late, sessionVars, busVars, menuVars>>

ReadActivity ==
    /\ up
    /\ leaving = "quiet"
    /\ leaving' = IF idleFor > IdleExit THEN "decided" ELSE "waiting"
    /\ UNCHANGED <<up, status, events, idleFor, late, sessionVars, busVars, menuVars>>

IdleExits == up /\ leaving = "decided" /\ Gone

(* A call wakes the daemon: discovery and status start afresh. *)
Activate ==
    /\ ~up
    /\ calls # {}
    /\ up' = TRUE
    /\ idleFor' = 0
    /\ UNCHANGED <<status, events, leaving, late, sessionVars, busVars, menuVars>>

DaemonStep ==
    \/ HandleGetStatus \/ HandleGetLastEvent \/ RefuseStartCast \/ AcceptStartCast
    \/ WriteReply \/ Forward \/ Crash \/ Tick \/ ReadStatus \/ ReadActivity \/ IdleExits
    \/ Activate

-----------------------------------------------------------------------------
(* The extension.                                                          *)

Casting(m) == m.state \in {"connecting", "casting"}

(* _setState: a failure, and an end of what was a cast, ask for the reason. *)
AsksFor(new) ==
    IF new.state = "error" /\ menu.state # "error"
      THEN {GetLastEvent("error", new.cast)}
    ELSE IF new.state = "idle" /\ Casting(menu)
      THEN {GetLastEvent("ended", menu.cast)}
    ELSE {}

SetState(new) ==
    /\ menu' = new
    /\ calls' = calls \cup AsksFor(new)

Next1(is) == wire # <<>> /\ Head(wire).is = is /\ wire' = Tail(wire)

SignalArrives ==
    /\ Next1("signal")
    /\ IF subscribed THEN SetState(Head(wire).of) ELSE UNCHANGED <<menu, calls>>
    /\ behind' = ~subscribed
    /\ UNCHANGED <<up, status, events, idleFor, leaving, late, sessionVars, answers,
                   subscribed, opens>>

StatusArrives ==
    /\ Next1("status")
    /\ SetState(Head(wire).of)
    /\ behind' = Head(wire).stale
    /\ UNCHANGED <<up, status, events, idleFor, leaving, late, sessionVars, answers,
                   subscribed, opens>>

(* A failure is shown whatever is known of it; an end only when the device   *)
(* is said to have brought it about.                                         *)
Shown(r) == r.is = "reason" /\ (r.why = "error" \/ r.of.kind = "ended")

ReasonArrives ==
    /\ Next1("reason")
    /\ UNCHANGED <<up, status, events, idleFor, leaving, late, sessionVars, calls, answers,
                   menuVars>>

(* Mutant: the end of the daemon goes unnoticed. *)
GoneUnnoticed ==
    /\ Next1("gone")
    /\ UNCHANGED <<up, status, events, idleFor, leaving, late, sessionVars, calls, answers,
                   menuVars>>

(* _onDaemonGone: nothing is asked, which would only wake the daemon. *)
GoneArrives ==
    /\ Next1("gone")
    /\ menu' = Idle
    /\ behind' = FALSE
    /\ UNCHANGED <<up, status, events, idleFor, leaving, late, sessionVars, calls, answers,
                   subscribed, opens>>

Subscribe ==
    /\ ~subscribed
    /\ subscribed' = TRUE
    /\ UNCHANGED <<up, status, events, idleFor, leaving, late, sessionVars, busVars,
                   menu, opens, behind>>

(* refresh *)
OpenMenu ==
    /\ Cardinality(calls \cup answers) < MaxWay
    /\ opens < MaxOpens
    /\ opens' = opens + 1
    /\ calls' = calls \cup {GetStatus}
    /\ UNCHANGED <<up, status, events, idleFor, leaving, late, sessionVars, answers, wire,
                   menu, subscribed, behind>>

AskForCast ==
    /\ Cardinality(calls \cup answers) < MaxWay
    /\ accepted < MaxCasts
    /\ calls' = calls \cup {StartCast}
    /\ UNCHANGED <<up, status, events, idleFor, leaving, late, sessionVars, answers, wire,
                   menuVars>>

ExtensionStep ==
    \/ SignalArrives \/ StatusArrives \/ ReasonArrives \/ GoneArrives \/ Subscribe
    \/ OpenMenu \/ AskForCast

Next == SessionStep \/ DaemonStep \/ ExtensionStep

Spec == Init /\ [][Next]_vars

-----------------------------------------------------------------------------
(* Properties.                                                             *)

(* Every variable has its type. *)
TypeOK ==
    /\ up \in BOOLEAN /\ subscribed \in BOOLEAN /\ late \in BOOLEAN /\ behind \in BOOLEAN
    /\ status \in Status /\ menu \in Status
    /\ lastEvent \in Reason
    /\ events \in Nat
    /\ accepted \in 0 .. MaxCasts
    /\ session \in [cast : 0 .. MaxCasts,
                    at : {Over, "setup", "playing", "failed", "done"}]
    /\ idleFor \in 0 .. IdleExit + 1
    /\ leaving \in {"waiting", "quiet", "decided"}
    /\ opens \in 0 .. MaxOpens
    /\ earliest \in [Cast -> Cast]
    /\ \A c \in calls : c.call \in {"GetStatus", "StartCast", "GetLastEvent"}

(* Nothing is under way between the daemon and the extension. *)
Quiet == wire = <<>> /\ calls = {} /\ answers = {} /\ events = 0

(* daemon.js and castMenu.js: the menu shows what the daemon does, a cast as *)
(* long as there is one and none when the daemon has gone, however calls,    *)
(* signals, crashes and restarts fall.  It is behind only after a reply that *)
(* a signal overtook or a signal before the proxy was ready, until the next  *)
(* signal or opening of the menu.                                            *)
MirrorSettles == Quiet /\ ~behind => menu = status

(* A reason that is shown, as one of which cast. *)
OlderReason(r) ==
    Shown(r) /\ r.of.cast # NoCast /\ r.about # NoCast /\ r.of.cast < r.about

(* start_cast: "clear any previous session's end reason".  A cast asked for   *)
(* when none was under way is never reported to the user with the reason of   *)
(* an earlier one.                                                            *)
NoOldReason == \A i \in DOMAIN wire :
    OlderReason(wire[i]) => earliest[wire[i].about] < wire[i].about

(* The same of every cast, as the comment in start_cast and that of           *)
(* last_event ("How the last session ended") have it.  The session that is    *)
(* replaced writes its reason after the clearing, and it is shown for its     *)
(* successor.                                                                 *)
EndReason == \A i \in DOMAIN wire : ~OlderReason(wire[i])

(* The idle exit takes no cast with it that was accepted before it decided:  *)
(* the status is read before the activity, so a cast accepted in between     *)
(* counts as activity.  Only one accepted after the decision is lost.        *)
ExitSparesCasts == [][IdleExits => FirstNotOver > accepted \/ late]_vars
=============================================================================
