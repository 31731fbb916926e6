---------------------------- MODULE CastSessions ----------------------------
(***************************************************************************)
(* The D-Bus side of the daemon: the StartCast and StopCast handlers of    *)
(* main.rs and the session task of session.rs, which meet in SharedState.  *)
(*                                                                         *)
(* Every field of SharedState has a lock of its own, held for one access,  *)
(* so one access is one action.  A call of StartCast is identified with    *)
(* the session it asks for: the sender half of its stop channel, its task  *)
(* handle and its generation are all named by the call.  The bus runs each *)
(* call as a task of its own, so handlers interleave.                      *)
(***************************************************************************)
EXTENDS Integers

CONSTANTS
    Call,      \* the StartCast calls the bus delivers
    NoCall,    \* None, for a handle or a channel end that names a call
    Device,    \* receivers a call can name
    Speaker,   \* the receivers without video (Device::has_video is false)
    NoDevice   \* the empty device id

ASSUME CallAssumption == NoCall \notin Call
ASSUME DeviceAssumption == Speaker \subseteq Device /\ NoDevice \notin Device

VARIABLES
    handler,     \* where the StartCast handler of each call stands
    request,     \* the accepted request: receiver and source
    previous,    \* the task handle a call took out of active_task
    number,      \* the generation a call got, 0 before it has one
    active,      \* the call whose stop sender is installed
    activeTask,  \* the call whose task handle is stored
    generation,  \* the generation counter
    crossed,     \* ghost: two handlers were between TakePrevious and StoreTask
    resolved,    \* calls whose stop_rx has resolved (sent to, or sender gone)
    task,        \* where the session task of each call stands
    overHttp,    \* the calls whose session fell back to the HTTP cast
    outcome,     \* what cast_session returned
    portal,      \* the portal session of each call
    status,      \* SharedState.status
    details,     \* SharedState.details: published, and their format
    volumeTx     \* the call whose volume channel is installed

handlerVars == <<handler, request, previous, number, generation, crossed>>
stopVars    == <<active, resolved>>
taskVars    == <<task, overHttp, outcome, portal>>
shownVars   == <<status, details, volumeTx>>
vars == <<handlerVars, stopVars, activeTask, taskVars, shownVars>>

MaybeCall == Call \cup {NoCall}

Source == {"screen", "audio"}
Request == [device : Device, source : Source]
NoRequest == [device |-> NoDevice, source |-> "none"]

HandlerState == {"idle", "refused", "accepted", "installed", "taken",
                 "numbered", "spawned", "returned"}
TaskState == {"none", "waiting", "volume", "opening", "negotiating",
              "fallback", "loading", "announcing", "casting", "joining",
              "closing", "reporting", "checking", "takingStop",
              "clearingDetails", "clearingVolume", "done"}

HandlersOK ==
    /\ handler \in [Call -> HandlerState]
    /\ request \in [Call -> Request \cup {NoRequest}]
    /\ previous \in [Call -> MaybeCall]
    /\ number \in [Call -> Nat]
    /\ generation \in Nat /\ crossed \in BOOLEAN
    /\ active \in MaybeCall
    /\ resolved \subseteq Call
    /\ activeTask \in MaybeCall

TasksOK ==
    /\ task \in [Call -> TaskState] /\ overHttp \subseteq Call
    /\ outcome \in [Call -> {"none", "ok", "cancelled", "error"}]
    /\ portal \in [Call -> {"none", "open", "watched", "revoked", "told", "left"}]

ShownOK ==
    /\ status \in [state : {"idle", "connecting", "casting", "error"},
                   device : Device \cup {NoDevice}]
    /\ details \in [published : BOOLEAN, format : {"", "known"}]
    /\ volumeTx \in MaybeCall

(* Every variable has its type. *)
TypeOK == HandlersOK /\ TasksOK /\ ShownOK

NoDetails == [published |-> FALSE, format |-> ""]

Init ==
    /\ handler = [c \in Call |-> "idle"]
    /\ request = [c \in Call |-> NoRequest]
    /\ previous = [c \in Call |-> NoCall]
    /\ number = [c \in Call |-> 0]
    /\ generation = 0 /\ crossed = FALSE
    /\ active = NoCall
    /\ resolved = {}
    /\ activeTask = NoCall
    /\ task = [c \in Call |-> "none"] /\ overHttp = {}
    /\ outcome = [c \in Call |-> "none"]
    /\ portal = [c \in Call |-> "none"]
    /\ status = [state |-> "idle", device |-> NoDevice]
    /\ details = NoDetails
    /\ volumeTx = NoCall

-----------------------------------------------------------------------------
(* The StartCast handler.                                                  *)

InProgress(c) == handler[c] \notin {"idle", "refused", "returned"}

Advance(c, from, to) ==
    /\ handler[c] = from
    /\ handler' = [handler EXCEPT ![c] = to]

(* A speaker can only be sent audio. *)
Playable(r) == r.device \in Speaker => r.source = "audio"

(* The device is unknown, the source type is, or the receiver cannot show it. *)
Refuse(c) ==
    /\ Advance(c, "idle", "refused")
    /\ UNCHANGED <<request, previous, number, generation, crossed, stopVars, activeTask,
                   taskVars, shownVars>>

(* All checks passed.  (The end reason, cleared here, is Service's.) *)
Accept(c) ==
    /\ Advance(c, "idle", "accepted")
    /\ \E r \in Request :
          /\ Playable(r)
          /\ request' = [request EXCEPT ![c] = r]
    /\ UNCHANGED <<previous, number, generation, crossed, stopVars, activeTask,
                   taskVars, shownVars>>

(* Mutant: the sender it replaces is not dropped. *)
InstallStopKeeping(c) ==
    /\ Advance(c, "accepted", "installed")
    /\ active' = c
    /\ UNCHANGED <<request, previous, number, generation, crossed, resolved, activeTask,
                   taskVars, shownVars>>

(* Storing a stop sender drops the one it replaces, whose session is told. *)
InstallStop(c) ==
    /\ Advance(c, "accepted", "installed")
    /\ active' = c
    /\ resolved' = resolved \cup ({active} \ {NoCall})
    /\ UNCHANGED <<request, previous, number, generation, crossed, activeTask, taskVars,
                   shownVars>>

Handover == {"taken", "numbered", "spawned"}

TakePrevious(c) ==
    /\ Advance(c, "installed", "taken")
    /\ previous' = [previous EXCEPT ![c] = activeTask]
    /\ activeTask' = NoCall
    /\ crossed' = (crossed \/ \E d \in Call : handler[d] \in Handover)
    /\ UNCHANGED <<request, number, generation, stopVars, taskVars, shownVars>>

(* Mutant: the value before the increment, as fetch_add returns it. *)
TakeOldNumber(c) ==
    /\ Advance(c, "taken", "numbered")
    /\ generation' = generation + 1
    /\ number' = [number EXCEPT ![c] = generation]
    /\ UNCHANGED <<request, previous, crossed, stopVars, activeTask, taskVars, shownVars>>

TakeNumber(c) ==
    /\ Advance(c, "taken", "numbered")
    /\ generation' = generation + 1
    /\ number' = [number EXCEPT ![c] = generation + 1]
    /\ UNCHANGED <<request, previous, crossed, stopVars, activeTask, taskVars, shownVars>>

SpawnTask(c) ==
    /\ Advance(c, "numbered", "spawned")
    /\ task' = [task EXCEPT ![c] = "waiting"]
    /\ UNCHANGED <<request, previous, number, generation, crossed, stopVars, activeTask,
                   overHttp, outcome, portal, shownVars>>

(* Mutant: the handle is forgotten. *)
StoreNoTask(c) ==
    /\ Advance(c, "spawned", "returned")
    /\ UNCHANGED <<request, previous, number, generation, crossed, stopVars, activeTask,
                   taskVars, shownVars>>

StoreTask(c) ==
    /\ Advance(c, "spawned", "returned")
    /\ activeTask' = c
    /\ UNCHANGED <<request, previous, number, generation, crossed, stopVars, taskVars,
                   shownVars>>

(* StopCast takes the sender and sends on it in one locked access. *)
StopCast ==
    /\ active # NoCall
    /\ resolved' = resolved \cup {active}
    /\ active' = NoCall
    /\ UNCHANGED <<handlerVars, activeTask, taskVars, shownVars>>

-----------------------------------------------------------------------------
(* The session task.                                                       *)

Step(c, from, to) ==
    /\ task[c] \in from
    /\ task' = [task EXCEPT ![c] = to]

(* The loop returns: an HTTP cast joins its threads before the capture is   *)
(* closed.                                                                   *)
Finish(c, from, result) ==
    /\ Step(c, from, IF c \in overHttp THEN "joining" ELSE "closing")
    /\ outcome' = [outcome EXCEPT ![c] = result]

Begun(c) == task[c] \notin {"none", "waiting"}

(* Mutant: the predecessor is not awaited. *)
BeginAtOnce(c) ==
    /\ Step(c, {"waiting"}, "volume")
    /\ status' = [state |-> "connecting", device |-> request[c].device]
    /\ UNCHANGED <<handlerVars, stopVars, activeTask, overHttp, outcome, portal,
                   details, volumeTx>>

(* The predecessor's task is over, or there was none. *)
Begin(c) ==
    /\ \A d \in Call : previous[c] = d => task[d] = "done"
    /\ Step(c, {"waiting"}, "volume")
    /\ status' = [state |-> "connecting", device |-> request[c].device]
    /\ UNCHANGED <<handlerVars, stopVars, activeTask, overHttp, outcome, portal,
                   details, volumeTx>>

SetupVolume(c) ==
    /\ Step(c, {"volume"}, "opening")
    /\ volumeTx' = c
    /\ UNCHANGED <<handlerVars, stopVars, activeTask, overHttp, outcome, portal, status,
                   details>>

(* Audio casts never touch the portal. *)
OpenCapture(c) ==
    /\ Step(c, {"opening"}, "negotiating")
    /\ portal' = [portal EXCEPT
           ![c] = IF request[c].source = "audio" THEN "none" ELSE "open"]
    /\ UNCHANGED <<handlerVars, stopVars, activeTask, overHttp, outcome, shownVars>>

(* The user dismissed the picker, or the capture or the monitor is missing.  *)
(* When the portal session is started and a later step of open() fails,      *)
(* there is no Capture yet to close it.                                      *)
CaptureFails(c) ==
    /\ Step(c, {"opening"}, "reporting")
    /\ \E result \in {"cancelled", "error"}, p \in {"none", "left"} :
          /\ request[c].source = "audio" => result = "error" /\ p = "none"
          /\ p = "left" => result = "error"
          /\ outcome' = [outcome EXCEPT ![c] = result]
          /\ portal' = [portal EXCEPT ![c] = p]
    /\ UNCHANGED <<handlerVars, stopVars, activeTask, overHttp, shownVars>>

(* The mirroring details are published before the status is. *)
Negotiated(c) ==
    /\ Step(c, {"negotiating"}, "announcing")
    /\ details' = [published |-> TRUE, format |-> ""]
    /\ UNCHANGED <<handlerVars, stopVars, activeTask, overHttp, outcome, portal, status,
                   volumeTx>>

MirroringUnavailable(c) ==
    /\ Step(c, {"negotiating"}, "fallback")
    /\ overHttp' = overHttp \cup {c}
    /\ UNCHANGED <<handlerVars, stopVars, activeTask, outcome, portal, shownVars>>

(* The codec policy rules everything out, the pipeline does not start, no    *)
(* playlist appears, the HTTP server cannot be opened.                       *)
SetupFails(c) ==
    /\ Step(c, {"negotiating", "fallback"}, "closing")
    /\ outcome' = [outcome EXCEPT ![c] = "error"]
    /\ UNCHANGED <<handlerVars, stopVars, activeTask, overHttp, portal, shownVars>>

FallbackReady(c) ==
    /\ Step(c, {"fallback"}, "loading")
    /\ UNCHANGED <<handlerVars, stopVars, activeTask, overHttp, outcome, portal, shownVars>>

(* The receiver of the HTTP stream reports that it plays. *)
Playing(c) ==
    /\ Step(c, {"loading"}, "announcing")
    /\ details' = [published |-> TRUE, format |-> ""]
    /\ UNCHANGED <<handlerVars, stopVars, activeTask, overHttp, outcome, portal, status,
                   volumeTx>>

Announce(c) ==
    /\ Step(c, {"announcing"}, "casting")
    /\ status' = [state |-> "casting", device |-> request[c].device]
    /\ UNCHANGED <<handlerVars, stopVars, activeTask, overHttp, outcome, portal,
                   details, volumeTx>>

InLoop(c) == task[c] \in {"loading", "casting"}

(* The first poll of capture_closed subscribes to the portal's Closed signal. *)
WatchPortal(c) ==
    /\ InLoop(c)
    /\ portal[c] = "open"
    /\ portal' = [portal EXCEPT ![c] = "watched"]
    /\ UNCHANGED <<handlerVars, stopVars, activeTask, task, overHttp, outcome, shownVars>>

(* GNOME's own stop button; only a subscriber hears of it. *)
Revoke(c) ==
    /\ portal[c] \in {"open", "watched", "left"}
    /\ portal' = [portal EXCEPT ![c] = CASE @ = "watched" -> "told"
                                         [] @ = "open"    -> "revoked"
                                         [] @ = "left"    -> "none"]
    /\ UNCHANGED <<handlerVars, stopVars, activeTask, task, overHttp, outcome, shownVars>>

RecordFormat(c) ==
    /\ InLoop(c)
    /\ details.format = ""
    /\ details' = [details EXCEPT !.format = "known"]
    /\ UNCHANGED <<handlerVars, stopVars, activeTask, taskVars, status,
                   volumeTx>>

(* Mutant: the stop channel is polled only once the receiver plays. *)
StopRequestedLate(c) ==
    /\ c \in resolved
    /\ Finish(c, {"casting"}, "ok")
    /\ UNCHANGED <<handlerVars, stopVars, activeTask, overHttp, portal, shownVars>>

StopRequested(c) ==
    /\ c \in resolved
    /\ Finish(c, {"loading", "casting"}, "ok")
    /\ UNCHANGED <<handlerVars, stopVars, activeTask, overHttp, portal, shownVars>>

CaptureClosed(c) ==
    /\ portal[c] = "told"
    /\ Finish(c, {"loading", "casting"}, "ok")
    /\ UNCHANGED <<handlerVars, stopVars, activeTask, overHttp, portal, shownVars>>

DeviceEnded(c) ==
    /\ Finish(c, {"loading", "casting"}, "ok")
    /\ UNCHANGED <<handlerVars, stopVars, activeTask, overHttp, portal, shownVars>>

(* The pipeline reports an error (an outcome), or the event channel is gone. *)
LoopFails(c) ==
    /\ \E result \in {"error", "ok"} : Finish(c, {"loading", "casting"}, result)
    /\ UNCHANGED <<handlerVars, stopVars, activeTask, overHttp, portal, shownVars>>

(* The threads of the HTTP cast have ended.  They may be blocked, in a read  *)
(* from the receiver or a write to it, for as long as it likes.              *)
JoinThreads(c) ==
    /\ Step(c, {"joining"}, "closing")
    /\ UNCHANGED <<handlerVars, stopVars, activeTask, overHttp, outcome, portal, shownVars>>

(* Mutant: the close is left to Drop, which only schedules it. *)
CloseCaptureInDrop(c) ==
    /\ Step(c, {"closing"}, "reporting")
    /\ UNCHANGED <<handlerVars, stopVars, activeTask, overHttp, outcome, portal, shownVars>>

(* The capture is closed, and the close awaited, before the result returns. *)
CloseCapture(c) ==
    /\ Step(c, {"closing"}, "reporting")
    /\ portal' = [portal EXCEPT ![c] = "none"]
    /\ UNCHANGED <<handlerVars, stopVars, activeTask, overHttp, outcome, shownVars>>

ReportIdle(c) ==
    /\ outcome[c] \in {"ok", "cancelled"}
    /\ Step(c, {"reporting"}, "checking")
    /\ status' = [state |-> "idle", device |-> NoDevice]
    /\ UNCHANGED <<handlerVars, stopVars, activeTask, overHttp, outcome, portal,
                   details, volumeTx>>

ReportError(c) ==
    /\ outcome[c] = "error"
    /\ Step(c, {"reporting"}, "checking")
    /\ status' = [state |-> "error", device |-> request[c].device]
    /\ UNCHANGED <<handlerVars, stopVars, activeTask, overHttp, outcome, portal,
                   details, volumeTx>>

(* Only the newest session goes on to clear the shared handles. *)
CheckNewest(c) ==
    /\ Step(c, {"checking"},
            IF generation = number[c] THEN "takingStop" ELSE "done")
    /\ UNCHANGED <<handlerVars, stopVars, activeTask, overHttp, outcome, portal, shownVars>>

TakeStop(c) ==
    /\ Step(c, {"takingStop"}, "clearingDetails")
    /\ resolved' = resolved \cup ({active} \ {NoCall})
    /\ active' = NoCall
    /\ UNCHANGED <<handlerVars, activeTask, overHttp, outcome, portal, shownVars>>

ClearDetails(c) ==
    /\ Step(c, {"clearingDetails"}, "clearingVolume")
    /\ details' = NoDetails
    /\ UNCHANGED <<handlerVars, stopVars, activeTask, overHttp, outcome, portal, status,
                   volumeTx>>

ClearVolume(c) ==
    /\ Step(c, {"clearingVolume"}, "done")
    /\ volumeTx' = NoCall
    /\ UNCHANGED <<handlerVars, stopVars, activeTask, overHttp, outcome, portal, status,
                   details>>

-----------------------------------------------------------------------------
HandlerStep(c) ==
    \/ Accept(c) \/ Refuse(c) \/ InstallStop(c) \/ TakePrevious(c)
    \/ TakeNumber(c) \/ SpawnTask(c) \/ StoreTask(c)

(* Steps a running session takes by itself, each after a bounded wait. *)
SessionStep(c) ==
    \/ Begin(c) \/ SetupVolume(c) \/ OpenCapture(c) \/ CaptureFails(c)
    \/ Negotiated(c) \/ MirroringUnavailable(c) \/ SetupFails(c)
    \/ FallbackReady(c) \/ Announce(c) \/ WatchPortal(c)
    \/ StopRequested(c) \/ CaptureClosed(c)
    \/ CloseCapture(c) \/ ReportIdle(c) \/ ReportError(c)
    \/ CheckNewest(c) \/ TakeStop(c) \/ ClearDetails(c) \/ ClearVolume(c)

(* What the receiver, the compositor and the encoder may do. *)
WorldStep(c) ==
    \/ Playing(c) \/ Revoke(c) \/ RecordFormat(c) \/ DeviceEnded(c)
    \/ LoopFails(c) \/ JoinThreads(c)

Next ==
    \/ StopCast
    \/ \E c \in Call : HandlerStep(c) \/ SessionStep(c) \/ WorldStep(c)

Spec == Init /\ [][Next]_vars

(* A handler that was accepted runs to its reply, and a session task is      *)
(* scheduled; the picker, the negotiation and the setup waits are bounded.   *)
Started(c) ==
    \/ InstallStop(c) \/ TakePrevious(c) \/ TakeNumber(c) \/ SpawnTask(c)
    \/ StoreTask(c)

Fairness ==
    \A c \in Call : WF_vars(Started(c)) /\ WF_vars(SessionStep(c))

FairSpec == Spec /\ Fairness

-----------------------------------------------------------------------------
(* Properties.                                                             *)

Live(c) == Begun(c) /\ task[c] # "done"

(* "Awaited before a replacement session starts, so the two never share the  *)
(* portal capture or the receiver's application" (SharedState.active_task).  *)
NeverShare == \A c, d \in Call : Live(c) /\ Live(d) => c = d

(* What becomes of it: no two sessions are under way together unless two     *)
(* handlers of StartCast were between taking the old task handle and storing *)
(* their own at the same time, wherever else they overlap.                   *)
ExclusiveSession == ~crossed => NeverShare

(* A session never runs before the one whose handle its call took is over:   *)
(* true however calls overlap.                                               *)
AwaitsPredecessor ==
    \A c \in Call : Begun(c) /\ previous[c] # NoCall => task[previous[c]] = "done"

(* Until a session has reported its result, the status names its receiver,   *)
(* as "connecting" or "casting": no other session writes over it, unless     *)
(* handlers crossed.                                                         *)
Reporting(c) == Live(c) /\ task[c] \notin {"checking", "takingStop",
                                           "clearingDetails", "clearingVolume"}
StatusTruth ==
    ~crossed => \A c \in Call : Reporting(c) =>
        /\ status.state \in {"connecting", "casting"}
        /\ status.device = request[c].device
        /\ task[c] = "casting" => status.state = "casting"

(* The other way round: a status that shows a cast has a session behind it,  *)
(* and so has an open portal session, but for one whose capture failed after *)
(* it was started.                                                           *)
NothingShownInVain ==
    /\ status.state \in {"connecting", "casting"} => \E c \in Call : Reporting(c)
    /\ \A c \in Call : portal[c] # "none" =>
           Reporting(c) \/ (portal[c] = "left" /\ outcome[c] = "error")

Quiescent ==
    \A c \in Call : ~InProgress(c) /\ task[c] \in {"none", "done"}

(* Once every session is over, nothing of any of them is left behind in the  *)
(* shared state, unless handlers crossed.                                    *)
QuiescentClean ==
    Quiescent /\ ~crossed =>
        active = NoCall /\ details = NoDetails /\ volumeTx = NoCall

(* session::run: an older session finishing late must not tear down its      *)
(* successor.  A session takes out of `active` no sender but its own.        *)
KeepsSuccessor ==
    [][\A c \in Call : TakeStop(c) => active \in {c, NoCall}]_vars

(* No join of the threads of an HTTP cast lasts for ever. *)
JoinsEnd == \A c \in Call : []<>(task[c] # "joining")

(* A session whose stop channel resolved comes to its end, provided that the *)
(* joins end.                                                                *)
StopTakesEffect ==
    JoinsEnd => \A c \in Call : (c \in resolved /\ Begun(c)) ~> task[c] = "done"

(* A session that was asked for gets its turn, provided that the joins end,  *)
(* unless it is told to stop itself: the session it waits for was told so.   *)
(* (One that was told to stop may wait for its own successor: calls take the *)
(* task handle in another order than they install their stop senders.)       *)
StartsEventually ==
    JoinsEnd => \A c \in Call : handler[c] = "returned" ~> Begun(c) \/ c \in resolved

=============================================================================
