------------------------------ MODULE Fallback -------------------------------
(***************************************************************************)
(* A cast over HTTP, for receivers that cannot be mirrored to: the session *)
(* (run_cast_to_device, run_cast_loop and the end of cast_audio_stream and *)
(* cast_with_capture in session.rs), the thread that keeps the connection  *)
(* to the receiver (cast.rs), the HTTP server thread and the broadcaster   *)
(* behind it (http.rs), the encoder pipeline and the receiver.             *)
(*                                                                         *)
(* The session makes the files, the pipeline, the server and the control   *)
(* thread one after the other, and any of them may fail.  When the loop or *)
(* the setup ends the session drops what it holds in this order, each  *)
(* drop waiting for its thread: the control thread, the server, the        *)
(* pipeline, the files, as far as they were made.                          *)
(***************************************************************************)
EXTENDS Naturals, Sequences

CONSTANTS
    Request,    \* the HTTP requests the receiver may make
    Nobody,     \* no request
    QueueCap,   \* how many chunks the queue of a client holds: 256
    MayVanish   \* TRUE: the receiver may fall silent without closing anything

ASSUME NobodyAssumption == Nobody \notin Request
ASSUME CapAssumption == QueueCap \in Nat \ {0}
ASSUME VanishAssumption == MayVanish \in BOOLEAN

VARIABLES
    media,        \* what is served: HLS files or a live audio stream
    session,      \* where the session stands
    stopWanted,   \* the session's stop channel has resolved
    shown,        \* the status the session set last
    lastEvent,    \* the end reason the session recorded
    files,        \* the HLS directory
    pipeline,     \* the encoder
    control,      \* where the cast-control thread stands
    controlStop,  \* CastControl.stop
    url,          \* the media was handed to the control thread
    events,       \* the control thread's event channel
    ended,        \* what the control thread's run returned
    server,       \* where the server thread stands
    serverStop,   \* HlsServer.stop
    serving,      \* the request whose body the server thread writes
    clients,      \* AudioBroadcaster.clients, by request
    queue,        \* how many chunks wait for each client
    backlog,      \* requests the listener has taken and nobody has answered
    device,       \* external: the receiver
    app,          \* external: its media player
    fetch         \* external: each request as the receiver sees it

sessionVars == <<media, session, stopWanted, shown, lastEvent, files>>
controlVars == <<control, controlStop, url, events, ended>>
serverVars  == <<server, serverStop, serving, clients, queue, backlog>>
deviceVars  == <<device, app, fetch>>
vars == <<sessionVars, pipeline, controlVars, serverVars, deviceVars>>

Reason == {"stopped", "lost"}

(* What the session is about to make. *)
Setup == {"preparing", "building", "serving", "awaiting", "starting",
          "sending"}

(* Every variable has its type; no queue outgrows its bound. *)
TypeOK ==
    /\ media \in {"hls", "audio"}
    /\ session \in Setup \cup {"loop", "control", "server", "pipeline",
                               "files", "done"}
    /\ stopWanted \in BOOLEAN /\ url \in BOOLEAN
    /\ controlStop \in BOOLEAN /\ serverStop \in BOOLEAN
    /\ shown \in {"connecting", "casting"}
    /\ lastEvent \in Reason \cup {"none"}
    /\ files \in {"none", "present", "removed"}
    /\ pipeline \in {"none", "refused", "playing", "failed", "null"}
    /\ control \in {"none", "connecting", "launching", "polling", "loading",
                    "checking", "receiving", "ended"}
    /\ events \in Seq({"playing"} \cup Reason)
    /\ ended \in Reason \cup {"none"}
    /\ server \in {"none", "checking", "waiting", "streaming", "ended"}
    /\ serving \in Request \cup {Nobody}
    /\ clients \subseteq Request
    /\ queue \in [Request -> 0 .. QueueCap]
    /\ backlog \in Seq(Request)
    /\ device \in {"alive", "gone", "silent"}
    /\ app \in {"none", "running", "stopped"}
    /\ fetch \in [Request -> {"none", "open", "closed"}]

(* Mirroring was found unavailable. *)
Init ==
    /\ media \in {"hls", "audio"}
    /\ session = "preparing"
    /\ stopWanted = FALSE
    /\ shown = "connecting"
    /\ lastEvent = "none"
    /\ files = "none"
    /\ pipeline = "none"
    /\ control = "none"
    /\ controlStop = FALSE
    /\ url = FALSE
    /\ events = <<>>
    /\ ended = "none"
    /\ server = "none"
    /\ serverStop = FALSE
    /\ serving = Nobody
    /\ clients = {}
    /\ queue = [r \in Request |-> 0]
    /\ backlog = <<>>
    /\ device = "alive"
    /\ app = "none"
    /\ fetch = [r \in Request |-> "none"]

-----------------------------------------------------------------------------
(* The session.                                                            *)

Session(from, to) == session = from /\ session' = to

(* The directory of an HLS cast; an audio cast looks for a monitor to record. *)
MakeFiles ==
    /\ Session("preparing", "building")
    /\ files' = IF media = "hls" THEN "present" ELSE files
    /\ UNCHANGED <<media, stopWanted, shown, lastEvent, pipeline, controlVars,
                   serverVars, deviceVars>>

MakeFilesFails ==
    /\ Session("preparing", "done")
    /\ UNCHANGED <<media, stopWanted, shown, lastEvent, files, pipeline,
                   controlVars, serverVars, deviceVars>>

(* Built and set to play. *)
MakePipeline ==
    /\ Session("building", "serving")
    /\ pipeline' = "playing"
    /\ UNCHANGED <<media, stopWanted, shown, lastEvent, files, controlVars,
                   serverVars, deviceVars>>

AfterPipeline == IF media = "hls" THEN "files" ELSE "done"

(* Not built; or built and refused PLAYING, and then dropped as it is: its  *)
(* PipelineStop is made only after.                                          *)
MakePipelineFails ==
    /\ Session("building", AfterPipeline)
    /\ pipeline' \in {pipeline, "refused"}
    /\ UNCHANGED <<media, stopWanted, shown, lastEvent, files, controlVars,
                   serverVars, deviceVars>>

MakeServer ==
    /\ Session("serving", "awaiting")
    /\ server' = "checking"
    /\ UNCHANGED <<media, stopWanted, shown, lastEvent, files, pipeline,
                   controlVars, serverStop, serving, clients, queue, backlog,
                   deviceVars>>

(* Mutant: the pipeline is not yet the session's to stop. *)
MakeServerFailsEarly ==
    /\ Session("serving", AfterPipeline)
    /\ UNCHANGED <<media, stopWanted, shown, lastEvent, files, pipeline,
                   controlVars, serverVars, deviceVars>>

(* No port, or no thread: what was made is dropped again. *)
MakeServerFails ==
    /\ Session("serving", "pipeline")
    /\ UNCHANGED <<media, stopWanted, shown, lastEvent, files, pipeline,
                   controlVars, serverVars, deviceVars>>

(* The playlist, if it is an HLS cast, has its segments, and a local address *)
(* leads to the receiver.  The stop channel is not looked at meanwhile.      *)
Ready ==
    /\ Session("awaiting", "starting")
    /\ UNCHANGED <<media, stopWanted, shown, lastEvent, files, pipeline,
                   controlVars, serverVars, deviceVars>>

(* No playlist in time, or no address. *)
NotReady ==
    /\ Session("awaiting", "server")
    /\ serverStop' = TRUE
    /\ UNCHANGED <<media, stopWanted, shown, lastEvent, files, pipeline,
                   controlVars, server, serving, clients, queue, backlog,
                   deviceVars>>

StartControl ==
    /\ Session("starting", "sending")
    /\ control' = "connecting"
    /\ UNCHANGED <<media, stopWanted, shown, lastEvent, files, pipeline,
                   controlStop, url, events, ended, serverVars, deviceVars>>

SendUrl ==
    /\ Session("sending", "loop")
    /\ url' = TRUE
    /\ UNCHANGED <<media, stopWanted, shown, lastEvent, files, pipeline,
                   control, controlStop, events, ended, serverVars, deviceVars>>

(* Whatever ends the loop, the control thread is told to stop. *)
LeaveLoop ==
    /\ Session("loop", "control")
    /\ controlStop' = TRUE

(* Mutant: the thread is told, and its answer awaited in the loop. *)
StopRequestedWaiting ==
    /\ stopWanted
    /\ session = "loop"
    /\ ~controlStop
    /\ controlStop' = TRUE
    /\ UNCHANGED <<sessionVars, pipeline, control, url, events, ended,
                   serverVars, deviceVars>>

StopRequested ==
    /\ stopWanted
    /\ LeaveLoop
    /\ UNCHANGED <<media, stopWanted, shown, lastEvent, files, pipeline,
                   control, url, events, ended, serverVars, deviceVars>>

DevicePlays ==
    /\ session = "loop"
    /\ events # <<>> /\ Head(events) = "playing"
    /\ events' = Tail(events)
    /\ shown' = "casting"
    /\ UNCHANGED <<media, session, stopWanted, lastEvent, files, pipeline,
                   control, controlStop, url, ended, serverVars, deviceVars>>

DeviceEnded ==
    /\ events # <<>> /\ Head(events) \in Reason
    /\ LeaveLoop
    /\ events' = Tail(events)
    /\ lastEvent' = Head(events)
    /\ UNCHANGED <<media, stopWanted, shown, files, pipeline, control, url,
                   ended, serverVars, deviceVars>>

(* The user ends the screen sharing from the system menu; an audio cast has  *)
(* no portal session to lose.                                                *)
CaptureClosed ==
    /\ media = "hls"
    /\ LeaveLoop
    /\ UNCHANGED <<media, stopWanted, shown, lastEvent, files, pipeline,
                   control, url, events, ended, serverVars, deviceVars>>

(* The bus reports an error or the end of the stream. *)
PipelineError ==
    /\ pipeline = "failed"
    /\ LeaveLoop
    /\ UNCHANGED <<media, stopWanted, shown, lastEvent, files, pipeline,
                   control, url, events, ended, serverVars, deviceVars>>

(* CastControl::drop has joined its thread; HlsServer::drop sets its flag. *)
JoinControl ==
    /\ control = "ended"
    /\ Session("control", "server")
    /\ serverStop' = TRUE
    /\ UNCHANGED <<media, stopWanted, shown, lastEvent, files, pipeline,
                   controlVars, server, serving, clients, queue, backlog,
                   deviceVars>>

JoinServer ==
    /\ server = "ended"
    /\ Session("server", "pipeline")
    /\ UNCHANGED <<media, stopWanted, shown, lastEvent, files, pipeline,
                   controlVars, serverVars, deviceVars>>

StopPipeline ==
    /\ Session("pipeline", AfterPipeline)
    /\ pipeline' = "null"
    /\ UNCHANGED <<media, stopWanted, shown, lastEvent, files, controlVars,
                   serverVars, deviceVars>>

RemoveFiles ==
    /\ Session("files", "done")
    /\ files' = "removed"
    /\ UNCHANGED <<media, stopWanted, shown, lastEvent, pipeline, controlVars,
                   serverVars, deviceVars>>

AskStop ==
    /\ stopWanted = FALSE
    /\ stopWanted' = TRUE
    /\ UNCHANGED <<media, session, shown, lastEvent, files, pipeline,
                   controlVars, serverVars, deviceVars>>

-----------------------------------------------------------------------------
(* The cast-control thread.                                                *)

Control(from, to) == control = from /\ control' = to

(* Mutant: an error is not reported. *)
ReturnQuietly(reason) ==
    /\ control' = "ended"
    /\ ended' = reason
    /\ events' = IF reason = "lost" THEN events ELSE Append(events, reason)

(* run returns: the closure reports how. *)
Return(reason) ==
    /\ control' = "ended"
    /\ ended' = reason
    /\ events' = Append(events, reason)

Launched ==
    /\ device = "alive"
    /\ \/ Control("connecting", "launching") /\ app' = app
       \/ Control("launching", "polling") /\ app' = "running"
    /\ UNCHANGED <<sessionVars, pipeline, controlStop, url, events, ended,
                   serverVars, device, fetch>>

(* The connection fails (only this attempt has a time limit), or the receiver *)
(* will not launch, connect to what it launched, or load.  An application     *)
(* that is running by then is not stopped.                                    *)
ControlFails ==
    /\ \/ control = "connecting"
       \/ control \in {"launching", "loading"} /\ device # "silent"
    /\ Return("lost")
    /\ \/ app' = app
       \/ control = "launching" /\ device = "alive" /\ app' = "running"
    /\ UNCHANGED <<sessionVars, pipeline, controlStop, url, serverVars,
                   device, fetch>>

(* The flag is found set between two polls or two messages.  The receiver may *)
(* not comply; its answer is awaited, and ignored.                            *)
StopApp ==
    /\ control \in {"polling", "checking"}
    /\ controlStop
    /\ device # "silent"
    /\ Return("stopped")
    /\ app' = app \/ (device = "alive" /\ app' = "stopped")
    /\ UNCHANGED <<sessionVars, pipeline, controlStop, url, serverVars,
                   device, fetch>>

TakeUrl ==
    /\ Control("polling", "loading")
    /\ ~controlStop
    /\ url
    /\ UNCHANGED <<sessionVars, pipeline, controlStop, url, events, ended,
                   serverVars, deviceVars>>

Loaded ==
    /\ device = "alive"
    /\ Control("loading", "checking")
    /\ events' = Append(events, "playing")
    /\ UNCHANGED <<sessionVars, pipeline, controlStop, url, ended, serverVars,
                   deviceVars>>

(* Mutant: the flag is read once only, when the loop is entered. *)
WaitMessageBlind ==
    /\ Control("checking", "receiving")
    /\ UNCHANGED <<sessionVars, pipeline, controlStop, url, events, ended,
                   serverVars, deviceVars>>

WaitMessage ==
    /\ Control("checking", "receiving")
    /\ ~controlStop
    /\ UNCHANGED <<sessionVars, pipeline, controlStop, url, events, ended,
                   serverVars, deviceVars>>

(* The receiver's ping, or any other message. *)
Message ==
    /\ device = "alive"
    /\ Control("receiving", "checking")
    /\ UNCHANGED <<sessionVars, pipeline, controlStop, url, events, ended,
                   serverVars, deviceVars>>

(* The receiver, there or gone, has closed the connection.  If the flag is   *)
(* set that passes for the stop, though nothing was asked of the receiver.   *)
ConnectionLost ==
    /\ control = "receiving"
    /\ device # "silent"
    /\ Return(IF controlStop THEN "stopped" ELSE "lost")
    /\ UNCHANGED <<sessionVars, pipeline, controlStop, url, serverVars, deviceVars>>

(* The answer to a ping cannot be written: an error with the flag set, too. *)
PongFails ==
    /\ control = "receiving"
    /\ device # "silent"
    /\ Return("lost")
    /\ UNCHANGED <<sessionVars, pipeline, controlStop, url, serverVars, deviceVars>>

-----------------------------------------------------------------------------
(* The server thread: one loop, which answers every request itself.        *)

Server(from, to) == server = from /\ server' = to

CheckStop ==
    /\ Server("checking", IF serverStop THEN "ended" ELSE "waiting")
    /\ UNCHANGED <<sessionVars, pipeline, controlVars, serverStop, serving,
                   clients, queue, backlog, deviceVars>>

NoRequestYet ==
    /\ Server("waiting", "checking")
    /\ backlog = <<>>
    /\ UNCHANGED <<sessionVars, pipeline, controlVars, serverStop, serving,
                   clients, queue, backlog, deviceVars>>

(* A file is read and written in full. *)
AnswerFile ==
    /\ media = "hls"
    /\ Server("waiting", "checking")
    /\ backlog # <<>>
    /\ backlog' = Tail(backlog)
    /\ fetch' = [fetch EXCEPT ![Head(backlog)] = "closed"]
    /\ UNCHANGED <<sessionVars, pipeline, controlVars, serverStop, serving,
                   clients, queue, device, app>>

(* The client is subscribed and its body is written until that fails. *)
Subscribe ==
    /\ media = "audio"
    /\ Server("waiting", "streaming")
    /\ backlog # <<>>
    /\ backlog' = Tail(backlog)
    /\ serving' = Head(backlog)
    /\ clients' = clients \cup {Head(backlog)}
    /\ UNCHANGED <<sessionVars, pipeline, controlVars, serverStop, queue,
                   deviceVars>>

WriteChunk ==
    /\ server = "streaming"
    /\ queue[serving] > 0
    /\ fetch[serving] = "open" /\ device = "alive"
    /\ queue' = [queue EXCEPT ![serving] = @ - 1]
    /\ UNCHANGED <<sessionVars, pipeline, controlVars, server, serverStop,
                   serving, clients, backlog, deviceVars>>

(* Only a chunk to write finds the client gone.  There is no end of stream: *)
(* the senders are in the broadcaster, which this thread's handler holds.    *)
WriteFails ==
    /\ Server("streaming", "checking")
    /\ queue[serving] > 0
    /\ fetch[serving] = "closed"
    /\ queue' = [queue EXCEPT ![serving] = 0]
    /\ serving' = Nobody
    /\ UNCHANGED <<sessionVars, pipeline, controlVars, serverStop, clients,
                   backlog, deviceVars>>

(* Mutant: a gone client stays in the list. *)
PushToAll ==
    /\ media = "audio" /\ pipeline = "playing"
    /\ queue' = [r \in Request |->
           IF r \in clients /\ queue[r] < QueueCap THEN queue[r] + 1 ELSE queue[r]]
    /\ UNCHANGED <<sessionVars, pipeline, controlVars, server, serverStop,
                   serving, clients, backlog, deviceVars>>

(* AudioBroadcaster::push: a full queue misses the chunk, a client whose     *)
(* receiver was dropped is removed.                                          *)
Push ==
    /\ media = "audio" /\ pipeline = "playing"
    /\ clients' = clients \cap {serving}
    /\ queue' = [r \in Request |->
           IF r \in clients' /\ queue[r] < QueueCap THEN queue[r] + 1 ELSE queue[r]]
    /\ UNCHANGED <<sessionVars, pipeline, controlVars, server, serverStop,
                   serving, backlog, deviceVars>>

PipelineFails ==
    /\ pipeline = "playing"
    /\ pipeline' = "failed"
    /\ UNCHANGED <<sessionVars, controlVars, serverVars, deviceVars>>

-----------------------------------------------------------------------------
(* The receiver.                                                           *)

Fetch(r) ==
    /\ device = "alive" /\ app = "running"
    /\ control \in {"loading", "checking", "receiving"}
    /\ server \notin {"none", "ended"}
    /\ fetch[r] = "none"
    /\ fetch' = [fetch EXCEPT ![r] = "open"]
    /\ backlog' = Append(backlog, r)
    /\ UNCHANGED <<sessionVars, pipeline, controlVars, server, serverStop,
                   serving, clients, queue, device, app>>

(* The player closes its connection: at will, or because it is no more. *)
CloseFetch(r) ==
    /\ device # "silent"
    /\ fetch[r] = "open"
    /\ fetch' = [fetch EXCEPT ![r] = "closed"]
    /\ UNCHANGED <<sessionVars, pipeline, controlVars, serverVars, device, app>>

CloseLeftover(r) ==
    /\ device = "gone" \/ app # "running"
    /\ CloseFetch(r)

(* "The Default Media Receiver tears itself down when its last sender        *)
(* disappears."                                                              *)
TearDown ==
    /\ device = "alive" /\ app = "running" /\ control = "ended"
    /\ app' = "stopped"
    /\ UNCHANGED <<sessionVars, pipeline, controlVars, serverVars, device, fetch>>

DeviceLeaves ==
    /\ device = "alive"
    /\ \/ device' = "gone"
       \/ MayVanish /\ device' = "silent"
    /\ UNCHANGED <<sessionVars, pipeline, controlVars, serverVars, app, fetch>>

-----------------------------------------------------------------------------
(* What the session does of itself. *)
SessionStep ==
    \/ MakeFiles \/ MakeFilesFails \/ MakePipeline \/ MakePipelineFails
    \/ MakeServer \/ MakeServerFails \/ Ready \/ NotReady
    \/ StartControl \/ SendUrl \/ StopRequested \/ DevicePlays \/ DeviceEnded
    \/ PipelineError \/ JoinControl \/ JoinServer \/ StopPipeline \/ RemoveFiles

(* What the control thread does of itself, and with the receiver. *)
OwnStep == TakeUrl \/ WaitMessage

HeardStep ==
    \/ Launched \/ ControlFails \/ StopApp \/ Loaded \/ Message \/ ConnectionLost
    \/ PongFails

ControlStep == OwnStep \/ HeardStep

ServerStep ==
    \/ CheckStop \/ NoRequestYet \/ AnswerFile \/ Subscribe \/ WriteChunk \/ WriteFails

Next ==
    \/ SessionStep \/ ControlStep \/ ServerStep
    \/ AskStop \/ CaptureClosed \/ Push \/ PipelineFails \/ TearDown \/ DeviceLeaves
    \/ \E r \in Request : Fetch(r) \/ CloseFetch(r)

Spec == Init /\ [][Next]_vars

(* The threads run; a receiver that is not silent answers, pings, or is      *)
(* found gone; a pipeline that plays produces chunks; a player that has      *)
(* ended closes its connections.                                             *)
Fairness ==
    /\ WF_vars(SessionStep) /\ WF_vars(OwnStep) /\ WF_vars(ServerStep)
    /\ WF_vars(HeardStep) /\ WF_vars(Push) /\ WF_vars(TearDown)
    /\ \A r \in Request : WF_vars(CloseLeftover(r))

FairSpec == Spec /\ Fairness

-----------------------------------------------------------------------------
(* Properties.                                                             *)

(* The thread's answer to our own stop ("stopped") is never shown to the     *)
(* user as the reason the receiver ended the cast.                           *)
NeverReportsOwnStop == lastEvent # "stopped"

(* The files go when nothing writes or serves them any more (the order in    *)
(* which cast_with_capture drops what it holds).                             *)
FilesGoLast ==
    files = "removed" =>
        pipeline \in {"none", "refused", "null"} /\ server \in {"none", "ended"}

(* However far the setup came, nothing of it works on after the session: no  *)
(* thread, no files, and no encoder that was ever set to play.  (One that    *)
(* was refused PLAYING is dropped without being set to NULL.)                *)
NothingRuns ==
    session = "done" =>
        /\ control \in {"none", "ended"}
        /\ server \in {"none", "ended"}
        /\ pipeline \notin {"playing", "failed"}
        /\ files # "present"

(* AudioBroadcaster: however often the player reconnects, at most one client *)
(* that has gone is kept beside the one being served, because only a chunk   *)
(* ends a body and every chunk removes the gone ones.                        *)
FewClients ==
    \A a, b \in clients \ {serving} : a = b

(* A stop ends the session, if the receiver never falls silent (StopApp and  *)
(* receive() wait for it) and the encoder does not fail (a body ends only    *)
(* when a chunk of it cannot be written).                                    *)
StopEnds ==
    [](device # "silent" /\ pipeline # "failed") => (stopWanted ~> session = "done")

(* So does a receiver that closes its connections. *)
DeviceLossEnds ==
    (device = "gone") ~> (session = "done" \/ pipeline = "failed")

(* Of serve_audio (http.rs): "Every request gets its own streaming thread so *)
(* one long-lived response doesn't block the accept loop."  It is the accept *)
(* loop that writes the body, and a player that opens a second connection    *)
(* while it keeps the first waits for as long as that one lasts, though the  *)
(* receiver is there and the encoder produces.                               *)
Waits(r) == \E i \in DOMAIN backlog : backlog[i] = r

EveryRequestTaken ==
    [](device = "alive" /\ pipeline # "failed") =>
        \A r \in Request : Waits(r) ~> (~Waits(r) \/ server = "ended")

=============================================================================
