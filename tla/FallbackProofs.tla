---------------------------- MODULE FallbackProofs ---------------------------
(***************************************************************************)
(* Safety of the HTTP cast for any number of requests, any queue length    *)
(* and any receiver: types, what the session reports, the order of the     *)
(* teardown and what it leaves, and the clients the broadcaster keeps.     *)
(***************************************************************************)
EXTENDS Fallback, TLAPS

(* Types of the parts. *)
SessionOK ==
    /\ media \in {"hls", "audio"}
    /\ session \in Setup \cup {"loop", "control", "server", "pipeline",
                               "files", "done"}
    /\ stopWanted \in BOOLEAN
    /\ shown \in {"connecting", "casting"}
    /\ lastEvent \in Reason \cup {"none"}
    /\ files \in {"none", "present", "removed"}
    /\ pipeline \in {"none", "refused", "playing", "failed", "null"}

ControlOK ==
    /\ control \in {"none", "connecting", "launching", "polling", "loading",
                    "checking", "receiving", "ended"}
    /\ controlStop \in BOOLEAN
    /\ url \in BOOLEAN
    /\ events \in Seq({"playing"} \cup Reason)
    /\ ended \in Reason \cup {"none"}

ServerOK ==
    /\ server \in {"none", "checking", "waiting", "streaming", "ended"}
    /\ serverStop \in BOOLEAN
    /\ serving \in Request \cup {Nobody}
    /\ clients \subseteq Request
    /\ queue \in [Request -> 0 .. QueueCap]
    /\ backlog \in Seq(Request)

DeviceOK ==
    /\ device \in {"alive", "gone", "silent"}
    /\ app \in {"none", "running", "stopped"}
    /\ fetch \in [Request -> {"none", "open", "closed"}]

(* A request whose body is written is one that was taken. *)
ServingOK == server = "streaming" => serving \in Request

TInv == SessionOK /\ ControlOK /\ ServerOK /\ DeviceOK /\ ServingOK

LEMMA SplitTypes == TInv => TypeOK
  BY DEF TInv, TypeOK, SessionOK, ControlOK, ServerOK, DeviceOK

LEMMA InitTypes == Init => TInv
  <1> SUFFICES ASSUME Init PROVE TInv
    OBVIOUS
  <1> USE DEF Init
  <1>1. SessionOK
    BY DEF SessionOK, Setup
  <1>2. ControlOK
    <2>1. /\ control = "none" /\ controlStop = FALSE /\ url = FALSE
          /\ events = <<>> /\ ended = "none"
      OBVIOUS
    <2> HIDE DEF Init
    <2>2. <<>> \in Seq({"playing"} \cup Reason)
      OBVIOUS
    <2> QED
      BY <2>1, <2>2 DEF ControlOK
  <1>3. queue \in [Request -> 0 .. QueueCap]
    BY CapAssumption
  <1>4. ServerOK
    <2>1. backlog \in Seq(Request) /\ clients \subseteq Request
      OBVIOUS
    <2>2. server = "none" /\ serverStop = FALSE /\ serving = Nobody
      OBVIOUS
    <2> HIDE DEF Init
    <2> QED
      BY <1>3, <2>1, <2>2 DEF ServerOK
  <1>5. DeviceOK /\ ServingOK
    <2>1. /\ device = "alive" /\ app = "none" /\ server = "none"
          /\ fetch = [r \in Request |-> "none"]
      OBVIOUS
    <2> HIDE DEF Init
    <2> QED
      BY <2>1 DEF DeviceOK, ServingOK
  <1> QED
    BY <1>1, <1>2, <1>4, <1>5 DEF TInv

SetupStep ==
    \/ MakeFiles \/ MakeFilesFails \/ MakePipeline \/ MakePipelineFails
    \/ MakeServer \/ MakeServerFails \/ Ready \/ NotReady

(* What a step of the session, and a step beside it, does to types. *)
LEMMA SetupTypes == TInv /\ SetupStep => TInv'
  <1> SUFFICES ASSUME TInv, SetupStep PROVE TInv'
    OBVIOUS
  <1> USE DEF SetupStep, MakeFiles, MakeFilesFails, MakePipeline, MakePipelineFails,
              MakeServer, MakeServerFails, Ready, NotReady, Session
  <1> USE DEF sessionVars, controlVars, serverVars
  <1>1. /\ UNCHANGED <<media, stopWanted, shown, lastEvent, controlVars, serving,
                       clients, queue, backlog, deviceVars>>
        /\ files' \in {files, "present"}
        /\ pipeline' \in {pipeline, "playing", "refused"}
        /\ server' \in {server, "checking"}
        /\ serverStop' \in {serverStop, TRUE}
    OBVIOUS
  <1>2. session' \in Setup \cup {"server", "pipeline", "files", "done"}
    BY DEF Setup, AfterPipeline
  <1> HIDE DEF SetupStep
  <1>3. SessionOK'
    BY <1>1, <1>2 DEF TInv, SessionOK
  <1>4. ControlOK' /\ DeviceOK'
    BY <1>1 DEF TInv, ControlOK, DeviceOK, deviceVars
  <1>5. ServerOK' /\ ServingOK'
    <2>1. serverStop' \in BOOLEAN
      BY <1>1 DEF TInv, ServerOK
    <2> QED
      BY <1>1, <2>1 DEF TInv, ServerOK, ServingOK
  <1> QED
    BY <1>3, <1>4, <1>5 DEF TInv

LoopStep ==
    \/ StartControl \/ SendUrl \/ StopRequested \/ DevicePlays \/ DeviceEnded
    \/ PipelineError \/ JoinControl \/ JoinServer \/ StopPipeline \/ RemoveFiles
    \/ AskStop \/ CaptureClosed

LEMMA SessionTypes == TInv /\ LoopStep => TInv'
  <1> SUFFICES ASSUME TInv, LoopStep PROVE TInv'
    OBVIOUS
  <1> USE DEF LoopStep, AskStop, CaptureClosed, StartControl, SendUrl,
              StopRequested, DevicePlays, DeviceEnded, PipelineError, JoinControl,
              JoinServer, StopPipeline, RemoveFiles, LeaveLoop, Session
  <1> USE DEF TInv, sessionVars, controlVars, serverVars, deviceVars
  <1>1. SessionOK'
    BY DEF SessionOK, Setup, AfterPipeline
  <1>2. ControlOK'
    <2>1. events' \in Seq({"playing"} \cup Reason)
      BY DEF ControlOK
    <2>2. /\ controlStop' \in BOOLEAN
          /\ url' \in BOOLEAN
      BY DEF ControlOK
    <2>3. /\ control' \in {"none", "connecting", "launching", "polling", "loading",
                           "checking", "receiving", "ended"}
          /\ ended' \in Reason \cup {"none"}
      BY DEF ControlOK
    <2> QED
      BY <2>1, <2>2, <2>3 DEF ControlOK
  <1>3. ServerOK' /\ ServingOK'
    <2>1. UNCHANGED <<server, serving, clients, queue, backlog>> /\ serverStop' \in BOOLEAN
      BY DEF ServerOK
    <2> QED
      BY <2>1 DEF ServerOK, ServingOK
  <1>4. DeviceOK'
    BY DEF DeviceOK
  <1> QED
    BY <1>1, <1>2, <1>3, <1>4

LEMMA ControlTypes == TInv /\ ControlStep => TInv'
  <1> SUFFICES ASSUME TInv, ControlStep PROVE TInv'
    OBVIOUS
  <1> USE DEF ControlStep, OwnStep, HeardStep, Launched, ControlFails, StopApp,
              TakeUrl, Loaded, WaitMessage, Message, ConnectionLost, PongFails,
              Return, Control
  <1> USE DEF TInv, sessionVars, serverVars, deviceVars
  <1>1. UNCHANGED <<sessionVars, pipeline, controlStop, url, serverVars, device, fetch>>
    OBVIOUS
  <1>2. SessionOK' /\ ServerOK' /\ ServingOK'
    BY <1>1 DEF SessionOK, ServerOK, ServingOK
  <1>3. ControlOK'
    <2>1. events' \in Seq({"playing"} \cup Reason)
      BY DEF ControlOK, Reason
    <2>2. /\ control' \in {"none", "connecting", "launching", "polling", "loading",
                           "checking", "receiving", "ended"}
          /\ ended' \in Reason \cup {"none"}
      BY DEF ControlOK, Reason
    <2> QED
      BY <1>1, <2>1, <2>2 DEF ControlOK
  <1>4. DeviceOK'
    BY <1>1 DEF DeviceOK
  <1> QED
    BY <1>2, <1>3, <1>4

LEMMA ServerTypes == TInv /\ (ServerStep \/ Push) => TInv'
  <1> SUFFICES ASSUME TInv, ServerStep \/ Push PROVE TInv'
    OBVIOUS
  <1> USE DEF ServerStep, Push, CheckStop, NoRequestYet, AnswerFile, Subscribe,
              WriteChunk, WriteFails, Server
  <1> USE DEF TInv, sessionVars, controlVars, deviceVars
  <1>1. UNCHANGED <<sessionVars, pipeline, controlVars, serverStop, device, app>>
    OBVIOUS
  <1>2. SessionOK' /\ ControlOK'
    BY <1>1 DEF SessionOK, ControlOK
  <1>3. ServerOK'
    <2>1. /\ server' \in {"none", "checking", "waiting", "streaming", "ended"}
          /\ serving' \in Request \cup {Nobody}
          /\ clients' \subseteq Request
      BY DEF ServerOK
    <2>2. queue' \in [Request -> 0 .. QueueCap]
      <3>1. CASE Push
        BY <3>1, CapAssumption DEF ServerOK
      <3>2. CASE ServerStep
        BY <3>2, CapAssumption DEF ServerOK, ServingOK
      <3> QED
        BY <3>1, <3>2
    <2>3. backlog' \in Seq(Request)
      <3>1. backlog' = backlog \/ (backlog # <<>> /\ backlog' = Tail(backlog))
        OBVIOUS
      <3>2. backlog \in Seq(Request)
        BY DEF ServerOK
      <3> HIDE DEF TInv
      <3> HIDE DEF ServerStep, Push
      <3> QED
        BY <3>1, <3>2
    <2> QED
      BY <1>1, <2>1, <2>2, <2>3 DEF ServerOK
  <1>4. ServingOK'
    BY DEF ServerOK, ServingOK
  <1>5. DeviceOK'
    <2>1. fetch' \in [Request -> {"none", "open", "closed"}]
      BY DEF DeviceOK, ServerOK
    <2> QED
      BY <1>1, <2>1 DEF DeviceOK
  <1> QED
    BY <1>2, <1>3, <1>4, <1>5

LEMMA WorldTypes ==
  TInv /\ (PipelineFails \/ TearDown \/ DeviceLeaves) => TInv'
  <1> SUFFICES ASSUME TInv, PipelineFails \/ TearDown \/ DeviceLeaves PROVE TInv'
    OBVIOUS
  <1>1. UNCHANGED <<sessionVars, controlVars, serverVars, fetch>>
    BY DEF PipelineFails, TearDown, DeviceLeaves, deviceVars
  <1>2. pipeline' \in {pipeline, "failed"}
    BY DEF PipelineFails, TearDown, DeviceLeaves
  <1>3. app' \in {app, "stopped"}
    BY DEF PipelineFails, TearDown, DeviceLeaves, deviceVars
  <1>4. device' \in {device, "gone", "silent"}
    BY DEF PipelineFails, TearDown, DeviceLeaves, deviceVars
  <1>5. SessionOK' /\ ControlOK'
    BY <1>1, <1>2 DEF TInv, SessionOK, ControlOK, sessionVars, controlVars
  <1>6. ServerOK' /\ ServingOK'
    BY <1>1 DEF TInv, ServerOK, ServingOK, serverVars
  <1>7. DeviceOK'
    BY <1>1, <1>3, <1>4 DEF TInv, DeviceOK
  <1> QED
    BY <1>5, <1>6, <1>7 DEF TInv

LEMMA PlayerTypes ==
  ASSUME TInv, NEW r \in Request, Fetch(r) \/ CloseFetch(r)
  PROVE  TInv'
  <1>1. UNCHANGED <<sessionVars, pipeline, controlVars, server, serverStop,
                    serving, clients, queue, device, app>>
    BY DEF Fetch, CloseFetch, serverVars
  <1>2. backlog' = backlog \/ backlog' = Append(backlog, r)
    BY DEF Fetch, CloseFetch, serverVars
  <1>3. fetch' = [fetch EXCEPT ![r] = "open"] \/ fetch' = [fetch EXCEPT ![r] = "closed"]
    BY DEF Fetch, CloseFetch
  <1>4. SessionOK' /\ ControlOK'
    BY <1>1 DEF TInv, SessionOK, ControlOK, sessionVars, controlVars
  <1>5. backlog' \in Seq(Request)
    BY <1>2 DEF TInv, ServerOK
  <1>6. ServerOK' /\ ServingOK'
    BY <1>1, <1>5 DEF TInv, ServerOK, ServingOK
  <1>7. fetch' \in [Request -> {"none", "open", "closed"}]
    BY <1>3 DEF TInv, DeviceOK
  <1>8. DeviceOK'
    BY <1>1, <1>7 DEF TInv, DeviceOK
  <1> QED
    BY <1>4, <1>6, <1>8 DEF TInv

LEMMA TypeStep == TInv /\ [Next]_vars => TInv'
  <1> SUFFICES ASSUME TInv, [Next]_vars PROVE TInv'
    OBVIOUS
  <1>1. CASE UNCHANGED vars
    BY <1>1 DEF vars, sessionVars, controlVars, serverVars, deviceVars, TInv,
                SessionOK, ControlOK, ServerOK, DeviceOK, ServingOK
  <1>2. CASE Next
    BY <1>2, SetupTypes, SessionTypes, ControlTypes, ServerTypes, WorldTypes, PlayerTypes
       DEF Next, SessionStep, SetupStep, LoopStep
  <1> QED
    BY <1>1, <1>2

LEMMA TypesKept == Spec => []TInv
  BY InitTypes, TypeStep, PTL DEF Spec

(* Every variable has its type: in particular no client's queue outgrows its *)
(* bound, whatever the encoder pushes.                                       *)
THEOREM TypeCorrect == Spec => []TypeOK
  BY TypesKept, SplitTypes, PTL

-----------------------------------------------------------------------------
(* Only a stop that the session asked for makes the thread say "stopped",    *)
(* and by then the session has left its loop.                                *)
OwnStop ==
    /\ controlStop => session \notin Setup \cup {"loop"}
    /\ \A i \in 1 .. Len(events) : events[i] = "stopped" => controlStop
    /\ NeverReportsOwnStop

LEMMA OwnStopStep == TInv /\ OwnStop /\ [Next]_vars => OwnStop'
  <1> SUFFICES ASSUME TInv, OwnStop, [Next]_vars PROVE OwnStop'
    OBVIOUS
  <1> USE DEF sessionVars, controlVars, serverVars, deviceVars
  <1>t. events \in Seq({"playing"} \cup Reason) /\ controlStop \in BOOLEAN
    BY DEF TInv, ControlOK
  <1>1. CASE UNCHANGED <<session, controlStop, events, lastEvent>>
    BY <1>1 DEF OwnStop, NeverReportsOwnStop
  <1>s. CASE SetupStep
    <2>1. session \in Setup /\ UNCHANGED <<controlStop, events, lastEvent>>
      BY <1>s DEF SetupStep, MakeFiles, MakeFilesFails, MakePipeline, MakePipelineFails,
                  MakeServer, MakeServerFails, Ready, NotReady, Session, Setup
    <2> QED
      BY <2>1 DEF OwnStop, NeverReportsOwnStop
  <1>2. CASE StartControl \/ SendUrl \/ StopRequested \/ CaptureClosed
             \/ PipelineError \/ JoinControl \/ JoinServer \/ StopPipeline \/ RemoveFiles
    <2>1. UNCHANGED <<events, lastEvent>>
      BY <1>2 DEF StartControl, SendUrl, StopRequested, CaptureClosed, PipelineError,
                  JoinControl, JoinServer, StopPipeline, RemoveFiles
    <2>2. /\ controlStop => controlStop'
          /\ controlStop' => session' \notin Setup \cup {"loop"}
      BY <1>2 DEF StartControl, SendUrl, StopRequested, CaptureClosed, PipelineError,
                  JoinControl, JoinServer, StopPipeline, RemoveFiles, LeaveLoop,
                  Session, OwnStop, Setup, AfterPipeline
    <2> QED
      BY <2>1, <2>2 DEF OwnStop, NeverReportsOwnStop
  <1>3. CASE DevicePlays \/ DeviceEnded
    <2>1. events # <<>> /\ events' = Tail(events)
      BY <1>3 DEF DevicePlays, DeviceEnded
    <2>2. session = "loop" /\ ~controlStop
      BY <1>3 DEF DevicePlays, DeviceEnded, LeaveLoop, Session, OwnStop
    <2>3. \A i \in 1 .. Len(events) : events[i] # "stopped"
      BY <2>2 DEF OwnStop
    <2>4. \A i \in 1 .. Len(events') : events'[i] # "stopped"
      BY <1>t, <2>1, <2>3
    <2>5. lastEvent' # "stopped"
      BY <1>3, <1>t, <2>1, <2>3 DEF DevicePlays, DeviceEnded, OwnStop, NeverReportsOwnStop
    <2>6. controlStop' => session' \notin Setup \cup {"loop"}
      BY <1>3, <2>2 DEF DevicePlays, DeviceEnded, LeaveLoop, Session, Setup
    <2> QED
      BY <2>4, <2>5, <2>6 DEF OwnStop, NeverReportsOwnStop
  <1>4. CASE ControlStep
    <2>1. UNCHANGED <<session, controlStop, lastEvent>>
      BY <1>4 DEF ControlStep, OwnStep, HeardStep, Launched, ControlFails, StopApp, TakeUrl,
                  Loaded, WaitMessage, Message, ConnectionLost, PongFails
    <2>2. \/ events' = events
          \/ \E e \in {"playing"} \cup Reason :
                events' = Append(events, e) /\ (e = "stopped" => controlStop)
      BY <1>4 DEF ControlStep, OwnStep, HeardStep, Launched, ControlFails, StopApp, TakeUrl,
                  Loaded, WaitMessage, Message, ConnectionLost, PongFails, Return, Reason
    <2>3. \A i \in 1 .. Len(events') : events'[i] = "stopped" => controlStop'
      BY <1>t, <2>1, <2>2 DEF OwnStop
    <2> QED
      BY <2>1, <2>3 DEF OwnStop, NeverReportsOwnStop
  <1>5. CASE UNCHANGED vars
    BY <1>1, <1>5 DEF vars
  <1>6. CASE ServerStep \/ AskStop \/ Push \/ PipelineFails \/ TearDown \/ DeviceLeaves
    BY <1>1, <1>6 DEF ServerStep, CheckStop, NoRequestYet, AnswerFile, Subscribe,
                      WriteChunk, WriteFails, AskStop, Push, PipelineFails,
                      TearDown, DeviceLeaves
  <1>7. CASE \E r \in Request : Fetch(r) \/ CloseFetch(r)
    BY <1>1, <1>7 DEF Fetch, CloseFetch
  <1> QED
    BY <1>s, <1>2, <1>3, <1>4, <1>5, <1>6, <1>7 DEF Next, SessionStep, SetupStep

(* The thread's answer to our own stop is never recorded as the reason the   *)
(* receiver ended the cast.                                                  *)
THEOREM OwnStopUnreported == Spec => []NeverReportsOwnStop
  <1>1. Init => OwnStop
    BY DEF Init, OwnStop, NeverReportsOwnStop
  <1>2. OwnStop => NeverReportsOwnStop
    BY DEF OwnStop
  <1> QED
    BY <1>1, <1>2, OwnStopStep, TypesKept, PTL DEF Spec

-----------------------------------------------------------------------------
(* What was made at each stage of the setup, and what is left of it at each  *)
(* stage of the teardown.                                                    *)
Made ==
    /\ session \in Setup \ {"sending"} => control = "none"
    /\ session \in {"preparing", "building", "serving"} => server = "none"
    /\ session \in {"preparing", "building"} => pipeline = "none"
    /\ session = "preparing" \/ media = "audio" => files = "none"
    /\ session = "files" => media = "hls"

Dropped ==
    /\ session \in {"server", "pipeline", "files", "done"} => control \in {"none", "ended"}
    /\ session \in {"pipeline", "files", "done"} => server \in {"none", "ended"}
    /\ session \in {"files", "done"} => pipeline \in {"none", "refused", "null"}
    /\ files = "removed" => session = "done"
    /\ session = "done" => files # "present"

Teardown == Made /\ Dropped

LEMMA TeardownStep == TInv /\ Teardown /\ [Next]_vars => Teardown'
  <1> SUFFICES ASSUME TInv, Teardown, [Next]_vars PROVE Teardown'
    OBVIOUS
  <1> USE DEF Teardown, Made, Dropped, Setup
  <1> USE DEF sessionVars, controlVars, serverVars, deviceVars
  <1>0. media \in {"hls", "audio"}
    BY DEF TInv, SessionOK
  <1>1. CASE SetupStep
    <2> USE DEF Session, AfterPipeline
    <2>1. CASE MakeFiles \/ MakeFilesFails
      BY <1>0, <2>1 DEF MakeFiles, MakeFilesFails
    <2>2. CASE MakePipeline \/ MakePipelineFails
      BY <1>0, <2>2 DEF MakePipeline, MakePipelineFails
    <2>3. CASE MakeServer \/ MakeServerFails
      BY <2>3 DEF MakeServer, MakeServerFails
    <2>4. CASE Ready \/ NotReady
      BY <2>4 DEF Ready, NotReady
    <2> QED
      BY <1>1, <2>1, <2>2, <2>3, <2>4 DEF SetupStep
  <1>2. CASE LoopStep
    <2> USE DEF Session, AfterPipeline, LeaveLoop
    <2>1. CASE StartControl \/ SendUrl
      BY <2>1 DEF StartControl, SendUrl
    <2>2. CASE StopRequested \/ DevicePlays \/ DeviceEnded \/ PipelineError
               \/ CaptureClosed \/ AskStop
      BY <2>2 DEF StopRequested, DevicePlays, DeviceEnded, PipelineError,
                  CaptureClosed, AskStop
    <2>3. CASE JoinControl \/ JoinServer
      BY <2>3 DEF JoinControl, JoinServer
    <2>4. CASE StopPipeline \/ RemoveFiles
      BY <1>0, <2>4 DEF StopPipeline, RemoveFiles
    <2> QED
      BY <1>2, <2>1, <2>2, <2>3, <2>4 DEF LoopStep
  <1>3. CASE ControlStep
    <2>1. /\ control \notin {"none", "ended"}
          /\ UNCHANGED <<media, session, files, pipeline, server>>
      BY <1>3 DEF ControlStep, OwnStep, HeardStep, Launched, ControlFails, StopApp, TakeUrl,
                  Loaded, WaitMessage, Message, ConnectionLost, PongFails, Control
    <2> QED
      BY <2>1
  <1>4. CASE ServerStep
    <2>1. /\ server \notin {"none", "ended"}
          /\ UNCHANGED <<media, session, files, pipeline, control>>
      BY <1>4 DEF ServerStep, CheckStop, NoRequestYet, AnswerFile, Subscribe,
                  WriteChunk, WriteFails, Server
    <2> QED
      BY <2>1
  <1>5. CASE PipelineFails
    BY <1>5 DEF PipelineFails
  <1>6. CASE UNCHANGED <<media, session, control, server, pipeline, files>>
    BY <1>6
  <1>7. CASE Push \/ TearDown \/ DeviceLeaves
    BY <1>6, <1>7 DEF Push, TearDown, DeviceLeaves
  <1>8. CASE \E r \in Request : Fetch(r) \/ CloseFetch(r)
    BY <1>6, <1>8 DEF Fetch, CloseFetch
  <1>9. CASE UNCHANGED vars
    BY <1>6, <1>9 DEF vars
  <1> HIDE DEF Teardown
  <1> QED
    BY <1>1, <1>2, <1>3, <1>4, <1>5, <1>7, <1>8, <1>9
       DEF Next, SessionStep, SetupStep, LoopStep

LEMMA TeardownHolds == Spec => []Teardown
  <1>1. Init => Teardown
    BY DEF Init, Teardown, Made, Dropped, Setup
  <1> QED
    BY <1>1, TeardownStep, TypesKept, PTL DEF Spec

(* The files of an HLS cast are removed only when the encoder that writes    *)
(* them is stopped and the server that reads them has ended.                 *)
THEOREM FilesRemovedLast == Spec => []FilesGoLast
  <1>1. Teardown => FilesGoLast
    BY DEF Teardown, Dropped, FilesGoLast
  <1> QED
    BY <1>1, TeardownHolds, PTL

(* However far the setup of a cast came before it failed or was stopped, no  *)
(* thread and no file of it is left when its session is done, and no encoder *)
(* that was ever set to play.                                                *)
THEOREM NothingIsLeft == Spec => []NothingRuns
  <1>1. Teardown => NothingRuns
    BY DEF Teardown, Dropped, NothingRuns
  <1> QED
    BY <1>1, TeardownHolds, PTL

-----------------------------------------------------------------------------
(* Only the client being served has chunks waiting, and when it has, every   *)
(* other was removed by the push that gave it them.                          *)
Served ==
    /\ server # "streaming" => serving = Nobody
    /\ \A r \in Request : queue[r] > 0 => r = serving /\ clients \subseteq {serving}
    /\ FewClients

LEMMA ServedStep == TInv /\ Teardown /\ Served /\ [Next]_vars => Served'
  <1> SUFFICES ASSUME TInv, Teardown, Served, [Next]_vars PROVE Served'
    OBVIOUS
  <1>t. /\ queue \in [Request -> 0 .. QueueCap] /\ QueueCap \in Nat
        /\ clients \subseteq Request
        /\ server = "streaming" => serving \in Request
    BY CapAssumption DEF TInv, ServerOK, ServingOK
  <1>2. CASE /\ UNCHANGED <<serving, clients, queue>>
             /\ server' # "streaming" => server # "streaming" \/ serving = Nobody
    BY <1>2 DEF Served, FewClients
  <1>3. CASE Subscribe
    <2>1. /\ serving = Nobody /\ clients' = clients \cup {serving'}
          /\ server' = "streaming" /\ queue' = queue
      BY <1>3 DEF Subscribe, Server, Served
    <2>2. \A r \in Request : ~(queue[r] > 0)
      BY <2>1, NobodyAssumption DEF Served
    <2>3. \A a, b \in clients : a = b
      BY <1>t, <2>1, NobodyAssumption DEF Served, FewClients
    <2> QED
      BY <2>1, <2>2, <2>3 DEF Served, FewClients
  <1>4. CASE WriteChunk
    <2>1. /\ UNCHANGED <<server, serving, clients>>
          /\ queue' = [queue EXCEPT ![serving] = @ - 1]
          /\ server = "streaming" /\ queue[serving] > 0
      BY <1>4 DEF WriteChunk
    <2>2. \A r \in Request : queue'[r] > 0 => r = serving /\ clients \subseteq {serving}
      BY <1>t, <2>1 DEF Served
    <2> QED
      BY <2>1, <2>2 DEF Served, FewClients
  <1>5. CASE WriteFails
    <2>1. /\ server = "streaming" /\ queue[serving] > 0
          /\ queue' = [queue EXCEPT ![serving] = 0]
          /\ serving' = Nobody /\ clients' = clients
      BY <1>5 DEF WriteFails, Server
    <2>2. clients \subseteq {serving}
      BY <1>t, <2>1 DEF Served
    <2>3. \A r \in Request : ~(queue'[r] > 0)
      BY <1>t, <2>1 DEF Served
    <2> QED
      BY <2>1, <2>2, <2>3 DEF Served, FewClients
  <1>6. CASE Push
    <2>1. /\ clients' = clients \cap {serving} /\ UNCHANGED <<server, serving>>
          /\ \A r \in Request : queue'[r] > 0 => r \in clients' \/ queue[r] > 0
      BY <1>6, <1>t DEF Push
    <2>2. \A r \in Request : queue'[r] > 0 => r = serving /\ clients' \subseteq {serving}
      BY <2>1 DEF Served
    <2> QED
      BY <2>1, <2>2 DEF Served, FewClients
  <1>7. CASE CheckStop \/ NoRequestYet \/ AnswerFile
    BY <1>2, <1>7 DEF CheckStop, NoRequestYet, AnswerFile, Server, Served
  <1>s. CASE MakeServer
    <2>1. /\ UNCHANGED <<serving, clients, queue>> /\ server' = "checking"
          /\ server # "streaming" => serving = Nobody
      BY <1>s DEF MakeServer, Served
    <2>2. server = "none"
      BY <1>s DEF MakeServer, Session, Teardown, Made
    <2> QED
      BY <1>2, <2>1, <2>2
  <1>8. CASE SessionStep /\ ~MakeServer
    <2>1. UNCHANGED <<server, serving, clients, queue>>
      BY <1>8 DEF SessionStep, MakeFiles, MakeFilesFails, MakePipeline,
         MakePipelineFails, MakeServerFails, Ready, NotReady, StartControl, SendUrl,
         StopRequested, DevicePlays, DeviceEnded, PipelineError, JoinControl,
         JoinServer, StopPipeline, RemoveFiles, serverVars
    <2> QED
      BY <1>2, <2>1
  <1>9. CASE ControlStep
    <2>1. UNCHANGED <<server, serving, clients, queue>>
      BY <1>9 DEF ControlStep, OwnStep, HeardStep, Launched, ControlFails,
         StopApp, TakeUrl, Loaded, WaitMessage, Message, ConnectionLost, PongFails,
         serverVars
    <2> QED
      BY <1>2, <2>1
  <1>10. CASE AskStop \/ CaptureClosed \/ PipelineFails \/ TearDown \/ DeviceLeaves
              \/ UNCHANGED vars
    <2>1. UNCHANGED <<server, serving, clients, queue>>
      BY <1>10 DEF AskStop, CaptureClosed, PipelineFails, TearDown, DeviceLeaves,
         vars, serverVars
    <2> QED
      BY <1>2, <2>1
  <1>11. CASE \E r \in Request : Fetch(r) \/ CloseFetch(r)
    <2>1. UNCHANGED <<server, serving, clients, queue>>
      BY <1>11 DEF Fetch, CloseFetch, serverVars
    <2> QED
      BY <1>2, <2>1
  <1> QED
    BY <1>3, <1>4, <1>5, <1>6, <1>7, <1>s, <1>8, <1>9, <1>10, <1>11 DEF Next, ServerStep

(* AudioBroadcaster::push: however many connections the player opens and     *)
(* closes, the broadcaster keeps one gone client at most beside the one      *)
(* being served.                                                             *)
THEOREM ClientsStayFew == Spec => []FewClients
  <1>1. Init => Served
    BY CapAssumption DEF Init, Served, FewClients
  <1>2. Served => FewClients
    BY DEF Served
  <1> QED
    BY <1>1, <1>2, ServedStep, TeardownHolds, TypesKept, PTL DEF Spec
=============================================================================
