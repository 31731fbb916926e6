------------------------- MODULE CastSessionsProofs -------------------------
(***************************************************************************)
(* Theorems about CastSessions, for any number of calls and receivers.     *)
(*                                                                         *)
(* The exclusion of sessions is not inductive by itself.  What makes it    *)
(* true is the order of generations: as long as no two handlers have been  *)
(* between taking a task handle and storing their own, the handle a call   *)
(* takes is that of the generation before its own, and a session that has  *)
(* begun has only finished sessions below it.                              *)
(***************************************************************************)
EXTENDS CastSessions, TLAPS

BeforeNumber == {"idle", "refused", "accepted", "installed", "taken"}

(* Handlers hand the task handle over one after another. *)
OneHandover ==
    \A c, d \in Call : handler[c] \in Handover /\ handler[d] \in Handover => c = d

(* What the place of a handler says about its call's number and task. *)
HandlerInv ==
    \A c \in Call :
        /\ number[c] = 0 <=> handler[c] \in BeforeNumber
        /\ task[c] = "none" <=> handler[c] \in BeforeNumber \cup {"numbered"}

NumberInv ==
    /\ \A c \in Call : number[c] <= generation
    /\ \A c, d \in Call : number[c] = number[d] /\ number[c] # 0 => c = d

(* A call waits for the call of the generation before its own. *)
ChainInv ==
    \A c \in Call :
        /\ number[c] > 1 => \E p \in Call : /\ previous[c] = p
                                            /\ number[p] = number[c] - 1
        /\ (handler[c] = "taken" /\ generation # 0) =>
               \E p \in Call : previous[c] = p /\ number[p] = generation

(* The stored handle is that of the newest generation, and it is missing     *)
(* only while a handler is between taking one and storing its own.           *)
HandleInv ==
    /\ activeTask # NoCall => number[activeTask] = generation
    /\ activeTask = NoCall =>
           generation = 0 \/ \E c \in Call : handler[c] \in Handover
    /\ \A c \in Call : handler[c] \in Handover => activeTask = NoCall
    /\ \A c \in Call : handler[c] \in {"numbered", "spawned"} =>
           number[c] = generation

(* Below a session that has begun, all are over. *)
OrderInv ==
    \A c, d \in Call :
        Begun(c) /\ number[d] # 0 /\ number[d] < number[c] => task[d] = "done"

IInv == /\ TypeOK /\ OneHandover /\ HandlerInv /\ NumberInv
        /\ ChainInv /\ HandleInv /\ OrderInv

-----------------------------------------------------------------------------
(* Every variable keeps to its type, however calls overlap. *)
LEMMA TypeInit == Init => TypeOK
  <1> SUFFICES ASSUME Init PROVE TypeOK
    OBVIOUS
  <1> USE DEF Init
  <1>1. HandlersOK
    BY DEF HandlersOK, HandlerState, MaybeCall
  <1>2. TasksOK
    BY DEF TasksOK, TaskState
  <1>3. ShownOK
    BY DEF ShownOK, MaybeCall, NoDetails
  <1> QED
    BY <1>1, <1>2, <1>3 DEF TypeOK

LEMMA TypeHandler ==
  ASSUME TypeOK, NEW c \in Call, HandlerStep(c)
  PROVE  TypeOK'
  <1> USE DEF TypeOK, handlerVars, stopVars, taskVars, shownVars, Advance
  <1>1. CASE Accept(c)
    <2> USE <1>1 DEF Accept
    <2>1. HandlersOK'
      BY DEF HandlersOK, HandlerState
    <2>2. TasksOK'
      BY DEF TasksOK
    <2>3. ShownOK'
      BY DEF ShownOK, MaybeCall
    <2> QED
      BY <2>1, <2>2, <2>3
  <1>2. CASE Refuse(c) \/ InstallStop(c) \/ TakePrevious(c) \/ TakeNumber(c)
             \/ StoreTask(c)
    <2> USE <1>2 DEF Refuse, InstallStop, TakePrevious, TakeNumber, StoreTask
    <2>0. crossed' \in BOOLEAN
      <3>1. CASE TakePrevious(c)
        <4>1. crossed' = (crossed \/ \E d \in Call : handler[d] \in Handover)
          BY <3>1 DEF TakePrevious
        <4> QED
          BY <4>1, Zenon
      <3>2. CASE ~TakePrevious(c)
        BY <3>2 DEF HandlersOK
      <3> QED
        BY <3>1, <3>2
    <2>1. HandlersOK'
      BY <2>0 DEF HandlersOK, HandlerState, MaybeCall
    <2>2. TasksOK'
      BY DEF TasksOK
    <2>3. ShownOK'
      BY DEF ShownOK
    <2> QED
      BY <2>1, <2>2, <2>3
  <1>3. CASE SpawnTask(c)
    <2> USE <1>3 DEF SpawnTask
    <2>1. HandlersOK'
      BY DEF HandlersOK, HandlerState
    <2>2. TasksOK'
      BY DEF TasksOK, TaskState
    <2>3. ShownOK'
      BY DEF ShownOK
    <2> QED
      BY <2>1, <2>2, <2>3
  <1> QED
    BY <1>1, <1>2, <1>3 DEF HandlerStep

LEMMA TypeSession ==
  ASSUME TypeOK, NEW c \in Call, SessionStep(c) \/ WorldStep(c)
  PROVE  TypeOK'
  <1> USE DEF TypeOK, handlerVars, stopVars, taskVars, shownVars, Step, Finish
  <1>1. CASE Begin(c) \/ Announce(c) \/ ReportIdle(c) \/ ReportError(c)
    <2> USE <1>1 DEF Begin, Announce, ReportIdle, ReportError
    <2>1. HandlersOK'
      BY DEF HandlersOK
    <2>2. TasksOK'
      BY DEF TasksOK, TaskState
    <2>3. request[c].device \in Device \cup {NoDevice}
      BY DEF HandlersOK, Request, NoRequest
    <2>4. status' \in [state : {"idle", "connecting", "casting", "error"},
                       device : Device \cup {NoDevice}]
      BY <2>3
    <2>5. UNCHANGED <<details, volumeTx>>
      OBVIOUS
    <2>6. ShownOK'
      BY <2>4, <2>5 DEF ShownOK
    <2> QED
      BY <2>1, <2>2, <2>6
  <1>2. CASE SetupVolume(c) \/ Negotiated(c) \/ Playing(c) \/ RecordFormat(c)
             \/ DeviceEnded(c) \/ JoinThreads(c) \/ ClearDetails(c)
             \/ ClearVolume(c)
    <2> USE <1>2 DEF SetupVolume, Negotiated, Playing, RecordFormat, DeviceEnded,
                     JoinThreads, ClearDetails, ClearVolume
    <2>1. HandlersOK'
      BY DEF HandlersOK
    <2>2. TasksOK'
      BY DEF TasksOK, TaskState
    <2>4. details' \in [published : BOOLEAN, format : {"", "known"}]
      <3>1. details' \in {details, NoDetails, [published |-> TRUE, format |-> ""],
                          [details EXCEPT !.format = "known"]}
        OBVIOUS
      <3>2. [details EXCEPT !.format = "known"]
                \in [published : BOOLEAN, format : {"", "known"}]
        BY DEF ShownOK
      <3>3. details \in [published : BOOLEAN, format : {"", "known"}]
        BY DEF ShownOK
      <3>4. /\ NoDetails \in [published : BOOLEAN, format : {"", "known"}]
            /\ [published |-> TRUE, format |-> ""]
                   \in [published : BOOLEAN, format : {"", "known"}]
        BY DEF NoDetails
      <3> QED
        BY <3>1, <3>2, <3>3, <3>4
    <2>5. status' = status /\ volumeTx' \in MaybeCall
      BY DEF ShownOK, MaybeCall
    <2>6. ShownOK'
      BY <2>4, <2>5 DEF ShownOK
    <2> QED
      BY <2>1, <2>2, <2>6
  <1>3. CASE OpenCapture(c) \/ CaptureFails(c) \/ MirroringUnavailable(c)
             \/ SetupFails(c) \/ FallbackReady(c) \/ WatchPortal(c) \/ Revoke(c)
             \/ StopRequested(c) \/ CaptureClosed(c) \/ LoopFails(c)
             \/ CloseCapture(c) \/ CheckNewest(c)
    <2> USE <1>3 DEF OpenCapture, CaptureFails, MirroringUnavailable, SetupFails,
                     FallbackReady, WatchPortal, Revoke, StopRequested,
                     CaptureClosed, LoopFails, CloseCapture, CheckNewest
    <2>1. HandlersOK'
      BY DEF HandlersOK
    <2>2. TasksOK'
      BY DEF TasksOK, TaskState
    <2>3. ShownOK'
      BY DEF ShownOK
    <2> QED
      BY <2>1, <2>2, <2>3
  <1>4. CASE TakeStop(c)
    <2> USE <1>4 DEF TakeStop
    <2>1. HandlersOK'
      BY DEF HandlersOK, MaybeCall
    <2>2. TasksOK'
      BY DEF TasksOK, TaskState
    <2>3. ShownOK'
      BY DEF ShownOK
    <2> QED
      BY <2>1, <2>2, <2>3
  <1> QED
    BY <1>1, <1>2, <1>3, <1>4 DEF SessionStep, WorldStep

LEMMA TypeStep == TypeOK /\ [Next]_vars => TypeOK'
  <1> SUFFICES ASSUME TypeOK, [Next]_vars PROVE TypeOK'
    OBVIOUS
  <1>1. CASE StopCast
    BY <1>1 DEF StopCast, TypeOK, HandlersOK, TasksOK, ShownOK, MaybeCall,
                handlerVars, taskVars, shownVars
  <1>2. CASE \E c \in Call : HandlerStep(c) \/ SessionStep(c) \/ WorldStep(c)
    BY <1>2, TypeHandler, TypeSession
  <1>3. CASE UNCHANGED vars
    BY <1>3 DEF TypeOK, HandlersOK, TasksOK, ShownOK, vars, handlerVars,
                stopVars, taskVars, shownVars
  <1> QED
    BY <1>1, <1>2, <1>3 DEF Next

(* The type invariant of the shared state, the handlers and the sessions. *)
THEOREM TypeCorrect == Spec => []TypeOK
  BY TypeInit, TypeStep, PTL DEF Spec

(* What a session does after it began touches no handler, and its task stays *)
(* begun.                                                                    *)
Moves(c) ==
    \/ task' = task
    \/ /\ Begun(c) /\ task[c] # "done"
       /\ \E s \in TaskState \ {"none", "waiting"} :
             task' = [task EXCEPT ![c] = s]

LEMMA SessionMoves ==
  ASSUME NEW c \in Call, SessionStep(c) \/ WorldStep(c), ~Begin(c)
  PROVE  UNCHANGED <<handlerVars, activeTask>> /\ Moves(c)
  <1> USE DEF Moves, Begun, TaskState, Step, Finish, stopVars, shownVars, taskVars
  <1>1. CASE SetupVolume(c) \/ OpenCapture(c) \/ CaptureFails(c) \/ Negotiated(c)
             \/ MirroringUnavailable(c) \/ SetupFails(c) \/ FallbackReady(c)
    BY <1>1 DEF SetupVolume, OpenCapture, CaptureFails, Negotiated,
                MirroringUnavailable, SetupFails, FallbackReady
  <1>2. CASE Announce(c) \/ WatchPortal(c) \/ StopRequested(c) \/ CaptureClosed(c)
             \/ CloseCapture(c) \/ ReportIdle(c)
    BY <1>2 DEF Announce, WatchPortal, StopRequested, CaptureClosed,
                CloseCapture, ReportIdle
  <1>3. CASE ReportError(c) \/ CheckNewest(c) \/ TakeStop(c) \/ ClearDetails(c)
             \/ ClearVolume(c)
    BY <1>3 DEF ReportError, CheckNewest, TakeStop, ClearDetails, ClearVolume
  <1>4. CASE WorldStep(c)
    BY <1>4 DEF WorldStep, Playing, Revoke, RecordFormat, DeviceEnded, LoopFails,
                JoinThreads
  <1> QED
    BY <1>1, <1>2, <1>3, <1>4 DEF SessionStep

-----------------------------------------------------------------------------
(* From here on handlers have not crossed.  Once they have, they have.      *)

LEMMA CrossedStays == [Next]_vars /\ crossed => crossed'
  <1> SUFFICES ASSUME [Next]_vars, crossed PROVE crossed'
    OBVIOUS
  <1>1. ASSUME NEW c \in Call, HandlerStep(c) PROVE crossed'
    BY <1>1 DEF HandlerStep, Accept, Refuse, InstallStop, TakePrevious, TakeNumber,
                SpawnTask, StoreTask
  <1>2. ASSUME NEW c \in Call, SessionStep(c) \/ WorldStep(c) PROVE crossed'
    <2>1. CASE Begin(c)
      BY <2>1 DEF Begin, handlerVars
    <2>2. CASE ~Begin(c)
      BY <1>2, <2>2, SessionMoves DEF handlerVars
    <2> QED
      BY <2>1, <2>2
  <1>3. CASE StopCast \/ UNCHANGED vars
    BY <1>3 DEF StopCast, vars, handlerVars
  <1> QED
    BY <1>1, <1>2, <1>3 DEF Next


LEMMA InvInit == Init => IInv
  <1> SUFFICES ASSUME Init PROVE IInv
    OBVIOUS
  <1>1. TypeOK
    BY TypeInit
  <1>2. OneHandover /\ HandlerInv
    BY DEF Init, OneHandover, Handover, HandlerInv, BeforeNumber
  <1>a. generation = 0 /\ \A c \in Call : number[c] = 0 /\ handler[c] = "idle"
    BY DEF Init
  <1>3. NumberInv
    BY <1>a DEF NumberInv
  <1>4. ChainInv
    <2> SUFFICES ASSUME NEW c \in Call
                 PROVE  ~(number[c] > 1) /\ handler[c] # "taken"
      BY DEF ChainInv
    <2> QED
      BY <1>a
  <1>5. HandleInv /\ OrderInv
    BY DEF Init, HandleInv, Handover, OrderInv, Begun
  <1> QED
    BY <1>1, <1>2, <1>3, <1>4, <1>5 DEF IInv

LEMMA MovesTask ==
  ASSUME TasksOK, NEW c \in Call, Moves(c)
  PROVE  \A d \in Call : /\ task'[d] = "none" <=> task[d] = "none"
                         /\ Begun(d)' <=> Begun(d)
                         /\ task[d] = "done" => task'[d] = "done"
  <1>1. CASE task' = task
    BY <1>1 DEF Begun
  <1>2. CASE task' # task
    <2>1. PICK s \in TaskState \ {"none", "waiting"} :
              task' = [task EXCEPT ![c] = s]
      BY <1>2 DEF Moves
    <2>2. Begun(c) /\ task[c] # "done"
      BY <1>2 DEF Moves
    <2> QED
      BY <2>1, <2>2 DEF TasksOK, Begun
  <1> QED
    BY <1>1, <1>2

LEMMA MovesKeep ==
  ASSUME IInv, TypeOK', NEW c \in Call,
         UNCHANGED <<handlerVars, activeTask>>, Moves(c)
  PROVE  IInv'
  <1> USE DEF IInv, handlerVars
  <1>1. \A d \in Call : /\ task'[d] = "none" <=> task[d] = "none"
                        /\ Begun(d)' <=> Begun(d)
                        /\ task[d] = "done" => task'[d] = "done"
    BY MovesTask DEF TypeOK
  <1>2. OneHandover' /\ NumberInv' /\ ChainInv' /\ HandleInv'
    BY DEF OneHandover, NumberInv, ChainInv, HandleInv
  <1>3. HandlerInv'
    BY <1>1 DEF HandlerInv
  <1>4. OrderInv'
    BY <1>1 DEF OrderInv
  <1> QED
    BY <1>2, <1>3, <1>4

(* Without crossing, no handler enters the handover beside another.          *)
LEMMA OneHandoverKept ==
  ASSUME IInv, ~crossed', NEW c \in Call, HandlerStep(c)
  PROVE  OneHandover'
  <1> USE DEF IInv, TypeOK, HandlersOK, Advance, Handover
  <1>1. CASE TakePrevious(c)
    <2>1. \A d \in Call : handler[d] \notin Handover
      BY <1>1 DEF TakePrevious
    <2> QED
      BY <1>1, <2>1 DEF TakePrevious, OneHandover
  <1>2. CASE ~TakePrevious(c)
    <2>1. \A d \in Call : handler'[d] \in Handover => handler[d] \in Handover
      BY <1>2 DEF HandlerStep, Accept, Refuse, InstallStop, TakeNumber, SpawnTask,
                  StoreTask
    <2> QED
      BY <2>1 DEF OneHandover
  <1> QED
    BY <1>1, <1>2

(* Before it takes a handle, a handler changes nothing the order rests on. *)
LEMMA EarlyKept ==
  ASSUME IInv, TypeOK', OneHandover', NEW c \in Call,
         Accept(c) \/ Refuse(c) \/ InstallStop(c)
  PROVE  IInv'
  <1> USE DEF IInv, TypeOK, HandlersOK, Advance, taskVars
  <1>1. /\ UNCHANGED <<previous, number, generation, activeTask, task>>
        /\ \A d \in Call : /\ handler'[d] \in BeforeNumber <=>
                                handler[d] \in BeforeNumber
                           /\ handler'[d] \in Handover <=> handler[d] \in Handover
                           /\ handler'[d] = "taken" <=> handler[d] = "taken"
                           /\ handler'[d] = "numbered" <=> handler[d] = "numbered"
                           /\ handler'[d] = "spawned" <=> handler[d] = "spawned"
    BY DEF Accept, Refuse, InstallStop, BeforeNumber, Handover
  <1>2. HandlerInv'
    BY <1>1 DEF HandlerInv
  <1>3. NumberInv' /\ OrderInv'
    BY <1>1 DEF NumberInv, OrderInv, Begun
  <1>4. ChainInv'
    BY <1>1 DEF ChainInv
  <1>5. HandleInv'
    BY <1>1 DEF HandleInv
  <1> QED
    BY <1>2, <1>3, <1>4, <1>5

LEMMA TakePreviousKept ==
  ASSUME IInv, TypeOK', OneHandover', ~crossed', NEW c \in Call, TakePrevious(c)
  PROVE  IInv'
  <1> USE DEF IInv, TypeOK, HandlersOK, Advance, taskVars, TakePrevious
  <1>1. \A d \in Call : handler[d] \notin Handover
    OBVIOUS
  <1>2. HandlerInv'
    BY DEF HandlerInv, BeforeNumber
  <1>3. NumberInv' /\ OrderInv'
    BY DEF NumberInv, OrderInv, Begun
  <1>4. ChainInv'
    <2> SUFFICES ASSUME NEW d \in Call
                 PROVE  /\ number'[d] > 1 =>
                               \E p \in Call : /\ previous'[d] = p
                                              /\ number'[p] = number'[d] - 1
                        /\ (handler'[d] = "taken" /\ generation' # 0) =>
                               \E p \in Call : /\ previous'[d] = p
                                              /\ number'[p] = generation'
      BY DEF ChainInv
    <2>1. CASE d = c
      <3>1. number[c] = 0
        BY DEF HandlerInv, BeforeNumber
      <3>2. generation # 0 => activeTask \in Call /\ number[activeTask] = generation
        BY <1>1 DEF HandleInv, MaybeCall
      <3> QED
        BY <2>1, <3>1, <3>2
    <2>2. CASE d # c
      BY <2>2, <1>1 DEF ChainInv, Handover
    <2> QED
      BY <2>1, <2>2
  <1>5. HandleInv'
    BY <1>1 DEF HandleInv, Handover
  <1> QED
    BY <1>2, <1>3, <1>4, <1>5

LEMMA TakeNumberKept ==
  ASSUME IInv, TypeOK', OneHandover', NEW c \in Call, TakeNumber(c)
  PROVE  IInv'
  <1> USE DEF IInv, TypeOK, HandlersOK, Advance, taskVars, TakeNumber
  <1>1. \A d \in Call \ {c} : handler[d] \notin Handover
    BY DEF OneHandover, Handover
  <1>2. number[c] = 0 /\ task[c] = "none"
    BY DEF HandlerInv, BeforeNumber
  <1>3. HandlerInv'
    BY DEF HandlerInv, BeforeNumber
  <1>4. NumberInv'
    BY DEF NumberInv
  <1>5. ChainInv'
    <2> SUFFICES ASSUME NEW d \in Call
                 PROVE  /\ number'[d] > 1 =>
                               \E p \in Call : /\ previous'[d] = p
                                              /\ number'[p] = number'[d] - 1
                        /\ (handler'[d] = "taken" /\ generation' # 0) =>
                               \E p \in Call : /\ previous'[d] = p
                                              /\ number'[p] = generation'
      BY DEF ChainInv
    <2>1. CASE d = c
      BY <2>1, <1>2 DEF ChainInv
    <2>2. CASE d # c
      <3>1. handler'[d] # "taken" /\ number'[d] = number[d]
        BY <2>2, <1>1 DEF Handover
      <3>2. ASSUME number[d] > 1
            PROVE  \E p \in Call : previous[d] = p /\ number'[p] = number[d] - 1
        <4>1. PICK p \in Call : previous[d] = p /\ number[p] = number[d] - 1
          BY <3>2 DEF ChainInv
        <4> QED
          BY <4>1, <3>2, <1>2
      <3> QED
        BY <3>1, <3>2
    <2> QED
      BY <2>1, <2>2
  <1>6. HandleInv'
    BY <1>1 DEF HandleInv, Handover
  <1>7. OrderInv'
    <2> SUFFICES ASSUME NEW d \in Call, NEW e \in Call, Begun(d), number'[e] # 0,
                        number'[e] < number'[d]
                 PROVE  task[e] = "done"
      BY DEF OrderInv, Begun
    <2>1. d # c
      BY <1>2 DEF Begun
    <2>2. e # c
      BY <2>1 DEF NumberInv
    <2> QED
      BY <2>1, <2>2 DEF OrderInv
  <1> QED
    BY <1>3, <1>4, <1>5, <1>6, <1>7

LEMMA SpawnTaskKept ==
  ASSUME IInv, TypeOK', OneHandover', NEW c \in Call, SpawnTask(c)
  PROVE  IInv'
  <1> USE DEF IInv, TypeOK, HandlersOK, TasksOK, Advance, SpawnTask
  <1>1. HandlerInv'
    BY DEF HandlerInv, BeforeNumber
  <1>2. NumberInv'
    BY DEF NumberInv
  <1>3. ChainInv'
    BY DEF ChainInv
  <1>4. HandleInv'
    BY DEF HandleInv, Handover
  <1>5. OrderInv'
    <2>1. task[c] = "none"
      BY DEF HandlerInv, BeforeNumber
    <2> QED
      BY <2>1 DEF OrderInv, Begun
  <1> QED
    BY <1>1, <1>2, <1>3, <1>4, <1>5

LEMMA StoreTaskKept ==
  ASSUME IInv, TypeOK', OneHandover', NEW c \in Call, StoreTask(c)
  PROVE  IInv'
  <1> USE DEF IInv, TypeOK, HandlersOK, Advance, taskVars, StoreTask
  <1>1. \A d \in Call \ {c} : handler[d] \notin Handover
    BY DEF OneHandover, Handover
  <1>2. HandlerInv'
    BY DEF HandlerInv, BeforeNumber
  <1>3. NumberInv' /\ OrderInv'
    BY DEF NumberInv, OrderInv, Begun
  <1>4. ChainInv'
    BY DEF ChainInv
  <1>5. HandleInv'
    BY <1>1, CallAssumption DEF HandleInv, Handover
  <1> QED
    BY <1>2, <1>3, <1>4, <1>5

(* The session that begins sits above its predecessor, which is over, and    *)
(* below which all are over since it began itself.                           *)
LEMMA BeginKept ==
  ASSUME IInv, TypeOK', NEW c \in Call, Begin(c)
  PROVE  IInv'
  <1> USE DEF IInv, TypeOK, HandlersOK, TasksOK, Begin, Step, handlerVars
  <1>1. OneHandover' /\ NumberInv' /\ ChainInv' /\ HandleInv'
    BY DEF OneHandover, NumberInv, ChainInv, HandleInv
  <1>2. HandlerInv'
    BY DEF HandlerInv
  <1>3. OrderInv'
    <2> SUFFICES ASSUME NEW d \in Call, NEW e \in Call, Begun(d)', number[e] # 0,
                        number[e] < number[d]
                 PROVE  task'[e] = "done"
      BY DEF OrderInv
    <2>1. CASE d = c
      <3>1. PICK p \in Call : previous[c] = p /\ number[p] = number[c] - 1
        BY <2>1 DEF ChainInv
      <3>2. task[p] = "done"
        BY <3>1
      <3>3. e # c
        BY <2>1
      <3>4. CASE number[e] = number[p]
        BY <3>2, <3>3, <3>4 DEF NumberInv
      <3>5. CASE number[e] < number[p]
        BY <3>2, <3>3, <3>5 DEF OrderInv, Begun
      <3> QED
        BY <2>1, <3>1, <3>4, <3>5
    <2>2. CASE d # c
      BY <2>2 DEF OrderInv, Begun
    <2> QED
      BY <2>1, <2>2
  <1> QED
    BY <1>1, <1>2, <1>3

LEMMA InvStep ==
  ASSUME IInv, ~crossed', [Next]_vars
  PROVE  IInv'
  <1>1. TypeOK'
    BY TypeStep DEF IInv
  <1>2. ASSUME NEW c \in Call, HandlerStep(c) PROVE IInv'
    <2>1. OneHandover'
      BY <1>2, OneHandoverKept
    <2> QED
      BY <1>1, <1>2, <2>1, EarlyKept, TakePreviousKept, TakeNumberKept,
         SpawnTaskKept, StoreTaskKept DEF HandlerStep
  <1>3. ASSUME NEW c \in Call, SessionStep(c) \/ WorldStep(c) PROVE IInv'
    BY <1>1, <1>3, BeginKept, SessionMoves, MovesKeep
  <1>4. CASE StopCast \/ UNCHANGED vars
    <2>1. UNCHANGED <<handlerVars, activeTask, task>>
      BY <1>4 DEF StopCast, vars, taskVars
    <2> QED
      BY <1>1, <2>1
      DEF IInv, OneHandover, HandlerInv, NumberInv, ChainInv, HandleInv, OrderInv,
          Begun, handlerVars
  <1> QED
    BY <1>2, <1>3, <1>4 DEF Next

(* main.rs, start_cast: however calls overlap, and for any number of them, the *)
(* generations follow the chain of awaited handles, unless two handlers have *)
(* been between taking a handle and storing their own at the same time.      *)
THEOREM OrderCorrect == Spec => [](~crossed => IInv)
  <1>1. (~crossed => IInv) /\ [Next]_vars => (~crossed => IInv)'
    BY InvStep, CrossedStays
  <1>2. Init => (~crossed => IInv)
    BY InvInit
  <1> QED
    BY <1>1, <1>2, PTL DEF Spec

(* Of two sessions under way, the one with the lower number would be over.   *)
LEMMA Exclusion == IInv => NeverShare
  <1> SUFFICES ASSUME IInv, NEW c \in Call, NEW d \in Call, Live(c), Live(d), c # d
               PROVE  FALSE
    BY DEF NeverShare
  <1>1. number[c] # 0 /\ number[d] # 0
    BY DEF IInv, HandlerInv, Live, Begun
  <1>2. number[c] \in Nat /\ number[d] \in Nat /\ number[c] # number[d]
    BY <1>1 DEF IInv, TypeOK, HandlersOK, NumberInv
  <1>3. number[c] < number[d] \/ number[d] < number[c]
    BY <1>2
  <1> QED
    BY <1>1, <1>3 DEF IInv, OrderInv, Live

(* SharedState.active_task: two sessions never share the portal capture or   *)
(* the receiver's application, unless handlers have crossed at the handover. *)
THEOREM SessionsExclusive == Spec => []ExclusiveSession
  <1>1. (~crossed => IInv) => ExclusiveSession
    BY Exclusion DEF ExclusiveSession
  <1> QED
    BY <1>1, OrderCorrect, PTL

-----------------------------------------------------------------------------
(* The status.  A session writes it when it begins, and until it reports its *)
(* result no other session is there to write it.                             *)

LEMMA StatusInit == Init => StatusTruth
  BY DEF Init, StatusTruth, Reporting, Live, Begun

LEMMA StatusStep ==
  ASSUME IInv, NeverShare, NeverShare', ~crossed, StatusTruth, [Next]_vars
  PROVE  StatusTruth'
  <1> SUFFICES ASSUME NEW c \in Call, Reporting(c)'
               PROVE  /\ status'.state \in {"connecting", "casting"}
                      /\ status'.device = request'[c].device
                      /\ task'[c] = "casting" => status'.state = "casting"
    BY DEF StatusTruth
  <1> DEFINE Told == /\ status.state \in {"connecting", "casting"}
                     /\ status.device = request[c].device
                     /\ task[c] = "casting" => status.state = "casting"
  <1>1. Reporting(c) => Told
    BY DEF StatusTruth
  <1>2. ASSUME UNCHANGED status, task'[c] = task[c], request'[c] = request[c]
        PROVE  Told'
    BY <1>1, <1>2 DEF Reporting, Live, Begun
  <1> USE DEF IInv, TypeOK, HandlersOK, TasksOK, ShownOK
  <1>3. ASSUME NEW d \in Call, HandlerStep(d) PROVE Told'
    <2>1. status' = status
      BY <1>3
      DEF HandlerStep, Accept, Refuse, InstallStop, TakePrevious, TakeNumber,
          SpawnTask, StoreTask, shownVars
    <2>2. CASE Accept(d)
      <3>1. task'[d] = "none"
        BY <2>2 DEF Accept, Advance, taskVars, HandlerInv, BeforeNumber
      <3>2. d # c
        BY <3>1 DEF Reporting, Live, Begun
      <3> QED
        BY <1>2, <2>1, <2>2, <3>2 DEF Accept, taskVars
    <2>3. CASE SpawnTask(d)
      <3>1. d # c
        BY <2>3 DEF SpawnTask, Reporting, Live, Begun
      <3> QED
        BY <1>2, <2>1, <2>3, <3>1 DEF SpawnTask
    <2>4. CASE Refuse(d) \/ InstallStop(d) \/ TakePrevious(d) \/ TakeNumber(d)
               \/ StoreTask(d)
      <3>1. UNCHANGED <<request, task>>
        BY <2>4 DEF Refuse, InstallStop, TakePrevious, TakeNumber, StoreTask,
                    taskVars
      <3> QED
        BY <1>2, <2>1, <3>1
    <2> QED
      BY <1>3, <2>2, <2>3, <2>4 DEF HandlerStep
  <1>4. ASSUME NEW d \in Call, SessionStep(d) \/ WorldStep(d), d # c PROVE Told'
    <2>1. ~Begin(d)
      <3>1. Begin(d) => Live(d)'
        BY DEF Begin, Step, Live, Begun
      <3>2. Live(c)'
        BY DEF Reporting
      <3> QED
        BY <1>4, <3>1, <3>2 DEF NeverShare
    <2>2. UNCHANGED request /\ Moves(d)
      BY <1>4, <2>1, SessionMoves DEF handlerVars
    <2>3. task'[c] = task[c]
      BY <1>4, <2>2 DEF Moves
    <2>4. ~Live(d)
      <3>1. Live(c)
        BY <2>3 DEF Reporting, Live, Begun
      <3> QED
        BY <1>4, <3>1 DEF NeverShare
    <2>5. ~Announce(d) /\ ~ReportIdle(d) /\ ~ReportError(d)
      BY <2>4 DEF Announce, ReportIdle, ReportError, Step, Live, Begun
    <2>6. status' = status
      BY <1>4, <2>1, <2>5
      DEF SessionStep, WorldStep, SetupVolume, OpenCapture, CaptureFails,
          Negotiated, MirroringUnavailable, SetupFails, FallbackReady,
          WatchPortal, StopRequested, CaptureClosed, CloseCapture, CheckNewest,
          TakeStop, ClearDetails, ClearVolume, Playing, Revoke,
          RecordFormat, DeviceEnded, LoopFails, JoinThreads, shownVars
    <2> QED
      BY <1>2, <2>2, <2>3, <2>6
  <1>5. ASSUME SessionStep(c) \/ WorldStep(c) PROVE Told'
    <2> USE DEF Step, Finish
    <2>1. CASE Begin(c)
      BY <2>1 DEF Begin, handlerVars
    <2>2. CASE Announce(c)
      BY <2>2 DEF Announce, handlerVars
    <2>3. CASE ~Begin(c) /\ ~Announce(c)
      <3>1. UNCHANGED request /\ Moves(c)
        BY <1>5, <2>3, SessionMoves DEF handlerVars
      <3>2. ~ReportIdle(c) /\ ~ReportError(c)
        BY DEF ReportIdle, ReportError, Reporting
      <3>3. /\ status' = status
            /\ task'[c] = "casting" => task[c] = "casting"
            /\ Reporting(c)
        BY <1>5, <2>3, <3>2
        DEF SessionStep, WorldStep, SetupVolume, OpenCapture, CaptureFails,
            Negotiated, MirroringUnavailable, SetupFails, FallbackReady,
            WatchPortal, StopRequested, CaptureClosed, CloseCapture, CheckNewest,
            TakeStop, ClearDetails, ClearVolume, Playing, Revoke,
            RecordFormat, DeviceEnded, LoopFails, JoinThreads, shownVars, taskVars,
            Reporting, Live, Begun
      <3> QED
        BY <1>1, <3>1, <3>3
    <2> QED
      BY <2>1, <2>2, <2>3
  <1>6. CASE StopCast \/ UNCHANGED vars
    BY <1>2, <1>6 DEF StopCast, vars, handlerVars, taskVars, shownVars
  <1> QED
    BY <1>3, <1>4, <1>5, <1>6 DEF Next

(* GetStatus: while a session is under way the status names its receiver and *)
(* says "casting" once it plays, whatever ended before it, unless handlers   *)
(* have crossed.                                                             *)
THEOREM StatusCorrect == Spec => []StatusTruth
  <1>1. /\ (~crossed => IInv) /\ ExclusiveSession /\ ExclusiveSession' /\ StatusTruth
        /\ [Next]_vars
        => StatusTruth'
    <2> SUFFICES ASSUME ~crossed => IInv, ExclusiveSession, ExclusiveSession',
                        StatusTruth, [Next]_vars, ~crossed'
                 PROVE  StatusTruth'
      BY DEF StatusTruth
    <2>1. ~crossed
      BY CrossedStays
    <2>2. NeverShare /\ NeverShare'
      BY <2>1 DEF ExclusiveSession
    <2> QED
      BY <2>1, <2>2, StatusStep
  <1> QED
    BY <1>1, StatusInit, OrderCorrect, SessionsExclusive, PTL DEF Spec

-----------------------------------------------------------------------------
(* What is left when handlers cross: the chain of awaited handles holds, only *)
(* it is no longer one chain.                                                *)

AInv == TypeOK /\ HandlerInv /\ AwaitsPredecessor

LEMMA AwaitInit == Init => AInv
  <1> SUFFICES ASSUME Init PROVE AInv
    OBVIOUS
  <1>1. TypeOK /\ HandlerInv
    BY InvInit DEF IInv
  <1>2. AwaitsPredecessor
    BY DEF Init, AwaitsPredecessor, Begun
  <1> QED
    BY <1>1, <1>2 DEF AInv

LEMMA AwaitHandler ==
  ASSUME AInv, NEW c \in Call, HandlerStep(c)
  PROVE  HandlerInv' /\ AwaitsPredecessor'
  <1> USE DEF AInv, TypeOK, HandlersOK, TasksOK, Advance, taskVars
  <1>1. CASE Accept(c) \/ Refuse(c) \/ InstallStop(c) \/ StoreTask(c)
    <2> USE <1>1 DEF Accept, Refuse, InstallStop, StoreTask
    <2>1. UNCHANGED <<number, previous, task>>
      OBVIOUS
    <2>2. HandlerInv'
      BY DEF HandlerInv, BeforeNumber
    <2> QED
      BY <2>1, <2>2 DEF AwaitsPredecessor, Begun
  <1>2. CASE TakePrevious(c) \/ TakeNumber(c)
    <2> USE <1>2 DEF TakePrevious, TakeNumber
    <2>1. task[c] = "none" /\ task' = task
      BY DEF HandlerInv, BeforeNumber
    <2>2. HandlerInv'
      BY DEF HandlerInv, BeforeNumber
    <2>3. \A d \in Call \ {c} : previous'[d] = previous[d]
      OBVIOUS
    <2> QED
      BY <2>1, <2>2, <2>3 DEF AwaitsPredecessor, Begun
  <1>3. CASE SpawnTask(c)
    <2> USE <1>3 DEF SpawnTask
    <2>1. task[c] = "none" /\ previous' = previous
      BY DEF HandlerInv, BeforeNumber
    <2>2. HandlerInv'
      BY DEF HandlerInv, BeforeNumber
    <2>3. AwaitsPredecessor'
      <3> SUFFICES ASSUME NEW d \in Call, Begun(d)', previous[d] # NoCall
                   PROVE  task'[previous[d]] = "done"
        BY <2>1 DEF AwaitsPredecessor
      <3>1. Begun(d) /\ task[previous[d]] = "done" /\ previous[d] \in Call
        BY DEF AwaitsPredecessor, Begun, MaybeCall
      <3> QED
        BY <2>1, <3>1
    <2> QED
      BY <2>2, <2>3
  <1> QED
    BY <1>1, <1>2, <1>3 DEF HandlerStep

LEMMA AwaitSession ==
  ASSUME AInv, NEW c \in Call, SessionStep(c) \/ WorldStep(c)
  PROVE  HandlerInv' /\ AwaitsPredecessor'
  <1>1. CASE Begin(c)
    <2> USE <1>1 DEF Begin, Step, AInv, TypeOK, HandlersOK, TasksOK, handlerVars
    <2>1. HandlerInv'
      BY DEF HandlerInv
    <2>2. AwaitsPredecessor'
      BY DEF AwaitsPredecessor, Begun, MaybeCall
    <2> QED
      BY <2>1, <2>2
  <1>2. CASE ~Begin(c)
    <2>1. UNCHANGED <<handler, previous, number>> /\ Moves(c)
      BY <1>2, SessionMoves DEF handlerVars
    <2>2. \A d \in Call : /\ task'[d] = "none" <=> task[d] = "none"
                          /\ Begun(d)' <=> Begun(d)
                          /\ task[d] = "done" => task'[d] = "done"
      BY <2>1, MovesTask DEF AInv, TypeOK
    <2>3. HandlerInv'
      BY <2>1, <2>2 DEF HandlerInv, AInv
    <2>4. AwaitsPredecessor'
      BY <2>1, <2>2 DEF AwaitsPredecessor, MaybeCall, AInv, TypeOK, HandlersOK
    <2> QED
      BY <2>3, <2>4
  <1> QED
    BY <1>1, <1>2

LEMMA AwaitInvariance == Spec => []AInv
  <1>1. AInv /\ [Next]_vars => AInv'
    <2> SUFFICES ASSUME AInv, [Next]_vars PROVE AInv'
      OBVIOUS
    <2>1. TypeOK'
      BY TypeStep DEF AInv
    <2>2. ASSUME NEW c \in Call, HandlerStep(c) \/ SessionStep(c) \/ WorldStep(c)
          PROVE  HandlerInv' /\ AwaitsPredecessor'
      BY <2>2, AwaitHandler, AwaitSession
    <2>3. ASSUME StopCast \/ UNCHANGED vars
          PROVE  HandlerInv' /\ AwaitsPredecessor'
      <3>1. UNCHANGED <<handler, number, previous, task>>
        BY <2>3 DEF StopCast, vars, handlerVars, taskVars
      <3> QED
        BY <3>1 DEF AInv, HandlerInv, AwaitsPredecessor, Begun
    <2>4. HandlerInv' /\ AwaitsPredecessor'
      BY <2>2, <2>3 DEF Next
    <2> QED
      BY <2>1, <2>4 DEF AInv
  <1> QED
    BY <1>1, AwaitInit, PTL DEF Spec

(* A session never runs before the one whose handle its call took is over,   *)
(* however StartCast calls overlap.                                          *)
THEOREM PredecessorAwaited == Spec => []AwaitsPredecessor
  <1>1. AInv => AwaitsPredecessor
    BY DEF AInv
  <1> QED
    BY <1>1, AwaitInvariance, PTL

-----------------------------------------------------------------------------
(* A status that shows a cast has a session behind it.                     *)

(* A portal session is open only where its session has a use for it, or its   *)
(* capture failed.                                                          *)
UsesPortal == {"negotiating", "fallback", "loading", "announcing", "casting",
               "joining", "closing"}

BehindStatus ==
    status.state \in {"connecting", "casting"} => \E c \in Call : Reporting(c)
(* A session whose capture failed half-way is over once it has reported it. *)
Orphan(c) == /\ portal[c] = "left" /\ outcome[c] = "error"
             /\ task[c] \in {"reporting", "checking", "takingStop", "clearingDetails",
                             "clearingVolume", "done"}

PortalUsed == \A c \in Call : \/ portal[c] = "none"
                              \/ portal[c] # "left" /\ task[c] \in UsesPortal
                              \/ Orphan(c)

LEMMA ShownInit == Init => BehindStatus /\ PortalUsed
  <1> SUFFICES ASSUME Init PROVE BehindStatus /\ PortalUsed
    OBVIOUS
  <1>1. status.state = "idle" /\ \A c \in Call : portal[c] = "none"
    BY DEF Init
  <1> QED
    BY <1>1 DEF BehindStatus, PortalUsed

(* Handlers, StopCast and stutters. *)
LEMMA ShownAside ==
  ASSUME AInv, BehindStatus, PortalUsed, UNCHANGED <<status, portal, outcome>>,
         \A c \in Call : task[c] # "none" => task'[c] = task[c]
  PROVE  BehindStatus' /\ PortalUsed'
  <1>1. BehindStatus'
    BY DEF BehindStatus, Reporting, Live, Begun
  <1>2. PortalUsed'
    BY DEF PortalUsed, UsesPortal, Orphan
  <1> QED
    BY <1>1, <1>2

LEMMA ShownSession ==
  ASSUME AInv, BehindStatus, PortalUsed, NEW c \in Call, SessionStep(c) \/ WorldStep(c)
  PROVE  BehindStatus' /\ PortalUsed'
  <1> USE DEF AInv, TypeOK, TasksOK, ShownOK, Step, Finish, Reporting, Live, Begun
  <1>1. \A d \in Call \ {c} : /\ task'[d] = task[d] /\ portal'[d] = portal[d]
                              /\ outcome'[d] = outcome[d]
    BY DEF SessionStep, WorldStep, Begin, SetupVolume, OpenCapture, CaptureFails,
        Negotiated, MirroringUnavailable, SetupFails, FallbackReady, Announce,
        WatchPortal, StopRequested, CaptureClosed, CloseCapture, ReportIdle,
        ReportError, CheckNewest, TakeStop, ClearDetails, ClearVolume, Playing,
        Revoke, RecordFormat, DeviceEnded, LoopFails, JoinThreads, taskVars
  <1>2. BehindStatus'
    <2>1. CASE Begin(c) \/ Announce(c)
      <3>1. Reporting(c)'
        BY <2>1 DEF Begin, Announce
      <3> QED
        BY <3>1 DEF BehindStatus
    <2>2. CASE ReportIdle(c) \/ ReportError(c)
      <3>1. \/ status' = [state |-> "idle", device |-> NoDevice]
            \/ status' = [state |-> "error", device |-> request[c].device]
        BY <2>2 DEF ReportIdle, ReportError
      <3>2. status'.state \notin {"connecting", "casting"}
        <4> HIDE DEF AInv, TypeOK, ShownOK
        <4> QED
          BY <3>1
      <3> QED
        BY <3>2 DEF BehindStatus
    <2>3. CASE ~(Begin(c) \/ Announce(c) \/ ReportIdle(c) \/ ReportError(c))
      <3>1. status' = status /\ (Reporting(c) => Reporting(c)')
        <4>1. CASE SetupVolume(c) \/ OpenCapture(c) \/ CaptureFails(c)
          BY <4>1 DEF SetupVolume, OpenCapture, CaptureFails, shownVars
        <4>5. CASE Negotiated(c) \/ MirroringUnavailable(c) \/ SetupFails(c)
                   \/ FallbackReady(c)
          BY <4>5 DEF Negotiated, MirroringUnavailable, SetupFails, FallbackReady,
                      shownVars
        <4>2. CASE WatchPortal(c) \/ StopRequested(c) \/ CaptureClosed(c)
                   \/ CloseCapture(c)
          BY <4>2 DEF WatchPortal, StopRequested, CaptureClosed, CloseCapture,
                      shownVars
        <4>3. CASE CheckNewest(c) \/ TakeStop(c) \/ ClearDetails(c) \/ ClearVolume(c)
          BY <4>3 DEF CheckNewest, TakeStop, ClearDetails, ClearVolume, shownVars
        <4>4. CASE WorldStep(c)
          BY <4>4 DEF WorldStep, Playing, Revoke, RecordFormat, DeviceEnded, LoopFails,
                      JoinThreads, taskVars, shownVars
        <4> QED
          BY <2>3, <4>1, <4>2, <4>3, <4>4, <4>5 DEF SessionStep
      <3>2. \A d \in Call : Reporting(d) => Reporting(d)'
        BY <1>1, <3>1
      <3> QED
        BY <3>1, <3>2 DEF BehindStatus
    <2> QED
      BY <2>1, <2>2, <2>3
  <1>3. \/ portal'[c] = "none"
        \/ portal'[c] # "left" /\ task'[c] \in UsesPortal
        \/ Orphan(c)'
    <2> USE DEF PortalUsed, UsesPortal, Orphan
    <2>1. CASE OpenCapture(c) \/ CaptureFails(c) \/ CloseCapture(c)
      BY <2>1 DEF OpenCapture, CaptureFails, CloseCapture
    <2>2. CASE WatchPortal(c) \/ Revoke(c)
      BY <2>2 DEF WatchPortal, Revoke, InLoop
    <2>3. CASE Begin(c) \/ SetupVolume(c) \/ Negotiated(c) \/ MirroringUnavailable(c)
               \/ SetupFails(c) \/ FallbackReady(c) \/ Announce(c)
      BY <2>3 DEF Begin, SetupVolume, Negotiated, MirroringUnavailable, SetupFails,
                  FallbackReady, Announce
    <2>4. CASE StopRequested(c) \/ CaptureClosed(c) \/ Playing(c) \/ RecordFormat(c)
               \/ DeviceEnded(c) \/ LoopFails(c) \/ JoinThreads(c)
      BY <2>4 DEF StopRequested, CaptureClosed, Playing, RecordFormat, DeviceEnded,
                  LoopFails, JoinThreads, taskVars
    <2>5. CASE ReportIdle(c) \/ ReportError(c) \/ CheckNewest(c) \/ TakeStop(c)
               \/ ClearDetails(c) \/ ClearVolume(c)
      BY <2>5 DEF ReportIdle, ReportError, CheckNewest, TakeStop, ClearDetails,
                  ClearVolume
    <2> QED
      BY <2>1, <2>2, <2>3, <2>4, <2>5 DEF SessionStep, WorldStep
  <1>4. PortalUsed'
    <2> SUFFICES ASSUME NEW d \in Call
                 PROVE  \/ portal'[d] = "none"
                        \/ portal'[d] # "left" /\ task'[d] \in UsesPortal
                        \/ Orphan(d)'
      BY DEF PortalUsed
    <2>1. CASE d # c
      BY <1>1, <2>1 DEF PortalUsed, Orphan
    <2> QED
      BY <1>3, <2>1
  <1> QED
    BY <1>2, <1>4

(* GetStatus and the portal: a status that shows a cast has a session behind *)
(* it that will report its end, and so has a portal session, but for one     *)
(* whose capture failed after it was started: however calls overlap.         *)
THEOREM ShownForReason == Spec => []NothingShownInVain
  <1>1. AInv /\ BehindStatus /\ PortalUsed /\ [Next]_vars => BehindStatus' /\ PortalUsed'
    <2> SUFFICES ASSUME AInv, BehindStatus, PortalUsed, [Next]_vars
                 PROVE  BehindStatus' /\ PortalUsed'
      OBVIOUS
    <2>1. CASE StopCast \/ UNCHANGED vars
      BY <2>1, ShownAside DEF StopCast, vars, taskVars, shownVars
    <2>2. ASSUME NEW c \in Call, HandlerStep(c) PROVE BehindStatus' /\ PortalUsed'
      <3>1. UNCHANGED <<status, portal, outcome>>
        BY <2>2 DEF HandlerStep, Accept, Refuse, InstallStop, TakePrevious,
                    TakeNumber, SpawnTask, StoreTask, taskVars, shownVars
      <3>2. CASE SpawnTask(c)
        <4>1. task[c] = "none"
          BY <3>2 DEF SpawnTask, Advance, AInv, HandlerInv, BeforeNumber
        <4>2. \A d \in Call \ {c} : task'[d] = task[d]
          BY <3>2 DEF SpawnTask, AInv, TypeOK, TasksOK
        <4> QED
          BY <3>1, <4>1, <4>2, ShownAside
      <3>3. CASE ~SpawnTask(c)
        <4>1. task' = task
          BY <2>2, <3>3 DEF HandlerStep, Accept, Refuse, InstallStop, TakePrevious,
                            TakeNumber, StoreTask, taskVars
        <4> QED
          BY <3>1, <4>1, ShownAside
      <3> QED
        BY <3>2, <3>3
    <2> QED
      BY <2>1, <2>2, ShownSession DEF Next
  <1>2. BehindStatus /\ PortalUsed => NothingShownInVain
    BY DEF BehindStatus, PortalUsed, NothingShownInVain, UsesPortal, Orphan,
           Reporting, Live, Begun
  <1> QED
    BY <1>1, <1>2, ShownInit, AwaitInvariance, PTL DEF Spec

-----------------------------------------------------------------------------
(* What the last session leaves behind: it is the newest call, or one that   *)
(* will be, that still has to clear what is there.                           *)

Newest(c) == number[c] # 0 /\ number[c] = generation

SenderDue ==
    active # NoCall =>
        \E c \in Call :
            \/ handler[c] \in {"installed", "taken"}
            \/ Newest(c) /\ task[c] \notin {"clearingDetails", "clearingVolume", "done"}

DetailsDue ==
    details # NoDetails =>
        \E c \in Call : Newest(c) /\ task[c] \notin {"clearingVolume", "done"}

VolumeDue ==
    volumeTx # NoCall => \E c \in Call : Newest(c) /\ task[c] # "done"

DueInv == SenderDue /\ DetailsDue /\ VolumeDue

LEMMA DueInit == Init => DueInv
  BY DEF Init, DueInv, SenderDue, DetailsDue, VolumeDue

(* While a session is under way, the newest call is its own or waits. *)
LEMMA NewestWaits ==
  ASSUME IInv, NEW c \in Call, Live(c)
  PROVE  \E d \in Call : Newest(d) /\ (d = c \/ task[d] \in {"none", "waiting"})
  <1> USE DEF IInv, TypeOK, HandlersOK
  <1>1. number[c] # 0 /\ generation # 0
    BY DEF HandlerInv, Live, Begun, NumberInv
  <1>2. PICK d \in Call : number[d] = generation
    <2>1. CASE activeTask # NoCall
      BY <2>1 DEF HandleInv, MaybeCall
    <2>2. CASE activeTask = NoCall
      BY <1>1, <2>2 DEF HandleInv, ChainInv, Handover
    <2> QED
      BY <2>1, <2>2
  <1>3. CASE number[c] = generation
    BY <1>1, <1>3 DEF Newest
  <1>4. CASE number[c] < generation
    <2>1. ~Begun(d)
      BY <1>1, <1>2, <1>4 DEF OrderInv, Live
    <2> QED
      BY <1>1, <1>2, <2>1 DEF Newest, Begun
  <1> QED
    BY <1>3, <1>4 DEF NumberInv

LEMMA DueHandler ==
  ASSUME IInv, DueInv, NEW c \in Call, HandlerStep(c)
  PROVE  DueInv'
  <1> USE DEF IInv, TypeOK, HandlersOK, TasksOK, ShownOK, Advance, DueInv, taskVars,
              stopVars, shownVars
  <1>0. UNCHANGED <<details, volumeTx>>
    BY DEF HandlerStep, Accept, Refuse, InstallStop, TakePrevious, TakeNumber,
           SpawnTask, StoreTask
  <1>1. CASE Accept(c) \/ Refuse(c) \/ TakePrevious(c) \/ StoreTask(c)
    <2>1. UNCHANGED <<active, number, generation, task>>
      BY <1>1 DEF Accept, Refuse, TakePrevious, StoreTask
    <2>2. \A d \in Call : handler[d] \in {"installed", "taken"}
                            => handler'[d] \in {"installed", "taken"}
      BY <1>1 DEF Accept, Refuse, TakePrevious, StoreTask
    <2>3. SenderDue'
      BY <2>1, <2>2 DEF SenderDue, Newest
    <2> QED
      BY <1>0, <2>1, <2>3 DEF DetailsDue, VolumeDue, Newest
  <1>2. CASE InstallStop(c)
    <2>1. handler'[c] = "installed"
      BY <1>2 DEF InstallStop
    <2>2. SenderDue'
      BY <2>1 DEF SenderDue
    <2> QED
      BY <1>0, <1>2, <2>2 DEF InstallStop, DetailsDue, VolumeDue, Newest
  <1>3. CASE TakeNumber(c)
    <2>1. Newest(c)' /\ task'[c] = "none"
      <3>1. task[c] = "none"
        BY <1>3 DEF TakeNumber, HandlerInv, BeforeNumber
      <3>2. number'[c] = generation' /\ generation' = generation + 1 /\ task' = task
        BY <1>3 DEF TakeNumber
      <3>3. generation + 1 # 0
        <4> HIDE DEF TasksOK, ShownOK
        <4>1. generation \in Nat
          OBVIOUS
        <4> QED
          BY <4>1
      <3>4. Newest(c)'
        BY <3>2, <3>3 DEF Newest
      <3> QED
        BY <3>1, <3>2, <3>4
    <2> QED
      BY <2>1 DEF SenderDue, DetailsDue, VolumeDue
  <1>4. CASE SpawnTask(c)
    <2>1. UNCHANGED <<active, number, generation>> /\ task'[c] = "waiting"
      BY <1>4 DEF SpawnTask
    <2>2. \A d \in Call \ {c} : handler'[d] = handler[d] /\ task'[d] = task[d]
      BY <1>4 DEF SpawnTask
    <2>3. handler[c] = "numbered"
      BY <1>4 DEF SpawnTask
    <2>4. SenderDue'
      BY <2>1, <2>2, <2>3 DEF SenderDue, Newest
    <2> QED
      BY <1>0, <2>1, <2>2, <2>4 DEF DetailsDue, VolumeDue, Newest
  <1> QED
    BY <1>1, <1>2, <1>3, <1>4 DEF HandlerStep

(* What a session's step does to what it shares with the others. *)
LEMMA SharedEffect ==
  ASSUME IInv, NEW c \in Call, SessionStep(c) \/ WorldStep(c)
  PROVE  /\ UNCHANGED handlerVars
         /\ \A d \in Call \ {c} : task'[d] = task[d]
         /\ active' \in {active, NoCall}
         /\ details' # details /\ details' # NoDetails =>
              Live(c) /\ task'[c] \notin {"clearingVolume", "done"}
         /\ volumeTx' # volumeTx /\ volumeTx' # NoCall => Live(c) /\ task'[c] # "done"
         /\ task'[c] = task[c] \/
              CASE task'[c] = "clearingDetails" -> active' = NoCall
                [] task'[c] = "clearingVolume" -> task[c] = "clearingDetails"
                                                    /\ details' = NoDetails
                [] task'[c] = "done" -> \/ task[c] = "clearingVolume" /\ volumeTx' = NoCall
                                        \/ task[c] = "checking" /\ ~Newest(c)
                [] OTHER -> TRUE
  <1> USE DEF IInv, TypeOK, HandlersOK, TasksOK, Step, Finish, Live, Begun, stopVars,
              shownVars, taskVars
  <1>1. CASE SetupVolume(c) \/ OpenCapture(c) \/ CaptureFails(c) \/ Begin(c)
    BY <1>1 DEF SetupVolume, OpenCapture, CaptureFails, Begin
  <1>2. CASE Negotiated(c) \/ MirroringUnavailable(c) \/ SetupFails(c) \/ FallbackReady(c)
    BY <1>2 DEF Negotiated, MirroringUnavailable, SetupFails, FallbackReady
  <1>3. CASE Announce(c) \/ WatchPortal(c) \/ StopRequested(c) \/ CaptureClosed(c)
    BY <1>3 DEF Announce, WatchPortal, StopRequested, CaptureClosed
  <1>4. CASE CloseCapture(c) \/ ReportIdle(c) \/ ReportError(c)
    BY <1>4 DEF CloseCapture, ReportIdle, ReportError
  <1>5. CASE CheckNewest(c)
    BY <1>5 DEF CheckNewest, Newest, handlerVars
  <1>6. CASE TakeStop(c) \/ ClearDetails(c) \/ ClearVolume(c)
    BY <1>6 DEF TakeStop, ClearDetails, ClearVolume
  <1>7. CASE Playing(c) \/ Revoke(c) \/ DeviceEnded(c) \/ LoopFails(c) \/ JoinThreads(c)
    BY <1>7 DEF Playing, Revoke, DeviceEnded, LoopFails, JoinThreads
  <1>8. CASE RecordFormat(c)
    BY <1>8 DEF RecordFormat, InLoop
  <1> QED
    BY <1>1, <1>2, <1>3, <1>4, <1>5, <1>6, <1>7, <1>8 DEF SessionStep, WorldStep

LEMMA DueSession ==
  ASSUME IInv, DueInv, NEW c \in Call, SessionStep(c) \/ WorldStep(c)
  PROVE  DueInv'
  <1>1. /\ UNCHANGED <<handler, number, generation>>
        /\ \A d \in Call : Newest(d)' <=> Newest(d)
    BY SharedEffect DEF handlerVars, Newest
  <1>2. SenderDue'
    <2> SUFFICES ASSUME active' # NoCall
                 PROVE  \E d \in Call :
                            \/ handler[d] \in {"installed", "taken"}
                            \/ /\ Newest(d)
                               /\ task'[d] \notin {"clearingDetails", "clearingVolume",
                                                   "done"}
      BY <1>1 DEF SenderDue
    <2>1. PICK d \in Call :
              \/ handler[d] \in {"installed", "taken"}
              \/ /\ Newest(d)
                 /\ task[d] \notin {"clearingDetails", "clearingVolume", "done"}
      BY SharedEffect DEF SenderDue, DueInv
    <2>2. Newest(d) /\ task[d] \notin {"clearingDetails", "clearingVolume", "done"}
            => task'[d] \notin {"clearingDetails", "clearingVolume", "done"}
      BY SharedEffect
    <2> QED
      BY <2>1, <2>2
  <1>3. DetailsDue'
    <2> SUFFICES ASSUME details' # NoDetails
                 PROVE  \E d \in Call : Newest(d) /\ task'[d] \notin {"clearingVolume", "done"}
      BY <1>1 DEF DetailsDue
    <2>1. CASE details' = details
      <3>1. PICK d \in Call : Newest(d) /\ task[d] \notin {"clearingVolume", "done"}
        BY <2>1 DEF DetailsDue, DueInv
      <3>2. task'[d] \notin {"clearingVolume", "done"}
        BY <3>1, SharedEffect
      <3> QED
        BY <3>1, <3>2
    <2>2. CASE details' # details
      BY <2>2, NewestWaits, SharedEffect
    <2> QED
      BY <2>1, <2>2
  <1>4. VolumeDue'
    <2> SUFFICES ASSUME volumeTx' # NoCall
                 PROVE  \E d \in Call : Newest(d) /\ task'[d] # "done"
      BY <1>1 DEF VolumeDue
    <2>1. CASE volumeTx' = volumeTx
      <3>1. PICK d \in Call : Newest(d) /\ task[d] # "done"
        BY <2>1 DEF VolumeDue, DueInv
      <3>2. task'[d] # "done"
        BY <3>1, SharedEffect
      <3> QED
        BY <3>1, <3>2
    <2>2. CASE volumeTx' # volumeTx
      BY <2>2, NewestWaits, SharedEffect
    <2> QED
      BY <2>1, <2>2
  <1> QED
    BY <1>2, <1>3, <1>4 DEF DueInv

(* run's end: once every session is over, no stop sender, details or volume  *)
(* channel of any of them is left in SharedState, unless handlers have       *)
(* crossed.                                                                  *)
THEOREM NothingLeftOver == Spec => []QuiescentClean
  <1>1. IInv /\ DueInv /\ [Next]_vars => DueInv'
    <2> SUFFICES ASSUME IInv, DueInv, [Next]_vars PROVE DueInv'
      OBVIOUS
    <2>1. CASE StopCast
      <3>1. /\ UNCHANGED <<handler, number, generation, task, details, volumeTx>>
            /\ active' = NoCall
        BY <2>1 DEF StopCast, handlerVars, taskVars, shownVars
      <3> QED
        BY <3>1 DEF DueInv, SenderDue, DetailsDue, VolumeDue, Newest
    <2>2. CASE UNCHANGED vars
      BY <2>2 DEF vars, handlerVars, stopVars, taskVars, shownVars, DueInv,
                  SenderDue, DetailsDue, VolumeDue, Newest
    <2> QED
      BY <2>1, <2>2, DueHandler, DueSession DEF Next
  <1>2. /\ (~crossed => IInv) /\ (~crossed => DueInv) /\ [Next]_vars
        => (~crossed => DueInv)'
    BY <1>1, CrossedStays
  <1>3. IInv /\ DueInv => QuiescentClean
    <2> SUFFICES ASSUME IInv, DueInv, Quiescent
                 PROVE  active = NoCall /\ details = NoDetails /\ volumeTx = NoCall
      BY DEF QuiescentClean
    <2>1. \A c \in Call : Newest(c) => task[c] = "done"
      BY DEF Quiescent, Newest, IInv, HandlerInv, BeforeNumber, InProgress
    <2> QED
      BY <2>1 DEF Quiescent, InProgress, DueInv, SenderDue, DetailsDue, VolumeDue
  <1>4. (~crossed => IInv) /\ (~crossed => DueInv) => QuiescentClean
    BY <1>3 DEF QuiescentClean
  <1>5. Init => (~crossed => DueInv)
    BY DueInit
  <1> QED
    BY <1>2, <1>4, <1>5, OrderCorrect, PTL DEF Spec

-----------------------------------------------------------------------------
(* A session can always be told to stop, however calls overlap.            *)

Installed(c) == handler[c] \notin {"idle", "refused", "accepted"}

(* The stop sender of each call is in `active`, or its channel has resolved, *)
(* and never both.                                                           *)
StopInReach ==
    /\ \A c \in Call : Installed(c) <=> (active = c \/ c \in resolved)
    /\ active \notin resolved

StopTyped == handler \in [Call -> HandlerState] /\ active \in MaybeCall /\ resolved \subseteq Call

(* The steps that leave the stop channels alone and install nothing. *)
LEMMA StopAside ==
    ASSUME StopTyped, StopInReach, UNCHANGED stopVars,
           \A c \in Call : Installed(c)' <=> Installed(c)
    PROVE  StopInReach'
  BY DEF StopInReach, stopVars

LEMMA StopStep == StopTyped /\ StopInReach /\ [Next]_vars => StopInReach'
  <1> SUFFICES ASSUME StopTyped, StopInReach, [Next]_vars PROVE StopInReach'
    OBVIOUS
  <1>1. CASE StopCast
    BY <1>1, CallAssumption DEF StopCast, StopTyped, StopInReach, MaybeCall, Installed, handlerVars
  <1>2. ASSUME NEW c \in Call, HandlerStep(c) PROVE StopInReach'
    <2>1. CASE InstallStop(c)
      <3>1. handler[c] = "accepted" /\ handler' = [handler EXCEPT ![c] = "installed"]
        BY <2>1 DEF InstallStop, Advance
      <3>2. active' = c /\ resolved' = resolved \cup ({active} \ {NoCall})
        BY <2>1 DEF InstallStop
      <3>3. ~Installed(c) /\ Installed(c)'
        BY <3>1 DEF Installed, StopTyped
      <3>4. \A d \in Call \ {c} : Installed(d)' <=> Installed(d)
        BY <3>1 DEF Installed, StopTyped
      <3>5. active # c /\ c \notin resolved
        BY <3>3 DEF StopInReach
      <3> QED
        BY <3>2, <3>3, <3>4, <3>5, CallAssumption DEF StopInReach, StopTyped, MaybeCall
    <2>2. CASE ~InstallStop(c)
      <3> USE <1>2, <2>2 DEF HandlerStep
      <3>1. UNCHANGED stopVars
        BY DEF Accept, Refuse, TakePrevious, TakeNumber, SpawnTask, StoreTask
      <3>2. PICK to \in HandlerState : /\ handler' = [handler EXCEPT ![c] = to]
                                       /\ Installed(c) <=> to \notin {"idle", "refused", "accepted"}
        BY DEF Accept, Refuse, TakePrevious, TakeNumber, SpawnTask, StoreTask,
               Advance, HandlerState, Installed
      <3>3. \A d \in Call : Installed(d)' <=> Installed(d)
        BY <3>2 DEF Installed, StopTyped
      <3> QED
        BY <3>1, <3>3, StopAside
    <2> QED
      BY <2>1, <2>2
  <1>3. ASSUME NEW c \in Call, SessionStep(c) \/ WorldStep(c) PROVE StopInReach'
    <2>1. UNCHANGED handler
      <3>1. CASE Begin(c)
        BY <3>1 DEF Begin, handlerVars
      <3>2. CASE ~Begin(c)
        BY <1>3, <3>2, SessionMoves DEF handlerVars
      <3> QED
        BY <3>1, <3>2
    <2>2. CASE TakeStop(c)
      BY <2>1, <2>2, CallAssumption DEF TakeStop, StopInReach, StopTyped, Installed, MaybeCall
    <2>3. CASE ~TakeStop(c)
      <3>1. UNCHANGED stopVars
        BY <1>3, <2>3 DEF SessionStep, WorldStep, Begin, SetupVolume, OpenCapture,
             CaptureFails, Negotiated, MirroringUnavailable, SetupFails, FallbackReady,
             Playing, Announce, WatchPortal, Revoke, RecordFormat, StopRequested,
             CaptureClosed, DeviceEnded, LoopFails, CloseCapture, ReportIdle,
             JoinThreads, ReportError, CheckNewest, ClearDetails, ClearVolume
      <3> QED
        BY <2>1, <3>1, StopAside DEF Installed
    <2> QED
      BY <2>2, <2>3
  <1>4. CASE UNCHANGED vars
    BY <1>4, StopAside DEF vars, handlerVars, stopVars, Installed
  <1> QED
    BY <1>1, <1>2, <1>3, <1>4 DEF Next

(* "Dropping the sender stops the running cast session": however calls       *)
(* overlap, the stop sender of every session is where the next StartCast or  *)
(* StopCast finds it, or that session has been told already, so none runs on *)
(* that nobody can stop.                                                     *)
THEOREM SessionsStoppable == Spec => []StopInReach
  <1>1. Init => StopInReach
    BY CallAssumption DEF Init, StopInReach, Installed
  <1>2. TypeOK => StopTyped
    BY DEF TypeOK, HandlersOK, StopTyped
  <1> QED
    BY <1>1, <1>2, StopStep, TypeCorrect, PTL DEF Spec

=============================================================================
