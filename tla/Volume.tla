------------------------------- MODULE Volume --------------------------------
(***************************************************************************)
(* The way of a volume level from SetVolume to the receiver: setup_volume  *)
(* of session.rs, the channel in SharedState (main.rs), the volume worker  *)
(* with a connection of its own (volume.rs), and the receiver.  One cast   *)
(* after another uses them, each with a worker and a channel of its own.   *)
(***************************************************************************)
EXTENDS Naturals, Sequences

CONSTANTS
    Level,       \* the levels a user may ask for
    MaxRequests  \* bound: requests that wait in the channel

VARIABLES
    session,    \* where the session stands
    volumeTx,   \* SharedState.volume_tx is a sender
    requests,   \* the channel's content; the worker owns the receiving half
    stop,       \* VolumeControl.stop
    worker,     \* where the worker thread stands
    connected,  \* the worker's manager is there
    asked,      \* the level the user asked for last, in this session
    shown,      \* SharedState.cast_volume, what the slider shows
    level       \* external: the receiver's volume

vars == <<session, volumeTx, requests, stop, worker, connected, asked, shown, level>>

Silent == "none"

(* Every variable has its type. *)
TypeOK ==
    /\ session \in {"idle", "setup", "installed", "dropping", "casting"}
    /\ volumeTx \in BOOLEAN /\ stop \in BOOLEAN /\ connected \in BOOLEAN
    /\ requests \in Seq(Level)
    /\ worker \in {"none", "checking", "backoff", "applying", "receiving", "ended"}
    /\ asked \in Level \cup {Silent}
    /\ shown \in Level /\ level \in Level

Init ==
    /\ session = "idle"
    /\ volumeTx = FALSE /\ stop = FALSE /\ connected = FALSE
    /\ requests = <<>>
    /\ worker = "none"
    /\ asked = Silent
    /\ shown \in Level /\ level \in Level

-----------------------------------------------------------------------------
(* VolumeControl::start: the worker runs, nobody knows its channel yet. *)
StartControl ==
    /\ session = "idle"
    /\ session' = "setup"
    /\ worker' = "checking"
    /\ stop' = FALSE /\ connected' = FALSE
    /\ requests' = <<>>
    /\ UNCHANGED <<volumeTx, asked, shown, level>>

(* set_volume_channel(Some). *)
InstallChannel ==
    /\ session = "setup"
    /\ session' = "installed"
    /\ volumeTx' = TRUE
    /\ UNCHANGED <<requests, stop, worker, connected, asked, shown, level>>

(* The end of setup_volume: its local variable `volume` is dropped, which    *)
(* asks the worker to stop and awaits it.                                    *)
DropControl ==
    /\ session = "installed"
    /\ session' = "dropping"
    /\ stop' = TRUE
    /\ UNCHANGED <<volumeTx, requests, worker, connected, asked, shown, level>>

JoinWorker ==
    /\ session = "dropping"
    /\ worker = "ended"
    /\ session' = "casting"
    /\ UNCHANGED <<volumeTx, requests, stop, worker, connected, asked, shown, level>>

(* The end of run. *)
ClearVolume ==
    /\ session = "casting"
    /\ session' = "idle"
    /\ volumeTx' = FALSE
    /\ asked' = Silent
    /\ UNCHANGED <<requests, stop, worker, connected, shown, level>>

(* SetVolume: a no-op when idle; a send to a channel without a receiver is   *)
(* an error nobody looks at.                                                 *)
RequestVolume(l) ==
    /\ volumeTx
    /\ Len(requests) < MaxRequests
    /\ requests' = IF worker = "ended" THEN requests ELSE Append(requests, l)
    /\ asked' = l
    /\ UNCHANGED <<session, volumeTx, stop, worker, connected, shown, level>>

-----------------------------------------------------------------------------
(* The worker.                                                             *)

Worker(from, to) == worker = from /\ worker' = to

(* The receiving half goes with the thread. *)
WorkerEnds ==
    /\ worker \in {"checking", "backoff"}
    /\ stop
    /\ worker' = "ended"
    /\ requests' = <<>>
    /\ UNCHANGED <<session, volumeTx, stop, connected, asked, shown, level>>

(* A new connection asks for the receiver's status, see Receive. *)
Connect ==
    /\ Worker("checking", "applying")
    /\ ~stop
    /\ connected' = TRUE
    /\ UNCHANGED <<session, volumeTx, requests, stop, asked, shown, level>>

ConnectFails ==
    /\ ~stop /\ ~connected
    /\ Worker("checking", "backoff")
    /\ UNCHANGED <<session, volumeTx, requests, stop, connected, asked, shown, level>>

BackedOff ==
    /\ ~stop
    /\ Worker("backoff", "checking")
    /\ UNCHANGED <<session, volumeTx, requests, stop, connected, asked, shown, level>>

(* The most recent of the levels that wait is set, if any waits. *)
Apply ==
    /\ Worker("applying", "receiving")
    /\ requests' = <<>>
    /\ IF requests = <<>> THEN UNCHANGED <<shown, level>>
       ELSE level' = requests[Len(requests)] /\ shown' = level'
    /\ UNCHANGED <<session, volumeTx, stop, connected, asked>>

(* The level that was taken from the channel is lost with the connection. *)
ApplyFails ==
    /\ requests # <<>>
    /\ Worker("applying", "checking")
    /\ requests' = <<>>
    /\ connected' = FALSE
    /\ UNCHANGED <<session, volumeTx, stop, asked, shown, level>>

(* The receiver's status or nothing within READ_TIMEOUT; or a broken connection. *)
Receive ==
    /\ Worker("receiving", "checking")
    /\ \/ shown' \in {shown, level} /\ UNCHANGED connected
       \/ connected' = FALSE /\ UNCHANGED shown
    /\ UNCHANGED <<session, volumeTx, requests, stop, asked, level>>

(* Somebody uses the remote control. *)
RemoteControl ==
    /\ level' \in Level
    /\ UNCHANGED <<session, volumeTx, requests, stop, worker, connected, asked, shown>>

-----------------------------------------------------------------------------
SessionStep == StartControl \/ InstallChannel \/ DropControl \/ JoinWorker
WorkerStep ==
    \/ WorkerEnds \/ Connect \/ ConnectFails \/ BackedOff
    \/ Apply \/ ApplyFails \/ Receive

Next ==
    \/ SessionStep \/ ClearVolume \/ WorkerStep \/ RemoteControl
    \/ \E l \in Level : RequestVolume(l)

Spec == Init /\ [][Next]_vars

(* The session's setup and the worker run, and the receiver can be reached *)
(* and written to again and again.                                         *)
FairSpec ==
    Spec /\ WF_vars(SessionStep) /\ WF_vars(WorkerStep)
         /\ SF_vars(Connect) /\ SF_vars(Apply)

-----------------------------------------------------------------------------
(* volume.rs: "a requested volume is applied within roughly this long", so a *)
(* level asked for during a cast reaches the receiver unless the user asks   *)
(* for another one first or the cast ends.                                   *)
RequestApplied ==
    \A l \in Level :
        (session = "casting" /\ asked = l) ~>
            (level = l \/ asked # l \/ session # "casting")
=============================================================================
