---------------------------- MODULE ChunkChannel ----------------------------
(***************************************************************************)
(* The queue that carries encoded chunks from the appsink callbacks to the *)
(* sender thread (ChunkQueue of sender.rs): a deque under a mutex, a       *)
(* condition variable and a count of the senders that live.                *)
(*                                                                         *)
(* A push happens under the mutex; its notification, and the notification  *)
(* of the last drop, happen outside it.  The receiver holds the mutex from *)
(* its first look at the queue until it waits, and takes it again to wake. *)
(***************************************************************************)
EXTENDS Integers, Sequences, FiniteSets

CONSTANTS
    Producer,   \* the handles that may exist, one per appsink and the first
    First,      \* the handle chunk_channel returns
    MaxChunks,  \* bound on the chunks one producer sends
    MaxQueue    \* bound on the length of the queue, which the code does not bound

ASSUME ProducerAssumption == IsFiniteSet(Producer) /\ First \in Producer
ASSUME BoundAssumption == MaxChunks \in Nat /\ MaxQueue \in Nat

Chunk == Producer \X (0 .. MaxChunks - 1)

VARIABLES
    handle,    \* the state of each producer's handle
    sent,      \* how many chunks each producer pushed
    queue,     \* the deque
    senders,   \* the count of live senders
    receiver,  \* where recv_timeout stands, or how the loop ended
    returned,  \* the chunk recv_timeout returned last, if any
    stop       \* MediaSender's stop flag

channelVars == <<handle, sent, queue, senders, receiver, returned, stop>>

(* "sent": pushed, not yet notified; "dropping": counted down, last, not yet  *)
(* notified.                                                                 *)
HandleState == {"none", "live", "sent", "dropping", "gone"}

(* "locked": the mutex is held and the queue was found empty; "counted": the  *)
(* senders were found alive; "waiting": parked; "woken": must lock again.    *)
ReceiverState == {"idle", "entering", "locked", "counted", "waiting", "woken",
                  "disconnected", "stopped"}

(* Every variable has its type; the count of senders never goes below zero. *)
ChannelTypeOK ==
    /\ handle \in [Producer -> HandleState]
    /\ sent \in [Producer -> Nat]
    /\ queue \in Seq(Chunk)
    /\ senders \in Nat
    /\ receiver \in ReceiverState
    /\ returned \in Seq(Chunk)
    /\ stop \in BOOLEAN

ChannelInit ==
    /\ handle = [p \in Producer |-> IF p = First THEN "live" ELSE "none"]
    /\ sent = [p \in Producer |-> 0]
    /\ queue = <<>>
    /\ senders = 1
    /\ receiver = "idle"
    /\ returned = <<>>
    /\ stop = FALSE

Locked == receiver \in {"locked", "counted"}

-----------------------------------------------------------------------------
(* The producers.                                                          *)

Clone(p, q) ==
    /\ handle[p] = "live"
    /\ handle[q] = "none"
    /\ handle' = [handle EXCEPT ![q] = "live"]
    /\ senders' = senders + 1
    /\ UNCHANGED <<sent, queue, receiver, returned, stop>>

(* push_back under the mutex *)
Push(p) ==
    /\ handle[p] = "live"
    /\ ~Locked
    /\ sent[p] < MaxChunks
    /\ Len(queue) < MaxQueue
    /\ handle' = [handle EXCEPT ![p] = "sent"]
    /\ sent' = [sent EXCEPT ![p] = @ + 1]
    /\ queue' = Append(queue, <<p, sent[p]>>)
    /\ UNCHANGED <<senders, receiver, returned, stop>>

(* A notification reaches the receiver only while it is parked. *)
Wake == receiver' = IF receiver = "waiting" THEN "woken" ELSE receiver

NotifyOne(p) ==
    /\ handle[p] = "sent"
    /\ handle' = [handle EXCEPT ![p] = "live"]
    /\ Wake
    /\ UNCHANGED <<sent, queue, senders, returned, stop>>

(* The last sender to go owes the receiver a notification. *)
DropHandle(p) ==
    /\ handle[p] = "live"
    /\ senders' = senders - 1
    /\ handle' = [handle EXCEPT ![p] = IF senders = 1 THEN "dropping" ELSE "gone"]
    /\ UNCHANGED <<sent, queue, receiver, returned, stop>>

NotifyAll(p) ==
    /\ handle[p] = "dropping"
    /\ handle' = [handle EXCEPT ![p] = "gone"]
    /\ Wake
    /\ UNCHANGED <<sent, queue, senders, returned, stop>>

-----------------------------------------------------------------------------
(* The sender thread.                                                      *)

(* Mutant: the newest chunk first (pop_back). *)
PopNewest(next) ==
    /\ queue # <<>>
    /\ returned' = <<queue[Len(queue)]>>
    /\ queue' = SubSeq(queue, 1, Len(queue) - 1)
    /\ receiver' = next

Pop(next) ==
    /\ queue # <<>>
    /\ returned' = <<Head(queue)>>
    /\ queue' = Tail(queue)
    /\ receiver' = next

(* Mutant: the stop flag is forgotten. *)
CheckStopNever ==
    /\ receiver = "idle"
    /\ receiver' = "entering"
    /\ UNCHANGED <<handle, sent, queue, senders, returned, stop>>

(* The top of the loop. *)
CheckStop ==
    /\ receiver = "idle"
    /\ receiver' = IF stop THEN "stopped" ELSE "entering"
    /\ UNCHANGED <<handle, sent, queue, senders, returned, stop>>

(* recv_timeout locks and looks. *)
ReceiveNow ==
    /\ receiver = "entering"
    /\ Pop("idle")
    /\ UNCHANGED <<handle, sent, senders, stop>>

FindEmpty ==
    /\ receiver = "entering"
    /\ queue = <<>>
    /\ receiver' = "locked"
    /\ UNCHANGED <<handle, sent, queue, senders, returned, stop>>

CheckSenders ==
    /\ receiver = "locked"
    /\ receiver' = IF senders = 0 THEN "disconnected" ELSE "counted"
    /\ UNCHANGED <<handle, sent, queue, senders, returned, stop>>

(* wait_for parks and unlocks in one step. *)
Park ==
    /\ receiver = "counted"
    /\ receiver' = "waiting"
    /\ UNCHANGED <<handle, sent, queue, senders, returned, stop>>

(* Mutant: wait instead of wait_for, no wakeup but a notification. *)
TimeOutNever == FALSE

(* TICK has passed, or a spurious wakeup. *)
TimeOut ==
    /\ receiver = "waiting"
    /\ receiver' = "woken"
    /\ UNCHANGED <<handle, sent, queue, senders, returned, stop>>

(* Locked again: a chunk, or Timeout; either way the loop goes on. *)
ReceiveWoken ==
    /\ receiver = "woken"
    /\ Pop("idle")
    /\ UNCHANGED <<handle, sent, senders, stop>>

GiveUp ==
    /\ receiver = "woken"
    /\ queue = <<>>
    /\ receiver' = "idle"
    /\ UNCHANGED <<handle, sent, queue, senders, returned, stop>>

(* MediaSender is dropped by the session. *)
RequestStop ==
    /\ ~stop
    /\ stop' = TRUE
    /\ UNCHANGED <<handle, sent, queue, senders, receiver, returned>>

-----------------------------------------------------------------------------
ProducerStep ==
    \/ \E p, q \in Producer : Clone(p, q)
    \/ \E p \in Producer :
          Push(p) \/ NotifyOne(p) \/ DropHandle(p) \/ NotifyAll(p)

ReceiverStep ==
    \/ CheckStop \/ ReceiveNow \/ FindEmpty \/ CheckSenders \/ Park \/ TimeOut
    \/ ReceiveWoken \/ GiveUp

ChannelNext == ProducerStep \/ ReceiverStep \/ RequestStop

ChannelSpec == ChannelInit /\ [][ChannelNext]_channelVars

(* The thread runs; whether anyone stops it or sends is not its business. *)
ChannelFairSpec == ChannelSpec /\ WF_channelVars(ReceiverStep)

-----------------------------------------------------------------------------
(* Properties.                                                             *)

(* Handles that can still send. *)
Live == {p \in Producer : handle[p] \in {"live", "sent"}}

(* Every live handle is counted, and only those. *)
SendersCounted == senders = Cardinality(Live)

(* "Buffered chunks are drained before a disconnect is reported": the loop   *)
(* never ends on a disconnect with a chunk unsent, or with one still to come. *)
DrainedFirst ==
    receiver = "disconnected" => queue = <<>> /\ Live = {}

(* The channel is the mailbox it stands for. *)
Mailbox == INSTANCE ChunkMailbox WITH
    live <- Live,
    buffered <- queue,
    last <- returned,
    ended <- receiver = "disconnected"

IsMailbox == Mailbox!BoxSpec

(* Once the last handle is gone the thread ends, although the notification   *)
(* of the last drop may come between the count and the wait and be lost.     *)
EndsAfterLastDrop == (Live = {}) ~> receiver \in {"disconnected", "stopped"}

(* Dropping MediaSender ends the thread even while callbacks keep their      *)
(* handles, so the join in Drop returns.                                     *)
StopEnds == stop ~> receiver \in {"disconnected", "stopped"}
=============================================================================
