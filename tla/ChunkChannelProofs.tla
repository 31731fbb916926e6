------------------------- MODULE ChunkChannelProofs -------------------------
(***************************************************************************)
(* Theorems about ChunkChannel, for any number of producers and chunks.    *)
(* The count of senders is the number of live handles, and while the       *)
(* receiver holds the mutex the queue stays as empty as it found it: so    *)
(* when the count is zero there is nothing left and nobody to add to it.   *)
(***************************************************************************)
EXTENDS ChunkChannel, FiniteSetTheorems, TLAPS

LockedInv == Locked => queue = <<>>

CInv == ChannelTypeOK /\ SendersCounted /\ LockedInv /\ DrainedFirst

LEMMA LiveFinite == IsFiniteSet(Live) /\ Cardinality(Live) \in Nat
  BY ProducerAssumption, FS_Subset, FS_CardinalityType DEF Live

(* The chunk a producer pushes next is a chunk within the bound. *)
LEMMA PushedChunk ==
  ASSUME ChannelTypeOK, NEW p \in Producer, sent[p] < MaxChunks
  PROVE  <<p, sent[p]>> \in Chunk
  BY BoundAssumption DEF ChannelTypeOK, Chunk

LEMMA TypeStep ==
    ChannelTypeOK /\ SendersCounted /\ [ChannelNext]_channelVars => ChannelTypeOK'
  <1> SUFFICES ASSUME ChannelTypeOK, SendersCounted, [ChannelNext]_channelVars
               PROVE  ChannelTypeOK'
    OBVIOUS
  <1> USE DEF ChannelTypeOK, HandleState, ReceiverState
  <1>1. ASSUME NEW p \in Producer, NEW q \in Producer, Clone(p, q)
        PROVE  ChannelTypeOK'
    BY <1>1 DEF Clone
  <1>2. ASSUME NEW p \in Producer, Push(p) PROVE ChannelTypeOK'
    <2>1. queue' \in Seq(Chunk)
      BY <1>2, PushedChunk DEF Push
    <2>2. handle' \in [Producer -> HandleState] /\ sent' \in [Producer -> Nat]
      BY <1>2 DEF Push
    <2> QED
      BY <1>2, <2>1, <2>2 DEF Push
  <1>3. ASSUME NEW p \in Producer, NotifyOne(p) \/ NotifyAll(p) PROVE ChannelTypeOK'
    BY <1>3 DEF NotifyOne, NotifyAll, Wake
  <1>4. ASSUME NEW p \in Producer, DropHandle(p) PROVE ChannelTypeOK'
    <2>1. Live # {}
      BY <1>4 DEF DropHandle, Live
    <2>2. senders # 0
      BY <2>1, LiveFinite, FS_EmptySet DEF SendersCounted
    <2> QED
      BY <1>4, <2>2 DEF DropHandle
  <1>5. CASE ReceiveNow \/ ReceiveWoken
    <2>1. queue # <<>> /\ queue' = Tail(queue) /\ returned' = <<Head(queue)>>
      BY <1>5 DEF ReceiveNow, ReceiveWoken, Pop
    <2>2. Head(queue) \in Chunk /\ Tail(queue) \in Seq(Chunk)
      BY <2>1
    <2>3. receiver' = "idle" /\ UNCHANGED <<handle, sent, senders, stop>>
      BY <1>5 DEF ReceiveNow, ReceiveWoken, Pop
    <2> QED
      BY <2>1, <2>2, <2>3
  <1>6. CASE CheckStop \/ FindEmpty \/ CheckSenders \/ Park \/ TimeOut \/ GiveUp
             \/ RequestStop
    BY <1>6 DEF CheckStop, FindEmpty, CheckSenders, Park, TimeOut, GiveUp,
                RequestStop
  <1>7. CASE UNCHANGED channelVars
    BY <1>7 DEF channelVars
  <1> QED
    BY <1>1, <1>2, <1>3, <1>4, <1>5, <1>6, <1>7
    DEF ChannelNext, ProducerStep, ReceiverStep

(* Live handles come and go one at a time. *)
LEMMA CountStep ==
    ChannelTypeOK /\ SendersCounted /\ [ChannelNext]_channelVars => SendersCounted'
  <1> SUFFICES ASSUME ChannelTypeOK, SendersCounted, [ChannelNext]_channelVars
               PROVE  SendersCounted'
    OBVIOUS
  <1>1. ASSUME NEW p \in Producer, NEW q \in Producer, Clone(p, q)
        PROVE  SendersCounted'
    <2>1. Live' = Live \cup {q} /\ q \notin Live
      BY <1>1 DEF Clone, Live, ChannelTypeOK
    <2>2. Cardinality(Live') = Cardinality(Live) + 1
      BY <2>1, LiveFinite, FS_AddElement
    <2> QED
      BY <1>1, <2>2 DEF Clone, SendersCounted
  <1>2. ASSUME NEW p \in Producer, DropHandle(p) PROVE SendersCounted'
    <2>1. Live' = Live \ {p} /\ p \in Live
      BY <1>2 DEF DropHandle, Live, ChannelTypeOK
    <2>2. Cardinality(Live') = Cardinality(Live) - 1
      BY <2>1, LiveFinite, FS_RemoveElement
    <2> QED
      BY <1>2, <2>2 DEF DropHandle, SendersCounted
  <1>3. ASSUME UNCHANGED senders, Live' = Live PROVE SendersCounted'
    BY <1>3 DEF SendersCounted
  <1>4. ASSUME NEW p \in Producer, Push(p) \/ NotifyOne(p) \/ NotifyAll(p)
        PROVE  UNCHANGED senders /\ Live' = Live
    BY <1>4 DEF Push, NotifyOne, NotifyAll, Live, ChannelTypeOK
  <1>5. CASE ReceiverStep \/ RequestStop \/ UNCHANGED channelVars
    <2>1. UNCHANGED <<handle, senders>>
      BY <1>5 DEF ReceiverStep, CheckStop, ReceiveNow, FindEmpty, CheckSenders,
                  Park, TimeOut, ReceiveWoken, GiveUp, RequestStop, channelVars
    <2> QED
      BY <1>3, <2>1 DEF Live
  <1> QED
    BY <1>1, <1>2, <1>3, <1>4, <1>5 DEF ChannelNext, ProducerStep

(* Nobody pushes while the receiver holds the mutex. *)
LEMMA LockStep ==
    ChannelTypeOK /\ LockedInv /\ [ChannelNext]_channelVars => LockedInv'
  <1> SUFFICES ASSUME ChannelTypeOK, LockedInv, [ChannelNext]_channelVars
               PROVE  LockedInv'
    OBVIOUS
  <1> USE DEF LockedInv, Locked
  <1>1. ASSUME NEW p \in Producer, NEW q \in Producer, Clone(p, q) PROVE LockedInv'
    BY <1>1 DEF Clone
  <1>2. ASSUME NEW p \in Producer,
               Push(p) \/ NotifyOne(p) \/ DropHandle(p) \/ NotifyAll(p)
        PROVE  LockedInv'
    BY <1>2 DEF Push, NotifyOne, DropHandle, NotifyAll, Wake
  <1>3. CASE ReceiverStep \/ RequestStop \/ UNCHANGED channelVars
    BY <1>3 DEF ReceiverStep, CheckStop, ReceiveNow, FindEmpty, CheckSenders,
                Park, TimeOut, ReceiveWoken, GiveUp, Pop, RequestStop, channelVars
  <1> QED
    BY <1>1, <1>2, <1>3 DEF ChannelNext, ProducerStep

LEMMA NoSendersNoLive == ChannelTypeOK /\ SendersCounted /\ senders = 0 => Live = {}
  BY LiveFinite, FS_EmptySet DEF SendersCounted

(* Once no handle is live none can come back to life: a clone needs one. *)
LEMMA DrainStep == CInv /\ [ChannelNext]_channelVars => DrainedFirst'
  <1> SUFFICES ASSUME CInv, [ChannelNext]_channelVars PROVE DrainedFirst'
    OBVIOUS
  <1> USE DEF CInv, DrainedFirst
  <1>1. ASSUME NEW p \in Producer, NEW q \in Producer, Clone(p, q)
        PROVE  DrainedFirst'
    BY <1>1 DEF Clone, Live
  <1>2. ASSUME NEW p \in Producer, Push(p) \/ NotifyOne(p)
        PROVE  DrainedFirst'
    BY <1>2 DEF Push, NotifyOne, Live, Wake
  <1>3. ASSUME NEW p \in Producer, DropHandle(p) \/ NotifyAll(p)
        PROVE  DrainedFirst'
    BY <1>3 DEF DropHandle, NotifyAll, Live, Wake, ChannelTypeOK
  <1>4. CASE CheckSenders
    BY <1>4, NoSendersNoLive DEF CheckSenders, LockedInv, Locked, Live
  <1>5. CASE CheckStop \/ ReceiveNow \/ FindEmpty \/ Park \/ TimeOut
             \/ ReceiveWoken \/ GiveUp \/ RequestStop \/ UNCHANGED channelVars
    BY <1>5 DEF CheckStop, ReceiveNow, FindEmpty, Park, TimeOut, ReceiveWoken,
                GiveUp, Pop, RequestStop, channelVars, Live
  <1> QED
    BY <1>1, <1>2, <1>3, <1>4, <1>5 DEF ChannelNext, ProducerStep, ReceiverStep

LEMMA ChannelStarts == ChannelInit => CInv
  <1> SUFFICES ASSUME ChannelInit PROVE CInv
    OBVIOUS
  <1>1. ChannelTypeOK
    <2>1. handle \in [Producer -> HandleState] /\ sent \in [Producer -> Nat]
      BY DEF ChannelInit, HandleState
    <2>2. queue \in Seq(Chunk) /\ returned \in Seq(Chunk)
      BY DEF ChannelInit
    <2>3. senders \in Nat /\ receiver \in ReceiverState /\ stop \in BOOLEAN
      BY DEF ChannelInit, ReceiverState
    <2> QED
      BY <2>1, <2>2, <2>3 DEF ChannelTypeOK
  <1>2. Live = {First}
    BY ProducerAssumption DEF ChannelInit, Live
  <1>3. SendersCounted
    BY <1>2, FS_Singleton DEF ChannelInit, SendersCounted
  <1> QED
    BY <1>1, <1>3 DEF ChannelInit, CInv, LockedInv, Locked, DrainedFirst

THEOREM ChannelCorrect == ChannelSpec => []CInv
  <1>1. CInv /\ [ChannelNext]_channelVars => CInv'
    BY TypeStep, CountStep, LockStep, DrainStep DEF CInv
  <1> QED
    BY <1>1, ChannelStarts, PTL DEF ChannelSpec

(* recv_timeout: the disconnect is reported only when every buffered chunk   *)
(* has been received and no handle is left that could send another.          *)
THEOREM DisconnectLast == ChannelSpec => []DrainedFirst
  BY ChannelCorrect, PTL DEF CInv

(* The senders counter never underflows and is always the live handles.      *)
THEOREM CountCorrect == ChannelSpec => []SendersCounted
  BY ChannelCorrect, PTL DEF CInv

-----------------------------------------------------------------------------
(* Wake-ups.                                                               *)

(* The receiver is not parked over a chunk unless a producer is about to     *)
(* notify it.  (Of the last drop this is not so: it counts down without the  *)
(* mutex, so that its notification may come before the receiver parks, and   *)
(* only the time limit ends that wait.)                                      *)
ChunkWakes ==
    receiver = "waiting" /\ queue # <<>> => \E p \in Producer : handle[p] = "sent"

LEMMA WakeStep ==
    ChannelTypeOK /\ LockedInv /\ ChunkWakes /\ [ChannelNext]_channelVars => ChunkWakes'
  <1> SUFFICES ASSUME ChannelTypeOK, LockedInv, ChunkWakes, [ChannelNext]_channelVars
               PROVE  ChunkWakes'
    OBVIOUS
  <1>0. handle \in [Producer -> HandleState]
    BY DEF ChannelTypeOK
  <1>1. ASSUME NEW p \in Producer, NEW q \in Producer, Clone(p, q)
        PROVE  ChunkWakes'
    BY <1>0, <1>1 DEF Clone, ChunkWakes
  <1>2. ASSUME NEW p \in Producer, Push(p)
        PROVE  ChunkWakes'
    BY <1>0, <1>2 DEF Push, ChunkWakes
  <1>3. ASSUME NEW p \in Producer, NotifyOne(p) \/ NotifyAll(p)
        PROVE  ChunkWakes'
    <2>1. receiver' # "waiting"
      BY <1>3 DEF NotifyOne, NotifyAll, Wake
    <2> QED
      BY <2>1 DEF ChunkWakes
  <1>4. ASSUME NEW p \in Producer, DropHandle(p)
        PROVE  ChunkWakes'
    <2>1. /\ receiver' = receiver /\ queue' = queue /\ handle[p] = "live"
          /\ \A q \in Producer : q # p => handle'[q] = handle[q]
      BY <1>0, <1>4 DEF DropHandle
    <2> QED
      BY <2>1 DEF ChunkWakes
  <1>5. CASE Park
    BY <1>5 DEF Park, LockedInv, Locked, ChunkWakes
  <1>6. CASE CheckStop \/ ReceiveNow \/ FindEmpty \/ CheckSenders \/ TimeOut
             \/ ReceiveWoken \/ GiveUp
    <2>1. receiver' # "waiting"
      BY <1>6 DEF CheckStop, ReceiveNow, FindEmpty, CheckSenders, TimeOut,
                  ReceiveWoken, GiveUp, Pop
    <2> QED
      BY <2>1 DEF ChunkWakes
  <1>7. CASE RequestStop \/ UNCHANGED channelVars
    BY <1>7 DEF RequestStop, channelVars, ChunkWakes
  <1> QED
    BY <1>1, <1>2, <1>3, <1>4, <1>5, <1>6, <1>7
    DEF ChannelNext, ProducerStep, ReceiverStep

(* send pushes under the mutex and recv_timeout keeps it from its look to    *)
(* its wait: however many producers push and clone and go, the wake-up for a *)
(* chunk is never lost.                                                      *)
THEOREM NoChunkAsleep == ChannelSpec => []ChunkWakes
  <1>1. ChannelInit => ChunkWakes
    BY DEF ChannelInit, ChunkWakes
  <1>2. CInv /\ ChunkWakes /\ [ChannelNext]_channelVars => ChunkWakes'
    BY WakeStep DEF CInv
  <1> QED
    BY <1>1, <1>2, ChannelCorrect, PTL DEF ChannelSpec

-----------------------------------------------------------------------------
(* The refinement.                                                         *)

LEMMA MailboxInit == ChannelInit => Mailbox!BoxInit
  <1> SUFFICES ASSUME ChannelInit PROVE Mailbox!BoxInit
    OBVIOUS
  <1>1. Live = {First}
    BY ProducerAssumption DEF ChannelInit, Live
  <1> QED
    BY <1>1, ProducerAssumption DEF ChannelInit, Mailbox!BoxInit

LEMMA MailboxStep ==
  ASSUME CInv, [ChannelNext]_channelVars
  PROVE  [Mailbox!BoxNext]_(Mailbox!boxVars)
  <1> USE DEF CInv
  <1>0. ASSUME UNCHANGED <<queue, returned>>, Live' = Live,
               (receiver = "disconnected")' <=> (receiver = "disconnected")
        PROVE  UNCHANGED Mailbox!boxVars
    BY <1>0 DEF Mailbox!boxVars
  <1>1. ASSUME NEW p \in Producer, NEW q \in Producer, Clone(p, q)
        PROVE  Mailbox!BoxClone
    <2>1. p \in Live /\ q \in Producer \ Live /\ Live' = Live \cup {q}
      BY <1>1 DEF Clone, Live, ChannelTypeOK
    <2> QED
      BY <1>1, <2>1 DEF Clone, Mailbox!BoxClone
  <1>2. ASSUME NEW p \in Producer, Push(p) PROVE Mailbox!BoxSend
    <2>1. p \in Live /\ Live' = Live
      BY <1>2 DEF Push, Live, ChannelTypeOK
    <2>2. <<p, sent[p]>> \in Chunk
      BY <1>2, PushedChunk DEF Push
    <2> QED
      BY <1>2, <2>1, <2>2 DEF Push, Mailbox!BoxSend
  <1>3. ASSUME NEW p \in Producer, DropHandle(p) PROVE Mailbox!BoxDrop
    <2>1. p \in Live /\ Live' = Live \ {p}
      BY <1>3 DEF DropHandle, Live, ChannelTypeOK
    <2> QED
      BY <1>3, <2>1 DEF DropHandle, Mailbox!BoxDrop
  <1>4. ASSUME NEW p \in Producer, NotifyOne(p) \/ NotifyAll(p)
        PROVE  UNCHANGED Mailbox!boxVars
    <2>1. Live' = Live
      BY <1>4 DEF NotifyOne, NotifyAll, Live, ChannelTypeOK
    <2> QED
      BY <1>0, <1>4, <2>1 DEF NotifyOne, NotifyAll, Wake
  <1>5. CASE ReceiveNow \/ ReceiveWoken
    <2>1. Live' = Live
      BY <1>5 DEF ReceiveNow, ReceiveWoken, Live
    <2>2. Mailbox!BoxReceive
      BY <1>5, <2>1 DEF ReceiveNow, ReceiveWoken, Pop, Mailbox!BoxReceive
    <2> QED
      BY <2>2 DEF Mailbox!BoxNext
  <1>6. CASE CheckSenders
    <2>1. Live' = Live
      BY <1>6 DEF CheckSenders, Live
    <2>2. CASE senders = 0
      <3>1. Live = {} /\ queue = <<>>
        BY <1>6, <2>2, NoSendersNoLive DEF CheckSenders, LockedInv, Locked
      <3>2. Mailbox!BoxDisconnect
        BY <1>6, <2>1, <2>2, <3>1 DEF CheckSenders, Mailbox!BoxDisconnect
      <3> QED
        BY <3>2 DEF Mailbox!BoxNext
    <2>3. CASE senders # 0
      BY <1>0, <1>6, <2>1, <2>3 DEF CheckSenders
    <2> QED
      BY <2>2, <2>3
  <1>7. CASE CheckStop \/ FindEmpty \/ Park \/ TimeOut \/ GiveUp \/ RequestStop
             \/ UNCHANGED channelVars
    <2>1. Live' = Live
      BY <1>7 DEF CheckStop, FindEmpty, Park, TimeOut, GiveUp, RequestStop,
                               channelVars,
                  Live
    <2> QED
      BY <1>0, <1>7, <2>1 DEF CheckStop, FindEmpty, Park, TimeOut, GiveUp,
                              RequestStop, channelVars
  <1> QED
    BY <1>1, <1>2, <1>3, <1>4, <1>5, <1>6, <1>7
    DEF ChannelNext, ProducerStep, ReceiverStep, Mailbox!BoxNext

(* The queue with its mutex, its condition variable and its count is the     *)
(* mailbox its documentation promises: sends arrive once and in order, and   *)
(* the end is reported after the last of them.                               *)
THEOREM ChannelIsMailbox == ChannelSpec => IsMailbox
  <1>1. CInv /\ [ChannelNext]_channelVars => [Mailbox!BoxNext]_(Mailbox!boxVars)
    BY MailboxStep
  <1> QED
    BY <1>1, MailboxInit, ChannelCorrect, PTL
    DEF ChannelSpec, IsMailbox, Mailbox!BoxSpec
=============================================================================
