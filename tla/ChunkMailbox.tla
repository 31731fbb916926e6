---------------------------- MODULE ChunkMailbox ----------------------------
(***************************************************************************)
(* What the chunk channel promises its users, in the terms of its own      *)
(* documentation ("buffered chunks are drained before a disconnect is      *)
(* reported, matching std::sync::mpsc"): chunks are received in the order  *)
(* they were sent, each once, and the end is reported only when every      *)
(* producer is gone and nothing is left to receive.                        *)
(***************************************************************************)
EXTENDS Naturals, Sequences

CONSTANTS Producer, Chunk

VARIABLES
    live,      \* producers that hold a sender
    buffered,  \* chunks sent and not received
    last,      \* what the last receive returned, if any
    ended      \* the disconnect has been reported
boxVars == <<live, buffered, last, ended>>

BoxInit ==
    /\ live \in {{p} : p \in Producer}
    /\ buffered = <<>>
    /\ last = <<>>
    /\ ended = FALSE

BoxClone == \E p \in live, q \in Producer \ live :
    /\ live' = live \cup {q}
    /\ UNCHANGED <<buffered, last, ended>>

BoxSend == \E p \in live, c \in Chunk :
    /\ buffered' = Append(buffered, c)
    /\ UNCHANGED <<live, last, ended>>

BoxDrop == \E p \in live :
    /\ live' = live \ {p}
    /\ UNCHANGED <<buffered, last, ended>>

BoxReceive ==
    /\ ~ended
    /\ buffered # <<>>
    /\ last' = <<Head(buffered)>>
    /\ buffered' = Tail(buffered)
    /\ UNCHANGED <<live, ended>>

BoxDisconnect ==
    /\ live = {} /\ buffered = <<>> /\ ~ended
    /\ ended' = TRUE
    /\ UNCHANGED <<live, buffered, last>>

BoxNext == BoxClone \/ BoxSend \/ BoxDrop \/ BoxReceive \/ BoxDisconnect

BoxSpec == BoxInit /\ [][BoxNext]_boxVars
=============================================================================
