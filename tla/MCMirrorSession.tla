-------------------------- MODULE MCMirrorSession ---------------------------
(* Two casts, one after the other, to one receiver. *)
EXTENDS MirrorSession
=============================================================================
