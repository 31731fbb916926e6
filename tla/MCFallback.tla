------------------------------ MODULE MCFallback -----------------------------
(* A player that connects twice, or three times. *)
EXTENDS Fallback

CONSTANTS r1, r2, r3

TwoRequests == {r1, r2}
ThreeRequests == {r1, r2, r3}
=============================================================================
