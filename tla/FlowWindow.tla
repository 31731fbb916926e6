----------------------------- MODULE FlowWindow -----------------------------
(***************************************************************************)
(* What the ring of bandwidth.rs stands for: "recent history over equal    *)
(* slices".  Amounts are kept by the number of the slice they belong to;   *)
(* the last Slices of them count, the older ones are forgotten.  An amount *)
(* for a slice that is not the newest any more goes to the newest.         *)
(***************************************************************************)
EXTENDS Naturals

CONSTANTS
    Slices,   \* NUM_TIMESLICES
    Horizon,  \* the last slice there may be
    Most      \* the most that is counted at once

VARIABLES
    edge,     \* the newest slice
    kept      \* what each slice holds

windowVars == <<edge, kept>>

Later(a, b) == IF a >= b THEN a ELSE b

WindowInit ==
    /\ edge = 0
    /\ kept = [s \in 0 .. Horizon |-> 0]

(* The window ends at the slice to, unless it already ended later, and n     *)
(* goes into its last slice.                                                 *)
WindowTakes(n, to) ==
    /\ edge' = Later(edge, to)
    /\ kept' = [s \in 0 .. Horizon |->
                  (IF s + Slices > edge' THEN kept[s] ELSE 0)
                    + (IF s = edge' THEN n ELSE 0)]

WindowNext == \E n \in 0 .. Most, to \in 0 .. Horizon : WindowTakes(n, to)

WindowSpec == WindowInit /\ [][WindowNext]_windowVars
=============================================================================
