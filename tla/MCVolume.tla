------------------------------ MODULE MCVolume -------------------------------
(* A quiet, a middle and a loud level. *)
EXTENDS Volume

Levels == {"low", "middle", "high"}
=============================================================================
