--------------------------- MODULE MCCastSessions ---------------------------
(* Two StartCast calls to a television and a speaker. *)
EXTENDS CastSessions, TLC

CONSTANTS c1, c2, tv, speaker

TwoCalls == {c1, c2}
BothReceivers == {tv, speaker}
OnlySpeaker == {speaker}
CallSymmetry == Permutations(TwoCalls)
=============================================================================
