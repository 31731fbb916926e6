---------------------------- MODULE MCRateControl ----------------------------
(* The default range in kbit/s (quality.rs); a dead, a bad, a fair and a     *)
(* generous link.                                                            *)
EXTENDS RateControl

Throughputs == {0, 200, 1000, 7000}
=============================================================================
