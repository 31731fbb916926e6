------------------------------- MODULE MCSender -------------------------------
(* The parts of the mirror sender, which share no state, explored side by     *)
(* side: a behaviour is one of a single part.  They are the thread with its   *)
(* network and the channel into it (sender.rs), and the bitrate loop with the *)
(* ladder (bandwidth.rs).                                                     *)
EXTENDS MediaSender, ChunkChannel, RateControl

CONSTANTS first, video, audio

VARIABLE part

(* The network: one stream, whose second frame takes two packets. *)
OneStream == {video}
Sizes == [f \in 0 .. MaxFrames - 1 |-> IF f = 1 THEN 2 ELSE 1]

(* The channel: the handle of start_media, its clones in the two callbacks. *)
Handles == {first, video, audio}

(* The bitrate, with the default range in kbit/s (quality.rs): a dead, a bad, *)
(* a fair and a generous link.                                                *)
Throughputs == {0, 200, 1000, 7000}

-----------------------------------------------------------------------------
Parts == {"network", "channel", "rate"}

all == <<vars, channelVars, rateVars, part>>
OnNetwork(A) ==
    /\ part = "network" /\ A
    /\ UNCHANGED <<channelVars, rateVars, part>>
InChannel(A) ==
    /\ part = "channel" /\ A
    /\ UNCHANGED <<vars, rateVars, part>>
OfRate(A) ==
    /\ part = "rate" /\ A
    /\ UNCHANGED <<vars, channelVars, part>>

(* A part that is not explored rests in one of its initial states. *)
EitherInit ==
    /\ part \in Parts
    /\ Init /\ ChannelInit
    /\ RateInit /\ (part = "rate" \/ (autoRate /\ autoSize /\ link = 0))

EitherNext ==
    \/ OnNetwork(Next) \/ InChannel(ChannelNext) \/ OfRate(RateNext)

(* The fairness of the specifications. *)
EitherFair ==
    /\ WF_all(InChannel(ReceiverStep))
    /\ WF_all(OnNetwork(FeedbackLands))
    /\ \A s \in Stream :
          /\ WF_all(OnNetwork(SendReport(s))) /\ SF_all(OnNetwork(SendFeedback(s)))
          /\ SF_all(OnNetwork(CurrentHeard(s))) /\ SF_all(OnNetwork(NeededArrives(s)))
    /\ WF_all(OfRate(Interval)) /\ SF_all(OfRate(ControlRate))

EitherSpec == EitherInit /\ [][EitherNext]_all /\ EitherFair
=============================================================================
