---------------------------- MODULE MCRtcChannel -----------------------------
(* Model of RtcChannel: five frames through a ring of three and a queue of   *)
(* two; frame 4 is another sender's, frames 1, 3 and 5 are quiet.            *)
EXTENDS RtcChannel
=============================================================================
