--------------------------- MODULE MCQmuxStreams ---------------------------
(* QmuxStreams on small instances; the constants are in the configurations. *)
EXTENDS QmuxStreams
=============================================================================
