--------------------------- MODULE MCVadSegmenter ---------------------------
(***************************************************************************)
(* Frames come close together, one millisecond apart or (after the queue   *)
(* in front of the detector dropped some) a few apart, so that a candidate *)
(* dies, a speech ends, pauses and overflows within a few frames.          *)
(***************************************************************************)
EXTENDS VadSegmenter

FrameGaps == {0, 1, 3}
=============================================================================
