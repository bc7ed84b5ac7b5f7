--------------------------- MODULE MCFrameAssembly ---------------------------
(* FrameAssembly with a circle of a few azimuth units and packets of two   *)
(* blocks: a packet can hold the end of one frame and the start of the     *)
(* next, and the loss of one can hide the start angle itself.              *)
EXTENDS FrameAssembly

(* The hypotheses of the theorems about frames. *)
ASSUME SensorTurns == Turning /\ Roomy
=============================================================================
