-------------------------- MODULE MCMediaPipeline --------------------------
(* Instances of MediaPipeline: one upload and two workers.                 *)
EXTENDS MediaPipeline

CONSTANTS m1, w1, w2
=============================================================================
