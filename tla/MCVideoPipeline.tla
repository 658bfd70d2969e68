--------------------------- MODULE MCVideoPipeline ---------------------------
(***************************************************************************)
(* The video pipeline for TLC, with the capacities of the code on both     *)
(* sides of the encoder and a capture channel of two frames.               *)
(***************************************************************************)
EXTENDS VideoPipeline
=============================================================================
