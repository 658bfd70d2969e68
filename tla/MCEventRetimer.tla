--------------------------- MODULE MCEventRetimer ---------------------------
(***************************************************************************)
(* Instances of EventRetimer for TLC: two packets fill the buffer, so the  *)
(* third overflows it; timestamps before, at and well after the first one  *)
(* give targets in the past, now, and beyond MaxDelay.                     *)
(***************************************************************************)
EXTENDS EventRetimer
=============================================================================
