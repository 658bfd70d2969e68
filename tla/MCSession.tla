----------------------------- MODULE MCSession -----------------------------
(***************************************************************************)
(* The session for TLC: two connections, the fewest of which one takes the *)
(* place of the other.                                                     *)
(***************************************************************************)
EXTENDS Session
=============================================================================
