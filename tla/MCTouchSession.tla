--------------------------- MODULE MCTouchSession ---------------------------
(***************************************************************************)
(* An instance of TouchSession: more fingers than slots, so that one finds *)
(* none free, and a pen that hovers now and then.                          *)
(***************************************************************************)
EXTENDS TouchSession

OnlyHover == {[kind |-> "StylusMove", pressure |-> 0]}
=============================================================================
