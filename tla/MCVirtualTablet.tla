-------------------------- MODULE MCVirtualTablet --------------------------
(***************************************************************************)
(* Instances of VirtualTablet for TLC.  Two slots and two fingers are the   *)
(* fewest that show a contact, so that every write of the touch device may  *)
(* fail; one id is enough, since the same finger may come down twice.  The  *)
(* pen sends every kind of event.  MCTouchSession varies the fingers.       *)
(***************************************************************************)
EXTENDS VirtualTablet

Strokes == {[kind |-> "StylusMove", pressure |-> p] : p \in {0, 1}}
           \cup {[kind |-> "StylusDown", pressure |-> 0], [kind |-> "StylusUp"]}
AllKinds ==
    Strokes \cup [kind : {"StylusButton"}, button : {0, 2}, pressed : {TRUE}]
=============================================================================
