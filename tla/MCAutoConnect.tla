--------------------------- MODULE MCAutoConnect ---------------------------
(***************************************************************************)
(* An instance of AutoConnect.  Three clients are enough: one that is      *)
(* used, one that was given up and is still alive, and one to take the     *)
(* place of both.                                                          *)
(***************************************************************************)
EXTENDS AutoConnect
=============================================================================
