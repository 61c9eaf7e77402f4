------------------------------- MODULE MCGui -------------------------------
(***************************************************************************)
(* Instance of Gui for TLC.                                                *)
(***************************************************************************)
EXTENDS Gui
=============================================================================
