------------------------------ MODULE MCDocking ------------------------------
(***************************************************************************)
(* Docking for TLC: its constants are numbers.                             *)
(***************************************************************************)
EXTENDS Docking
=============================================================================
