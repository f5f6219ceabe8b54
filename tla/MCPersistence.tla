---------------------------- MODULE MCPersistence ----------------------------
(***************************************************************************)
(* Persistence for TLC, over the charts of MCStatechart.                   *)
(***************************************************************************)
EXTENDS MCStatechart, Persistence
=============================================================================
