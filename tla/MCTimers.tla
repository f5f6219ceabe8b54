------------------------------ MODULE MCTimers ------------------------------
(***************************************************************************)
(* Timers for TLC: after states and send ids are interchangeable.          *)
(***************************************************************************)
EXTENDS Timers, TLC

Symmetry == Permutations(After) \cup Permutations(SendId)
=============================================================================
