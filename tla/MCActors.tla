------------------------------- MODULE MCActors -------------------------------
(***************************************************************************)
(* Actors for TLC.  The children are interchangeable model values.         *)
(***************************************************************************)
EXTENDS Actors, TLC

Symmetry == Permutations(Child) \cup Permutations(Thread) \cup Permutations(InvId)
=============================================================================
