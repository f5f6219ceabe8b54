--------------------------- MODULE MCInterpreter ---------------------------
(***************************************************************************)
(* Interpreter for TLC.  Threads and listeners are sets of model values,   *)
(* without symmetry, which is not sound for liveness.                      *)
(***************************************************************************)
EXTENDS Interpreter, TLC
=============================================================================
