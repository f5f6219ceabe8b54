-------------------------- MODULE MCAsyncInterpreter --------------------------
(***************************************************************************)
(* AsyncInterpreter for TLC.                                               *)
(***************************************************************************)
EXTENDS AsyncInterpreter, TLC
=============================================================================
