--------------------------- MODULE MCThreadClock ---------------------------
(* ThreadClock for TLC. *)
EXTENDS ThreadClock
=============================================================================
