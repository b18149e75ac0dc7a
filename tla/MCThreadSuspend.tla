--------------------------- MODULE MCThreadSuspend ---------------------------
(* Instances of ThreadSuspend for TLC. *)
EXTENDS ThreadSuspend

CONSTANTS self, a, b, c
=============================================================================
