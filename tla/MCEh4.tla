-------------------------------- MODULE MCEh4 --------------------------------
(* Eh4 on small instances.  Threads, and watchdog processes, are interchangeable;
   the symmetry is used for invariants only. *)
EXTENDS Eh4, TLC

Symmetry == Permutations(Threads) \cup Permutations(Watchdogs)
=============================================================================
