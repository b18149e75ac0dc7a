----------------------------- MODULE ClientMemory -----------------------------
(***************************************************************************)
(* The crashed client, as the watchdog reads it (ReadProcessMemory): it is *)
(* suspended, so its memory does not change, but somebody may end it at    *)
(* any moment, and from then on nothing can be read.                       *)
(***************************************************************************)
EXTENDS Integers, Sequences

CONSTANT Crashes        \* what a watchdog may find in its client

VARIABLES
    alive,    \* the client's memory is still there
    crash,    \* what is in it: text, thrown, areas (see the modules)
    pc        \* where the watchdog is

Kill ==
    /\ alive /\ pc # "done"
    /\ alive' = FALSE
    /\ UNCHANGED <<crash, pc>>

(* Whether a read at an address that may be any succeeds, nobody knows. *)
Luck == {FALSE, alive}
===============================================================================
