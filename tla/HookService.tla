---------------------------- MODULE HookService ----------------------------
(***************************************************************************)
(* What SlimDetours promises its callers, without trampolines, regions or  *)
(* jumps: one caller at a time owns a transaction; hooks it attaches and   *)
(* detaches are only noted; when it commits, all of them take effect, and  *)
(* when it aborts, none does; and no other hook ever comes or goes.        *)
(***************************************************************************)
CONSTANTS Callers, Hooks, None

VARIABLES
    owner,      \* the caller that owns the transaction
    stage,      \* "idle", "opening", "open" or "ending"
    attached,   \* the hooks that are called with their functions
    adds,       \* the hooks the open transaction is to attach
    removes     \* those it is to detach

serviceVars == <<owner, stage, attached, adds, removes>>

ServiceInit ==
    /\ owner = None /\ stage = "idle"
    /\ attached = {} /\ adds = {} /\ removes = {}

Take(c) ==
    /\ owner = None
    /\ owner' = c /\ stage' = "opening"
    /\ UNCHANGED <<attached, adds, removes>>

(* Between two stages of the transaction nothing else changes. *)
Proceed(c, from, to) ==
    /\ owner = c /\ stage = from
    /\ stage' = to /\ owner' = IF to = "idle" THEN None ELSE c
    /\ UNCHANGED <<attached, adds, removes>>

NoteAttach(c, h) ==
    /\ owner = c /\ stage = "open"
    /\ h \notin adds /\ adds' = adds \cup {h}
    /\ h \notin attached
    /\ UNCHANGED <<owner, stage, attached, removes>>

NoteDetach(c, h) ==
    /\ owner = c /\ stage = "open"
    /\ h \notin removes /\ removes' = removes \cup {h}
    /\ h \in attached
    /\ UNCHANGED <<owner, stage, attached, adds>>

CommitAll(c) ==
    /\ owner = c /\ stage = "open"
    /\ stage' = "ending" /\ adds' = {} /\ removes' = {}
    /\ attached' = (attached \cup adds) \ removes
    /\ UNCHANGED owner

AbortAll(c) ==
    /\ owner = c /\ stage = "open"
    /\ stage' = "ending" /\ adds' = {} /\ removes' = {}
    /\ UNCHANGED <<owner, attached>>

ServiceNext ==
    \E c \in Callers :
        \/ Take(c) \/ Proceed(c, "opening", "idle") \/ Proceed(c, "opening", "open")
        \/ \E h \in Hooks : NoteAttach(c, h) \/ NoteDetach(c, h)
        \/ CommitAll(c) \/ AbortAll(c) \/ Proceed(c, "ending", "idle")

ServiceSpec == ServiceInit /\ [][ServiceNext]_serviceVars
=============================================================================
