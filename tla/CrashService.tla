----------------------------- MODULE CrashService -----------------------------
(***************************************************************************)
(* What EH4 promises a program, without processes, handles or events: a    *)
(* crash may hold the program; a program that is held ends only once a     *)
(* report names one of the threads that crashed; and as long as the        *)
(* program is there, a report never shows anything but a crashed thread.   *)
(* That a held program ends at all is not promised: see the README.        *)
(***************************************************************************)
CONSTANTS Threads, None, Garbage

VARIABLES
    process,   \* "running", "held" or "gone"
    crashed,   \* threads whose crash information is in memory
    report     \* what the last report was about

serviceVars == <<process, crashed, report>>

ServiceInit == process = "running" /\ crashed = {} /\ report = None

Announce(t) ==
    /\ process = "running"
    /\ crashed' = crashed \cup {t}
    /\ UNCHANGED <<process, report>>

Hold ==
    /\ process = "running" /\ crashed # {}
    /\ process' = "held"
    /\ UNCHANGED <<crashed, report>>

ReportCrash ==
    /\ report' \in crashed \cup (IF process = "gone" THEN {Garbage} ELSE {})
    /\ UNCHANGED <<process, crashed>>

(* The program ends by itself, or by the default handling of a crash. *)
End ==
    /\ process = "running"
    /\ process' = "gone"
    /\ UNCHANGED <<crashed, report>>

Release ==
    /\ process = "held" /\ report \in crashed
    /\ process' = "gone"
    /\ UNCHANGED <<crashed, report>>

ServiceNext ==
    \/ \E t \in Threads : Announce(t)
    \/ Hold \/ ReportCrash \/ End \/ Release

ServiceSpec == ServiceInit /\ [][ServiceNext]_serviceVars
=============================================================================
