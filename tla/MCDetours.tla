------------------------------ MODULE MCDetours ------------------------------
(* Instances of Detours for TLC. *)
EXTENDS Detours, TLC, FiniteSets

CONSTANTS c1, c2, f1, f2, h1, h2, h3, r1, r2, p1, p2

(* One or two hooks for one function, the last one for another; the functions
   share a page; each region is within reach of both, or the second one only of the
   first function, although a search for the other may end there. *)
OneHook == [h \in {h1} |-> f1]
OneFunction == [h \in {h1, h2} |-> f1]
TwoFunctions == (h1 :> f1) @@ (h2 :> f1) @@ (h3 :> f2)
SamePage == [f \in Functions |-> p1]
Everywhere == Functions \X Regions
SecondOfOne == Everywhere \ {<<f2, r2>>}

CallerSymmetry == Permutations(Callers)
=============================================================================
