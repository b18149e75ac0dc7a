---------------------------- MODULE MCRegionSearch ----------------------------
(* Instances of RegionSearch for TLC. *)
EXTENDS RegionSearch

(* Free memory: none; one region, at distances from the functions that only one of
   the searches covers; less than a region; several regions, not aligned. *)
Hole(a, n) == a .. (a + n - 1)
Holes == {Hole(a, 4) : a \in {16, 28, 68, 80, 100, 136, 148, 180}}
         \cup {Hole(164, 8)}
McLayouts ==
    {{}} \cup Holes
    \cup {Hole(4, 4) \cup Hole(16, 4)}
    \cup {Hole(48, 3) \cup h : h \in {Hole(16, 4), Hole(28, 4)}}
    \cup {Hole(78, 10) \cup Hole(28, 4), Hole(140, 12) \cup Hole(68, 4)}
McBlocks == {Hole(80, 4), Hole(148, 4)}

McFunctions ==
    {[at |-> 26, jump |-> Nowhere], [at |-> 36, jump |-> Nowhere],
     [at |-> 66, jump |-> 126], [at |-> 118, jump |-> 58],
     [at |-> 118, jump |-> Nowhere], [at |-> 170, jump |-> Nowhere]}
===============================================================================
