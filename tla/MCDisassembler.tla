--------------------------- MODULE MCDisassembler ---------------------------
(* Instances of Disassembler for TLC. *)
EXTENDS Disassembler

(* Every kind of address with the Reg fields that the code looks at, and XBEGIN. *)
SomeModRMs == {64 * mod + 8 * reg + rm : mod \in 0 .. 3, reg \in {0, 2, 4}, rm \in {0, 4, 5}}
              \cup {\hF8}
SomeBases == {0, 5}
SomeDistances == {-24, -5, 3, 20}
=============================================================================
