----------------------------- MODULE MCPrologue -----------------------------
(* Instances of Prologue for TLC: the kinds of instructions that the tables of
   Disassembler.c tell apart by how their copy grows. *)
EXTENDS Prologue

Plain(n) == [len : 1 .. n, extra : {0}, ends : BOOLEAN]
ShortJcc == [len |-> 2, extra |-> 4, ends |-> FALSE]    \* 70-7F become 0F 80-8F
ShortJmp == [len |-> 2, extra |-> 3, ends |-> TRUE]     \* EB becomes E9

Usual == Plain(MaxInstruction) \cup {ShortJcc, ShortJmp}
AllFillers == 1 .. 11
=============================================================================
