------------------------------ MODULE Prologue ------------------------------
(***************************************************************************)
(* How SlimDetoursAttach moves the first instructions of a function into a *)
(* trampoline on x64 (Transaction.c), and how the table it fills takes a   *)
(* suspended thread from an instruction to its copy and back (rAlign,      *)
(* Trampoline.c, Thread.c).  Offsets are in bytes: into the function, and  *)
(* into rbCode of the trampoline.                                          *)
(***************************************************************************)
EXTENDS Integers

CONSTANTS
    Instructions,     \* what may be copied: length, lExtra, ends the function
    Fillers,          \* lengths of the paddings detour_is_code_filler knows
    MaxInstruction    \* the longest instruction

SIZE_OF_JMP == 5      \* jmp rel32, written over the function
RbCode == 30          \* sizeof(rbCode)
JumpBack == 6         \* jmp [pbRemain], written behind the copy
AlignEntries == 8     \* ARRAYSIZE(rAlign)

ASSUME InstructionsAssumption ==
    /\ Instructions \subseteq [len : 1 .. MaxInstruction, extra : Int, ends : BOOLEAN]
    /\ Fillers \subseteq 1 .. 11 /\ MaxInstruction \in Nat

VARIABLES
    pc,          \* where SlimDetoursAttach is
    cbTarget,    \* bytes of the function that will be replaced
    cbCode,      \* bytes of copied code (pbTrampoline - rbCode)
    nAlign,      \* entries of rAlign in use
    rAlign,      \* the table
    bounds       \* history: where each instruction and its copy really begin

vars == <<pc, cbTarget, cbCode, nAlign, rAlign, bounds>>

NoEntry == [obTarget |-> 0, obTrampoline |-> 0]
EmptyTable == [n \in 0 .. (AlignEntries - 1) |-> NoEntry]

Init ==
    /\ pc = "copy" /\ cbTarget = 0 /\ cbCode = 0 /\ nAlign = 0
    /\ rAlign = EmptyTable
    /\ bounds = {<<0, 0>>}

-----------------------------------------------------------------------------
(* Faulty variants of the definitions below, each a bug the code could have had.
   The specification uses none of them; every property is shown to reject one. *)

(* A loop that copies one instruction more than it has to. *)
WrongEnoughCopied(n, ins) ==
    cbTarget >= SIZE_OF_JMP \/ n = AlignEntries \/ ins.ends

(* A table that tells where instructions begin in whole words. *)
WrongEntry(target, code) ==
    [obTarget |-> (target \div 2) % 8, obTrampoline |-> (code \div 2) % 32]

-----------------------------------------------------------------------------
(* The loop over the instructions of the function *)

(* The fields are BYTE obTarget : 3 and BYTE obTrampoline : 5. *)
Entry(target, code) == [obTarget |-> target % 8, obTrampoline |-> code % 32]

(* The loop ends after instruction ins, the n-th. *)
EnoughCopied(n, ins) ==
    cbTarget + ins.len >= SIZE_OF_JMP \/ n = AlignEntries \/ ins.ends

(* SlimDetoursCopyInstruction, which has written ins.len bytes or more at cbCode,
   and the rest of the loop's body. *)
CopyInstruction ==
    /\ pc = "copy"
    /\ \E ins \in Instructions :
         /\ cbTarget' = cbTarget + ins.len
         /\ cbCode' = cbCode + ins.len + ins.extra
         /\ nAlign' = nAlign + 1
         /\ rAlign' = [rAlign EXCEPT ![nAlign] = Entry(cbTarget', cbCode')]
         /\ bounds' = bounds \cup {<<cbTarget', cbCode'>>}
         /\ pc' = IF EnoughCopied(nAlign', ins) THEN "filler" ELSE "copy"

(* Padding behind a function that has ended may be replaced as well. *)
ConsumeFiller ==
    /\ pc = "filler" /\ cbTarget < SIZE_OF_JMP
    /\ \E n \in Fillers : cbTarget' = cbTarget + n
    /\ UNCHANGED <<pc, cbCode, nAlign, rAlign, bounds>>

(* Too few instructions: STATUS_INVALID_BLOCK_LENGTH. *)
TooFew ==
    /\ pc = "filler" /\ cbTarget < SIZE_OF_JMP
    /\ pc' = "failed"
    /\ UNCHANGED <<cbTarget, cbCode, nAlign, rAlign, bounds>>

(* Enough, and not too many to keep: the jump back is written. *)
WriteJumpBack ==
    /\ pc = "filler" /\ cbTarget >= SIZE_OF_JMP
    /\ pc' = IF cbTarget > RbCode - SIZE_OF_JMP THEN "failed" ELSE "done"
    /\ UNCHANGED <<cbTarget, cbCode, nAlign, rAlign, bounds>>

(* The next call of SlimDetoursAttach, on another function. *)
NextAttach ==
    /\ pc \in {"done", "failed"}
    /\ pc' = "copy" /\ cbTarget' = 0 /\ cbCode' = 0 /\ nAlign' = 0
    /\ rAlign' = EmptyTable
    /\ bounds' = {<<0, 0>>}

Next == CopyInstruction \/ ConsumeFiller \/ TooFew \/ WriteJumpBack \/ NextAttach

Spec == Init /\ [][Next]_vars

-----------------------------------------------------------------------------
(* detour_align_from_trampoline, detour_align_from_target: the first entry that
   matches, or 0. *)

FirstMatch(found) == CHOOSE n \in found : \A m \in found : n <= m

FromTrampoline(ob) ==
    LET found == {n \in DOMAIN rAlign : rAlign[n].obTrampoline = ob}
    IN  IF found = {} THEN 0 ELSE rAlign[FirstMatch(found)].obTarget

FromTarget(ob) ==
    LET found == {n \in DOMAIN rAlign : rAlign[n].obTarget = ob}
    IN  IF found = {} THEN 0 ELSE rAlign[FirstMatch(found)].obTrampoline

-----------------------------------------------------------------------------
(* Properties *)

TypeOK ==
    /\ pc \in {"copy", "filler", "done", "failed"}
    /\ cbTarget \in Nat /\ cbCode \in Int /\ nAlign \in 0 .. AlignEntries
    /\ rAlign \in [0 .. (AlignEntries - 1) -> [obTarget : 0 .. 7, obTrampoline : 0 .. 31]]
    /\ bounds \subseteq Nat \X Int

(* "target code + jmp to pbRemain" (SlimDetours.inl:60): the copied instructions,
   which may have grown, and the jump back stay within rbCode and do not run over
   the fields behind it. *)
CodeFits == pc = "done" => cbCode + JumpBack <= RbCode

(* A thread stopped at instruction b that is being replaced goes on at its copy, and
   one stopped at the copy, the jump back included, goes on at b. *)
MovesExactly(b) ==
    /\ b[1] < cbTarget => FromTarget(b[1]) = b[2]
    /\ FromTrampoline(b[2]) = b[1]

(* The "instruction alignment array" (SlimDetours.inl:83) moves a suspended thread
   between each instruction and its copy as long as the replaced code is at most 7
   bytes, whatever the instructions and however much they grow. *)
ShortPrologueMoves ==
    pc = "done" /\ cbTarget <= 7 => \A b \in bounds : MovesExactly(b)

=============================================================================
