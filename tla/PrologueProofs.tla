--------------------------- MODULE PrologueProofs ---------------------------
(* Proofs about Prologue, for every set of instructions. *)
EXTENDS Prologue, TLAPS

(* A bit field keeps its width. *)
LEMMA EntryFields ==
    ASSUME NEW target \in Int, NEW code \in Int
    PROVE  Entry(target, code) \in [obTarget : 0 .. 7, obTrampoline : 0 .. 31]
<1>1. target % 8 \in 0 .. 7
  OBVIOUS
<1>2. code % 32 \in 0 .. 31
  OBVIOUS
<1> QED
  BY <1>1, <1>2 DEF Entry

(* TypeOK is inductive together with this bound: the loop goes on only while the
   table has room. *)
TableInv == TypeOK /\ (pc = "copy" => nAlign < AlignEntries)

LEMMA TableInvInit == Init => TableInv
  BY DEF Init, TableInv, TypeOK, EmptyTable, NoEntry, AlignEntries

LEMMA TableInvStep == TableInv /\ [Next]_vars => TableInv'
<1> SUFFICES ASSUME TableInv, [Next]_vars PROVE TableInv'
  OBVIOUS
<1> USE InstructionsAssumption DEF TableInv, TypeOK, AlignEntries
<1>1. CASE CopyInstruction
  <2>1. PICK ins \in Instructions :
          /\ cbTarget' = cbTarget + ins.len
          /\ cbCode' = cbCode + ins.len + ins.extra
          /\ nAlign' = nAlign + 1
          /\ rAlign' = [rAlign EXCEPT ![nAlign] = Entry(cbTarget', cbCode')]
          /\ bounds' = bounds \cup {<<cbTarget', cbCode'>>}
          /\ pc' = IF EnoughCopied(nAlign', ins) THEN "filler" ELSE "copy"
    BY <1>1 DEF CopyInstruction
  <2>2. ins \in [len : 1 .. MaxInstruction, extra : Int, ends : BOOLEAN]
    OBVIOUS
  <2>3. cbTarget' \in Nat /\ cbCode' \in Int
    BY <2>1, <2>2
  <2>4. nAlign < 8 /\ nAlign' \in 0 .. 8
    BY <1>1, <2>1 DEF CopyInstruction
  <2>5. Entry(cbTarget', cbCode') \in [obTarget : 0 .. 7, obTrampoline : 0 .. 31]
    BY <2>3, EntryFields
  <2>6. rAlign' \in [0 .. (8 - 1) -> [obTarget : 0 .. 7, obTrampoline : 0 .. 31]]
    BY <2>1, <2>5
  <2>7. bounds' \subseteq Nat \X Int
    BY <2>1, <2>3
  <2>9. pc' \in {"copy", "filler"} /\ (pc' = "copy" => nAlign' < 8)
    <3>1. pc' = "copy" => ~EnoughCopied(nAlign', ins)
      BY <2>1
    <3>2. pc' \in {"copy", "filler"}
      BY <2>1
    <3> QED
      BY <2>4, <3>1, <3>2 DEF EnoughCopied
  <2> QED
    BY <2>3, <2>4, <2>6, <2>7, <2>9
<1>2. CASE ConsumeFiller
  BY <1>2 DEF ConsumeFiller
<1>3. CASE TooFew
  BY <1>3 DEF TooFew
<1>4. CASE WriteJumpBack
  BY <1>4 DEF WriteJumpBack
<1>5. CASE NextAttach
  BY <1>5 DEF NextAttach, EmptyTable, NoEntry
<1>6. CASE UNCHANGED vars
  BY <1>6 DEF vars
<1> QED
  BY <1>1, <1>2, <1>3, <1>4, <1>5, <1>6 DEF Next

(* Every variable of SlimDetoursAttach's loop keeps its type: the table is never
   written behind its end, whatever the instructions are. *)
THEOREM PrologueTypeCorrect == Spec => []TypeOK
<1>1. Spec => []TableInv
  BY TableInvInit, TableInvStep, PTL DEF Spec
<1>2. TableInv => TypeOK
  BY DEF TableInv
<1> QED
  BY <1>1, <1>2, PTL

-----------------------------------------------------------------------------
(* What the copied instructions may look like for their copy to fit: at most 12
   bytes long, and only the two-byte ones grow, by 4 bytes at most. *)
FittingInstructions ==
    \A ins \in Instructions :
        ins.len <= 12 /\ ins.extra <= 4 /\ (ins.extra > 0 => ins.len = 2)

(* While the loop goes on, fewer than 5 bytes were copied and no more than
   tripled; the last instruction adds 12 bytes at most. *)
CodeInv ==
    /\ TypeOK
    /\ pc = "copy" => cbTarget < SIZE_OF_JMP /\ cbCode <= 3 * cbTarget
    /\ pc # "copy" => cbCode <= 24

LEMMA Growth ==
    ASSUME NEW target \in Nat, NEW code \in Int, NEW len \in Nat, NEW extra \in Int,
           target < 5, code <= 3 * target, len <= 12, extra <= 4,
           extra > 0 => len = 2
    PROVE  code + len + extra <= 3 * (target + len) /\ code + len + extra <= 24
<1>1. CASE extra > 0
  BY <1>1
<1>2. CASE extra <= 0
  BY <1>2
<1> QED
  BY <1>1, <1>2

LEMMA CodeInvStep ==
    ASSUME FittingInstructions, CodeInv, TypeOK', [Next]_vars
    PROVE  CodeInv'
<1> USE InstructionsAssumption DEF CodeInv, TypeOK, SIZE_OF_JMP
<1>1. CASE CopyInstruction
  <2>1. PICK ins \in Instructions :
          /\ cbTarget' = cbTarget + ins.len
          /\ cbCode' = cbCode + ins.len + ins.extra
          /\ pc' = IF EnoughCopied(nAlign', ins) THEN "filler" ELSE "copy"
    BY <1>1 DEF CopyInstruction
  <2>2. /\ ins.len \in Nat /\ ins.len <= 12
        /\ ins.extra \in Int /\ ins.extra <= 4 /\ (ins.extra > 0 => ins.len = 2)
    BY DEF FittingInstructions
  <2>3. cbTarget < 5 /\ cbCode <= 3 * cbTarget /\ cbTarget \in Nat /\ cbCode \in Int
    BY <1>1 DEF CopyInstruction
  <2>4. cbCode' <= 3 * cbTarget' /\ cbCode' <= 24
    BY <2>1, <2>2, <2>3, Growth
  <2>5. pc' = "copy" => cbTarget' < 5
    BY <2>1, <2>2, <2>3 DEF EnoughCopied
  <2> QED
    BY <2>4, <2>5
<1>2. CASE ConsumeFiller
  BY <1>2 DEF ConsumeFiller
<1>3. CASE TooFew
  BY <1>3 DEF TooFew
<1>4. CASE WriteJumpBack
  BY <1>4 DEF WriteJumpBack
<1>5. CASE NextAttach
  BY <1>5 DEF NextAttach
<1>6. CASE UNCHANGED vars
  BY <1>6 DEF vars
<1> QED
  BY <1>1, <1>2, <1>3, <1>4, <1>5, <1>6 DEF Next

(* For such instructions the copy and the jump back stay within rbCode. *)
THEOREM CopiedCodeFits ==
    ASSUME FittingInstructions
    PROVE  Spec => []CodeFits
<1>1. Init => CodeInv
  BY TableInvInit DEF Init, CodeInv, TableInv, SIZE_OF_JMP
<1>2. CodeInv /\ TypeOK' /\ [Next]_vars => CodeInv'
  BY CodeInvStep
<1>3. CodeInv => CodeFits
  BY DEF CodeInv, TypeOK, CodeFits, JumpBack, RbCode
<1>4. Spec => []TypeOK
  BY PrologueTypeCorrect
<1> QED
  BY <1>1, <1>2, <1>3, <1>4, PTL DEF Spec

-----------------------------------------------------------------------------
(* The alignment table *)

(* Copies that do not shrink: all but those of LOOP and JRCXZ, whose growth the
   disassembler reports as negative. *)
NoneShrinks == \A ins \in Instructions : ins.extra >= 0

(* As long as at most 7 bytes were copied, the fields of the table are wide enough:
   its entries in use are the bounds, in order, and the others are empty. *)
TableExact ==
    /\ \A n \in 0 .. (nAlign - 1) :
         /\ 0 < rAlign[n].obTarget /\ rAlign[n].obTarget <= cbTarget
         /\ 0 < rAlign[n].obTrampoline /\ rAlign[n].obTrampoline <= cbCode
         /\ <<rAlign[n].obTarget, rAlign[n].obTrampoline>> \in bounds
    /\ \A m, n \in 0 .. (nAlign - 1) :
         m < n => /\ rAlign[m].obTarget < rAlign[n].obTarget
                  /\ rAlign[m].obTrampoline < rAlign[n].obTrampoline
    /\ \A n \in nAlign .. (AlignEntries - 1) : rAlign[n] = NoEntry
    /\ \A b \in bounds :
         \/ b = <<0, 0>>
         \/ \E n \in 0 .. (nAlign - 1) :
              b = <<rAlign[n].obTarget, rAlign[n].obTrampoline>>

MoveInv ==
    /\ CodeInv /\ TableInv
    /\ cbCode >= 0
    /\ cbTarget <= 7 => TableExact

(* A new entry is exact, and behind the others. *)
LEMMA CopyKeepsTable ==
    ASSUME FittingInstructions, NoneShrinks, MoveInv, CodeInv', TableInv', CopyInstruction
    PROVE  MoveInv'
<1>1. PICK ins \in Instructions :
        /\ cbTarget' = cbTarget + ins.len
        /\ cbCode' = cbCode + ins.len + ins.extra
        /\ nAlign' = nAlign + 1
        /\ rAlign' = [rAlign EXCEPT ![nAlign] = Entry(cbTarget', cbCode')]
        /\ bounds' = bounds \cup {<<cbTarget', cbCode'>>}
  BY DEF CopyInstruction
<1>2. /\ ins.len \in Nat /\ ins.len > 0 /\ ins.extra \in Int /\ ins.extra >= 0
      /\ ins.extra <= 4 /\ (ins.extra > 0 => ins.len = 2) /\ ins.len <= 12
  BY InstructionsAssumption DEF FittingInstructions, NoneShrinks
<1>3. /\ cbTarget \in Nat /\ cbCode \in Int /\ cbCode >= 0 /\ nAlign \in 0 .. 7
      /\ rAlign \in [0 .. 7 -> [obTarget : 0 .. 7, obTrampoline : 0 .. 31]]
  BY DEF MoveInv, TableInv, TypeOK, CopyInstruction, AlignEntries
<1>4. cbCode < cbCode' /\ cbTarget < cbTarget' BY <1>1, <1>2, <1>3
<1>5. cbCode' >= 0 BY <1>3, <1>4, <1>1, <1>2
<1>6. ASSUME cbTarget' <= 7 PROVE TableExact'
  <2>1. TableExact BY <1>1, <1>2, <1>3, <1>6 DEF MoveInv
  <2>2. cbCode' <= 24
    <3>1. cbTarget < 5 /\ cbCode <= 3 * cbTarget
      BY DEF MoveInv, CodeInv, SIZE_OF_JMP, CopyInstruction
    <3> QED BY <1>1, <1>2, <1>3, <3>1, Growth
  <2> DEFINE e == Entry(cbTarget', cbCode')
  <2>3. e.obTarget = cbTarget' /\ e.obTrampoline = cbCode'
    <3>1. cbTarget' % 8 = cbTarget' BY <1>1, <1>2, <1>3, <1>6
    <3>2. cbCode' % 32 = cbCode' BY <1>1, <1>2, <1>3, <1>5, <2>2
    <3> QED BY <3>1, <3>2 DEF Entry
  <2> HIDE DEF e
  <2>4. /\ rAlign'[nAlign] = e
        /\ \A n \in 0 .. 7 : n # nAlign => rAlign'[n] = rAlign[n]
    BY <1>1, <1>3 DEF e
  <2>5. 0 .. (nAlign' - 1) = 0 .. (nAlign - 1) \cup {nAlign} BY <1>1, <1>3
  <2>6. \A n \in 0 .. (nAlign - 1) : n \in 0 .. 7 /\ n # nAlign BY <1>3
  <2>7. \A n \in 0 .. (nAlign - 1) :
          /\ rAlign'[n] = rAlign[n]
          /\ rAlign[n].obTarget \in Nat /\ rAlign[n].obTrampoline \in Nat
    BY <1>3, <2>4, <2>6
  <2>8. \A n \in 0 .. (nAlign' - 1) :
          /\ 0 < rAlign'[n].obTarget /\ rAlign'[n].obTarget <= cbTarget'
          /\ 0 < rAlign'[n].obTrampoline /\ rAlign'[n].obTrampoline <= cbCode'
          /\ <<rAlign'[n].obTarget, rAlign'[n].obTrampoline>> \in bounds'
    <3> SUFFICES ASSUME NEW n \in 0 .. (nAlign' - 1)
                 PROVE  /\ 0 < rAlign'[n].obTarget /\ rAlign'[n].obTarget <= cbTarget'
                        /\ 0 < rAlign'[n].obTrampoline /\ rAlign'[n].obTrampoline <= cbCode'
                        /\ <<rAlign'[n].obTarget, rAlign'[n].obTrampoline>> \in bounds'
      OBVIOUS
    <3>1. CASE n = nAlign BY <1>1, <1>2, <1>3, <1>4, <2>3, <2>4, <3>1
    <3>2. CASE n \in 0 .. (nAlign - 1)
      <4>1. /\ 0 < rAlign[n].obTarget /\ rAlign[n].obTarget <= cbTarget
            /\ 0 < rAlign[n].obTrampoline /\ rAlign[n].obTrampoline <= cbCode
            /\ <<rAlign[n].obTarget, rAlign[n].obTrampoline>> \in bounds
        BY <2>1, <3>2 DEF TableExact
      <4> QED BY <1>1, <1>2, <1>3, <2>7, <3>2, <4>1
    <3> QED BY <2>5, <3>1, <3>2
  <2>9. \A m, n \in 0 .. (nAlign' - 1) :
          m < n => /\ rAlign'[m].obTarget < rAlign'[n].obTarget
                   /\ rAlign'[m].obTrampoline < rAlign'[n].obTrampoline
    <3> SUFFICES ASSUME NEW m \in 0 .. (nAlign' - 1), NEW n \in 0 .. (nAlign' - 1), m < n
                 PROVE  /\ rAlign'[m].obTarget < rAlign'[n].obTarget
                        /\ rAlign'[m].obTrampoline < rAlign'[n].obTrampoline
      OBVIOUS
    <3>1. m \in 0 .. (nAlign - 1) BY <1>1, <1>3
    <3>2. /\ rAlign[m].obTarget <= cbTarget /\ rAlign[m].obTrampoline <= cbCode
          /\ \A k \in 0 .. (nAlign - 1) :
               m < k => /\ rAlign[m].obTarget < rAlign[k].obTarget
                        /\ rAlign[m].obTrampoline < rAlign[k].obTrampoline
      BY <2>1, <3>1 DEF TableExact
    <3>3. CASE n = nAlign BY <1>1, <1>2, <1>3, <1>4, <2>3, <2>4, <2>7, <3>1, <3>2, <3>3
    <3>4. CASE n \in 0 .. (nAlign - 1) BY <2>7, <3>1, <3>2, <3>4
    <3> QED BY <2>5, <3>3, <3>4
  <2>10. \A n \in nAlign' .. (AlignEntries - 1) : rAlign'[n] = NoEntry
    <3> SUFFICES ASSUME NEW n \in nAlign' .. 7 PROVE rAlign'[n] = NoEntry
      BY DEF AlignEntries
    <3>1. n \in nAlign .. 7 /\ n # nAlign /\ n \in 0 .. 7 BY <1>1, <1>3
    <3>2. rAlign[n] = NoEntry BY <2>1, <3>1 DEF TableExact, AlignEntries
    <3> QED BY <2>4, <3>1, <3>2
  <2>11. \A b \in bounds' :
           \/ b = <<0, 0>>
           \/ \E n \in 0 .. (nAlign' - 1) :
                b = <<rAlign'[n].obTarget, rAlign'[n].obTrampoline>>
    <3> SUFFICES ASSUME NEW b \in bounds', b # <<0, 0>>
                 PROVE  \E n \in 0 .. (nAlign' - 1) :
                          b = <<rAlign'[n].obTarget, rAlign'[n].obTrampoline>>
      OBVIOUS
    <3>1. CASE b \in bounds
      <4>1. PICK n \in 0 .. (nAlign - 1) :
              b = <<rAlign[n].obTarget, rAlign[n].obTrampoline>>
        BY <2>1, <3>1 DEF TableExact
      <4> QED BY <2>5, <2>7, <4>1
    <3>2. CASE b = <<cbTarget', cbCode'>>
      <4>1. nAlign \in 0 .. (nAlign' - 1) BY <2>5
      <4> QED BY <2>3, <2>4, <3>2, <4>1
    <3> QED BY <1>1, <3>1, <3>2
  <2> QED BY <2>8, <2>9, <2>10, <2>11 DEF TableExact
<1> QED BY <1>5, <1>6 DEF MoveInv

(* Every step keeps the table exact. *)
LEMMA MoveInvStep ==
    ASSUME FittingInstructions, NoneShrinks, MoveInv, [Next]_vars
    PROVE  MoveInv'
<1>1. TableInv' BY TableInvStep DEF MoveInv
<1>2. CodeInv' BY <1>1, CodeInvStep DEF MoveInv, TableInv
<1>3. CASE CopyInstruction BY <1>1, <1>2, <1>3, CopyKeepsTable
<1>4. CASE ConsumeFiller
  <2>1. cbTarget <= cbTarget' /\ UNCHANGED <<cbCode, nAlign, rAlign, bounds>>
        /\ cbTarget \in Nat /\ cbTarget' \in Nat
    BY <1>1, <1>4, InstructionsAssumption DEF ConsumeFiller, MoveInv, TableInv, TypeOK
  <2>2. ASSUME cbTarget' <= 7 PROVE TableExact'
    <3>1. TableExact BY <2>1, <2>2 DEF MoveInv
    <3>2. rAlign \in [0 .. 7 -> [obTarget : 0 .. 7, obTrampoline : 0 .. 31]]
          /\ nAlign \in 0 .. 8
      BY DEF MoveInv, TableInv, TypeOK, AlignEntries
    <3>3. \A n \in 0 .. (nAlign - 1) :
            rAlign[n].obTarget <= cbTarget => rAlign[n].obTarget <= cbTarget'
      BY <2>1, <3>2
    <3> QED BY <2>1, <3>1, <3>3 DEF TableExact
  <2> QED BY <1>1, <1>2, <2>1, <2>2 DEF MoveInv
<1>5. CASE TooFew \/ WriteJumpBack \/ UNCHANGED vars
  <2>1. UNCHANGED <<cbTarget, cbCode, nAlign, rAlign, bounds>>
    BY <1>5 DEF TooFew, WriteJumpBack, vars
  <2> QED BY <1>1, <1>2, <2>1 DEF MoveInv, TableExact
<1>6. CASE NextAttach
  <2>1. cbTarget' = 0 /\ cbCode' = 0 /\ nAlign' = 0 /\ rAlign' = EmptyTable
        /\ bounds' = {<<0, 0>>}
    BY <1>6 DEF NextAttach
  <2> QED BY <1>1, <1>2, <2>1 DEF MoveInv, TableExact, EmptyTable, AlignEntries
<1> QED BY <1>3, <1>4, <1>5, <1>6 DEF Next

(* The first entry that matches is the one that was written for the instruction. *)
LEMMA ExactTableMoves ==
    ASSUME TypeOK, TableExact, NEW b \in bounds
    PROVE  MovesExactly(b)
<1>1. /\ rAlign \in [0 .. 7 -> [obTarget : 0 .. 7, obTrampoline : 0 .. 31]]
      /\ nAlign \in 0 .. 8 /\ DOMAIN rAlign = 0 .. 7
  BY DEF TypeOK, AlignEntries
<1>2. \A n \in 0 .. 7 :
        \/ n \in 0 .. (nAlign - 1) /\ rAlign[n].obTarget > 0 /\ rAlign[n].obTrampoline > 0
        \/ n \notin 0 .. (nAlign - 1) /\ rAlign[n].obTarget = 0
             /\ rAlign[n].obTrampoline = 0
  <2> SUFFICES ASSUME NEW n \in 0 .. 7
               PROVE  \/ /\ n \in 0 .. (nAlign - 1)
                         /\ rAlign[n].obTarget > 0 /\ rAlign[n].obTrampoline > 0
                      \/ /\ n \notin 0 .. (nAlign - 1)
                         /\ rAlign[n].obTarget = 0 /\ rAlign[n].obTrampoline = 0
    OBVIOUS
  <2>1. CASE n \in 0 .. (nAlign - 1) BY <1>1, <2>1 DEF TableExact
  <2>2. CASE n \notin 0 .. (nAlign - 1)
    <3>1. n \in nAlign .. 7 BY <1>1, <2>2
    <3>2. rAlign[n] = NoEntry BY <3>1 DEF TableExact, AlignEntries
    <3> QED BY <2>2, <3>2 DEF NoEntry
  <2> QED BY <2>1, <2>2
<1>3. CASE b = <<0, 0>>
  <2>1. b[1] = 0 /\ b[2] = 0 BY <1>3
  <2>2. \A n \in DOMAIN rAlign : rAlign[n].obTarget = 0 <=> rAlign[n].obTrampoline = 0
    BY <1>1, <1>2
  <2>3. FromTarget(0) = 0
    <3> DEFINE found == {n \in DOMAIN rAlign : rAlign[n].obTarget = 0}
    <3>1. CASE found = {} BY <3>1 DEF FromTarget
    <3>2. CASE found # {}
      <4>1. FirstMatch(found) \in found
        <5>1. PICK k \in found : \A m \in found : k <= m BY <1>1, <3>2
        <5> QED BY <5>1 DEF FirstMatch
      <4> QED BY <2>2, <3>2, <4>1 DEF FromTarget
    <3> QED BY <3>1, <3>2
  <2>4. FromTrampoline(0) = 0
    <3> DEFINE found == {n \in DOMAIN rAlign : rAlign[n].obTrampoline = 0}
    <3>1. CASE found = {} BY <3>1 DEF FromTrampoline
    <3>2. CASE found # {}
      <4>1. FirstMatch(found) \in found
        <5>1. PICK k \in found : \A m \in found : k <= m BY <1>1, <3>2
        <5> QED BY <5>1 DEF FirstMatch
      <4> QED BY <2>2, <3>2, <4>1 DEF FromTrampoline
    <3> QED BY <3>1, <3>2
  <2> QED BY <2>1, <2>3, <2>4 DEF MovesExactly
<1>4. CASE b # <<0, 0>>
  <2>1. PICK n \in 0 .. (nAlign - 1) : b = <<rAlign[n].obTarget, rAlign[n].obTrampoline>>
    BY <1>4 DEF TableExact
  <2>2. b[1] = rAlign[n].obTarget /\ b[2] = rAlign[n].obTrampoline BY <2>1
  <2>3. \A m \in 0 .. (nAlign - 1) :
          m # n => rAlign[m].obTarget # rAlign[n].obTarget
                   /\ rAlign[m].obTrampoline # rAlign[n].obTrampoline
    <3> SUFFICES ASSUME NEW m \in 0 .. (nAlign - 1), m # n
                 PROVE  /\ rAlign[m].obTarget # rAlign[n].obTarget
                        /\ rAlign[m].obTrampoline # rAlign[n].obTrampoline
      OBVIOUS
    <3>1. m \in 0 .. 7 /\ n \in 0 .. 7 BY <1>1
    <3>2. m < n \/ n < m BY <3>1
    <3> QED BY <1>1, <3>1, <3>2 DEF TableExact
  <2>4. n \in 0 .. 7 /\ rAlign[n].obTarget > 0 /\ rAlign[n].obTrampoline > 0
    BY <1>1, <1>2
  <2>5. {m \in DOMAIN rAlign : rAlign[m].obTarget = rAlign[n].obTarget} = {n}
    BY <1>1, <1>2, <2>3, <2>4
  <2>6. {m \in DOMAIN rAlign : rAlign[m].obTrampoline = rAlign[n].obTrampoline} = {n}
    BY <1>1, <1>2, <2>3, <2>4
  <2>7. FirstMatch({n}) = n
    <3>1. n <= n BY <2>4
    <3> QED BY <3>1 DEF FirstMatch
  <2>8. FromTarget(rAlign[n].obTarget) = rAlign[n].obTrampoline
    BY <2>5, <2>7 DEF FromTarget
  <2>9. FromTrampoline(rAlign[n].obTrampoline) = rAlign[n].obTarget
    BY <2>6, <2>7 DEF FromTrampoline
  <2> QED BY <2>2, <2>8, <2>9 DEF MovesExactly
<1> QED BY <1>3, <1>4

(* For instructions whose copies fit and do not shrink, a suspended thread is moved
   exactly, both ways, as long as at most 7 bytes are replaced, padding included. *)
THEOREM ThreadsMoveExactly ==
    ASSUME FittingInstructions, NoneShrinks
    PROVE  Spec => []ShortPrologueMoves
<1>1. Init => MoveInv
  <2> SUFFICES ASSUME Init PROVE MoveInv OBVIOUS
  <2>1. TableInv /\ CodeInv
    BY TableInvInit DEF Init, CodeInv, TableInv, SIZE_OF_JMP
  <2> QED BY <2>1 DEF Init, MoveInv, TableExact, EmptyTable, AlignEntries
<1>2. MoveInv /\ [Next]_vars => MoveInv'
  BY MoveInvStep
<1>3. MoveInv => ShortPrologueMoves
  BY ExactTableMoves DEF MoveInv, TableInv, ShortPrologueMoves
<1> QED
  BY <1>1, <1>2, <1>3, PTL DEF Spec
=============================================================================
