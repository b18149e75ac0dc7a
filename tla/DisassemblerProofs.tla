------------------------- MODULE DisassemblerProofs -------------------------
(* Proofs about Disassembler: the length found is that of the instruction, every
   relative operand is seen, and a copied instruction keeps its target. *)
EXTENDS Disassembler, TLAPS

(* What CopyBytes needs to know of an entry: only the branches that cannot be
   enlarged and the long branches have a relative operand. *)
ShortBranch(e) == e.size = 2 /\ e.size16 = 2 /\ e.flag = "NOENLARGE"
LongBranch(e) == e.size = 5 /\ e.size16 = 5 /\ e.flag = "none"
GoodEntry(e) ==
    /\ e \in [size : 1 .. 9, size16 : 1 .. 9, mod : Nat, rel : {0, 1},
              flag : {"none", "ADDRESS", "NOENLARGE", "RAX"}]
    /\ e.flag = "RAX" => e.size = 5
    /\ e.rel = 1 => e.mod = 0 /\ (ShortBranch(e) \/ LongBranch(e))

(* The copy of a relative operand points to where the operand pointed. *)
SameTarget(r) ==
    r.width > 0 /\ r.extra >= 0 => r.distance + r.copied + r.new = r.size + r.old
(* A growth that is not negative is that of the copy. *)
SameGrowth(r) == r.extra >= 0 => r.copied = r.size + r.extra

-----------------------------------------------------------------------------
(* The tables *)

(* Every entry of g_rceCopyMap is a good one. *)
LEMMA MapGood == \A n \in DOMAIN g_rceCopyMap : GoodEntry(g_rceCopyMap[n])
BY DEF g_rceCopyMap, Entry, GoodEntry, ShortBranch, LongBranch

(* Each of the two tables names entries of the map only. *)
LEMMA TablesInMap ==
    /\ DOMAIN g_rceCopyTable \subseteq DOMAIN g_rceCopyMap
    /\ DOMAIN g_rceCopyTable0F \subseteq DOMAIN g_rceCopyMap
<1>1. DOMAIN g_rceCopyTable \subseteq DOMAIN g_rceCopyMap
  BY DEF g_rceCopyTable, g_rceCopyMap
<1>2. DOMAIN g_rceCopyTable0F \subseteq DOMAIN g_rceCopyMap
  BY DEF g_rceCopyTable0F, g_rceCopyMap
<1> QED BY <1>1, <1>2

(* What is looked up in a table is a good entry, whatever the opcode. *)
LEMMA LookupGood ==
    ASSUME NEW table, NEW opcode, DOMAIN table \subseteq DOMAIN g_rceCopyMap
    PROVE  GoodEntry(Lookup(table, opcode))
<1> DEFINE names == {n \in DOMAIN table : opcode \in table[n]}
<1>1. CASE names = {}
  <2>1. "Bytes1" \in DOMAIN g_rceCopyMap BY DEF g_rceCopyMap
  <2>2. Lookup(table, opcode) = g_rceCopyMap["Bytes1"] BY <1>1 DEF Lookup
  <2> QED BY <2>1, <2>2, MapGood
<1>2. CASE names # {}
  <2>1. (CHOOSE n \in names : TRUE) \in names BY <1>2
  <2>2. Lookup(table, opcode) = g_rceCopyMap[CHOOSE n \in names : TRUE]
    BY <1>2 DEF Lookup
  <2> QED BY <2>1, <2>2, MapGood
<1> QED BY <1>1, <1>2

(* The names that the Copy functions use without a table. *)
LEMMA NamedGood ==
    /\ GoodEntry(g_rceCopyMap.Bytes2Mod) /\ GoodEntry(g_rceCopyMap.Bytes2Mod1)
    /\ GoodEntry(g_rceCopyMap.Bytes2ModOperand) /\ GoodEntry(g_rceCopyMap.Bytes4)
    /\ GoodEntry(g_rceCopyMap.BytesXop) /\ GoodEntry(g_rceCopyMap.BytesXop1)
    /\ GoodEntry(g_rceCopyMap.BytesXop4)
BY DEF g_rceCopyMap, Entry, GoodEntry, ShortBranch, LongBranch

(* One-byte and two-byte opcodes lead to good entries. *)
LEMMA EntriesGood ==
    ASSUME NEW opcode, NEW modrm
    PROVE  GoodEntry(EntryOf(opcode, modrm)) /\ GoodEntry(EntryOf0F(opcode))
<1>1. GoodEntry(EntryOf(opcode, modrm))
  BY LookupGood, TablesInMap, NamedGood DEF EntryOf, CopyF6, CopyF7
<1>2. GoodEntry(EntryOf0F(opcode))
  BY LookupGood, TablesInMap, NamedGood DEF EntryOf0F, Copy0F78
<1> QED BY <1>1, <1>2

-----------------------------------------------------------------------------
(* The two ways of copying *)

(* The size of an instruction is a number. *)
LEMMA SizeNatural ==
    ASSUME NEW e, GoodEntry(e), NEW modrm, NEW base
    PROVE  /\ BytesFixed(e) \in 1 .. 9 /\ BytesOf(e, modrm, base) \in Nat
           /\ BytesOf(e, modrm, base) <= BytesFixed(e) + 5
<1>1. BytesFixed(e) \in 1 .. 9 BY DEF GoodEntry, BytesFixed
<1>2. ModBytes(modrm) \in Nat /\ SibBytes(modrm, base) \in Nat BY DEF ModBytes, SibBytes
<1>3. ModBytes(modrm) + SibBytes(modrm, base) <= 5
  <2>1. CASE HasSib(modrm) BY <2>1 DEF HasSib, ModBytes, SibBytes
  <2>2. CASE ~HasSib(modrm) BY <2>2 DEF HasSib, ModBytes, SibBytes
  <2> QED BY <2>1, <2>2
<1>4. ModBytes(modrm) + SibBytes(modrm, base) \in Nat BY <1>2
<1> HIDE DEF GoodEntry
<1> QED BY <1>1, <1>3, <1>4 DEF BytesOf

(* A relative operand is a byte that cannot be enlarged, or four bytes. *)
LEMMA WidthOfTarget ==
    ASSUME NEW e, GoodEntry(e), NEW modrm, TargetWidth(e, modrm) # 0
    PROVE  \/ TargetWidth(e, modrm) = 1 /\ e.flag = "NOENLARGE"
           \/ TargetWidth(e, modrm) = 4
<1>1. CASE e.rel = 1
  <2>1. CASE ShortBranch(e)
    BY <1>1, <2>1 DEF GoodEntry, ShortBranch, TargetWidth, BytesFixed
  <2>2. CASE LongBranch(e)
    BY <1>1, <2>2 DEF GoodEntry, LongBranch, TargetWidth, BytesFixed
  <2> QED BY <1>1, <2>1, <2>2 DEF GoodEntry
<1>2. CASE e.rel = 0
  BY <1>2 DEF TargetWidth
<1> QED BY <1>1, <1>2 DEF GoodEntry

(* CopyBytes keeps the target, unless it says that it cannot. *)
LEMMA CopyBytesKeeps ==
    ASSUME OperandsInReach, NEW e, GoodEntry(e), NEW modrm, NEW base, NEW skip \in Nat,
           NEW r \in CopyBytes(e, modrm, base, skip)
    PROVE  SameTarget(r) /\ SameGrowth(r)
<1> DEFINE size == skip + BytesOf(e, modrm, base)
           width == TargetWidth(e, modrm)
<1>1. size \in Nat BY SizeNatural
<1>2. CASE width = 0
  <2>1. r = [NoResult EXCEPT !.size = size, !.copied = size] BY <1>2 DEF CopyBytes
  <2>2. r.size = size /\ r.copied = size /\ r.width = 0 /\ r.extra = 0
    BY <2>1 DEF NoResult
  <2> QED BY <1>1, <2>2 DEF SameTarget, SameGrowth
<1>3. CASE width # 0
  <2>1. PICK old \in Displacements(width), d \in Distances :
          r = [size |-> size, copied |-> size,
               extra |-> ExtraFor(old, d, width, e.flag), width |-> width, old |-> old,
               new |-> AdjustTarget(old, d, width), distance |-> d]
    BY <1>3 DEF CopyBytes
  <2> DEFINE fits == Fits(old - d, width)
  <2>2. /\ old \in Int /\ d \in Int
        /\ -Near <= old /\ old < Near /\ d + Near + 4 <= LongHalf /\ Near - d <= LongHalf
    BY SizeAssumption DEF Displacements, OperandsInReach
  <2>3. fits => r.new = old - d /\ r.extra = 0
    <3>1. SUFFICES ASSUME fits PROVE r.new = old - d /\ r.extra = 0 OBVIOUS
    <3>2. AdjustTarget(old, d, width) = old - d
      BY <3>1 DEF AdjustTarget, NewOffset, Truncated
    <3>3. ExtraFor(old, d, width, e.flag) = Growth(0, e.flag)
      BY <3>1 DEF ExtraFor, NewOffset
    <3>4. Growth(0, e.flag) = 0 BY DEF Growth
    <3> HIDE DEF width, size
    <3> QED BY <2>1, <3>2, <3>3, <3>4
  <2>4. width = 4 => fits
    BY <2>2, SizeAssumption DEF Fits, Half
  <2>5. ~fits => r.extra < 0
    <3>1. SUFFICES ASSUME ~fits PROVE r.extra < 0 OBVIOUS
    <3>2. width = 1 /\ e.flag = "NOENLARGE" BY <1>3, <2>4, <3>1, WidthOfTarget
    <3> QED BY <2>1, <3>1, <3>2 DEF ExtraFor, NewOffset, Growth
  <2>6. fits => r.distance + r.copied + r.new = r.size + r.old /\ r.copied = r.size + r.extra
    BY <1>1, <2>1, <2>2, <2>3
  <2>7. CASE fits BY <2>6, <2>7 DEF SameTarget, SameGrowth
  <2>8. CASE ~fits
    <3>1. r.extra \in Int
      BY <1>3, <2>1, WidthOfTarget DEF ExtraFor, Growth
    <3> QED BY <2>5, <2>8, <3>1 DEF SameTarget, SameGrowth
  <2> QED BY <2>7, <2>8
<1> QED BY <1>2, <1>3

(* CopyBytesJump keeps the target of a short branch, which it always enlarges. *)
LEMMA CopyBytesJumpKeeps ==
    ASSUME OperandsInReach, NEW opcode, NEW skip \in Nat,
           NEW r \in CopyBytesJump(opcode, skip)
    PROVE  SameTarget(r) /\ SameGrowth(r)
<1> DEFINE grow == IF opcode = \hEB THEN 3 ELSE 4
<1>1. PICK old \in Displacements(1), d \in Distances :
        r = [size |-> skip + 2, copied |-> skip + 2 + grow, extra |-> grow, width |-> 1,
             old |-> old, new |-> Truncated(NewBranch(old, d, grow), 4), distance |-> d]
  BY DEF CopyBytesJump
<1>2. /\ old \in Int /\ d \in Int
      /\ -Near <= old /\ old < Near /\ d + Near + 4 <= LongHalf /\ Near - d <= LongHalf
  BY SizeAssumption DEF Displacements, OperandsInReach
<1>3. grow \in {3, 4} OBVIOUS
<1> HIDE DEF grow
<1>4. Fits(old - (d + grow), 4)
  BY <1>2, <1>3, SizeAssumption DEF Fits, Half
<1>5. r.new = old - (d + grow)
  BY <1>1, <1>4 DEF Truncated, NewBranch
<1> QED BY <1>1, <1>2, <1>3, <1>5 DEF SameTarget, SameGrowth

-----------------------------------------------------------------------------
(* Lengths *)

(* The branches of one byte that are enlarged. *)
ShortJumps == \h70 .. \h7F \cup {\hEB}
Instructions == [map : 0 .. 10, vex : BOOLEAN, opcode : Byte, modrm : Byte, base : 0 .. 7]

(* The code looks at the ModR/M byte where there is one, except in the register forms
   of EXTRQ and INSERTQ, whose ModR/M byte adds nothing: 0 stands for it. *)
SeesModRM(e, i) ==
    IF e.mod > 0 THEN HasModRM(i) ELSE HasModRM(i) => i.modrm = 0 /\ i.base = 0

(* What an entry must say of an instruction of bytes opcode bytes, of which imm
   immediate bytes follow. *)
RightEntry(e, i, bytes, imm) ==
    /\ SeesModRM(e, i)
    /\ BytesFixed(e) = bytes + imm + (IF HasModRM(i) THEN 1 ELSE 0)
    /\ e.rel > 0 <=> IsBranch(i)

(* An entry and a number of skipped bytes that are right for an instruction. *)
Fitting(e, i, skip) ==
    /\ GoodEntry(e) /\ skip \in Nat
    /\ SeesModRM(e, i)
    /\ e.rel > 0 <=> IsBranch(i)
    /\ skip + BytesFixed(e) =
           at + OpcodeBytes(i) + Immediate(i) + (IF HasModRM(i) THEN 1 ELSE 0)
    /\ skip + BytesFixed(e) <= at + 9

(* The opcodes of a column, as numbers. *)
LEMMA InColumns ==
    ASSUME NEW op \in Byte
    PROVE  /\ \A k \in 0 .. 7 : op \in Columns({k}) <=> op < \h40 /\ op % 8 = k
           /\ op \in Columns(0 .. 3) <=> op < \h40 /\ op % 8 < 4
<1>1. op \in Nat BY DEF Byte
<1>2. op < \h40 =>
         /\ op = 8 * (op \div 8) + (op % 8) /\ op \div 8 \in 0 .. 7
         /\ op % 8 \in 0 .. 7
  BY <1>1
<1>3. \A row \in 0 .. 7, k \in 0 .. 7 : 8 * row + k < \h40 /\ (8 * row + k) % 8 = k OBVIOUS
<1>4. ASSUME NEW ks \in SUBSET (0 .. 7)
      PROVE  op \in Columns(ks) <=> op < \h40 /\ op % 8 \in ks
  <2>1. ASSUME op \in Columns(ks) PROVE op < \h40 /\ op % 8 \in ks
    BY <1>3, <2>1 DEF Columns
  <2>2. ASSUME op < \h40, op % 8 \in ks PROVE op \in Columns(ks)
    BY <1>2, <2>2 DEF Columns
  <2> QED BY <2>1, <2>2
<1>5. \A k \in 0 .. 7 : op \in Columns({k}) <=> op < \h40 /\ op % 8 = k
  <2>1. SUFFICES ASSUME NEW k \in 0 .. 7
                 PROVE  op \in Columns({k}) <=> op < \h40 /\ op % 8 = k
    OBVIOUS
  <2>2. {k} \in SUBSET (0 .. 7) OBVIOUS
  <2> QED BY <1>4, <2>2
<1>6. op \in Columns(0 .. 3) <=> op < \h40 /\ op % 8 \in 0 .. 3
  <2>1. 0 .. 3 \in SUBSET (0 .. 7) OBVIOUS
  <2> QED BY <1>4, <2>1
<1> QED BY <1>1, <1>5, <1>6

(* Every entry that the table names for a one-byte opcode is the right one: this goes
   through the table name by name. *)
LEMMA OneByteListed ==
    ASSUME NEW i, i.map = 1, i.vex = FALSE, i.opcode \in OneByteOpcodes \ ShortJumps,
           i.opcode \notin {\h8F, \hF6, \hF7, \hFF}, NEW reg,
           NEW n \in DOMAIN g_rceCopyTable, i.opcode \in g_rceCopyTable[n]
    PROVE  RightEntry(g_rceCopyMap[n], i, 1, Immediate1(i.opcode, reg))
<1> DEFINE op == i.opcode
<1>1. op \in Byte /\ op \notin NotIn64Bit /\ op \notin PrefixOpcodes
      /\ op \notin {\h0F, \h62, \hC4, \hC5} /\ op \notin ShortJumps
  BY DEF OneByteOpcodes
<1>2. /\ op \in Columns({4}) <=> op < \h40 /\ op % 8 = 4
      /\ op \in Columns({5}) <=> op < \h40 /\ op % 8 = 5
      /\ op \in Columns(0 .. 3) <=> op < \h40 /\ op % 8 < 4
  BY <1>1, InColumns
<1>3. CASE n = "Bytes1"
  <2>1. op \in g_rceCopyTable.Bytes1 BY <1>3
  <2>2. g_rceCopyMap[n] = g_rceCopyMap.Bytes1 BY <1>3
  <2>3. BytesFixed(g_rceCopyMap[n]) = 1 /\ g_rceCopyMap[n].mod = 0
        /\ g_rceCopyMap[n].rel = 0
    BY <2>2 DEF g_rceCopyMap, Entry, BytesFixed
  <2>4. ~HasModRM(i)
    BY <1>1, <1>2, <2>1 DEF g_rceCopyTable, HasModRM, Byte
  <2>5. Immediate1(op, reg) = 0
    BY <1>1, <1>2, <2>1 DEF g_rceCopyTable, Immediate1, Byte
  <2>6. ~IsBranch(i)
    BY <1>1, <1>2, <2>1 DEF g_rceCopyTable, IsBranch, Byte, ShortJumps
  <2> QED BY <2>3, <2>4, <2>5, <2>6 DEF RightEntry, SeesModRM
<1>4. CASE n = "Bytes1Address"
  <2>1. op \in g_rceCopyTable.Bytes1Address BY <1>4
  <2>2. g_rceCopyMap[n] = g_rceCopyMap.Bytes1Address BY <1>4
  <2> QED
    BY <1>1, <1>2, <2>1, <2>2 DEF g_rceCopyTable, g_rceCopyMap, Entry, RightEntry,
      SeesModRM, HasModRM, BytesFixed, Immediate1, ImmediateZ, IsBranch, ShortJumps, Byte,
      NotIn64Bit, PrefixOpcodes
<1>5. CASE n = "Bytes2"
  <2>1. op \in g_rceCopyTable.Bytes2 BY <1>5
  <2>2. g_rceCopyMap[n] = g_rceCopyMap.Bytes2 BY <1>5
  <2> QED
    BY <1>1, <1>2, <2>1, <2>2 DEF g_rceCopyTable, g_rceCopyMap, Entry, RightEntry,
      SeesModRM, HasModRM, BytesFixed, Immediate1, ImmediateZ, IsBranch, ShortJumps, Byte,
      NotIn64Bit, PrefixOpcodes
<1>6. CASE n = "Bytes2CantJump"
  <2>1. op \in g_rceCopyTable.Bytes2CantJump BY <1>6
  <2>2. g_rceCopyMap[n] = g_rceCopyMap.Bytes2CantJump BY <1>6
  <2> QED
    BY <1>1, <1>2, <2>1, <2>2 DEF g_rceCopyTable, g_rceCopyMap, Entry, RightEntry,
      SeesModRM, HasModRM, BytesFixed, Immediate1, ImmediateZ, IsBranch, ShortJumps, Byte,
      NotIn64Bit, PrefixOpcodes
<1>7. CASE n = "Bytes3"
  <2>1. op \in g_rceCopyTable.Bytes3 BY <1>7
  <2>2. g_rceCopyMap[n] = g_rceCopyMap.Bytes3 BY <1>7
  <2> QED
    BY <1>1, <1>2, <2>1, <2>2 DEF g_rceCopyTable, g_rceCopyMap, Entry, RightEntry,
      SeesModRM, HasModRM, BytesFixed, Immediate1, ImmediateZ, IsBranch, ShortJumps, Byte,
      NotIn64Bit, PrefixOpcodes
<1>8. CASE n = "Bytes3Or5"
  <2>1. op \in g_rceCopyTable.Bytes3Or5 BY <1>8
  <2>2. g_rceCopyMap[n] = g_rceCopyMap.Bytes3Or5 BY <1>8
  <2> QED
    BY <1>1, <1>2, <2>1, <2>2 DEF g_rceCopyTable, g_rceCopyMap, Entry, RightEntry,
      SeesModRM, HasModRM, BytesFixed, Immediate1, ImmediateZ, IsBranch, ShortJumps, Byte,
      NotIn64Bit, PrefixOpcodes
<1>9. CASE n = "Bytes3Or5Rax"
  <2>1. op \in g_rceCopyTable.Bytes3Or5Rax BY <1>9
  <2>2. g_rceCopyMap[n] = g_rceCopyMap.Bytes3Or5Rax BY <1>9
  <2> QED
    BY <1>1, <1>2, <2>1, <2>2 DEF g_rceCopyTable, g_rceCopyMap, Entry, RightEntry,
      SeesModRM, HasModRM, BytesFixed, Immediate1, ImmediateZ, IsBranch, ShortJumps, Byte,
      NotIn64Bit, PrefixOpcodes
<1>10. CASE n = "Bytes3Or5Target"
  <2>1. op \in g_rceCopyTable.Bytes3Or5Target BY <1>10
  <2>2. g_rceCopyMap[n] = g_rceCopyMap.Bytes3Or5Target BY <1>10
  <2> QED
    BY <1>1, <1>2, <2>1, <2>2 DEF g_rceCopyTable, g_rceCopyMap, Entry, RightEntry,
      SeesModRM, HasModRM, BytesFixed, Immediate1, ImmediateZ, IsBranch, ShortJumps, Byte,
      NotIn64Bit, PrefixOpcodes
<1>11. CASE n = "Bytes4"
  <2>1. op \in g_rceCopyTable.Bytes4 BY <1>11
  <2>2. g_rceCopyMap[n] = g_rceCopyMap.Bytes4 BY <1>11
  <2> QED
    BY <1>1, <1>2, <2>1, <2>2 DEF g_rceCopyTable, g_rceCopyMap, Entry, RightEntry,
      SeesModRM, HasModRM, BytesFixed, Immediate1, ImmediateZ, IsBranch, ShortJumps, Byte,
      NotIn64Bit, PrefixOpcodes
<1>12. CASE n = "Bytes2Mod"
  <2>1. op \in g_rceCopyTable.Bytes2Mod BY <1>12
  <2>2. g_rceCopyMap[n] = g_rceCopyMap.Bytes2Mod BY <1>12
  <2>3. BytesFixed(g_rceCopyMap[n]) = 2 /\ g_rceCopyMap[n].mod = 1
        /\ g_rceCopyMap[n].rel = 0
    BY <2>2 DEF g_rceCopyMap, Entry, BytesFixed
  <2>4. HasModRM(i)
    BY <1>1, <1>2, <2>1 DEF g_rceCopyTable, HasModRM, Byte
  <2>5. Immediate1(op, reg) = 0
    BY <1>1, <1>2, <2>1 DEF g_rceCopyTable, Immediate1, Byte
  <2>6. ~IsBranch(i)
    BY <1>1, <1>2, <2>1 DEF g_rceCopyTable, IsBranch, Byte, ShortJumps
  <2> QED BY <2>3, <2>4, <2>5, <2>6 DEF RightEntry, SeesModRM
<1>13. CASE n = "Bytes2Mod1"
  <2>1. op \in g_rceCopyTable.Bytes2Mod1 BY <1>13
  <2>2. g_rceCopyMap[n] = g_rceCopyMap.Bytes2Mod1 BY <1>13
  <2> QED
    BY <1>1, <1>2, <2>1, <2>2 DEF g_rceCopyTable, g_rceCopyMap, Entry, RightEntry,
      SeesModRM, HasModRM, BytesFixed, Immediate1, ImmediateZ, IsBranch, ShortJumps, Byte,
      NotIn64Bit, PrefixOpcodes
<1>14. CASE n = "Bytes2ModOperand"
  <2>1. op \in g_rceCopyTable.Bytes2ModOperand BY <1>14
  <2>2. g_rceCopyMap[n] = g_rceCopyMap.Bytes2ModOperand BY <1>14
  <2> QED
    BY <1>1, <1>2, <2>1, <2>2 DEF g_rceCopyTable, g_rceCopyMap, Entry, RightEntry,
      SeesModRM, HasModRM, BytesFixed, Immediate1, ImmediateZ, IsBranch, ShortJumps, Byte,
      NotIn64Bit, PrefixOpcodes
<1> QED
  BY <1>3, <1>4, <1>5, <1>6, <1>7, <1>8, <1>9, <1>10, <1>11, <1>12, <1>13, <1>14
  DEF g_rceCopyTable

(* The table leaves out no one-byte opcode that is neither a prefix nor special. *)
LEMMA OneByteAllListed ==
    ASSUME NEW op \in OneByteOpcodes \ ShortJumps, op \notin {\h8F, \hF6, \hF7, \hFF}
    PROVE  \E n \in DOMAIN g_rceCopyTable : op \in g_rceCopyTable[n]
<1>1. op \in Byte /\ op \notin NotIn64Bit /\ op \notin PrefixOpcodes
      /\ op \notin {\h0F, \h62, \hC4, \hC5} /\ op \notin ShortJumps
  BY DEF OneByteOpcodes
<1>2. /\ op \in Columns({4}) <=> op < \h40 /\ op % 8 = 4
      /\ op \in Columns({5}) <=> op < \h40 /\ op % 8 = 5
      /\ op \in Columns(0 .. 3) <=> op < \h40 /\ op % 8 < 4
  BY <1>1, InColumns
<1> DEFINE T == g_rceCopyTable
<1>3. \/ op \in T.Bytes1 \/ op \in T.Bytes1Address \/ op \in T.Bytes2
      \/ op \in T.Bytes2CantJump \/ op \in T.Bytes3 \/ op \in T.Bytes3Or5
      \/ op \in T.Bytes3Or5Rax \/ op \in T.Bytes3Or5Target \/ op \in T.Bytes4
      \/ op \in T.Bytes2Mod \/ op \in T.Bytes2Mod1 \/ op \in T.Bytes2ModOperand
  BY <1>1, <1>2 DEF g_rceCopyTable, NotIn64Bit, PrefixOpcodes, ShortJumps, Byte
<1> QED BY <1>3 DEF g_rceCopyTable

(* CopyInstruction looks up the right entry for a one-byte opcode. *)
LEMMA OneByteRight ==
    ASSUME NEW i, i.map = 1, i.vex = FALSE, i.opcode \in OneByteOpcodes \ ShortJumps
    PROVE  RightEntry(EntryOf(i.opcode, i.modrm), i, 1, Immediate1(i.opcode, Reg(i.modrm)))
<1> DEFINE op == i.opcode
           e == EntryOf(op, i.modrm)
<1>1. op \in Byte BY DEF OneByteOpcodes
<1>2. CASE op \in {\h8F, \hF6, \hF7, \hFF}
  <2>1. HasModRM(i) BY <1>2 DEF HasModRM
  <2>2. ~IsBranch(i) BY <1>2 DEF IsBranch
  <2>3. CASE op \in {\h8F, \hFF}
    <3>1. e = g_rceCopyMap.Bytes2Mod BY <2>3 DEF EntryOf
    <3>2. Immediate1(op, Reg(i.modrm)) = 0 BY <2>3 DEF Immediate1
    <3> QED BY <2>1, <2>2, <3>1, <3>2 DEF RightEntry, SeesModRM, g_rceCopyMap, Entry, BytesFixed
  <2>4. CASE op = \hF6
    <3>1. e = IF Reg(i.modrm) = 0 THEN g_rceCopyMap.Bytes2Mod1 ELSE g_rceCopyMap.Bytes2Mod
      BY <2>4 DEF EntryOf, CopyF6
    <3>2. Immediate1(op, Reg(i.modrm)) = IF Reg(i.modrm) = 0 THEN 1 ELSE 0
      BY <2>4 DEF Immediate1
    <3> QED BY <2>1, <2>2, <3>1, <3>2 DEF RightEntry, SeesModRM, g_rceCopyMap, Entry, BytesFixed
  <2>5. CASE op = \hF7
    <3>1. e = IF Reg(i.modrm) = 0 THEN g_rceCopyMap.Bytes2ModOperand
              ELSE g_rceCopyMap.Bytes2Mod
      BY <2>5 DEF EntryOf, CopyF7
    <3>2. Immediate1(op, Reg(i.modrm)) = IF Reg(i.modrm) = 0 THEN ImmediateZ ELSE 0
      BY <2>5 DEF Immediate1
    <3> QED
      BY <2>1, <2>2, <3>1, <3>2 DEF RightEntry, SeesModRM, g_rceCopyMap, Entry, BytesFixed,
        ImmediateZ
  <2> QED BY <1>2, <2>3, <2>4, <2>5
<1>3. CASE op \notin {\h8F, \hF6, \hF7, \hFF}
  <2> DEFINE found == {n \in DOMAIN g_rceCopyTable : op \in g_rceCopyTable[n]}
  <2>1. found # {} BY <1>3, OneByteAllListed
  <2>2. PICK n \in found : n = CHOOSE m \in found : TRUE BY <2>1
  <2>3. e = g_rceCopyMap[n] BY <1>3, <2>1, <2>2 DEF EntryOf, Lookup
  <2>4. RightEntry(g_rceCopyMap[n], i, 1, Immediate1(op, Reg(i.modrm)))
    BY <1>3, <2>2, OneByteListed
  <2> HIDE DEF e, op
  <2>5. RightEntry(e, i, 1, Immediate1(op, Reg(i.modrm))) BY <2>3, <2>4
  <2> QED BY <2>5 DEF e, op
<1> QED BY <1>2, <1>3

(* Every entry that the table names for a two-byte opcode is the right one. *)
LEMMA TwoByteListed ==
    ASSUME NEW i,
           \/ i.map = 2 /\ i.vex = FALSE
           \/ i.map = 1 /\ i.vex = TRUE /\ i.opcode \in VexOpcodes,
           i.opcode \in TwoByteOpcodes, i.opcode # \h78,
           NEW n \in DOMAIN g_rceCopyTable0F, i.opcode \in g_rceCopyTable0F[n]
    PROVE  RightEntry(g_rceCopyMap[n], i, IF i.opcode \in {\h38, \h3A} THEN 2 ELSE 1,
                      Immediate2(i.opcode))
<1> DEFINE op == i.opcode
<1>1. op \in Nat BY DEF TwoByteOpcodes, Byte
<1>2. CASE n = "Bytes1"
  <2>1. op \in g_rceCopyTable0F.Bytes1 BY <1>2
  <2>2. g_rceCopyMap[n] = g_rceCopyMap.Bytes1 BY <1>2
  <2>3. ~HasModRM(i)
    BY <1>1, <2>1 DEF g_rceCopyTable0F, HasModRM
  <2>4. Immediate2(op) = 0
    BY <1>1, <2>1 DEF g_rceCopyTable0F, Immediate2
  <2>5. ~IsBranch(i)
    BY <1>1, <2>1 DEF g_rceCopyTable0F, IsBranch, VexOpcodes
  <2>6. op \notin {\h38, \h3A}
    BY <1>1, <2>1 DEF g_rceCopyTable0F
  <2> QED
    BY <2>2, <2>3, <2>4, <2>5, <2>6 DEF g_rceCopyMap, Entry, RightEntry, SeesModRM, BytesFixed
<1>3. CASE n = "Bytes2Mod"
  <2>1. op \in g_rceCopyTable0F.Bytes2Mod BY <1>3
  <2>2. g_rceCopyMap[n] = g_rceCopyMap.Bytes2Mod BY <1>3
  <2>3. HasModRM(i)
    BY <1>1, <2>1 DEF g_rceCopyTable0F, HasModRM
  <2>4. Immediate2(op) = 0
    BY <1>1, <2>1 DEF g_rceCopyTable0F, Immediate2
  <2>5. ~IsBranch(i)
    BY <1>1, <2>1 DEF g_rceCopyTable0F, IsBranch, VexOpcodes
  <2>6. op \notin {\h38, \h3A}
    BY <1>1, <2>1 DEF g_rceCopyTable0F
  <2> QED
    BY <2>2, <2>3, <2>4, <2>5, <2>6 DEF g_rceCopyMap, Entry, RightEntry, SeesModRM, BytesFixed
<1>4. CASE n = "Bytes2Mod1"
  <2>1. op \in g_rceCopyTable0F.Bytes2Mod1 BY <1>4
  <2>2. g_rceCopyMap[n] = g_rceCopyMap.Bytes2Mod1 BY <1>4
  <2>3. HasModRM(i)
    BY <1>1, <2>1 DEF g_rceCopyTable0F, HasModRM
  <2>4. Immediate2(op) = 1
    BY <1>1, <2>1 DEF g_rceCopyTable0F, Immediate2
  <2>5. ~IsBranch(i)
    BY <1>1, <2>1 DEF g_rceCopyTable0F, IsBranch, VexOpcodes
  <2>6. op \notin {\h38, \h3A}
    BY <1>1, <2>1 DEF g_rceCopyTable0F
  <2> QED
    BY <2>2, <2>3, <2>4, <2>5, <2>6 DEF g_rceCopyMap, Entry, RightEntry, SeesModRM, BytesFixed
<1>5. CASE n = "Bytes3Mod"
  <2>1. op \in g_rceCopyTable0F.Bytes3Mod BY <1>5
  <2>2. g_rceCopyMap[n] = g_rceCopyMap.Bytes3Mod BY <1>5
  <2>3. HasModRM(i)
    BY <1>1, <2>1 DEF g_rceCopyTable0F, HasModRM
  <2>4. Immediate2(op) = 0
    BY <1>1, <2>1 DEF g_rceCopyTable0F, Immediate2
  <2>5. ~IsBranch(i)
    BY <1>1, <2>1 DEF g_rceCopyTable0F, IsBranch, VexOpcodes
  <2>6. op \in {\h38, \h3A}
    BY <1>1, <2>1 DEF g_rceCopyTable0F
  <2> QED
    BY <2>2, <2>3, <2>4, <2>5, <2>6 DEF g_rceCopyMap, Entry, RightEntry, SeesModRM, BytesFixed
<1>6. CASE n = "Bytes3Mod1"
  <2>1. op \in g_rceCopyTable0F.Bytes3Mod1 BY <1>6
  <2>2. g_rceCopyMap[n] = g_rceCopyMap.Bytes3Mod1 BY <1>6
  <2>3. HasModRM(i)
    BY <1>1, <2>1 DEF g_rceCopyTable0F, HasModRM
  <2>4. Immediate2(op) = 1
    BY <1>1, <2>1 DEF g_rceCopyTable0F, Immediate2
  <2>5. ~IsBranch(i)
    BY <1>1, <2>1 DEF g_rceCopyTable0F, IsBranch, VexOpcodes
  <2>6. op \in {\h38, \h3A}
    BY <1>1, <2>1 DEF g_rceCopyTable0F
  <2> QED
    BY <2>2, <2>3, <2>4, <2>5, <2>6 DEF g_rceCopyMap, Entry, RightEntry, SeesModRM, BytesFixed
<1>7. CASE n = "Bytes3Or5Target"
  <2>1. op \in g_rceCopyTable0F.Bytes3Or5Target BY <1>7
  <2>2. g_rceCopyMap[n] = g_rceCopyMap.Bytes3Or5Target BY <1>7
  <2>3. ~HasModRM(i)
    BY <1>1, <2>1 DEF g_rceCopyTable0F, HasModRM
  <2>4. Immediate2(op) = 4
    BY <1>1, <2>1 DEF g_rceCopyTable0F, Immediate2
  <2>5. IsBranch(i)
    BY <1>1, <2>1 DEF g_rceCopyTable0F, IsBranch, VexOpcodes
  <2>6. op \notin {\h38, \h3A}
    BY <1>1, <2>1 DEF g_rceCopyTable0F
  <2> QED
    BY <2>2, <2>3, <2>4, <2>5, <2>6 DEF g_rceCopyMap, Entry, RightEntry, SeesModRM, BytesFixed
<1> QED BY <1>2, <1>3, <1>4, <1>5, <1>6, <1>7 DEF g_rceCopyTable0F

(* The table leaves out no two-byte opcode. *)
LEMMA TwoByteAllListed ==
    ASSUME NEW op \in TwoByteOpcodes, op # \h78
    PROVE  \E n \in DOMAIN g_rceCopyTable0F : op \in g_rceCopyTable0F[n]
<1> DEFINE T == g_rceCopyTable0F
<1>1. \/ op \in T.Bytes1 \/ op \in T.Bytes2Mod \/ op \in T.Bytes2Mod1
      \/ op \in T.Bytes3Mod \/ op \in T.Bytes3Mod1 \/ op \in T.Bytes3Or5Target
  BY DEF g_rceCopyTable0F, TwoByteOpcodes, Byte
<1> QED BY <1>1 DEF g_rceCopyTable0F

(* Copy0F looks up the right entry, and so does CopyVexEvexCommon for the map of 0F. *)
LEMMA TwoByteRight ==
    ASSUME NEW i,
           \/ i.map = 2 /\ i.vex = FALSE
           \/ i.map = 1 /\ i.vex = TRUE /\ i.opcode \in VexOpcodes,
           i.opcode \in TwoByteOpcodes,
           EntryOf0F(i.opcode).mod = 0 => i.modrm = 0 /\ i.base = 0
    PROVE  RightEntry(EntryOf0F(i.opcode), i, IF i.opcode \in {\h38, \h3A} THEN 2 ELSE 1,
                      Immediate2(i.opcode))
<1> DEFINE op == i.opcode
           e == EntryOf0F(op)
           bytes == IF op \in {\h38, \h3A} THEN 2 ELSE 1
<1>1. CASE op = \h78
  <2>1. e = IF flags.f2 \/ flags.operand THEN g_rceCopyMap.Bytes4 ELSE g_rceCopyMap.Bytes2Mod
    BY <1>1 DEF EntryOf0F, Copy0F78
  <2>2. Immediate2(op) = IF flags.f2 \/ flags.operand THEN 2 ELSE 0 BY <1>1 DEF Immediate2
  <2>3. ~IsBranch(i) /\ bytes = 1 BY <1>1 DEF IsBranch
  <2>4. HasModRM(i) BY <1>1 DEF HasModRM
  <2> QED
    BY <2>1, <2>2, <2>3, <2>4 DEF RightEntry, SeesModRM, g_rceCopyMap, Entry, BytesFixed
<1>2. CASE op # \h78
  <2> DEFINE found == {n \in DOMAIN g_rceCopyTable0F : op \in g_rceCopyTable0F[n]}
  <2>1. found # {} BY <1>2, TwoByteAllListed
  <2>2. PICK n \in found : n = CHOOSE m \in found : TRUE BY <2>1
  <2>3. e = g_rceCopyMap[n] BY <1>2, <2>1, <2>2 DEF EntryOf0F, Lookup
  <2>4. RightEntry(g_rceCopyMap[n], i, bytes, Immediate2(op))
    BY <1>2, <2>2, TwoByteListed
  <2> HIDE DEF e, op, bytes
  <2>5. RightEntry(e, i, bytes, Immediate2(op)) BY <2>3, <2>4
  <2> QED BY <2>5 DEF e, op, bytes
<1> QED BY <1>1, <1>2

(* The entry of a one-byte opcode fits. *)
LEMMA OneByteFits ==
    ASSUME at \in Nat, NEW i \in Instructions, i.map = 1, i.vex = FALSE,
           i.opcode \in OneByteOpcodes \ ShortJumps
    PROVE  Fitting(EntryOf(i.opcode, i.modrm), i, at)
<1> DEFINE e == EntryOf(i.opcode, i.modrm)
<1>1. RightEntry(e, i, 1, Immediate1(i.opcode, Reg(i.modrm))) BY OneByteRight
<1>2. GoodEntry(e) BY EntriesGood
<1>3. BytesFixed(e) \in 1 .. 9 BY <1>2, SizeNatural
<1>4. Immediate(i) = Immediate1(i.opcode, Reg(i.modrm)) /\ OpcodeBytes(i) = 1
  BY DEF Immediate, OpcodeBytes
<1> HIDE DEF e
<1>5. at + BytesFixed(e) =
        at + OpcodeBytes(i) + Immediate(i) + (IF HasModRM(i) THEN 1 ELSE 0)
  <2>1. Immediate(i) \in Nat BY <1>4 DEF Immediate1, ImmediateZ
  <2> QED BY <1>1, <1>3, <1>4, <2>1 DEF RightEntry
<1>6. Fitting(e, i, at) BY <1>1, <1>2, <1>3, <1>5 DEF Fitting, RightEntry
<1> QED BY <1>6 DEF e

(* The immediate operands of the map of 0F are short. *)
LEMMA ShortImmediate == \A op : Immediate2(op) \in 0 .. 4
BY DEF Immediate2

(* The entry of a two-byte opcode fits, after one skipped byte. *)
LEMMA TwoByteFits ==
    ASSUME at \in Nat, NEW i \in Instructions, i.map = 2, i.vex = FALSE,
           i.opcode \in TwoByteOpcodes,
           EntryOf0F(i.opcode).mod = 0 => i.modrm = 0 /\ i.base = 0
    PROVE  Fitting(EntryOf0F(i.opcode), i, at + 1)
<1> DEFINE e == EntryOf0F(i.opcode)
           bytes == IF i.opcode \in {\h38, \h3A} THEN 2 ELSE 1
<1>1. RightEntry(e, i, bytes, Immediate2(i.opcode)) BY TwoByteRight
<1>2. GoodEntry(e) BY EntriesGood
<1>3. BytesFixed(e) \in 1 .. 9 BY <1>2, SizeNatural
<1>4. Immediate(i) = Immediate2(i.opcode) /\ OpcodeBytes(i) = bytes + 1
  BY DEF Immediate, OpcodeBytes
<1>5. Immediate2(i.opcode) \in 0 .. 4 BY ShortImmediate
<1>6. bytes \in 1 .. 2 OBVIOUS
<1> HIDE DEF e, bytes
<1>7. Fitting(e, i, at + 1)
  BY <1>1, <1>2, <1>3, <1>4, <1>5, <1>6 DEF Fitting, RightEntry
<1> QED BY <1>7 DEF e

(* The entry that CopyVexEvexCommon takes. *)
VexEntry(i) ==
    CASE i.map = 1 -> EntryOf0F(i.opcode)
      [] i.map = 3 -> g_rceCopyMap.Bytes2Mod1
      [] OTHER -> g_rceCopyMap.Bytes2Mod

(* It fits the instruction. *)
LEMMA VexFits ==
    ASSUME at \in Nat, NEW i \in Instructions, i.vex = TRUE, i.opcode \in VexOpcodes,
           VexEntry(i).mod = 0 => i.modrm = 0 /\ i.base = 0
    PROVE  Fitting(VexEntry(i), i, at)
<1> DEFINE op == i.opcode
           e == VexEntry(i)
<1>1. CASE i.map = 1
  <2>1. e = EntryOf0F(op) BY <1>1 DEF VexEntry
  <2>2. op \in TwoByteOpcodes /\ op \notin {\h38, \h3A}
    BY DEF VexOpcodes, TwoByteOpcodes, Byte
  <2>3. RightEntry(EntryOf0F(op), i, IF op \in {\h38, \h3A} THEN 2 ELSE 1, Immediate2(op))
    BY <1>1, <2>1, <2>2, TwoByteRight
  <2>4. RightEntry(EntryOf0F(op), i, 1, Immediate2(op)) BY <2>2, <2>3
  <2>5. GoodEntry(e) BY <2>1, EntriesGood
  <2>6. BytesFixed(e) \in 1 .. 9 BY <2>5, SizeNatural
  <2>7. Immediate(i) = Immediate2(op) /\ OpcodeBytes(i) = 1 BY <1>1 DEF Immediate, OpcodeBytes
  <2>8. Immediate2(op) \in 0 .. 4 BY ShortImmediate
  <2>9. RightEntry(e, i, 1, Immediate2(op)) BY <2>1, <2>4
  <2> HIDE DEF e, op
  <2>10. Fitting(e, i, at)
    BY <2>5, <2>6, <2>7, <2>8, <2>9 DEF Fitting, RightEntry
  <2> QED BY <2>10 DEF e
<1>2. CASE i.map # 1
  <2>1. e = IF i.map = 3 THEN g_rceCopyMap.Bytes2Mod1 ELSE g_rceCopyMap.Bytes2Mod
    BY <1>2 DEF VexEntry
  <2>2. Immediate(i) = IF i.map = 3 THEN 1 ELSE 0 BY <1>2 DEF Immediate
  <2>3. OpcodeBytes(i) = 1 BY DEF OpcodeBytes
  <2>4. HasModRM(i) /\ ~IsBranch(i) BY <1>2 DEF HasModRM, IsBranch
  <2>5. GoodEntry(e) BY <2>1, NamedGood
  <2>6. BytesFixed(e) = 2 + Immediate(i) /\ e.mod = 1 /\ e.rel = 0
    BY <2>1, <2>2 DEF g_rceCopyMap, Entry, BytesFixed
  <2>7. Immediate(i) \in 0 .. 1 BY <2>2
  <2> HIDE DEF e, op
  <2>8. Fitting(e, i, at)
    BY <2>3, <2>4, <2>5, <2>6, <2>7 DEF Fitting, SeesModRM
  <2> QED BY <2>8 DEF e
<1> QED BY <1>1, <1>2

(* The entry that CopyXop takes. *)
XopEntry(i) ==
    CASE i.map = 8 -> g_rceCopyMap.BytesXop1
      [] i.map = 9 -> g_rceCopyMap.BytesXop
      [] OTHER -> g_rceCopyMap.BytesXop4

(* It fits the instruction. *)
LEMMA XopFits ==
    ASSUME at \in Nat, NEW i \in Instructions, i.map \in 8 .. 10, i.vex = FALSE
    PROVE  Fitting(XopEntry(i), i, at)
<1> DEFINE e == XopEntry(i)
<1>1. e = IF i.map = 8 THEN g_rceCopyMap.BytesXop1
          ELSE IF i.map = 9 THEN g_rceCopyMap.BytesXop ELSE g_rceCopyMap.BytesXop4
  BY DEF XopEntry
<1>2. Immediate(i) = IF i.map = 8 THEN 1 ELSE IF i.map = 9 THEN 0 ELSE 4
  BY DEF Immediate
<1>3. OpcodeBytes(i) = 4 BY DEF OpcodeBytes
<1>4. HasModRM(i) /\ ~IsBranch(i) BY DEF HasModRM, IsBranch
<1>5. GoodEntry(e) BY <1>1, NamedGood
<1>6. BytesFixed(e) = 5 + Immediate(i) /\ e.mod = 4 /\ e.rel = 0
  BY <1>1, <1>2 DEF g_rceCopyMap, Entry, BytesFixed
<1>7. Immediate(i) \in 0 .. 4 BY <1>2
<1> HIDE DEF e
<1>8. Fitting(e, i, at)
  BY <1>3, <1>4, <1>5, <1>6, <1>7 DEF Fitting, SeesModRM
<1> QED BY <1>8 DEF e

-----------------------------------------------------------------------------
(* What a finished copy says *)

(* The length and the kind of an instruction. *)
RightOutcome(r, i) ==
    /\ r.size = InstructionLength(i)
    /\ ~IsXbegin(i) => (r.width > 0 <=> HasRelativeOperand(i))

(* The components of the result of SlimDetoursCopyInstruction. *)
TypedOutcome(r, most) ==
    /\ r.size \in 0 .. most /\ r.copied \in 0 .. most
    /\ r.extra \in {-3, 0, 3, 4} /\ r.width \in {0, 1, 4}
    /\ r.new \in -LongHalf .. (LongHalf - 1)

(* The tables of g_rbModRm and the SIB byte add what the architecture says. *)
LEMMA AddressRight ==
    ASSUME NEW modrm \in Byte, NEW base \in 0 .. 7
    PROVE  AddressBytes(modrm, base) = ModBytes(modrm) + SibBytes(modrm, base)
BY DEF AddressBytes, ModBytes, SibBytes, HasSib, Mod, Rm, Byte

(* The ModR/M bytes of an operand relative to the instruction. *)
LEMMA RipRight ==
    ASSUME NEW modrm \in Byte
    PROVE  IsRip(modrm) <=> modrm \in {8 * reg + 5 : reg \in 0 .. 7}
<1>1. ASSUME IsRip(modrm) PROVE modrm \in {8 * reg + 5 : reg \in 0 .. 7}
  <2>1. modrm = 8 * (modrm \div 8) + 5 /\ modrm \div 8 \in 0 .. 7
    BY <1>1 DEF Byte, IsRip, Mod, Rm
  <2> QED BY <2>1
<1>2. ASSUME modrm \in {8 * reg + 5 : reg \in 0 .. 7} PROVE IsRip(modrm)
  BY <1>2 DEF IsRip, Mod, Rm, Byte
<1> QED BY <1>1, <1>2

(* A displacement that is cut to a width fits it. *)
LEMMA TruncatedFits ==
    ASSUME NEW x \in Int, NEW width, Half(width) \in Nat \ {0}
    PROVE  Truncated(x, width) \in -Half(width) .. (Half(width) - 1)
<1> DEFINE H == Half(width)
<1>1. H \in Nat \ {0} OBVIOUS
<1>2. Truncated(x, width) = IF -H <= x /\ x < H THEN x ELSE ((x + H) % (2 * H)) - H
  BY DEF Truncated, Fits
<1> HIDE DEF H
<1>3. (x + H) % (2 * H) \in 0 .. (2 * H - 1) BY <1>1
<1>4. Truncated(x, width) \in -H .. (H - 1) BY <1>1, <1>2, <1>3
<1> QED BY <1>4 DEF H

(* CopyBytes finds the length of the instruction and its relative operand. *)
LEMMA CopyBytesRight ==
    ASSUME at \in Nat, NEW i \in Instructions, NEW e, NEW skip, Fitting(e, i, skip),
           NEW r \in CopyBytes(e, i.modrm, i.base, skip)
    PROVE  RightOutcome(r, i)
<1> DEFINE width == TargetWidth(e, i.modrm)
           size == skip + BytesOf(e, i.modrm, i.base)
<1>1. /\ i.modrm \in Byte /\ i.base \in 0 .. 7 /\ GoodEntry(e) /\ skip \in Nat
      /\ BytesFixed(e) \in 1 .. 9 /\ e.mod \in Nat /\ e.rel \in {0, 1}
  BY SizeNatural DEF Instructions, Fitting, GoodEntry
<1>2. r.size = size /\ r.width = width
  <2>1. CASE width = 0
    <3>1. r = [NoResult EXCEPT !.size = size, !.copied = size] BY <2>1 DEF CopyBytes
    <3> HIDE DEF size
    <3>2. r.size = size /\ r.width = 0 BY <3>1 DEF NoResult
    <3> QED BY <2>1, <3>2
  <2>2. CASE width # 0
    <3>1. PICK old \in Displacements(width), d \in Distances :
            r = [size |-> size, copied |-> size,
                 extra |-> ExtraFor(old, d, width, e.flag), width |-> width, old |-> old,
                 new |-> AdjustTarget(old, d, width), distance |-> d]
      BY <2>2 DEF CopyBytes
    <3> HIDE DEF size, width
    <3> QED BY <3>1
  <2> QED BY <2>1, <2>2
<1>3. size = InstructionLength(i)
  <2>1. AddressBytes(i.modrm, i.base) = ModBytes(i.modrm) + SibBytes(i.modrm, i.base)
    BY <1>1, AddressRight
  <2>2. ModBytes(i.modrm) \in Nat /\ SibBytes(i.modrm, i.base) \in Nat
    BY DEF ModBytes, SibBytes
  <2>3. OpcodeBytes(i) \in Nat BY DEF OpcodeBytes
  <2>4. Immediate(i) \in Nat
    BY DEF Immediate, Immediate1, Immediate2, ImmediateZ
  <2>5. CASE e.mod > 0
    <3>1. HasModRM(i) BY <2>5 DEF Fitting, SeesModRM
    <3>2. BytesOf(e, i.modrm, i.base) =
            BytesFixed(e) + (ModBytes(i.modrm) + SibBytes(i.modrm, i.base))
      BY <2>5 DEF BytesOf
    <3>3. skip + BytesFixed(e) = at + OpcodeBytes(i) + Immediate(i) + 1
      BY <3>1 DEF Fitting
    <3>4. InstructionLength(i) =
            at + OpcodeBytes(i) + Immediate(i)
            + (1 + (ModBytes(i.modrm) + SibBytes(i.modrm, i.base)))
      BY <2>1, <3>1 DEF InstructionLength
    <3> QED BY <1>1, <2>2, <2>3, <2>4, <3>2, <3>3, <3>4
  <2>6. CASE ~(e.mod > 0)
    <3>1. BytesOf(e, i.modrm, i.base) = BytesFixed(e) BY <1>1, <2>6 DEF BytesOf
    <3>2. HasModRM(i) => AddressBytes(i.modrm, i.base) = 0
      BY <2>6 DEF Fitting, SeesModRM, AddressBytes, Mod, Rm
    <3> QED BY <1>1, <2>3, <2>4, <3>1, <3>2 DEF Fitting, InstructionLength
  <2> QED BY <2>5, <2>6
<1>4. ~IsXbegin(i) => (width > 0 <=> HasRelativeOperand(i))
  <2>1. IsRip(i.modrm) <=> i.modrm \in {8 * reg + 5 : reg \in 0 .. 7}
    BY <1>1, RipRight
  <2>2. CASE e.rel = 1
    <3>1. width > 0
      BY <1>1, <2>2 DEF GoodEntry, ShortBranch, LongBranch, TargetWidth, BytesFixed
    <3>2. IsBranch(i) BY <2>2 DEF Fitting
    <3> QED BY <3>1, <3>2 DEF HasRelativeOperand
  <2>3. CASE e.rel = 0
    <3>1. width > 0 <=> e.mod > 0 /\ IsRip(i.modrm) BY <2>3 DEF TargetWidth
    <3>2. ~IsBranch(i) BY <2>3 DEF Fitting
    <3>3. e.mod > 0 /\ IsRip(i.modrm) <=> HasModRM(i) /\ IsRip(i.modrm)
      <4>1. CASE e.mod > 0 BY <4>1 DEF Fitting, SeesModRM
      <4>2. CASE ~(e.mod > 0)
        <5>1. HasModRM(i) => ~IsRip(i.modrm) BY <4>2 DEF Fitting, SeesModRM, IsRip, Rm
        <5> QED BY <4>2, <5>1
      <4> QED BY <4>1, <4>2
    <3> HIDE DEF width
    <3> QED BY <2>1, <3>1, <3>2, <3>3 DEF HasRelativeOperand
  <2> QED BY <1>1, <2>2, <2>3
<1> HIDE DEF size, width
<1> QED BY <1>2, <1>3, <1>4 DEF RightOutcome

(* What CopyBytes returns has its type. *)
LEMMA CopyBytesTyped ==
    ASSUME at \in Nat, NEW i, NEW e, NEW skip, Fitting(e, i, skip),
           NEW r \in CopyBytes(e, i.modrm, i.base, skip)
    PROVE  TypedOutcome(r, at + 14)
<1> DEFINE width == TargetWidth(e, i.modrm)
           size == skip + BytesOf(e, i.modrm, i.base)
<1>1. GoodEntry(e) /\ skip \in Nat /\ skip + BytesFixed(e) <= at + 9 BY DEF Fitting
<1>2. size \in 0 .. (at + 14)
  <2>1. /\ BytesFixed(e) \in 1 .. 9 /\ BytesOf(e, i.modrm, i.base) \in Nat
        /\ BytesOf(e, i.modrm, i.base) <= BytesFixed(e) + 5
    BY <1>1, SizeNatural
  <2> QED BY <1>1, <2>1
<1>3. CASE width = 0
  <2>1. r = [NoResult EXCEPT !.size = size, !.copied = size] BY <1>3 DEF CopyBytes
  <2>2. r.size = size /\ r.copied = size /\ r.width = 0 /\ r.extra = 0 /\ r.new = 0
    BY <2>1 DEF NoResult
  <2> HIDE DEF size
  <2> QED BY <1>2, <2>2, SizeAssumption DEF TypedOutcome
<1>4. CASE width # 0
  <2>1. PICK old \in Displacements(width), d \in Distances :
          r = [size |-> size, copied |-> size,
               extra |-> ExtraFor(old, d, width, e.flag), width |-> width, old |-> old,
               new |-> AdjustTarget(old, d, width), distance |-> d]
    BY <1>4 DEF CopyBytes
  <2>2. (width = 1 /\ e.flag = "NOENLARGE") \/ width = 4 BY <1>1, <1>4, WidthOfTarget
  <2> HIDE DEF width, size
  <2>3. r.size = size /\ r.copied = size /\ r.width \in {0, 1, 4} BY <2>1, <2>2
  <2>4. old - d \in Int /\ Half(width) \in Nat \ {0} /\ Half(width) <= LongHalf
    BY <2>2, SizeAssumption DEF Displacements, Fits, Half
  <2>5. r.new \in -Half(width) .. (Half(width) - 1)
    BY <2>1, <2>4, TruncatedFits DEF AdjustTarget, NewOffset
  <2>6. r.extra \in {-3, 0, 3, 4}
    BY <2>1, <2>2 DEF ExtraFor, Growth
  <2>7. r.new \in -LongHalf .. (LongHalf - 1) BY <2>4, <2>5, SizeAssumption
  <2> QED BY <1>2, <2>3, <2>6, <2>7 DEF TypedOutcome
<1> QED BY <1>3, <1>4

(* The instructions that CopyBytesJump copies. *)
IsShortJump(i) == i.map = 1 /\ i.vex = FALSE /\ i.opcode \in ShortJumps

(* It finds the length of a short branch, and its displacement. *)
LEMMA CopyBytesJumpRight ==
    ASSUME at \in Nat, NEW i, IsShortJump(i), NEW r \in CopyBytesJump(i.opcode, at)
    PROVE  RightOutcome(r, i) /\ TypedOutcome(r, at + 14)
<1> DEFINE grow == IF i.opcode = \hEB THEN 3 ELSE 4
<1>1. PICK old \in Displacements(1), d \in Distances :
        r = [size |-> at + 2, copied |-> at + 2 + grow, extra |-> grow, width |-> 1,
             old |-> old, new |-> Truncated(NewBranch(old, d, grow), 4), distance |-> d]
  BY DEF CopyBytesJump
<1>2. grow \in {3, 4} OBVIOUS
<1> HIDE DEF grow
<1>3. RightOutcome(r, i)
  <2>1. Immediate(i) = 1 BY DEF IsShortJump, ShortJumps, Immediate, Immediate1
  <2>2. OpcodeBytes(i) = 1 BY DEF IsShortJump, OpcodeBytes
  <2>3. ~HasModRM(i) BY DEF IsShortJump, ShortJumps, HasModRM
  <2>4. IsBranch(i) BY DEF IsShortJump, ShortJumps, IsBranch
  <2>5. r.size = at + 2 /\ r.width = 1 BY <1>1
  <2> QED
    BY <2>1, <2>2, <2>3, <2>4, <2>5 DEF RightOutcome, InstructionLength, HasRelativeOperand
<1>4. TypedOutcome(r, at + 14)
  <2>1. Half(4) = LongHalf BY DEF Half
  <2>2. NewBranch(old, d, grow) \in Int
    BY <1>2, SizeAssumption DEF NewBranch, Displacements
  <2>3. r.new \in -LongHalf .. (LongHalf - 1)
    BY <1>1, <2>1, <2>2, SizeAssumption, TruncatedFits
  <2>4. r.size = at + 2 /\ r.width = 1 /\ r.copied = at + 2 + grow /\ r.extra = grow
    BY <1>1
  <2> QED BY <1>2, <2>3, <2>4 DEF TypedOutcome
<1> QED BY <1>3, <1>4

-----------------------------------------------------------------------------
(* The steps *)

(* Types, with a bound on the prefixes that leaves room for a VEX prefix. *)
TypeInv == TypeOK /\ (pc \in {"first", "opcode"} => at <= MaxPrefixes)

(* The invariant of the copy: the length is right, the relative operand was seen. *)
RightInv == pc = "done" => RightOutcome(result, instr)

(* What is copied last kept its target and its growth is right. *)
CopyInv == pc = "done" => SameTarget(result) /\ SameGrowth(result)

(* The step that copies an instruction i. *)
Copies(i) ==
    /\ instr' = i /\ pc # "done"
    /\ \/ IsShortJump(i) /\ Finish(CopyBytesJump(i.opcode, at))
       \/ \E e, skip : Fitting(e, i, skip) /\ Finish(CopyBytes(e, i.modrm, i.base, skip))

(* The operands of the instructions. *)
LEMMA OperandsTyped ==
    ASSUME NEW a \in Operands
    PROVE  a[1] \in Byte /\ a[2] \in 0 .. 7
BY SizeAssumption DEF Operands, Byte

(* CopyOneByte copies one instruction, with an entry that fits. *)
LEMMA CopyOneByteCopies ==
    ASSUME TypeInv, CopyOneByte
    PROVE  \E i \in Instructions : Copies(i)
<1>1. PICK opcode \in OneByteOpcodes, a \in Operands :
        /\ EntryOf(opcode, a[1]).mod = 0 => a \in {<<0, 0>>}
        /\ Read(1, FALSE, opcode, EntryOf(opcode, a[1]).mod > 0, a)
        /\ IF opcode \in \h70 .. \h7F \cup {\hEB}
           THEN Finish(CopyBytesJump(opcode, at))
           ELSE Finish(CopyBytes(EntryOf(opcode, a[1]), a[1], a[2], at))
  BY DEF CopyOneByte
<1> DEFINE e == EntryOf(opcode, a[1])
           i == [map |-> 1, vex |-> FALSE, opcode |-> opcode, modrm |-> a[1], base |-> a[2]]
<1>2. at \in Nat /\ pc # "done" BY DEF TypeInv, TypeOK, CopyOneByte
<1>3. GoodEntry(e) BY EntriesGood
<1>4. instr' = i
  <2>1. e.mod \in Nat BY <1>3 DEF GoodEntry
  <2> HIDE DEF e
  <2>2. ~(e.mod > 0) => a[1] = 0 /\ a[2] = 0 BY <1>1, <2>1 DEF e
  <2> QED BY <1>1, <2>2 DEF Read, e
<1>5. i \in Instructions
  BY OperandsTyped DEF Instructions, OneByteOpcodes
<1>6. i.map = 1 /\ i.vex = FALSE /\ i.opcode = opcode /\ i.modrm = a[1] /\ i.base = a[2]
  OBVIOUS
<1> HIDE DEF i
<1>7. CASE opcode \in ShortJumps
  <2>1. IsShortJump(i) BY <1>6, <1>7 DEF IsShortJump
  <2>2. Finish(CopyBytesJump(i.opcode, at)) BY <1>1, <1>6, <1>7 DEF ShortJumps
  <2> QED BY <1>2, <1>4, <1>5, <2>1, <2>2 DEF Copies
<1>8. CASE opcode \notin ShortJumps
  <2>1. Fitting(e, i, at) BY <1>2, <1>5, <1>6, <1>8, OneByteFits
  <2>2. Finish(CopyBytes(e, i.modrm, i.base, at)) BY <1>1, <1>6, <1>8 DEF ShortJumps
  <2> QED BY <1>2, <1>4, <1>5, <2>1, <2>2 DEF Copies
<1> QED BY <1>7, <1>8

(* So does Copy0F. *)
LEMMA Copy0FCopies ==
    ASSUME TypeInv, Copy0F
    PROVE  \E i \in Instructions : Copies(i)
<1>1. PICK opcode \in TwoByteOpcodes, a \in Operands :
        /\ EntryOf0F(opcode).mod = 0 => a \in {<<0, 0>>}
        /\ Read(2, FALSE, opcode, EntryOf0F(opcode).mod > 0, a)
        /\ Finish(CopyBytes(EntryOf0F(opcode), a[1], a[2], at + 1))
  BY DEF Copy0F
<1> DEFINE e == EntryOf0F(opcode)
           i == [map |-> 2, vex |-> FALSE, opcode |-> opcode, modrm |-> a[1], base |-> a[2]]
<1>2. at \in Nat /\ pc # "done" BY DEF TypeInv, TypeOK, Copy0F
<1>3. e.mod \in Nat BY EntriesGood DEF GoodEntry
<1>4. ~(e.mod > 0) => e.mod = 0 /\ a[1] = 0 /\ a[2] = 0 BY <1>1, <1>3
<1>5. instr' = i BY <1>1, <1>4 DEF Read
<1>6. i \in Instructions
  BY OperandsTyped DEF Instructions, TwoByteOpcodes
<1>7. i.map = 2 /\ i.vex = FALSE /\ i.opcode = opcode /\ i.modrm = a[1] /\ i.base = a[2]
  OBVIOUS
<1> HIDE DEF i
<1>8. EntryOf0F(i.opcode).mod = 0 => i.modrm = 0 /\ i.base = 0 BY <1>1, <1>7
<1>9. Fitting(e, i, at + 1) BY <1>2, <1>6, <1>7, <1>8, TwoByteFits
<1>10. Finish(CopyBytes(e, i.modrm, i.base, at + 1)) BY <1>1, <1>7
<1> QED BY <1>2, <1>5, <1>6, <1>9, <1>10 DEF Copies

(* So does CopyVexEvexCommon. *)
LEMMA CopyVexCopies ==
    ASSUME TypeInv, CopyVexEvexCommon
    PROVE  \E i \in Instructions : Copies(i)
<1> DEFINE E(opcode) == CASE map = 1 -> EntryOf0F(opcode)
                          [] map = 3 -> g_rceCopyMap.Bytes2Mod1
                          [] OTHER -> g_rceCopyMap.Bytes2Mod
<1>1. PICK opcode \in VexOpcodes, a \in Operands :
        /\ E(opcode).mod = 0 => a \in {<<0, 0>>}
        /\ Read(map, TRUE, opcode, E(opcode).mod > 0, a)
        /\ Finish(CopyBytes(E(opcode), a[1], a[2], at))
  BY DEF CopyVexEvexCommon
<1>2. at \in Nat /\ pc # "done" /\ map \in 0 .. 6
  BY DEF TypeInv, TypeOK, CopyVexEvexCommon
<1>3. PICK m \in 0 .. 6 : m = map BY <1>2
<1> DEFINE i == [map |-> m, vex |-> TRUE, opcode |-> opcode, modrm |-> a[1], base |-> a[2]]
<1>4. i.map = m /\ i.vex = TRUE /\ i.opcode = opcode /\ i.modrm = a[1] /\ i.base = a[2]
  OBVIOUS
<1>5. VexEntry(i) = E(opcode) BY <1>3, <1>4 DEF VexEntry
<1>6. GoodEntry(E(opcode)) BY EntriesGood, NamedGood
<1>7. E(opcode).mod \in Nat BY <1>6 DEF GoodEntry
<1> HIDE DEF E
<1>8. ~(E(opcode).mod > 0) => E(opcode).mod = 0 /\ a[1] = 0 /\ a[2] = 0 BY <1>1, <1>7
<1>9. instr' = i BY <1>1, <1>3, <1>8 DEF Read
<1>10. i \in Instructions
  BY OperandsTyped DEF Instructions, VexOpcodes, Byte
<1> HIDE DEF i
<1>11. VexEntry(i).mod = 0 => i.modrm = 0 /\ i.base = 0 BY <1>1, <1>4, <1>5
<1>12. Fitting(VexEntry(i), i, at) BY <1>2, <1>4, <1>10, <1>11, VexFits
<1>13. Finish(CopyBytes(VexEntry(i), i.modrm, i.base, at)) BY <1>1, <1>4, <1>5
<1> QED BY <1>2, <1>9, <1>10, <1>12, <1>13 DEF Copies

(* So does CopyXop. *)
LEMMA CopyXopCopies ==
    ASSUME TypeInv, CopyXop
    PROVE  \E i \in Instructions : Copies(i)
<1> DEFINE E(m) == CASE m = 8 -> g_rceCopyMap.BytesXop1
                     [] m = 9 -> g_rceCopyMap.BytesXop
                     [] OTHER -> g_rceCopyMap.BytesXop4
<1>1. PICK m \in 8 .. 10, a \in Operands :
        Read(m, FALSE, \h10, TRUE, a) /\ Finish(CopyBytes(E(m), a[1], a[2], at))
  BY DEF CopyXop
<1> DEFINE i == [map |-> m, vex |-> FALSE, opcode |-> \h10, modrm |-> a[1], base |-> a[2]]
<1>2. at \in Nat /\ pc # "done" BY DEF TypeInv, TypeOK, CopyXop
<1>3. i.map = m /\ i.vex = FALSE /\ i.opcode = \h10 /\ i.modrm = a[1] /\ i.base = a[2]
  OBVIOUS
<1>4. XopEntry(i) = E(m) BY <1>3 DEF XopEntry
<1> HIDE DEF E
<1>5. instr' = i BY <1>1 DEF Read
<1>6. i \in Instructions
  BY OperandsTyped DEF Instructions, Byte
<1> HIDE DEF i
<1>7. Fitting(XopEntry(i), i, at) BY <1>2, <1>3, <1>6, XopFits
<1>8. Finish(CopyBytes(XopEntry(i), i.modrm, i.base, at)) BY <1>1, <1>3, <1>4
<1> QED BY <1>2, <1>5, <1>6, <1>7, <1>8 DEF Copies

(* The step that reads a prefix. *)
ReadsPrefix ==
    /\ pc = "first" /\ at <= MaxPrefixes
    /\ pc' \in {"first", "opcode", "vex"}
    /\ at' \in (at + 1) .. (at + 4)
    /\ pc' \in {"first", "opcode"} => at' <= MaxPrefixes
    /\ flags' \in [operand : BOOLEAN, address : BOOLEAN, rax : BOOLEAN, f2 : BOOLEAN]
    /\ map' \in 0 .. 6
    /\ UNCHANGED <<instr, result>>

(* The prefixes of one byte do so. *)
LEMMA PrefixReads ==
    ASSUME TypeInv, NEW flag, NEW next \in {"first", "opcode"}, Prefix(flag, next),
           flag \in [operand : BOOLEAN, address : BOOLEAN, rax : BOOLEAN, f2 : BOOLEAN]
    PROVE  ReadsPrefix
BY SizeAssumption DEF TypeInv, TypeOK, Prefix, ReadsPrefix

(* So do those of several. *)
LEMMA VexPrefixReads ==
    ASSUME TypeInv, NEW size \in 1 .. 4, NEW m \in 0 .. 6, NEW pp \in 0 .. 3,
           NEW w \in BOOLEAN, VexPrefix(size, m, pp, w)
    PROVE  ReadsPrefix
<1>1. flags' \in [operand : BOOLEAN, address : BOOLEAN, rax : BOOLEAN, f2 : BOOLEAN]
  BY DEF TypeInv, TypeOK, VexPrefix
<1> QED BY <1>1, SizeAssumption DEF TypeInv, TypeOK, VexPrefix, ReadsPrefix

(* A step reads a prefix, copies an instruction or goes on to the next one. *)
LEMMA StepKinds ==
    ASSUME TypeInv, Next
    PROVE  ReadsPrefix \/ (\E i \in Instructions : Copies(i)) \/ NextInstruction
<1> DEFINE Flags == [operand : BOOLEAN, address : BOOLEAN, rax : BOOLEAN, f2 : BOOLEAN]
<1>1. /\ flags \in Flags /\ [flags EXCEPT !.operand = TRUE] \in Flags
      /\ [flags EXCEPT !.address = TRUE] \in Flags /\ [flags EXCEPT !.f2 = TRUE] \in Flags
      /\ \A w \in BOOLEAN : [flags EXCEPT !.rax = @ \/ w] \in Flags
  BY DEF TypeInv, TypeOK
<1>2. CASE Copy66 BY <1>1, <1>2, PrefixReads DEF Copy66
<1>3. CASE Copy67 BY <1>1, <1>3, PrefixReads DEF Copy67
<1>4. CASE CopyF2 BY <1>1, <1>4, PrefixReads DEF CopyF2
<1>5. CASE CopyF3 BY <1>1, <1>5, PrefixReads DEF CopyF3
<1>6. CASE CopyBytesSegment BY <1>1, <1>6, PrefixReads DEF CopyBytesSegment
<1>7. CASE CopyBytesPrefix BY <1>1, <1>7, PrefixReads DEF CopyBytesPrefix
<1>8. CASE CopyBytesRax
  <2>1. PICK w \in BOOLEAN : Prefix([flags EXCEPT !.rax = @ \/ w], "opcode")
    BY <1>8 DEF CopyBytesRax
  <2> QED BY <1>1, <2>1, PrefixReads
<1>9. CASE CopyVex2
  <2>1. PICK pp \in 0 .. 3 : VexPrefix(2, 1, pp, FALSE) BY <1>9 DEF CopyVex2
  <2>2. PICK w \in BOOLEAN : w = FALSE OBVIOUS
  <2>3. VexPrefix(2, 1, pp, w) BY <2>1, <2>2
  <2> QED BY <2>3, VexPrefixReads
<1>10. CASE CopyVex3 BY <1>10, VexPrefixReads DEF CopyVex3
<1>11. CASE CopyEvex BY <1>11, VexPrefixReads DEF CopyEvex
<1>12. CASE CopyOneByte BY <1>12, CopyOneByteCopies
<1>13. CASE Copy0F BY <1>13, Copy0FCopies
<1>14. CASE CopyVexEvexCommon BY <1>14, CopyVexCopies
<1>15. CASE CopyXop BY <1>15, CopyXopCopies
<1> QED
  BY <1>2, <1>3, <1>4, <1>5, <1>6, <1>7, <1>8, <1>9, <1>10, <1>11, <1>12, <1>13, <1>14,
     <1>15 DEF Next

(* Types are kept. *)
LEMMA TypeStep ==
    ASSUME TypeInv, [Next]_vars
    PROVE  TypeInv'
<1>1. CASE ReadsPrefix
  <2>1. result'.size \in 0 .. (at' + 14) /\ result'.copied \in 0 .. (at' + 14)
    BY <1>1 DEF TypeInv, TypeOK, ReadsPrefix
  <2>2. at' \in 0 .. (MaxPrefixes + 4)
    BY <1>1, SizeAssumption DEF TypeInv, TypeOK, ReadsPrefix
  <2> QED BY <1>1, <2>1, <2>2 DEF TypeInv, TypeOK, ReadsPrefix
<1>2. ASSUME NEW i \in Instructions, Copies(i) PROVE TypeInv'
  <2>1. at \in Nat BY DEF TypeInv, TypeOK
  <2>2. TypedOutcome(result', at + 14)
    BY <1>2, <2>1, CopyBytesTyped, CopyBytesJumpRight DEF Copies, Finish
  <2>3. /\ instr' = i /\ pc' = "done" /\ UNCHANGED <<at, flags, map>>
    BY <1>2 DEF Copies, Finish
  <2> QED BY <2>2, <2>3 DEF TypeInv, TypeOK, TypedOutcome, Instructions
<1>3. CASE NextInstruction
  BY <1>3, SizeAssumption
  DEF NextInstruction, TypeInv, TypeOK, NoResult, NoInstr, NoFlags, Byte
<1>4. CASE UNCHANGED vars BY <1>4 DEF vars, TypeInv, TypeOK
<1> QED BY <1>1, <1>2, <1>3, <1>4, StepKinds

(* A finished copy has the right length and has seen its relative operand. *)
LEMMA RightStep ==
    ASSUME TypeInv, RightInv, [Next]_vars
    PROVE  RightInv'
<1>1. CASE ReadsPrefix BY <1>1 DEF RightInv, ReadsPrefix
<1>2. ASSUME NEW i \in Instructions, Copies(i) PROVE RightInv'
  <2>1. at \in Nat BY DEF TypeInv, TypeOK
  <2>2. PICK r : r = result' OBVIOUS
  <2>3. RightOutcome(r, i)
    BY <1>2, <2>1, <2>2, CopyBytesRight, CopyBytesJumpRight DEF Copies, Finish
  <2>4. instr' = i /\ UNCHANGED <<at, flags, map>> BY <1>2 DEF Copies, Finish
  <2>5. RightOutcome(result, instr)'
    BY <2>2, <2>3, <2>4
    DEF RightOutcome, InstructionLength, Immediate, Immediate1, Immediate2, ImmediateZ
  <2> QED BY <2>5 DEF RightInv
<1>3. CASE NextInstruction BY <1>3 DEF NextInstruction, RightInv
<1>4. CASE UNCHANGED vars
  BY <1>4 DEF vars, RightInv, RightOutcome, InstructionLength, Immediate, Immediate1,
    Immediate2, ImmediateZ
<1> QED BY <1>1, <1>2, <1>3, <1>4, StepKinds

(* The target is kept. *)
LEMMA CopyInvStep ==
    ASSUME OperandsInReach, TypeInv, CopyInv, [Next]_vars
    PROVE  CopyInv'
<1>1. CASE ReadsPrefix BY <1>1 DEF CopyInv, ReadsPrefix
<1>2. ASSUME NEW i \in Instructions, Copies(i) PROVE CopyInv'
  <2>1. at \in Nat BY DEF TypeInv, TypeOK
  <2>2. SameTarget(result') /\ SameGrowth(result')
    BY <1>2, <2>1, CopyBytesKeeps, CopyBytesJumpKeeps DEF Copies, Finish, Fitting
  <2> QED BY <2>2 DEF CopyInv, SameTarget, SameGrowth
<1>3. CASE NextInstruction BY <1>3 DEF NextInstruction, CopyInv
<1>4. CASE UNCHANGED vars BY <1>4 DEF vars, CopyInv, SameTarget, SameGrowth
<1> QED BY <1>1, <1>2, <1>3, <1>4, StepKinds

-----------------------------------------------------------------------------
(* The theorems *)

(* Types, for every set of operands and distances. *)
THEOREM TypeInvariant == Spec => []TypeInv
<1>1. Init => TypeInv
  BY SizeAssumption DEF Init, TypeInv, TypeOK, NoResult, NoInstr, NoFlags, Byte
<1>2. TypeInv /\ [Next]_vars => TypeInv' BY TypeStep
<1> QED BY <1>1, <1>2, PTL DEF Spec

(* The sizes, growths and displacements of SlimDetoursCopyInstruction stay in their
   ranges: no instruction is longer than its prefixes and 14 bytes. *)
THEOREM TypeCorrect == Spec => []TypeOK
<1>1. TypeInv => TypeOK BY DEF TypeInv
<1> QED BY <1>1, TypeInvariant, PTL

(* The length and the relative operand are those of the instruction. *)
THEOREM RightInvariant == Spec => []RightInv
<1>1. Init => RightInv BY DEF Init, RightInv
<1>2. TypeInv /\ RightInv /\ [Next]_vars => RightInv' BY RightStep
<1> QED BY <1>1, <1>2, TypeInvariant, PTL DEF Spec

(* Every instruction of the one-byte, two-byte, VEX, EVEX and XOP maps has the length
   that the tables of Disassembler.c and CopyBytes give it, with all of its prefixes
   and whatever its ModR/M byte. *)
THEOREM LengthsRight == Spec => []LengthRight
<1>1. RightInv => LengthRight BY DEF RightInv, RightOutcome, LengthRight
<1> QED BY <1>1, RightInvariant, PTL

(* CopyBytes and CopyBytesJump see every relative operand but that of XBEGIN, and take
   nothing else for one. *)
THEOREM OperandsSeen == Spec => []TargetsSeen
<1>1. RightInv => TargetsSeen BY DEF RightInv, RightOutcome, TargetsSeen
<1> QED BY <1>1, RightInvariant, PTL

(* The target is kept and the growth reported in every reachable state. *)
THEOREM CopyInvariant == ASSUME OperandsInReach PROVE Spec => []CopyInv
<1>1. Init => CopyInv BY DEF Init, CopyInv
<1>2. TypeInv /\ CopyInv /\ [Next]_vars => CopyInv' BY CopyInvStep
<1> QED BY <1>1, <1>2, TypeInvariant, PTL DEF Spec

(* For every set of operands and distances that a long displacement reaches
   (Memory.c:273, 291 leave room for them), the copy of any instruction points
   where the instruction pointed, unless its growth is negative: the promise of
   Disassembler.c:73. *)
THEOREM TargetsStay == ASSUME OperandsInReach PROVE Spec => []TargetsKept
<1>1. CopyInv => TargetsKept BY DEF CopyInv, SameTarget, TargetsKept
<1> QED BY <1>1, CopyInvariant, PTL

(* The growth reported is that of the copy, for every instruction. *)
THEOREM GrowthReported == ASSUME OperandsInReach PROVE Spec => []GrowthRight
<1>1. CopyInv => GrowthRight BY DEF CopyInv, SameGrowth, GrowthRight
<1> QED BY <1>1, CopyInvariant, PTL

=============================================================================
