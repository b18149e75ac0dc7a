---------------------------- MODULE Disassembler ----------------------------
(***************************************************************************)
(* How Disassembler.c copies one x64 instruction into a trampoline: the    *)
(* chain of Copy functions that finds its length from prefixes, opcode and *)
(* ModR/M byte, moves a relative target by the distance of the copy, and   *)
(* enlarges short branches.  An instruction is read byte by byte, as far   *)
(* as the code looks at it.  The output ppTarget is left out (its callers  *)
(* pass NULL), with bF3, bVex, bEvex and nSegmentOverride, which decide    *)
(* nothing else on x64.                                                    *)
(***************************************************************************)
EXTENDS Integers

CONSTANTS
    MaxPrefixes,   \* bound on the prefixes of an instruction
    ModRMs,        \* ModR/M bytes of the instructions
    Bases,         \* base fields of their SIB bytes
    ByteHalf,      \* a byte displacement is in -ByteHalf .. ByteHalf - 1
    LongHalf,      \* a long displacement is in -LongHalf .. LongHalf - 1
    Near,          \* how far a displacement reaches
    Distances      \* pbDst - pbSrc, how far the copy may be away

ASSUME SizeAssumption ==
    /\ MaxPrefixes \in Nat /\ ByteHalf \in Nat /\ LongHalf \in Nat \ {0}
    /\ ByteHalf <= LongHalf
    /\ Near \in Nat /\ ByteHalf <= Near
    /\ ModRMs \subseteq 0 .. 255 /\ Bases \subseteq 0 .. 7 /\ Distances \subseteq Int

(* A trampoline is within 2 GB of its function, less 512 KB (Memory.c:273, 291):
   a long displacement reaches every operand that is nearer than those 512 KB. *)
OperandsInReach ==
    \A d \in Distances : d + Near + 4 <= LongHalf /\ Near - d <= LongHalf

VARIABLES
    pc,       \* which table the next byte is looked up in
    at,       \* bytes copied so far: the prefixes
    flags,    \* bOperandOverride, bAddressOverride, bRaxOverride, bF2
    map,      \* m of a VEX or EVEX prefix
    instr,    \* history: the instruction that was read
    result    \* what SlimDetoursCopyInstruction did

vars == <<pc, at, flags, map, instr, result>>

Byte == 0 .. 255
Mod(modrm) == modrm \div 64
Reg(modrm) == (modrm \div 8) % 8
Rm(modrm) == modrm % 8

NoFlags == [operand |-> FALSE, address |-> FALSE, rax |-> FALSE, f2 |-> FALSE]
NoInstr == [map |-> 0, vex |-> FALSE, opcode |-> 0, modrm |-> 0, base |-> 0]
NoResult == [size |-> 0, copied |-> 0, extra |-> 0, width |-> 0, old |-> 0,
             new |-> 0, distance |-> 0]

-----------------------------------------------------------------------------
(* Faulty variants of the definitions below, each a bug the code could have had.
   The specification uses none of them; every property is shown to reject one. *)

(* A size for which 66 trumps REX.W. *)
WrongBytesFixed(e) ==
    IF e.flag = "ADDRESS" THEN IF flags.address THEN e.size16 ELSE e.size
    ELSE IF flags.operand THEN e.size16
    ELSE e.size + (IF e.flag = "RAX" /\ flags.rax THEN 4 ELSE 0)

(* Conditional branches that are moved as if they grew like a jump. *)
WrongNewBranch(old, distance, grow) == old - (distance + 3)

(* Data that is addressed relative to the instruction is taken for absolute. *)
WrongTargetWidth(e, modrm) == IF e.rel > 0 THEN e.size - e.rel ELSE 0

(* A branch that cannot be enlarged but says that it was. *)
WrongGrowth(extra, flag) == extra

(* A growth that is counted in whole displacements. *)
WholeGrowth(extra, flag) == IF flag = "NOENLARGE" THEN 0 - (extra + 1) ELSE extra

-----------------------------------------------------------------------------
(* The tables *)

(* nFixedSize, nFixedSize16, nModOffset, nRelOffset, nFlagBits *)
Entry(size, size16, mod, rel, flag) ==
    [size |-> size, size16 |-> size16, mod |-> mod, rel |-> rel, flag |-> flag]

g_rceCopyMap ==
    [Bytes1        |-> Entry(1, 1, 0, 0, "none"),
     Bytes1Address |-> Entry(9, 5, 0, 0, "ADDRESS"),
     Bytes2        |-> Entry(2, 2, 0, 0, "none"),
     Bytes2CantJump |-> Entry(2, 2, 0, 1, "NOENLARGE"),
     Bytes3        |-> Entry(3, 3, 0, 0, "none"),
     Bytes3Or5     |-> Entry(5, 3, 0, 0, "none"),
     Bytes3Or5Rax  |-> Entry(5, 3, 0, 0, "RAX"),
     Bytes3Or5Target |-> Entry(5, 5, 0, 1, "none"),
     Bytes4        |-> Entry(4, 4, 0, 0, "none"),
     Bytes2Mod     |-> Entry(2, 2, 1, 0, "none"),
     Bytes2Mod1    |-> Entry(3, 3, 1, 0, "none"),
     Bytes2ModOperand |-> Entry(6, 4, 1, 0, "none"),
     Bytes3Mod     |-> Entry(3, 3, 2, 0, "none"),
     Bytes3Mod1    |-> Entry(4, 4, 2, 0, "none"),
     BytesXop      |-> Entry(5, 5, 4, 0, "none"),
     BytesXop1     |-> Entry(6, 6, 4, 0, "none"),
     BytesXop4     |-> Entry(9, 9, 4, 0, "none")]

(* The columns ks of the rows 00-3F, which repeat every 8 opcodes. *)
Columns(ks) == {8 * row + k : row \in 0 .. 7, k \in ks}

(* The opcodes for which the table names each entry.  Those not listed are
   prefixes, escapes, the opcodes of CopyF6, CopyF7, CopyFF and CopyXop, or invalid. *)
g_rceCopyTable ==
    [Bytes1 |-> \h50 .. \h5F \cup \h6C .. \h6F \cup (\h90 .. \h9F \ {\h9A})
                \cup \hA4 .. \hA7 \cup \hAA .. \hAF \cup {\hC3, \hC9, \hCB, \hCC, \hCF}
                \cup {\hD7, \hF1, \hF4, \hF5} \cup \hEC .. \hEF \cup \hF8 .. \hFD,
     Bytes1Address |-> \hA0 .. \hA3,
     Bytes2 |-> Columns({4}) \cup {\h6A, \hA8, \hCD} \cup \hB0 .. \hB7 \cup \hE4 .. \hE7,
     Bytes2CantJump |-> \hE0 .. \hE3,
     Bytes3 |-> {\hC2, \hCA},
     Bytes3Or5 |-> Columns({5}) \cup {\h68, \hA9},
     Bytes3Or5Rax |-> \hB8 .. \hBF,
     Bytes3Or5Target |-> {\hE8, \hE9},
     Bytes4 |-> {\hC8},
     Bytes2Mod |-> Columns(0 .. 3) \cup {\h63} \cup \h84 .. \h8E
                   \cup \hD0 .. \hD3 \cup \hD8 .. \hDF \cup {\hFE},
     Bytes2Mod1 |-> {\h6B, \h80, \h83, \hC0, \hC1, \hC6},
     Bytes2ModOperand |-> {\h69, \h81, \hC7}]

g_rceCopyTable0F ==
    [Bytes1 |-> \h05 .. \h09 \cup {\h0B, \h0E, \h37, \h77} \cup \h30 .. \h35
                \cup \hA0 .. \hA2 \cup \hA8 .. \hAA \cup \hC8 .. \hCF,
     Bytes2Mod |-> \h00 .. \h03 \cup {\h0D} \cup \h10 .. \h23 \cup \h28 .. \h2F
                   \cup \h40 .. \h6F \cup \h74 .. \h76 \cup {\h79} \cup \h7C .. \h7F
                   \cup \h90 .. \h9F \cup {\hA3, \hA5, \hA6, \hA7, \hAB}
                   \cup \hAD .. \hB8 \cup \hBB .. \hC1 \cup {\hC3, \hC7} \cup \hD0 .. \hFE,
     Bytes2Mod1 |-> {\h0F, \hA4, \hAC, \hBA, \hC2} \cup \h70 .. \h73 \cup \hC4 .. \hC6,
     Bytes3Mod |-> {\h38},
     Bytes3Mod1 |-> {\h3A},
     Bytes3Or5Target |-> \h80 .. \h8F]

(* pfCopy of the entry that a table names for an opcode; Invalid takes one byte. *)
Lookup(table, opcode) ==
    LET names == {n \in DOMAIN table : opcode \in table[n]} IN
    IF names = {} THEN g_rceCopyMap.Bytes1
    ELSE g_rceCopyMap[CHOOSE n \in names : TRUE]

CopyF6(modrm) == IF Reg(modrm) = 0 THEN g_rceCopyMap.Bytes2Mod1 ELSE g_rceCopyMap.Bytes2Mod
CopyF7(modrm) ==
    IF Reg(modrm) = 0 THEN g_rceCopyMap.Bytes2ModOperand ELSE g_rceCopyMap.Bytes2Mod

(* CopyInstruction, or CopyBytesPrefix after a prefix *)
EntryOf(opcode, modrm) ==
    CASE opcode = \hF6 -> CopyF6(modrm)
      [] opcode = \hF7 -> CopyF7(modrm)
      [] opcode \in {\h8F, \hFF} -> g_rceCopyMap.Bytes2Mod    \* cePop, CopyFF
      [] OTHER -> Lookup(g_rceCopyTable, opcode)

(* vmread, extrq and insertq share the opcode 0F 78. *)
Copy0F78 == IF flags.f2 \/ flags.operand THEN g_rceCopyMap.Bytes4 ELSE g_rceCopyMap.Bytes2Mod
EntryOf0F(opcode) ==
    IF opcode = \h78 THEN Copy0F78 ELSE Lookup(g_rceCopyTable0F, opcode)

-----------------------------------------------------------------------------
(* CopyBytes *)

(* The size without what the ModR/M byte adds. *)
BytesFixed(e) ==
    IF e.flag = "ADDRESS" THEN IF flags.address THEN e.size16 ELSE e.size
    ELSE IF flags.rax THEN e.size + (IF e.flag = "RAX" THEN 4 ELSE 0)
    ELSE IF flags.operand THEN e.size16 ELSE e.size

(* The bytes that g_rbModRm adds, and those of a SIB byte without a base. *)
ModBytes(modrm) ==
    CASE Mod(modrm) = 0 -> IF Rm(modrm) = 4 THEN 1 ELSE IF Rm(modrm) = 5 THEN 4 ELSE 0
      [] Mod(modrm) = 1 -> IF Rm(modrm) = 4 THEN 2 ELSE 1
      [] Mod(modrm) = 2 -> IF Rm(modrm) = 4 THEN 5 ELSE 4
      [] OTHER -> 0
HasSib(modrm) == Mod(modrm) = 0 /\ Rm(modrm) = 4
SibBytes(modrm, base) == IF HasSib(modrm) /\ base = 5 THEN 4 ELSE 0
IsRip(modrm) == Mod(modrm) = 0 /\ Rm(modrm) = 5

BytesOf(e, modrm, base) ==
    BytesFixed(e) + (IF e.mod > 0 THEN ModBytes(modrm) + SibBytes(modrm, base) ELSE 0)

(* cbTarget: 0 if the instruction has no relative operand. *)
TargetWidth(e, modrm) ==
    IF e.rel > 0 THEN BytesFixed(e) - e.rel
    ELSE IF e.mod > 0 /\ IsRip(modrm) THEN 4 ELSE 0

Half(width) == IF width = 1 THEN ByteHalf ELSE LongHalf
Fits(x, width) == -Half(width) <= x /\ x < Half(width)
Truncated(x, width) ==
    IF Fits(x, width) THEN x ELSE ((x + Half(width)) % (2 * Half(width))) - Half(width)
Displacements(width) == {x \in -Near .. (Near - 1) : Fits(x, width)}

(* The displacement written, and *plExtra. *)
NewOffset(old, distance) == old - distance
Growth(extra, flag) == IF flag = "NOENLARGE" THEN 0 - extra ELSE extra
AdjustTarget(old, distance, width) == Truncated(NewOffset(old, distance), width)
ExtraFor(old, distance, width, flag) ==
    Growth(IF Fits(NewOffset(old, distance), width) THEN 0 ELSE 4 - width, flag)

(* CopyBytes for an instruction of which skip bytes have been copied. *)
CopyBytes(e, modrm, base, skip) ==
    LET size == skip + BytesOf(e, modrm, base)
        width == TargetWidth(e, modrm)
    IN  IF width = 0
        THEN {[NoResult EXCEPT !.size = size, !.copied = size]}
        ELSE {[size |-> size, copied |-> size,
               extra |-> ExtraFor(old, d, width, e.flag), width |-> width, old |-> old,
               new |-> AdjustTarget(old, d, width), distance |-> d] :
                 old \in Displacements(width), d \in Distances}

(* A short branch is written with a long displacement. *)
NewBranch(old, distance, grow) == old - (distance + grow)
CopyBytesJump(opcode, skip) ==
    LET grow == IF opcode = \hEB THEN 3 ELSE 4 IN
    {[size |-> skip + 2, copied |-> skip + 2 + grow, extra |-> grow, width |-> 1,
      old |-> old, new |-> Truncated(NewBranch(old, d, grow), 4), distance |-> d] :
        old \in Displacements(1), d \in Distances}

-----------------------------------------------------------------------------
(* The instructions that are read: well-formed x64 code, as compilers write it.
   A REX prefix is the last one; VEX and EVEX follow no prefix that they imply. *)

PrefixOpcodes == {\h26, \h2E, \h36, \h3E, \h64, \h65, \h66, \h67, \hF0, \hF2, \hF3}
                 \cup \h40 .. \h4F
NotIn64Bit == {\h06, \h07, \h0E, \h16, \h17, \h1E, \h1F, \h27, \h2F, \h37, \h3F, \h60,
               \h61, \h82, \h9A, \hCE, \hD4, \hD5, \hD6, \hEA}
OneByteOpcodes == Byte \ (PrefixOpcodes \cup NotIn64Bit \cup {\h0F, \h62, \hC4, \hC5})
TwoByteOpcodes == Byte \ ({\h04, \h0A, \h0C, \h36, \h39, \h7A, \h7B, \hB9, \hFF}
                          \cup \h24 .. \h27 \cup \h3B .. \h3F)
(* EVEX gives 78-7B of the 0F map meanings that the table does not know. *)
VexOpcodes == \h10 .. \h17 \cup \h28 .. \h2F \cup \h41 .. \h4B \cup \h50 .. \h77
              \cup \h7C .. \h7F \cup \h90 .. \h99 \cup {\hAE, \hC2, \hC4, \hC5, \hC6}
              \cup \hD0 .. \hFE

(* An operand a of an instruction: its ModR/M byte and the base of its SIB byte. *)
Operands == {a \in ModRMs \X Bases : HasSib(a[1]) \/ a[2] = 0}
Read(m, vex, opcode, hasMod, a) ==
    instr' = [map |-> m, vex |-> vex, opcode |-> opcode,
              modrm |-> IF hasMod THEN a[1] ELSE 0, base |-> IF hasMod THEN a[2] ELSE 0]

Init == pc = "first" /\ at = 0 /\ flags = NoFlags /\ map = 0 /\ instr = NoInstr
        /\ result = NoResult

(* A Copy function that remembers a prefix and goes on with the next byte. *)
Prefix(flag, next) ==
    /\ pc = "first" /\ at < MaxPrefixes
    /\ at' = at + 1 /\ pc' = next
    /\ flags' = flag
    /\ UNCHANGED <<map, instr, result>>

Copy66 == Prefix([flags EXCEPT !.operand = TRUE], "first")
Copy67 == Prefix([flags EXCEPT !.address = TRUE], "first")
CopyF2 == Prefix([flags EXCEPT !.f2 = TRUE], "first")
CopyF3 == Prefix(flags, "first")
CopyBytesSegment == Prefix(flags, "first")
CopyBytesPrefix == Prefix(flags, "first")      \* lock
CopyBytesRax ==                                \* REX, with W or without
    \E w \in BOOLEAN : Prefix([flags EXCEPT !.rax = @ \/ w], "opcode")

Finish(outcomes) ==
    /\ result' \in outcomes /\ pc' = "done"
    /\ UNCHANGED <<at, flags, map>>

CopyOneByte ==
    /\ pc \in {"first", "opcode"}
    /\ \E opcode \in OneByteOpcodes, a \in Operands :
         LET e == EntryOf(opcode, a[1]) IN
         /\ e.mod = 0 => a \in {<<0, 0>>}
         /\ opcode = \h8F => Reg(a[1]) = 0
         /\ Read(1, FALSE, opcode, e.mod > 0, a)
         /\ IF opcode \in \h70 .. \h7F \cup {\hEB}
            THEN Finish(CopyBytesJump(opcode, at))
            ELSE Finish(CopyBytes(e, a[1], a[2], at))

(* 0F, and 0F 38 and 0F 3A, whose third byte does not matter *)
Copy0F ==
    /\ pc \in {"first", "opcode"}
    /\ \E opcode \in TwoByteOpcodes, a \in Operands :
         LET e == EntryOf0F(opcode) IN
         /\ e.mod = 0 => a \in {<<0, 0>>}
         /\ Read(2, FALSE, opcode, e.mod > 0, a)
         /\ Finish(CopyBytes(e, a[1], a[2], at + 1))

(* pp of a VEX or EVEX prefix implies 66, F3 or F2; W is that of REX. *)
VexPrefix(size, m, pp, w) ==
    /\ pc = "first" /\ ~flags.operand /\ ~flags.f2
    /\ flags' = [flags EXCEPT !.operand = @ \/ pp = 1, !.f2 = @ \/ pp = 3, !.rax = @ \/ w]
    /\ at' = at + size /\ map' = m /\ pc' = "vex"
    /\ UNCHANGED <<instr, result>>

CopyVex2 == \E pp \in 0 .. 3 : VexPrefix(2, 1, pp, FALSE)
CopyVex3 == \E m \in 1 .. 3, pp \in 0 .. 3, w \in BOOLEAN : VexPrefix(3, m, pp, w)
CopyEvex == \E m \in {1, 2, 3, 5, 6}, pp \in 0 .. 3, w \in BOOLEAN : VexPrefix(4, m, pp, w)

CopyVexEvexCommon ==
    /\ pc = "vex"
    /\ \E opcode \in VexOpcodes, a \in Operands :
         LET e == CASE map = 1 -> EntryOf0F(opcode)
                    [] map = 3 -> g_rceCopyMap.Bytes2Mod1
                    [] OTHER -> g_rceCopyMap.Bytes2Mod
         IN  /\ e.mod = 0 => a \in {<<0, 0>>}
             /\ map = 1 \/ opcode = \h10    \* the others do not look at the opcode
             /\ Read(map, TRUE, opcode, e.mod > 0, a)
             /\ Finish(CopyBytes(e, a[1], a[2], at))

(* AMD XOP: 8F, two bytes of which the first names a map, and the opcode *)
CopyXop ==
    /\ pc = "first"
    /\ \E m \in 8 .. 10, a \in Operands :
         LET e == CASE m = 8 -> g_rceCopyMap.BytesXop1
                    [] m = 9 -> g_rceCopyMap.BytesXop
                    [] OTHER -> g_rceCopyMap.BytesXop4
         IN  /\ Read(m, FALSE, \h10, TRUE, a)
             /\ Finish(CopyBytes(e, a[1], a[2], at))

(* SlimDetoursCopyInstruction is called for the next instruction. *)
NextInstruction ==
    /\ pc = "done"
    /\ pc' = "first" /\ at' = 0 /\ flags' = NoFlags /\ map' = 0
    /\ instr' = NoInstr /\ result' = NoResult

Next ==
    \/ Copy66 \/ Copy67 \/ CopyF2 \/ CopyF3
    \/ CopyBytesSegment \/ CopyBytesPrefix \/ CopyBytesRax
    \/ CopyOneByte \/ Copy0F
    \/ CopyVex2 \/ CopyVex3 \/ CopyEvex \/ CopyVexEvexCommon \/ CopyXop
    \/ NextInstruction

Spec == Init /\ [][Next]_vars

-----------------------------------------------------------------------------
(* What the architecture says of an instruction, which the properties compare with
   what the code finds: first its length, from prefixes, opcode, ModR/M byte, SIB
   byte, displacement and immediate. *)

HasModRM(i) ==
    CASE i.map = 1 /\ ~i.vex ->
           \/ i.opcode < \h40 /\ i.opcode % 8 < 4
           \/ i.opcode \in {\h63, \h69, \h6B} \cup (\h80 .. \h8F \ {\h82})
           \/ i.opcode \in {\hC0, \hC1, \hC6, \hC7} \cup \hD0 .. \hD3 \cup \hD8 .. \hDF
           \/ i.opcode \in {\hF6, \hF7, \hFE, \hFF}
      [] (i.map = 2 /\ ~i.vex) \/ (i.map = 1 /\ i.vex) ->
           ~ \/ i.opcode \in \h05 .. \h0B \cup {\h0E, \h37, \h77} \cup \h30 .. \h35
             \/ i.opcode \in \h80 .. \h8F \cup \hA0 .. \hA2 \cup \hA8 .. \hAA \cup \hC8 .. \hCF
      [] OTHER -> TRUE

AddressBytes(modrm, base) ==
    LET sib == IF Rm(modrm) = 4 THEN 1 ELSE 0
        absolute == Rm(modrm) = 5 \/ (Rm(modrm) = 4 /\ base = 5)
    IN  CASE Mod(modrm) = 3 -> 0
          [] Mod(modrm) = 2 -> sib + 4
          [] Mod(modrm) = 1 -> sib + 1
          [] OTHER -> sib + (IF absolute THEN 4 ELSE 0)

ImmediateZ == IF flags.operand /\ ~flags.rax THEN 2 ELSE 4
Immediate1(op, reg) ==
    CASE op < \h40 /\ op % 8 = 4 -> 1
      [] op < \h40 /\ op % 8 = 5 -> ImmediateZ
      [] op \in {\h6A, \h6B, \h80, \h83, \hA8, \hC0, \hC1, \hC6, \hCD, \hEB} -> 1
      [] op \in \h70 .. \h7F \cup \hB0 .. \hB7 \cup \hE0 .. \hE7 -> 1
      [] op \in {\h68, \h69, \h81, \hA9, \hC7} -> ImmediateZ
      [] op \in \hA0 .. \hA3 -> IF flags.address THEN 4 ELSE 8
      [] op \in \hB8 .. \hBF -> IF flags.rax THEN 8 ELSE ImmediateZ
      [] op \in {\hC2, \hCA} -> 2
      [] op = \hC8 -> 3
      [] op \in {\hE8, \hE9} -> 4
      [] op = \hF6 /\ reg = 0 -> 1
      [] op = \hF7 /\ reg = 0 -> ImmediateZ
      [] OTHER -> 0
Immediate2(op) ==
    CASE op \in {\h0F, \h3A, \hA4, \hAC, \hBA, \hC2} \cup \h70 .. \h73 \cup \hC4 .. \hC6 -> 1
      [] op = \h78 -> IF flags.f2 \/ flags.operand THEN 2 ELSE 0
      [] op \in \h80 .. \h8F -> 4
      [] OTHER -> 0
Immediate(i) ==
    IF i.vex THEN IF i.map = 1 THEN Immediate2(i.opcode) ELSE IF i.map = 3 THEN 1 ELSE 0
    ELSE CASE i.map = 1 -> Immediate1(i.opcode, Reg(i.modrm))
           [] i.map = 2 -> Immediate2(i.opcode)
           [] i.map = 8 -> 1
           [] i.map = 10 -> 4
           [] OTHER -> 0

OpcodeBytes(i) ==
    IF i.vex THEN 1
    ELSE CASE i.map = 1 -> 1
           [] i.map = 2 -> IF i.opcode \in {\h38, \h3A} THEN 3 ELSE 2
           [] OTHER -> 4

InstructionLength(i) ==
    at + OpcodeBytes(i) + Immediate(i)
    + (IF HasModRM(i) THEN 1 + AddressBytes(i.modrm, i.base) ELSE 0)

(* XBEGIN, whose relative operand the code takes for an immediate. *)
IsXbegin(i) == i.map = 1 /\ ~i.vex /\ i.opcode = \hC7 /\ i.modrm = \hF8

(* Branches with a displacement, and data addressed relative to the instruction. *)
IsBranch(i) ==
    \/ i.map = 1 /\ ~i.vex
       /\ i.opcode \in \h70 .. \h7F \cup \hE0 .. \hE3 \cup {\hE8, \hE9, \hEB}
    \/ i.map = 2 /\ ~i.vex /\ i.opcode \in \h80 .. \h8F
HasRelativeOperand(i) ==
    \/ IsBranch(i) \/ IsXbegin(i)
    \/ HasModRM(i) /\ i.modrm \in {8 * reg + 5 : reg \in 0 .. 7}

-----------------------------------------------------------------------------
(* Properties *)

TypeOK ==
    /\ pc \in {"first", "opcode", "vex", "done"} /\ at \in 0 .. (MaxPrefixes + 4)
    /\ flags \in [operand : BOOLEAN, address : BOOLEAN, rax : BOOLEAN, f2 : BOOLEAN]
    /\ map \in 0 .. 6
    /\ instr \in [map : 0 .. 10, vex : BOOLEAN, opcode : Byte, modrm : Byte, base : 0 .. 7]
    /\ result.size \in 0 .. (at + 14) /\ result.copied \in 0 .. (at + 14)
    /\ result.extra \in {-3, 0, 3, 4} /\ result.width \in {0, 1, 4}
    /\ result.new \in -LongHalf .. (LongHalf - 1)

(* The length that the tables and CopyBytes find is that of the instruction,
   whatever its prefixes, opcode and operand: a wrong one would cut the code of
   a hooked function in the middle of an instruction. *)
LengthRight == pc = "done" => result.size = InstructionLength(instr)

(* The code sees every relative operand, and takes nothing else for one: an operand
   that is missed keeps its displacement in the copy, where it points elsewhere.
   XBEGIN is the exception. *)
TargetsSeen ==
    pc = "done" /\ ~IsXbegin(instr) => (result.width > 0 <=> HasRelativeOperand(instr))

(* "SlimDetoursCopyInstruction insures that any targets remain constant"
   (Disassembler.c:73): the copy of a relative operand points to where the
   operand pointed, except where a negative growth says that it cannot. *)
TargetsKept ==
    pc = "done" /\ result.width > 0 /\ result.extra >= 0 =>
        result.distance + result.copied + result.new = result.size + result.old

(* "the number of extra bytes needed by the instruction" (Disassembler.c:49): a
   growth that is not negative is that of the copy. *)
GrowthRight ==
    pc = "done" /\ result.extra >= 0 => result.copied = result.size + result.extra

=============================================================================
