-------------------------- MODULE CrashReportProofs --------------------------
(***************************************************************************)
(* The report shows the string of an exception, its types and the saved    *)
(* registers as they are in the client, for any layout of either and for   *)
(* every moment at which the client may end.                               *)
(***************************************************************************)
EXTENDS CrashReport, TLAPS

(***************************************************************************)
(* Rounding.                                                               *)
(***************************************************************************)
(* Division with a remainder. *)
LEMMA Division ==
    ASSUME NEW a \in Int, NEW d \in Nat \ {0}
    PROVE  /\ a % d \in 0 .. (d - 1) /\ a \div d \in Int
           /\ a = d * (a \div d) + (a % d)
    OBVIOUS

(* Between two multiples in a row there is no other: one that is less than another is
   less by the whole distance. *)
LEMMA MultiplesApart ==
    ASSUME NEW d \in Nat \ {0}, NEW a \in Int, NEW b \in Int,
           a % d = 0, b % d = 0, a < b
    PROVE  a + d <= b
<1> DEFINE p == a \div d
           q == b \div d
<1>1. p \in Int /\ q \in Int /\ a = d * p /\ b = d * q
  <2>1. p \in Int /\ a = d * p + 0  BY Division
  <2>2. q \in Int /\ b = d * q + 0  BY Division
  <2> QED  BY <2>1, <2>2
<1> HIDE DEF p, q
<1>2. d * p < d * q  BY <1>1
<1>3. p < q
  <2> SUFFICES ASSUME q <= p PROVE FALSE  BY <1>1
  <2>1. PICK k \in Nat : p = q + k  BY <1>1
  <2>2. d * p = d * q + d * k  BY <1>1, <2>1
  <2>3. d * k >= 0  OBVIOUS
  <2> QED  BY <1>1, <1>2, <2>2, <2>3
<1>4. PICK k \in Nat : q = p + 1 + k  BY <1>1, <1>3
<1>5. d * q = d * p + d + d * k  BY <1>1, <1>4
<1>6. d * k >= 0  OBVIOUS
<1> QED  BY <1>1, <1>5, <1>6

(* A number without its remainder is a multiple. *)
LEMMA RoundedDown ==
    ASSUME NEW d \in Nat \ {0}, NEW a \in Int
    PROVE  /\ a - (a % d) \in Int /\ (a - (a % d)) % d = 0
           /\ a - (a % d) <= a /\ a < a - (a % d) + d
<1>1. /\ a % d \in 0 .. (d - 1) /\ a \div d \in Int
      /\ a = d * (a \div d) + (a % d)
  BY Division
<1>2. a - (a % d) = d * (a \div d)  BY <1>1
<1>3. \A q \in Int : (d * q) % d = 0
  <2> TAKE q \in Int
  <2>1. d * q \in Int  OBVIOUS
  <2>2. d * q = d * ((d * q) \div d) + ((d * q) % d) /\ (d * q) % d \in 0 .. (d - 1)
        /\ (d * q) \div d \in Int
    BY <2>1, Division
  <2>3. d * (q - ((d * q) \div d)) = (d * q) % d  BY <2>2
  <2> DEFINE k == q - ((d * q) \div d)
  <2>4. k \in Int /\ d * k \in 0 .. (d - 1)  BY <2>2, <2>3
  <2> HIDE DEF k
  <2>5. k = 0
    <3>1. CASE k >= 1
      <4>1. PICK j \in Nat : k = 1 + j  BY <3>1, <2>4
      <4>2. d * k = d + d * j /\ d * j >= 0  BY <4>1
      <4> QED  BY <4>2, <2>4
    <3>2. CASE k <= -1
      <4>1. PICK j \in Nat : k = 0 - 1 - j  BY <3>2, <2>4
      <4>2. d * k = 0 - d - d * j /\ d * j >= 0  BY <4>1
      <4> QED  BY <4>2, <2>4
    <3> QED  BY <3>1, <3>2, <2>4
  <2> QED  BY <2>3, <2>5, <2>2 DEF k
<1>4. (a - (a % d)) % d = 0  BY <1>1, <1>2, <1>3
<1> DEFINE r == a % d
<1>5. r \in Int /\ 0 <= r /\ r <= d - 1  BY <1>1
<1> HIDE DEF r
<1>6. a - r \in Int /\ a - r <= a /\ a < a - r + d  BY <1>5
<1> QED  BY <1>4, <1>6 DEF r

(***************************************************************************)
(* Types.                                                                  *)
(***************************************************************************)
(* What is assumed of the crash that was found. *)
LEMMA CrashFacts ==
    ASSUME crash \in Crashes
    PROVE  /\ crash.text \in {NoText} \cup Texts
           /\ crash.thrown \in Throws /\ crash.areas \in Areas
           /\ crash.areas.size \in [Features -> Nat]
           /\ crash.areas.standard \in [Features -> Nat]
           /\ crash.areas.place \in [crash.areas.layout -> Nat]
           /\ crash.areas.layout \subseteq {f \in Features : f >= 2}
           /\ crash.areas.saved \subseteq Features
           /\ {crash.areas.extended, crash.areas.compacted, crash.areas.shadow} \subseteq BOOLEAN
           /\ crash.areas.compacted =>
                 /\ crash.areas.saved \cap {f \in Features : f >= 2} \subseteq crash.areas.layout
                 /\ Compacted(crash.areas)
           /\ thrown.parameters \in Nat /\ thrown.count \in Int
           /\ thrown.object \in {"exception", "other", "none"}
<1>1. /\ crash.text \in {NoText} \cup Texts
      /\ crash.thrown \in Throws /\ crash.areas \in Areas
  BY CrashAssumption
<1> QED  BY <1>1, CrashAssumption, AreaAssumption DEF thrown

(* Rounding up to a multiple of Alignment, or not at all. *)
LEMMA AlignedUp ==
    ASSUME NEW f, NEW n \in Nat
    PROVE  /\ Aligned(f, n) \in Nat /\ n <= Aligned(f, n)
           /\ f \notin crash.areas.aligned => Aligned(f, n) = n
           /\ f \in crash.areas.aligned =>
                 Aligned(f, n) % Alignment = 0 /\ Aligned(f, n) < n + Alignment
<1>1. CASE f \notin crash.areas.aligned  BY <1>1 DEF Aligned
<1>2. CASE f \in crash.areas.aligned
  <2> DEFINE m == n + Alignment - 1
  <2>1. m \in Int /\ m = n + Alignment - 1  BY FeatureAssumption
  <2>2. Aligned(f, n) = m - (m % Alignment)  BY <1>2 DEF Aligned
  <2> HIDE DEF m
  <2> DEFINE r == m - (m % Alignment)
  <2>3. /\ r \in Int /\ r % Alignment = 0 /\ r <= m /\ m < r + Alignment
    BY <2>1, FeatureAssumption, RoundedDown
  <2> HIDE DEF r
  <2>4. r = Aligned(f, n)  BY <2>2 DEF r
  <2>5. r \in Nat /\ n <= r /\ r < n + Alignment  BY <2>1, <2>3, FeatureAssumption
  <2> QED  BY <1>2, <2>3, <2>4, <2>5
<1> QED  BY <1>1, <1>2

(* The chunk at addr ends at the first end of a page behind addr. *)
LEMMA PageEnd ==
    ASSUME text \in Texts, offset \in 0 .. maxLen
    PROVE  /\ addr \in Nat /\ maxLen \in Nat
           /\ toPageEnd \in 1 .. PAGE_CHUNK
           /\ (addr + toPageEnd) % PAGE_CHUNK = 0
           /\ toRead \in Nat /\ toRead <= toPageEnd /\ toRead <= maxLen - offset
<1>1. PAGE_CHUNK \in Nat \ {0} /\ maxLen \in Nat  BY PageAssumption DEF maxLen
<1>2. addr \in Nat  BY <1>1, TextAssumption DEF addr
<1> DEFINE m == addr + PAGE_CHUNK
           r == m - (m % PAGE_CHUNK)
<1>3. m \in Int /\ m = addr + PAGE_CHUNK  BY <1>1, <1>2
<1> HIDE DEF m
<1>4. r \in Int /\ r % PAGE_CHUNK = 0 /\ r <= m /\ m < r + PAGE_CHUNK
  BY <1>1, <1>3, RoundedDown
<1>5. toPageEnd = r - addr  BY <1>3 DEF toPageEnd, m
<1> HIDE DEF r
<1>6. toPageEnd \in 1 .. PAGE_CHUNK /\ addr + toPageEnd = r  BY <1>1, <1>2, <1>3, <1>4, <1>5
<1>7. toRead \in Nat /\ toRead <= toPageEnd /\ toRead <= maxLen - offset
  <2>1. offset \in Nat /\ offset <= maxLen  BY <1>1
  <2> QED  BY <1>1, <1>6, <2>1 DEF toRead, Smaller
<1> QED  BY <1>1, <1>2, <1>4, <1>6, <1>7

(* What the reading of a string keeps. *)
LEMMA StringTypeStep ==
    ASSUME TypeOK, Next PROVE StringType'
<1> USE DEF TypeOK, StringType
<1>1. CASE FollowPointer
  BY <1>1 DEF FollowPointer, stringVars, StartRoutine, NextRead
<1>2. CASE ProcessXState
  <2>1. UNCHANGED stringVars /\ pc' # "string"
    BY <1>2 DEF ProcessXState, XStateStep, StartRoutine, ReadContextEx, ReadHeader, CetAbsent, CetPresent,
         FindStandard, NotInLayout, BeginOffset, PassFeature, EndOffset, ReadRegisters, ReadCet
  <2> QED  BY <2>1 DEF stringVars
<1>3. CASE ReadObject
  BY <1>3, CrashFacts, CrashAssumption, PageAssumption DEF ReadObject, StartString, stringVars, maxLen
<1>4. CASE ReadWhat
  <2>1. text \in Texts /\ pc = "string"
    BY <1>4 DEF ReadWhat, ReadString, ChunkUnreadable, LastChunk, FullChunk, BufferFull, Chunk
  <2>2. /\ addr \in Nat /\ maxLen \in Nat /\ toRead \in Nat /\ toRead <= maxLen - offset
        /\ text.length \in Nat /\ offset \in Nat /\ offset <= maxLen
    BY <2>1, PageEnd, TextAssumption
  <2>3. CASE ChunkUnreadable
    BY <2>1, <2>2, <2>3 DEF ChunkUnreadable, StringOver
  <2>4. CASE LastChunk
    BY <2>1, <2>2, <2>4 DEF LastChunk, EndInChunk, StringOver
  <2>5. CASE FullChunk
    BY <2>1, <2>2, <2>5 DEF FullChunk
  <2>6. CASE BufferFull
    BY <2>1, <2>2, <2>6 DEF BufferFull, StringOver
  <2> QED  BY <1>4, <2>3, <2>4, <2>5, <2>6 DEF ReadWhat, ReadString
<1>5. CASE \/ Refuse \/ Decode \/ ObjectUnreadable \/ WhatUnreadable
           \/ ShowWhat \/ ReadThrowInfo \/ Allocate \/ ReadRvas
           \/ SkipType \/ ReadType \/ ShowType \/ TypesOver
  <2>1. UNCHANGED stringVars /\ pc' # "string"
    BY <1>5 DEF Refuse, Decode, ObjectUnreadable, WhatUnreadable, ShowWhat, ReadThrowInfo,
         Allocate, ReadRvas, SkipType, ReadType, ShowType, TypesOver, Return, TypeVars
  <2> QED  BY <2>1 DEF stringVars
<1>6. CASE ClientEnds
  BY <1>6 DEF ClientEnds, Kill, stringVars
<1> QED  BY <1>1, <1>2, <1>3, <1>4, <1>5, <1>6 DEF Next, Report, ProcessThrow

(* Only the routines for the extended state write what they know of it. *)
LEMMA XStateFrame ==
    ASSUME ProcessThrow \/ ClientEnds
    PROVE  UNCHANGED <<crash, xstateVars, chain, record, context>>
    BY DEF ProcessThrow, Refuse, Decode, ReadObject, ObjectUnreadable, ReadWhat, WhatUnreadable,
         ShowWhat, ReadThrowInfo, Allocate, ReadRvas, SkipType, ReadType, ShowType, TypesOver,
         Others, FollowedVars, ClientEnds, Kill

(* And the others do not write what ProcessThrow knows. *)
LEMMA ThrownFrame ==
    ASSUME FollowPointer \/ ProcessXState \/ ClientEnds
    PROVE  UNCHANGED <<crash, stringVars, thrownVars>>
    BY DEF FollowPointer, ProcessXState, ClientEnds, Kill

(* What the routines for the extended state keep. *)
LEMMA XStateTypeStep ==
    ASSUME TypeOK, Next PROVE XStateType'
<1> USE DEF TypeOK
<1>a. XStateType  OBVIOUS
<1>1. CASE UNCHANGED xstateVars
  BY <1>a, <1>1 DEF XStateType, xstateVars
<1>2. CASE \E r \in {"fp", "cet"} : StartRoutine(r)
  BY <1>a, <1>2 DEF XStateType, StartRoutine
<1>3. CASE ProcessXState
  <2>a. crash' = crash  BY <1>3 DEF ProcessXState
  <2>1. CASE ReadContextEx  BY <1>a, <2>1, CrashFacts DEF XStateType, ReadContextEx
  <2>2. CASE ReadHeader
    <3>1. /\ header'.compacted \in BOOLEAN
          /\ header'.saved \subseteq Features /\ header'.layout \subseteq Features
      <4>1. CASE header' = TrueHeader  BY <4>1, CrashFacts DEF TrueHeader
      <4>2. CASE header' \in JunkHeaders  BY <4>2, AreaAssumption
      <4> QED  BY <2>2, <4>1, <4>2 DEF ReadHeader
    <3>2. todo' \subseteq Features /\ offsets' \in [Features -> Nat]
      BY <1>a, <2>2, FeatureAssumption DEF ReadHeader, Wanted, XStateType
    <3> QED  BY <1>a, <2>2, <3>1, <3>2 DEF XStateType, ReadHeader
  <2>3. CASE CetAbsent(context)  BY <1>1, <2>3 DEF CetAbsent
  <2>4. CASE CetPresent(context)
    BY <1>a, <2>4, FeatureAssumption DEF XStateType, CetPresent
  <2>5. CASE FindStandard
    BY <1>a, <2>5, CrashFacts DEF XStateType, FindStandard
  <2>6. CASE NotInLayout  BY <1>a, <2>6 DEF XStateType, NotInLayout
  <2>7. CASE BeginOffset  BY <1>a, <2>7, FeatureAssumption DEF XStateType, BeginOffset
  <2>8. CASE PassFeature
    <3>1. i \in header.layout => Behind(i, Offset) \in Nat
      <4> SUFFICES ASSUME i \in header.layout PROVE Behind(i, Offset) \in Nat  OBVIOUS
      <4>1. crash.areas.size[i] \in Nat  BY <1>a, CrashFacts DEF XStateType
      <4>2. Aligned(i, Offset) \in Nat  BY <1>a, AlignedUp DEF XStateType
      <4> QED  BY <4>1, <4>2 DEF Behind
    <3> QED  BY <1>a, <2>8, <3>1 DEF XStateType, PassFeature
  <2>9. CASE EndOffset
    <3>1. Aligned(i, Offset) \in Nat  BY <1>a, AlignedUp DEF XStateType
    <3> QED  BY <1>a, <2>9, <3>1 DEF XStateType, EndOffset
  <2>10. CASE ReadRegisters  BY <1>a, <2>10 DEF XStateType, ReadRegisters
  <2>11. CASE ReadCet  BY <1>a, <2>11 DEF XStateType, ReadCet
  <2> QED
    BY <1>2, <1>3, <2>1, <2>2, <2>3, <2>4, <2>5, <2>6, <2>7, <2>8, <2>9, <2>10, <2>11
    DEF ProcessXState, XStateStep
<1>4. CASE FollowPointer  BY <1>1, <1>2, <1>4 DEF FollowPointer
<1>5. CASE ProcessThrow \/ ClientEnds  BY <1>1, <1>5, XStateFrame
<1> QED  BY <1>3, <1>4, <1>5 DEF Next, Report

ThrownType ==
    /\ {record, context, allocated} \subseteq BOOLEAN
    /\ what \in {"none", "exception", "junk"}
    /\ type \in Nat /\ name \in Nat /\ result \in 0 .. 8
    /\ listed \in Seq([type : Nat, name : Nat])

(* What the decoding of an exception keeps. *)
LEMMA ThrownTypeStep ==
    ASSUME TypeOK, Next
    PROVE  /\ alive' \in BOOLEAN /\ crash' \in Crashes
           /\ chain' \in BOOLEAN /\ ThrownType'
<1> USE DEF TypeOK, ThrownType
<1>a. ThrownType  OBVIOUS
<1>1. CASE FollowPointer  BY <1>1 DEF FollowPointer, thrownVars
<1>2. CASE ProcessXState  BY <1>2 DEF ProcessXState, thrownVars, FollowedVars
<1>3. CASE ClientEnds  BY <1>3 DEF ClientEnds, Kill, thrownVars, FollowedVars
<1>4. CASE ProcessThrow
  <2>1. alive' \in BOOLEAN /\ crash' \in Crashes /\ chain' \in BOOLEAN
        /\ {record, context}' \subseteq BOOLEAN
    BY <1>4 DEF ProcessThrow, Refuse, Decode, ReadObject, ObjectUnreadable, ReadWhat, WhatUnreadable,
         ShowWhat, ReadThrowInfo, Allocate, ReadRvas, SkipType, ReadType, ShowType, TypesOver,
         Others, FollowedVars
  <2>2. CASE \/ Refuse \/ Decode \/ ReadObject \/ ObjectUnreadable \/ ReadWhat \/ WhatUnreadable
             \/ ShowWhat \/ ReadThrowInfo
    BY <2>1, <2>2
    DEF Refuse, Decode, ReadObject, ObjectUnreadable, ReadWhat, WhatUnreadable, ShowWhat,
        ReadThrowInfo, Return, thrownVars
  <2>3. CASE Allocate \/ ReadRvas \/ TypesOver \/ SkipType \/ ReadType
    <3>1. allocated' \in BOOLEAN
      <4>1. allocated' \in {TRUE, FALSE, allocated}
        BY <2>3 DEF Allocate, ReadRvas, TypesOver, SkipType, ReadType, GiveBack, TypeVars
      <4> QED  BY <4>1
    <3>2. UNCHANGED <<what, listed>>
      BY <2>3 DEF Allocate, ReadRvas, TypesOver, SkipType, ReadType, TypeVars
    <3>3. type' \in Nat /\ name' \in Nat /\ result' \in 0 .. 8
      BY <2>3 DEF Allocate, ReadRvas, TypesOver, SkipType, ReadType, Return, NextType, TypeVars
    <3> QED  BY <2>1, <3>1, <3>2, <3>3
  <2>4. CASE ShowType
    <3>1. name' \in Nat  BY <2>4 DEF ShowType
    <3>2. listed' = Append(listed, [type |-> type, name |-> name'])  BY <2>4 DEF ShowType
    <3>3. [type |-> type, name |-> name'] \in [type : Nat, name : Nat]  BY <3>1
    <3>4. listed' \in Seq([type : Nat, name : Nat])  BY <3>2, <3>3
    <3> QED  BY <2>1, <2>4, <3>1, <3>4 DEF ShowType, TypeVars
  <2> QED  BY <1>4, <2>2, <2>3, <2>4 DEF ProcessThrow
<1> QED  BY <1>1, <1>2, <1>3, <1>4 DEF Next, Report

(* Init => TypeOK *)
LEMMA TypeInit == Init => TypeOK
<1> SUFFICES ASSUME Init PROVE TypeOK  OBVIOUS
<1>1. StringType
  BY PageAssumption DEF Init, StringType, NoString, maxLen
<1>2. XStateType  BY DEF Init, XStateType, NoHeader
<1>3. /\ alive \in BOOLEAN /\ crash \in Crashes
      /\ {chain, record, context, allocated} \subseteq BOOLEAN
  BY Zenon DEF Init
<1>5. what \in {"none", "exception", "junk"} /\ type \in Nat /\ name \in Nat /\ result \in 0 .. 8
  BY DEF Init
<1>4. listed \in Seq([type : Nat, name : Nat])
  <2>1. <<>> \in Seq([type : Nat, name : Nat])  OBVIOUS
  <2> QED  BY <2>1 DEF Init
<1> QED  BY <1>1, <1>2, <1>3, <1>4, <1>5 DEF TypeOK

(* TypeOK /\ [Next]_vars => TypeOK' *)
LEMMA TypeStep ==
    ASSUME TypeOK, [Next]_vars PROVE TypeOK'
<1>1. CASE Next
  <2>1. StringType' /\ XStateType'  BY <1>1, StringTypeStep, XStateTypeStep
  <2>2. /\ alive' \in BOOLEAN /\ crash' \in Crashes /\ chain' \in BOOLEAN /\ ThrownType'
    BY <1>1, ThrownTypeStep
  <2> QED  BY <2>1, <2>2 DEF TypeOK, ThrownType
<1>2. CASE UNCHANGED vars
  BY <1>2 DEF vars, TypeOK, StringType, XStateType, stringVars, xstateVars, thrownVars
<1> QED  BY <1>1, <1>2

(* The state of a report has its type: TypeOK, whatever is read. *)
THEOREM TypeCorrect == Spec => []TypeOK
<1>1. Init => TypeOK  BY TypeInit
<1>2. TypeOK /\ [Next]_vars => TypeOK'  BY TypeStep
<1> QED  BY <1>1, <1>2, PTL DEF Spec

(***************************************************************************)
(* The string of the exception.                                            *)
(***************************************************************************)
Pointers == {"pointer", "info", "pointers", "record", "context"}
XStatePcs == {"contextEx", "header", "checks", "find", "offset", "cet"}
Early == Pointers \cup XStatePcs \cup {"exception", "object"}

(* While the string is read, what was read of it is mapped and had no end. *)
StringRight ==
    /\ pc \in Early \cup {"string"} => string.result = -1
    /\ pc = "string" =>
          /\ offset <= text.length
          /\ offset > 0 => text.at + offset <= text.mapped
    /\ pc = "what" => string.result # -1 /\ text # NoText
    /\ pc \in {"string", "what"} /\ thrown.object = "exception" => text = crash.text
    /\ alive /\ string.result = 2 => text.at >= text.mapped

(* Before the exception is decoded, nothing is read of its string. *)
LEMMA EarlySteps ==
    ASSUME FollowPointer \/ ProcessXState
    PROVE  /\ UNCHANGED <<alive, crash, stringVars, thrownVars>>
           /\ pc \in Early /\ pc' \in Early /\ pc # "exception" /\ pc # "object" /\ pc' # "object"
           /\ FollowPointer => pc \in Pointers
           /\ ProcessXState => pc \in XStatePcs /\ UNCHANGED <<record, context>>
<1>1. CASE FollowPointer
  <2>1. pc \in Pointers /\ UNCHANGED <<alive, crash, stringVars, thrownVars>>
    BY <1>1 DEF FollowPointer, NextRead, Pointers
  <2>2. pc' \in {"info", "pointers", "record", "context", "contextEx"}
    BY <1>1, <2>1 DEF FollowPointer, NextRead, Pointers, StartRoutine
  <2>3. ~ProcessXState
    BY <2>1 DEF ProcessXState, XStateStep, ReadContextEx, ReadHeader, CetAbsent, CetPresent,
     FindStandard, NotInLayout, BeginOffset, PassFeature, EndOffset, ReadRegisters, ReadCet, Pointers
  <2> QED  BY <2>1, <2>2, <2>3 DEF Early, Pointers, XStatePcs
<1>2. CASE ProcessXState
  <2>1. UNCHANGED <<alive, crash, stringVars, record, context, thrownVars>>
    BY <1>2 DEF ProcessXState, FollowedVars
  <2>2. pc \in XStatePcs /\ pc' \in XStatePcs \cup {"exception"}
    BY <1>2 DEF ProcessXState, XStateStep, StartRoutine, ReadContextEx, ReadHeader, CetAbsent, CetPresent,
     FindStandard, NotInLayout, BeginOffset, PassFeature, EndOffset, ReadRegisters, ReadCet, XStatePcs
  <2>3. ~FollowPointer  BY <2>2 DEF FollowPointer, NextRead, XStatePcs
  <2> QED  BY <2>1, <2>2, <2>3 DEF Early, Pointers, XStatePcs
<1> QED  BY <1>1, <1>2

(* The other steps of the decoding leave the string alone. *)
OtherThrow ==
    \/ Refuse \/ Decode \/ ObjectUnreadable \/ WhatUnreadable \/ ShowWhat \/ ReadThrowInfo
    \/ Allocate \/ ReadRvas \/ SkipType \/ ReadType \/ ShowType \/ TypesOver

(* So they do. *)
LEMMA OtherThrowFrame ==
    ASSUME OtherThrow
    PROVE  /\ UNCHANGED <<alive, crash, stringVars>> /\ pc' \notin {"string", "what"}
           /\ pc' \in Early => pc \in Early
    BY DEF OtherThrow, Refuse, Decode, ObjectUnreadable, WhatUnreadable, ShowWhat,
       ReadThrowInfo, Allocate, ReadRvas, SkipType, ReadType, ShowType, TypesOver,
       Others, Return, TypeVars, Early, Pointers, XStatePcs

(* One chunk after another. *)
LEMMA StringReadStep ==
    ASSUME TypeOK, StringRight, StringWhole, ReadWhat
    PROVE  StringRight' /\ StringWhole'
<1>a. /\ alive' = alive /\ crash' = crash /\ pc = "string"
      /\ ReadString /\ text' = text
  BY DEF ReadWhat, Others, ReadString, ChunkUnreadable, LastChunk, FullChunk, BufferFull, Chunk,
     StringOver
<1>b. /\ text \in Texts /\ offset \in 0 .. maxLen /\ string.result = -1
      /\ offset <= text.length /\ (offset > 0 => text.at + offset <= text.mapped)
      /\ thrown.object = "exception" => text = crash.text
  BY <1>a DEF TypeOK, StringType, StringRight
<1>c. /\ addr \in Nat /\ maxLen \in Nat /\ toRead \in Nat /\ toRead <= maxLen - offset
      /\ text.length \in Nat /\ text.at \in Nat /\ text.mapped \in Nat /\ offset \in Nat
      /\ addr = text.at + offset
  BY <1>b, PageEnd, TextAssumption DEF addr
<1>f. /\ text.mapped % PAGE_CHUNK = 0
      /\ toPageEnd \in 1 .. PAGE_CHUNK /\ (addr + toPageEnd) % PAGE_CHUNK = 0
      /\ toRead <= toPageEnd /\ PAGE_CHUNK \in Nat \ {0}
  BY <1>b, PageEnd, TextAssumption, PageAssumption
<1>d. text # NoText  BY <1>b, TextAssumption
<1>e. thrown' = thrown  BY <1>a DEF thrown
<1>1. CASE ChunkUnreadable
  <2>1. /\ pc' = "what" /\ offset' = offset
        /\ string' = [result |-> IF offset > 0 THEN 0 ELSE 2, length |-> offset]
    BY <1>1 DEF ChunkUnreadable, StringOver
  <2>2. alive => addr >= text.mapped
    <3> SUFFICES ASSUME alive, addr < text.mapped PROVE FALSE  BY <1>c
    <3>1. text.mapped < addr + toRead
      <4>1. ~(addr + toRead <= text.mapped)  BY <1>1 DEF ChunkUnreadable, Readable
      <4> QED  BY <1>c, <4>1
    <3>2. text.mapped < addr + toPageEnd /\ addr + toPageEnd \in Int /\ text.mapped \in Int
      <4>1. toPageEnd \in Nat /\ toRead <= toPageEnd  BY <1>f
      <4>2. \A a, b, c, d \in Nat : d < a + b /\ b <= c => d < a + c  OBVIOUS
      <4> QED  BY <1>c, <3>1, <4>1, <4>2
    <3>3. text.mapped + PAGE_CHUNK <= addr + toPageEnd
      BY <1>f, <3>2, MultiplesApart, Zenon
    <3> QED  BY <1>c, <1>f, <3>3
  <2>3. StringRight'
    BY <1>a, <1>b, <1>c, <1>d, <1>e, <2>1, <2>2 DEF StringRight, Early, Pointers, XStatePcs
  <2>4. StringWhole'
    BY <1>a, <1>b, <1>c, <2>1, <2>2 DEF StringWhole, maxLen
  <2> QED  BY <2>3, <2>4
<1>2. CASE LastChunk
  <2>1. /\ pc' = "what" /\ offset' = offset /\ string' = [result |-> 0, length |-> text.length]
        /\ addr + toRead <= text.mapped /\ text.length < offset + toRead
    BY <1>2 DEF LastChunk, StringOver, Readable, EndInChunk
  <2>2. StringRight'
    BY <1>a, <1>b, <1>c, <1>d, <1>e, <2>1 DEF StringRight, Early, Pointers, XStatePcs
  <2>3. StringWhole'
    BY <1>a, <1>b, <1>c, <2>1 DEF StringWhole, maxLen
  <2> QED  BY <2>2, <2>3
<1>3. CASE FullChunk
  <2>1. /\ pc' = "string" /\ offset' = offset + toRead /\ string' = string
        /\ addr + toRead <= text.mapped /\ offset + toRead <= text.length
    BY <1>3, <1>a, <1>c DEF FullChunk, Readable, EndInChunk
  <2>2. StringRight'
    BY <1>a, <1>b, <1>c, <1>d, <1>e, <2>1 DEF StringRight, Early, Pointers, XStatePcs
  <2>3. StringWhole'
    BY <1>a, <1>b, <1>c, <2>1 DEF StringWhole, maxLen
  <2> QED  BY <2>2, <2>3
<1>4. CASE BufferFull
  <2>1. /\ pc' = "what" /\ offset' = offset /\ string' = [result |-> 0, length |-> maxLen]
        /\ offset = maxLen
    BY <1>4, <1>c DEF BufferFull, StringOver
  <2>2. StringRight'
    BY <1>a, <1>b, <1>c, <1>d, <1>e, <2>1 DEF StringRight, Early, Pointers, XStatePcs
  <2>3. StringWhole'
    BY <1>a, <1>b, <1>c, <2>1 DEF StringWhole, maxLen
  <2> QED  BY <2>2, <2>3
<1> QED  BY <1>a, <1>1, <1>2, <1>3, <1>4 DEF ReadString

(* The string stays right from step to step. *)
LEMMA StringStep ==
    ASSUME TypeOK, StringRight, StringWhole, [Next]_vars
    PROVE  StringRight' /\ StringWhole'
<1>a. thrown' = crash'.thrown  BY DEF thrown
<1>1. CASE FollowPointer \/ ProcessXState
  BY <1>1, EarlySteps DEF StringRight, StringWhole, stringVars, Early, Pointers, XStatePcs, thrown
<1>2. CASE ReadObject
  <2>1. /\ alive' = alive /\ crash' = crash /\ string' = string /\ pc = "object"
        /\ thrown' = thrown
    BY <1>2 DEF ReadObject, Others, StartString, stringVars, thrown
  <2>2. string.result = -1  BY <2>1 DEF StringRight, Early
  <2>3. CASE pc' = "throwInfo" /\ UNCHANGED stringVars
    BY <2>1, <2>2, <2>3 DEF StringRight, StringWhole, stringVars, Early, Pointers, XStatePcs
  <2>4. ASSUME NEW t \in Texts, StartString(t), thrown.object = "exception" => t = crash.text
        PROVE  StringRight' /\ StringWhole'
    <3>1. t.length \in Nat /\ maxLen \in Nat  BY TextAssumption, PageAssumption DEF maxLen
    <3>2. text' = t /\ offset' = 0 /\ pc' = "string"  BY <2>4 DEF StartString
    <3> QED
      BY <2>1, <2>2, <2>4, <3>1, <3>2 DEF StringRight, StringWhole, Early, Pointers, XStatePcs, maxLen
  <2>5. PICK t \in IF thrown.object = "exception" THEN {crash.text} ELSE JunkTexts :
              IF t = NoText THEN pc' = "throwInfo" /\ UNCHANGED stringVars ELSE StartString(t)
    BY <1>2 DEF ReadObject
  <2>6. t \in {NoText} \cup Texts  BY CrashFacts, CrashAssumption DEF TypeOK
  <2>7. CASE t = NoText  BY <2>3, <2>5, <2>7
  <2>8. CASE t # NoText
    <3>1. t \in Texts /\ StartString(t) /\ (thrown.object = "exception" => t = crash.text)
      BY <2>5, <2>6, <2>8
    <3> QED  BY <2>4, <3>1
  <2> QED  BY <2>7, <2>8
<1>3. CASE ReadWhat  BY <1>3, StringReadStep
<1>4. CASE OtherThrow
  BY <1>4, OtherThrowFrame DEF StringRight, StringWhole, stringVars, Early, thrown
<1>5. CASE ClientEnds
  <2>1. UNCHANGED <<crash, pc, stringVars>> /\ ~alive'  BY <1>5 DEF ClientEnds, Kill
  <2> QED  BY <2>1 DEF StringRight, StringWhole, stringVars, thrown
<1>6. CASE UNCHANGED vars
  BY <1>6 DEF vars, StringRight, StringWhole, stringVars, thrown
<1> QED  BY <1>1, <1>2, <1>3, <1>4, <1>5, <1>6 DEF Next, Report, ProcessThrow, OtherThrow

(***************************************************************************)
(* The registers.                                                          *)
(***************************************************************************)
Genuine == alive /\ crash.areas.extended /\ crash.areas.compacted
Needed == IF routine = "fp" THEN Wanted(crash.areas.enabled) ELSE {XSTATE_CET_U}

(* n leaves room for the areas of the features before k, and no lower one does. *)
RoomFor(k, n) ==
    n >= Header /\ \A g \in crash.areas.layout : g < k => crash.areas.place[g] + crash.areas.size[g] <= n
LeastRoom(k, n) == RoomFor(k, n) /\ \A m \in Nat : RoomFor(k, m) => n <= m

(* What is known of a client that is alive and has a CONTEXT_EX and the compacted format. *)
XStateRight ==
    /\ pc = "checks" => routine = "cet" /\ todo = {XSTATE_CET_U}
    /\ Genuine =>
          /\ pc \in {"header", "checks", "find", "offset"} => contextEx
          /\ pc \in {"checks", "find", "offset"} => header = TrueHeader
          /\ pc \in {"find", "offset"} =>
                /\ \A f \in Needed \cap crash.areas.layout :
                      f \in todo \/ offsets[f] = crash.areas.place[f]
                /\ routine = "cet" => XSTATE_CET_U \in crash.areas.saved
          /\ pc = "offset" =>
                /\ FeatureIndex \in crash.areas.layout /\ i \in 2 .. FeatureIndex
                /\ LeastRoom(i, Offset)

(* The processor's place is the least room, aligned. *)
LEMMA PlaceIsAligned ==
    ASSUME TypeOK, crash.areas.compacted, NEW f \in crash.areas.layout, NEW n \in Nat, LeastRoom(f, n)
    PROVE  Aligned(f, n) = crash.areas.place[f]
<1> DEFINE p == crash.areas.place[f]
           q == Aligned(f, n)
           a == crash.areas
<1>1. /\ p \in Nat /\ Compacted(a) /\ f \in a.layout  BY CrashFacts DEF TypeOK
<1>2. q \in Nat /\ n <= q  BY AlignedUp
<1>3. f \in a.aligned => q % Alignment = 0 /\ q < n + Alignment  BY AlignedUp
<1>4. f \notin a.aligned => q = n  BY AlignedUp
<1>5. \A g \in a.layout : a.place[g] \in Nat /\ a.size[g] \in Nat
  BY CrashFacts DEF TypeOK
<1>6. FreeFor(a, f, p)  BY <1>1 DEF Compacted
<1>7. \A m \in 0 .. (p - 1) : ~FreeFor(a, f, m)  BY <1>1 DEF Compacted
<1>8. n <= p
  <2>1. RoomFor(f, p)  BY <1>6 DEF FreeFor, RoomFor
  <2> QED  BY <1>1, <2>1 DEF LeastRoom
<1>9. FreeFor(a, f, q)
  <2>1. RoomFor(f, n)  BY DEF LeastRoom
  <2>2. q >= Header  BY <1>2, <2>1, FeatureAssumption DEF RoomFor
  <2>3. \A g \in a.layout : g < f => a.place[g] + a.size[g] <= q
    <3> TAKE g \in a.layout
    <3> SUFFICES ASSUME g < f PROVE a.place[g] + a.size[g] <= q  OBVIOUS
    <3>1. a.place[g] + a.size[g] <= n /\ a.place[g] \in Nat /\ a.size[g] \in Nat
      BY <2>1, <1>5 DEF RoomFor
    <3>2. a.place[g] + a.size[g] \in Nat  BY <3>1
    <3> QED  BY <1>2, <3>1, <3>2
  <2> QED  BY <1>3, <2>2, <2>3 DEF FreeFor
<1> HIDE DEF p, q, a
<1>10. p <= q
  <2> SUFFICES ASSUME q < p PROVE FALSE  BY <1>1, <1>2
  <2>1. q \in 0 .. (p - 1)  BY <1>1, <1>2
  <2> QED  BY <1>7, <1>9, <2>1
<1>11. q <= p
  <2> SUFFICES ASSUME p < q PROVE FALSE  BY <1>1, <1>2
  <2>1. CASE f \notin a.aligned  BY <1>4, <1>8, <1>1, <2>1
  <2>2. CASE f \in a.aligned
    <3>1. p % Alignment = 0 /\ q % Alignment = 0 /\ q < n + Alignment
      BY <1>3, <1>6, <2>2 DEF FreeFor
    <3>2. p \in Int /\ q \in Int /\ Alignment \in Nat \ {0}  BY <1>1, <1>2, FeatureAssumption
    <3>3. p + Alignment <= q  BY <3>1, <3>2, MultiplesApart, Zenon
    <3>4. q < n + Alignment  BY <3>1
    <3> HIDE DEF a
    <3> QED
      <4>1. \A x, y, z, d \in Nat : x <= y /\ y + d <= z => ~(z < x + d)  OBVIOUS
      <4> QED  BY <1>1, <1>2, <1>8, <3>2, <3>3, <3>4, <4>1
  <2> QED  BY <2>1, <2>2
<1> QED  BY <1>1, <1>2, <1>10, <1>11 DEF p, q

(* Passing a feature leaves the least room for those after it. *)
LEMMA RoomGrows ==
    ASSUME TypeOK, Genuine, header = TrueHeader, NEW k \in Nat, NEW n \in Nat, LeastRoom(k, n)
    PROVE  /\ k \in header.layout => LeastRoom(k + 1, Behind(k, n))
           /\ k \notin header.layout => LeastRoom(k + 1, n)
<1> DEFINE a == crash.areas
<1>a. header.layout = a.layout  BY DEF TrueHeader
<1>b. \A g \in a.layout : g \in Nat /\ a.place[g] \in Nat /\ a.size[g] \in Nat
  BY CrashFacts, FeatureAssumption DEF TypeOK
<1>c. Header \in Nat  BY FeatureAssumption
<1>1. ASSUME k \in a.layout PROVE LeastRoom(k + 1, Behind(k, n))
  <2>1. Aligned(k, n) = a.place[k]  BY <1>1, PlaceIsAligned DEF Genuine
  <2>2. Behind(k, n) = a.place[k] + a.size[k]  BY <2>1 DEF Behind
  <2>3. n <= a.place[k]  BY <2>1, AlignedUp
  <2>4. RoomFor(k, n)  BY DEF LeastRoom
  <2> DEFINE b == a.place[k] + a.size[k]
  <2>5. b \in Nat /\ n <= b  BY <1>1, <1>b, <2>3
  <2>6. RoomFor(k + 1, b)
    <3>1. b >= Header  BY <2>4, <2>5, <1>c DEF RoomFor
    <3>2. ASSUME NEW g \in a.layout, g < k + 1 PROVE a.place[g] + a.size[g] <= b
      <4>1. CASE g = k  BY <4>1, <2>5
      <4>2. CASE g < k
        <5>1. a.place[g] + a.size[g] <= n  BY <2>4, <4>2 DEF RoomFor
        <5>2. a.place[g] + a.size[g] \in Nat  BY <1>b
        <5> HIDE DEF b, a
        <5> QED  BY <5>1, <5>2, <2>5
      <4> QED  BY <3>2, <4>1, <4>2, <1>b
    <3> QED  BY <3>1, <3>2 DEF RoomFor
  <2>7. ASSUME NEW m \in Nat, RoomFor(k + 1, m) PROVE b <= m
    <3>1. k < k + 1  OBVIOUS
    <3> QED  BY <1>1, <2>7, <3>1 DEF RoomFor
  <2> QED  BY <2>2, <2>6, <2>7 DEF LeastRoom
<1>2. ASSUME k \notin a.layout PROVE LeastRoom(k + 1, n)
  <2>1. \A g \in a.layout : g < k + 1 <=> g < k  BY <1>2, <1>b
  <2>2. \A m \in Nat : RoomFor(k + 1, m) <=> RoomFor(k, m)  BY <2>1 DEF RoomFor
  <2> QED  BY <2>2 DEF LeastRoom
<1> QED  BY <1>a, <1>1, <1>2

(* The features that are shown are all in the layout if they are saved. *)
LEMMA SavedInLayout ==
    ASSUME TypeOK, crash.areas.compacted
    PROVE  (Shown \cup {XSTATE_CET_U}) \cap crash.areas.saved \subseteq crash.areas.layout
<1>1. crash.areas.saved \cap {f \in Features : f >= 2} \subseteq crash.areas.layout
  BY CrashFacts DEF TypeOK
<1> QED  BY <1>1, FeatureAssumption

(* What is shown stays right if nothing but the client's life changes. *)
LEMMA ShownKeeps ==
    ASSUME TypeOK, RegistersAreSaved, UNCHANGED <<crash, registers, ssp>>, alive' => alive
    PROVE  RegistersAreSaved'
    BY DEF RegistersAreSaved

(* Each step of the routines finds and shows what is right. *)
LEMMA XStateStepRight ==
    ASSUME TypeOK, XStateRight, RegistersAreSaved, ProcessXState
    PROVE  XStateRight' /\ RegistersAreSaved'
<1>a. UNCHANGED <<alive, crash, context>>  BY DEF ProcessXState, FollowedVars
<1>b. Genuine' <=> Genuine  BY <1>a DEF Genuine
<1>c. TrueHeader' = TrueHeader  BY <1>a DEF TrueHeader
<1>d. XStateType  BY DEF TypeOK
<1>1. CASE ReadContextEx
  BY <1>1, <1>a, <1>b, ShownKeeps DEF ReadContextEx, XStateRight, Genuine
<1>2. CASE ReadHeader
  <2>1. pc = "header" /\ (Genuine => contextEx' /\ header' = TrueHeader)
    BY <1>2 DEF ReadHeader, XStateRight, Genuine
  <2>2. CASE routine = "fp"
    BY <1>2, <1>a, <1>b, <1>c, <2>1, <2>2, ShownKeeps DEF ReadHeader, XStateRight, Needed, Wanted
  <2>3. CASE routine # "fp"
    <3>1. routine' = "cet" /\ pc' = "checks" /\ todo' = {XSTATE_CET_U}
      BY <1>2, <1>d, <2>3 DEF ReadHeader, XStateType
    <3> QED  BY <1>2, <1>a, <1>b, <1>c, <2>1, <3>1, ShownKeeps DEF ReadHeader, XStateRight
  <2> QED  BY <2>2, <2>3
<1>3. CASE CetAbsent(context)
  BY <1>3, <1>a, ShownKeeps DEF CetAbsent, XStateRight, xstateVars
<1>4. CASE CetPresent(context)
  <2>1. /\ routine = "cet" /\ todo = {XSTATE_CET_U} /\ XSTATE_CET_U \in header.saved
        /\ Genuine => contextEx /\ header = TrueHeader
    BY <1>4 DEF CetPresent, XStateRight
  <2>2. /\ pc' = "find" /\ routine' = "cet" /\ todo' = {XSTATE_CET_U}
        /\ UNCHANGED <<contextEx, header, registers, ssp>>
    BY <1>4, <2>1 DEF CetPresent
  <2>3. Genuine => XSTATE_CET_U \in crash.areas.saved  BY <2>1 DEF TrueHeader
  <2>4. Needed' = {XSTATE_CET_U}  BY <2>2 DEF Needed
  <2>5. XStateRight'  BY <1>a, <1>b, <1>c, <2>1, <2>2, <2>3, <2>4 DEF XStateRight
  <2> QED  BY <1>a, <2>2, <2>5, ShownKeeps
<1>5. CASE FindStandard
  <2>1. ~Genuine
    BY <1>5 DEF FindStandard, XStateRight, TrueHeader, Genuine
  <2> QED  BY <1>5, <1>a, <1>b, <2>1, ShownKeeps DEF FindStandard, XStateRight
<1>6. CASE NotInLayout
  <2>1. /\ pc = "find" /\ FeatureIndex \notin header.layout /\ todo' = todo \ {FeatureIndex}
        /\ UNCHANGED <<pc, routine, contextEx, header, offsets, registers, ssp>>
    BY <1>6 DEF NotInLayout
  <2>2. Needed' = Needed  BY <1>a, <2>1 DEF Needed, Wanted
  <2>3. Genuine => FeatureIndex \notin crash.areas.layout
    BY <2>1 DEF XStateRight, TrueHeader
  <2>4. XStateRight'  BY <1>a, <1>b, <1>c, <2>1, <2>2, <2>3 DEF XStateRight
  <2> QED  BY <1>a, <2>1, <2>4, ShownKeeps
<1>7. CASE BeginOffset
  <2>1. /\ pc = "find" /\ FeatureIndex \in header.layout /\ pc' = "offset"
        /\ i' = 2 /\ Offset' = Header
        /\ UNCHANGED <<routine, contextEx, header, todo, offsets, registers, ssp>>
    BY <1>7 DEF BeginOffset
  <2>2. Needed' = Needed /\ FeatureIndex' = FeatureIndex
    BY <1>a, <2>1 DEF Needed, Wanted, FeatureIndex
  <2>3. /\ crash.areas.layout \subseteq {f \in Nat : f >= 2}
    BY CrashFacts, FeatureAssumption DEF TypeOK
  <2>4. LeastRoom(2, Header)
    BY <2>3, FeatureAssumption DEF LeastRoom, RoomFor
  <2>5. (LeastRoom(i, Offset))' <=> LeastRoom(2, Header)
    BY <1>a, <2>1 DEF LeastRoom, RoomFor
  <2>6. Genuine => FeatureIndex \in crash.areas.layout
    BY <2>1 DEF XStateRight, TrueHeader
  <2>7. Genuine => i' \in 2 .. FeatureIndex'
    BY <2>1, <2>2, <2>3, <2>6
  <2>8. XStateRight'
    BY <1>a, <1>b, <1>c, <2>1, <2>2, <2>4, <2>5, <2>6, <2>7 DEF XStateRight
  <2> QED  BY <1>a, <2>1, <2>8, ShownKeeps
<1>8. CASE PassFeature
  <2>1. /\ pc = "offset" /\ pc' = "offset" /\ i < FeatureIndex /\ i' = i + 1
        /\ Offset' = IF i \in header.layout THEN Behind(i, Offset) ELSE Offset
        /\ UNCHANGED <<routine, contextEx, header, todo, offsets, registers, ssp>>
    BY <1>8 DEF PassFeature
  <2>2. Needed' = Needed /\ FeatureIndex' = FeatureIndex
    BY <1>a, <2>1 DEF Needed, Wanted, FeatureIndex
  <2>3. ASSUME Genuine PROVE LeastRoom(i + 1, Offset') /\ i' \in 2 .. FeatureIndex'
    <3>1. /\ header = TrueHeader /\ LeastRoom(i, Offset) /\ i \in 2 .. FeatureIndex
          /\ FeatureIndex \in crash.areas.layout
      BY <2>1, <2>3 DEF XStateRight
    <3>2. FeatureIndex \in Nat  BY <3>1, CrashFacts, FeatureAssumption DEF TypeOK
    <3>3. i \in Nat /\ Offset \in Nat  BY <1>d DEF XStateType
    <3>4. LeastRoom(i + 1, Offset')  BY <2>1, <2>3, <3>1, <3>3, RoomGrows
    <3>5. i + 1 \in 2 .. FeatureIndex  BY <2>1, <3>1, <3>2, <3>3
    <3> QED  BY <2>1, <2>2, <3>4, <3>5
  <2>4. (LeastRoom(i, Offset))' <=> LeastRoom(i + 1, Offset')
    BY <1>a, <2>1 DEF LeastRoom, RoomFor
  <2>5. XStateRight'
    BY <1>a, <1>b, <1>c, <2>1, <2>2, <2>3, <2>4 DEF XStateRight
  <2> QED  BY <1>a, <2>1, <2>5, ShownKeeps
<1>9. CASE EndOffset
  <2>1. /\ pc = "offset" /\ pc' = "find" /\ i = FeatureIndex
        /\ offsets' = [offsets EXCEPT ![i] = Aligned(i, Offset)] /\ todo' = todo \ {i}
        /\ UNCHANGED <<routine, contextEx, header, registers, ssp>>
    BY <1>9 DEF EndOffset
  <2>2. Needed' = Needed  BY <1>a, <2>1 DEF Needed, Wanted
  <2>3. ASSUME Genuine PROVE \A f \in Needed \cap crash.areas.layout :
                                f \in todo' \/ offsets'[f] = crash.areas.place[f]
    <3>1. i \in crash.areas.layout /\ LeastRoom(i, Offset) /\ Offset \in Nat
      BY <1>d, <2>1, <2>3 DEF XStateRight, XStateType
    <3>2. Aligned(i, Offset) = crash.areas.place[i]
      BY <2>3, <3>1, PlaceIsAligned DEF Genuine
    <3>3. offsets \in [Features -> Nat] /\ crash.areas.layout \subseteq Features
      BY <1>d, CrashFacts DEF XStateType, TypeOK
    <3> TAKE f \in Needed \cap crash.areas.layout
    <3>4. CASE f = i  BY <2>1, <3>1, <3>2, <3>3, <3>4
    <3>5. CASE f # i
      <4>1. f \in todo \/ offsets[f] = crash.areas.place[f]
        BY <2>1, <2>3 DEF XStateRight
      <4> QED  BY <2>1, <3>3, <3>5, <4>1
    <3> QED  BY <3>4, <3>5
  <2>4. XStateRight'
    BY <1>a, <1>b, <1>c, <2>1, <2>2, <2>3 DEF XStateRight
  <2> QED  BY <1>a, <2>1, <2>4, ShownKeeps
<1>10. CASE ReadRegisters
  <2>1. /\ pc = "find" /\ todo = {} /\ routine = "fp" /\ pc' = "cet" /\ ssp' = ssp
        /\ registers' = [f \in Shown |->
                        IF f \notin Wanted(crash.areas.enabled) THEN "none"
                        ELSE IF IsAt(f, offsets[f]) THEN "saved" ELSE "junk"]
    BY <1>10 DEF ReadRegisters
  <2>2. XStateRight'  BY <2>1 DEF XStateRight
  <2>3. ASSUME Genuine, NEW f \in Shown \cap crash.areas.saved PROVE registers'[f] # "junk"
    <3>1. CASE f \notin Wanted(crash.areas.enabled)  BY <2>1, <3>1
    <3>2. CASE f \in Wanted(crash.areas.enabled)
      <4>1. f \in crash.areas.layout  BY <2>3, SavedInLayout DEF Genuine
      <4>2. offsets[f] = crash.areas.place[f] /\ contextEx
        BY <2>1, <2>3, <3>2, <4>1 DEF XStateRight, Needed
      <4>3. IsAt(f, offsets[f])  BY <2>3, <4>2 DEF IsAt, PlaceOf, Genuine
      <4> QED  BY <2>1, <4>3
    <3> QED  BY <3>1, <3>2
  <2>4. RegistersAreSaved'
    BY <1>a, <2>1, <2>3 DEF RegistersAreSaved, Genuine
  <2> QED  BY <2>2, <2>4
<1>11. CASE ReadCet
  <2>1. /\ pc = "find" /\ todo = {} /\ routine = "cet" /\ pc' = "exception" /\ registers' = registers
    BY <1>11 DEF ReadCet
  <2>2. XStateRight'  BY <2>1 DEF XStateRight
  <2>3. ASSUME crash.areas.extended, crash.areas.compacted PROVE ssp' # "junk"
    <3>1. CASE alive
      <4>1. Genuine  BY <2>3, <3>1 DEF Genuine
      <4>2. XSTATE_CET_U \in crash.areas.saved /\ contextEx  BY <2>1, <4>1 DEF XStateRight
      <4>3. XSTATE_CET_U \in crash.areas.layout  BY <2>3, <4>2, SavedInLayout
      <4>4. offsets[XSTATE_CET_U] = crash.areas.place[XSTATE_CET_U]
        BY <2>1, <4>1, <4>3 DEF XStateRight, Needed
      <4>5. IsAt(XSTATE_CET_U, offsets[XSTATE_CET_U])
        BY <2>3, <3>1, <4>2, <4>4 DEF IsAt, PlaceOf
      <4>6. ssp' = IF crash.areas.shadow THEN "saved" ELSE "none"  BY <1>11, <4>5 DEF ReadCet
      <4> QED  BY <4>6
    <3>2. CASE ~alive
      <4>1. ~IsAt(XSTATE_CET_U, offsets[XSTATE_CET_U])  BY <3>2 DEF IsAt
      <4>2. PICK read \in Luck, enabled \in BOOLEAN : ssp' = IF read /\ enabled THEN "junk" ELSE "none"
        BY <1>11, <4>1 DEF ReadCet
      <4>3. ~read  BY <3>2 DEF Luck, TypeOK
      <4> QED  BY <4>2, <4>3
    <3> QED  BY <3>1, <3>2
  <2>4. RegistersAreSaved'
    BY <1>a, <2>1, <2>3 DEF RegistersAreSaved
  <2> QED  BY <2>2, <2>4
<1>12. CASE pc = "cet" /\ StartRoutine("cet")
  BY <1>12, <1>a, <1>b, ShownKeeps DEF StartRoutine, XStateRight
<1> QED
  BY <1>1, <1>2, <1>3, <1>4, <1>5, <1>6, <1>7, <1>8, <1>9, <1>10, <1>11, <1>12
  DEF ProcessXState, XStateStep

(* The registers stay right from step to step. *)
LEMMA RegistersStep ==
    ASSUME TypeOK, XStateRight, RegistersAreSaved, [Next]_vars
    PROVE  XStateRight' /\ RegistersAreSaved'
<1>1. CASE FollowPointer
  <2>1. UNCHANGED <<alive, crash, registers, ssp>>
    BY <1>1 DEF FollowPointer, xstateVars, StartRoutine
  <2>2. pc' \in {"info", "pointers", "record", "context", "contextEx"}
    BY <1>1 DEF FollowPointer, NextRead, StartRoutine
  <2>3. XStateRight'  BY <2>2 DEF XStateRight
  <2> QED  BY <2>1, <2>3, ShownKeeps
<1>2. CASE ProcessXState  BY <1>2, XStateStepRight
<1>3. CASE ProcessThrow
  <2>1. UNCHANGED <<alive, crash, xstateVars>> /\ pc' \notin {"checks", "header", "find", "offset"}
    BY <1>3 DEF ProcessThrow, Refuse, Decode, ReadObject, ObjectUnreadable, ReadWhat, WhatUnreadable,
         ShowWhat, ReadThrowInfo, Allocate, ReadRvas, SkipType, ReadType, ShowType, TypesOver,
         Others, Return, StartString, ReadString, ChunkUnreadable, LastChunk, FullChunk, BufferFull,
         Chunk, StringOver, TypeVars
  <2>2. XStateRight'  BY <2>1 DEF XStateRight
  <2> QED  BY <2>1, <2>2, ShownKeeps DEF xstateVars
<1>4. CASE ClientEnds
  <2>1. UNCHANGED <<crash, pc, xstateVars>> /\ ~alive'  BY <1>4 DEF ClientEnds, Kill
  <2>2. XStateRight'  BY <2>1 DEF XStateRight, Genuine, xstateVars
  <2> QED  BY <2>1, <2>2, ShownKeeps DEF xstateVars
<1>5. CASE UNCHANGED vars
  <2>1. UNCHANGED <<alive, crash, pc, xstateVars>>  BY <1>5 DEF vars
  <2>2. Genuine' = Genuine /\ TrueHeader' = TrueHeader /\ Needed' = Needed /\ FeatureIndex' = FeatureIndex
        /\ ((LeastRoom(i, Offset))' <=> LeastRoom(i, Offset))
    BY <2>1 DEF xstateVars, Genuine, TrueHeader, Needed, Wanted, FeatureIndex, LeastRoom, RoomFor
  <2>3. XStateRight'  BY <2>1, <2>2 DEF xstateVars, XStateRight
  <2> QED  BY <2>1, <2>3, ShownKeeps DEF xstateVars
<1> QED  BY <1>1, <1>2, <1>3, <1>4, <1>5 DEF Next, Report

(***************************************************************************)
(* The types.                                                              *)
(***************************************************************************)
(* The list holds the types that were read, in order, with their names. *)
ListOrdered ==
    \A k \in DOMAIN listed :
        /\ listed[k].type \in 1 .. thrown.count /\ listed[k].type < type
        /\ thrown.types[listed[k].type]
        /\ listed[k].name \in {0, listed[k].type}
        /\ \A j \in 1 .. (k - 1) : listed[j].type < listed[k].type

Loop == {"types", "name"}

(* It holds all of them so far, if the client is alive. *)
TypesRight ==
    /\ ListOrdered
    /\ allocated => pc \in Loop \cup {"rvas"}
    /\ pc \notin Loop \cup {"done"} => type = 1 /\ listed = <<>>
    /\ pc \in Loop \cup {"rvas"} => thrown.count >= 0
    /\ pc \in Loop =>
          /\ type >= 1 /\ type <= thrown.count + 1
          /\ alive => ListedTypes = {k \in 1 .. (type - 1) : thrown.types[k]}
    /\ pc = "name" => type \in 1 .. thrown.count /\ thrown.types[type] /\ name = 0
    /\ pc # "done" => result = 0
    /\ TypesListed

(* A type that was read is shown behind those before it. *)
LEMMA ShowTypeStep ==
    ASSUME TypeOK, TypesRight, ShowType PROVE TypesRight'
<1>1. /\ pc = "name" /\ pc' = "types" /\ type' = type + 1
      /\ listed' = Append(listed, [type |-> type, name |-> name'])
      /\ name' \in {name, type}
      /\ UNCHANGED <<alive, crash, allocated, result>>
  BY DEF ShowType, Others, TypeVars
<1>2. /\ type \in 1 .. thrown.count /\ thrown.types[type] /\ name = 0
      /\ thrown.count \in Int /\ type \in Nat /\ thrown' = thrown
  BY <1>1, CrashFacts DEF TypesRight, TypeOK, thrown
<1>3. listed \in Seq([type : Nat, name : Nat])  BY DEF TypeOK
<1> DEFINE n == Len(listed)
           e == [type |-> type, name |-> name']
<1>4. /\ n \in Nat /\ DOMAIN listed = 1 .. n /\ DOMAIN listed' = 1 .. (n + 1)
      /\ \A k \in 1 .. n : listed'[k] = listed[k]
      /\ listed'[n + 1] = e
  <2>1. n \in Nat /\ DOMAIN listed = 1 .. n  BY <1>3
  <2>2. e \in [type : Nat, name : Nat]
    <3>1. name' \in Nat  BY <1>1, <1>2
    <3> QED  BY <3>1, <1>2
  <2>3. /\ DOMAIN Append(listed, e) = 1 .. (n + 1)
        /\ \A k \in 1 .. n : Append(listed, e)[k] = listed[k]
        /\ Append(listed, e)[n + 1] = e
    BY <1>3, <2>2
  <2> QED  BY <1>1, <2>1, <2>3
<1>5. /\ e.type = type /\ e.name \in {0, type}  BY <1>1, <1>2
<1> HIDE DEF n, e
<1>6. \A k \in 1 .. n :
         /\ listed[k].type \in 1 .. thrown.count /\ listed[k].type < type
         /\ thrown.types[listed[k].type]
         /\ listed[k].name \in {0, listed[k].type}
         /\ \A j \in 1 .. (k - 1) : listed[j].type < listed[k].type
  BY <1>4 DEF TypesRight, ListOrdered
<1>7. ListOrdered'
  <2> SUFFICES ASSUME NEW k \in 1 .. (n + 1)
               PROVE  /\ listed'[k].type \in 1 .. thrown.count /\ listed'[k].type < type + 1
                      /\ thrown.types[listed'[k].type]
                      /\ listed'[k].name \in {0, listed'[k].type}
                      /\ \A j \in 1 .. (k - 1) : listed'[j].type < listed'[k].type
    BY <1>1, <1>2, <1>4 DEF ListOrdered
  <2>1. CASE k \in 1 .. n
    <3>1. listed'[k] = listed[k] /\ \A j \in 1 .. (k - 1) : listed'[j] = listed[j]
      BY <1>4, <2>1
    <3>2. listed[k].type < type + 1  BY <1>2, <1>6, <2>1
    <3> QED  BY <1>6, <2>1, <3>1, <3>2
  <2>2. CASE k = n + 1
    <3>1. k - 1 = n /\ listed'[k] = e  BY <1>4, <2>2
    <3>2. \A j \in 1 .. n : listed'[j].type < type  BY <1>4, <1>6
    <3>3. type < type + 1  BY <1>2
    <3> QED  BY <1>2, <1>5, <3>1, <3>2, <3>3
  <2> QED  BY <1>4, <2>1, <2>2
<1>8. ListedTypes' = ListedTypes \cup {type}
  <2>1. ListedTypes' = {listed'[k].type : k \in 1 .. (n + 1)}  BY <1>4 DEF ListedTypes
  <2>2. ListedTypes = {listed[k].type : k \in 1 .. n}  BY <1>4 DEF ListedTypes
  <2>3. 1 .. (n + 1) = (1 .. n) \cup {n + 1}  BY <1>4
  <2> QED  BY <1>4, <1>5, <2>1, <2>2, <2>3
<1>9. type' >= 1 /\ type' <= thrown.count + 1  BY <1>1, <1>2
<1>10. ASSUME alive PROVE ListedTypes' = {k \in 1 .. (type' - 1) : thrown.types[k]}
  <2>1. ListedTypes = {k \in 1 .. (type - 1) : thrown.types[k]}
    BY <1>1, <1>10 DEF TypesRight, Loop
  <2>2. type' - 1 = type /\ 1 .. type = (1 .. (type - 1)) \cup {type}  BY <1>1, <1>2
  <2> QED  BY <1>2, <1>8, <2>1, <2>2
<1>11. thrown.count >= 0 /\ result = 0  BY <1>1 DEF TypesRight, Loop
<1> QED
  BY <1>1, <1>2, <1>7, <1>9, <1>10, <1>11 DEF TypesRight, Loop, TypesListed

(* Of such an exception every type is due. *)
Due == alive /\ Decodable /\ HasTypes /\ thrown.object = "exception" /\ WhatReadable

(* A return before the loop is right if nothing is due, or if malloc failed. *)
LEMMA ReturnEarly ==
    ASSUME TypesRight, pc \notin Loop \cup {"done"}, pc' = "done", ~allocated',
           UNCHANGED <<alive, crash, record, type, listed>>, Due => result' = 7
    PROVE  TypesRight'
<1>1. listed = <<>> /\ listed' = <<>> /\ thrown' = thrown  BY DEF TypesRight, thrown
<1>2. ListOrdered'  BY <1>1 DEF ListOrdered
<1>3. Due' <=> Due  BY DEF Due, Decodable, IsThrow, HasTypes, WhatReadable, thrown
<1>4. TypesListed'  BY <1>1, <1>3 DEF TypesListed, Due
<1> QED  BY <1>2, <1>4 DEF TypesRight, Loop

(* What comes before the loop leaves the list empty. *)
LEMMA ContinueEarly ==
    ASSUME TypesRight, pc \notin Loop \cup {"done"}, pc' \notin Loop \cup {"done"},
           UNCHANGED <<crash, type, listed, result>>,
           allocated' => pc' = "rvas", pc' = "rvas" => thrown.count >= 0
    PROVE  TypesRight'
<1>1. listed = <<>> /\ listed' = <<>> /\ thrown' = thrown  BY DEF TypesRight, thrown
<1>2. ListOrdered'  BY <1>1 DEF ListOrdered
<1>3. TypesListed'  BY DEF TypesListed
<1>4. type' = 1 /\ result' = 0 /\ (pc' = "rvas" => thrown'.count >= 0)  BY <1>1 DEF TypesRight
<1> QED  BY <1>1, <1>2, <1>3, <1>4 DEF TypesRight, Loop

(* Before the array of the types is read, nothing is allocated. *)
LEMMA NotAllocated ==
    ASSUME TypesRight, pc \notin Loop \cup {"rvas"} PROVE ~allocated
    BY DEF TypesRight

(* The list stays right from step to step. *)
LEMMA TypesStep ==
    ASSUME TypeOK, StringRight, StringWhole, TypesRight, [Next]_vars
    PROVE  TypesRight'
<1>1. CASE FollowPointer \/ ProcessXState
  <2>1. /\ pc \notin Loop \cup {"done", "rvas"} /\ pc' \notin Loop \cup {"done", "rvas"}
        /\ UNCHANGED <<crash, thrownVars>>
    BY <1>1, EarlySteps DEF Early, Pointers, XStatePcs, Loop
  <2> QED  BY <2>1, NotAllocated, ContinueEarly DEF thrownVars
<1>2. CASE Refuse
  <2>1. /\ pc = "exception" /\ pc' = "done"
        /\ UNCHANGED <<alive, crash, record, type, listed, allocated>>
    BY <1>2 DEF Refuse, Return, Others, FollowedVars
  <2>2. ~Decodable
    <3>1. thrown.parameters \in Nat  BY CrashFacts DEF TypeOK
    <3>2. ~(thrown.parameters < 3 /\ thrown.parameters >= 3)  BY <3>1
    <3>3. \/ ~IsThrow \/ thrown.parameters < 3 \/ ~thrown.magic \/ ~thrown.throwInfo
      BY <1>2 DEF Refuse
    <3> QED  BY <3>2, <3>3 DEF Decodable
  <2> QED  BY <2>1, <2>2, NotAllocated, ReturnEarly DEF Loop, Due
<1>3. CASE Decode \/ ReadObject \/ ReadWhat \/ ShowWhat
  <2>1. /\ pc \in {"exception", "object", "string", "what"}
        /\ pc' \in {"object", "string", "what", "throwInfo"}
        /\ UNCHANGED <<crash, type, listed, result, allocated>>
    BY <1>3 DEF Decode, ReadObject, ReadWhat, ShowWhat, Others, thrownVars, StartString, ReadString,
         ChunkUnreadable, LastChunk, FullChunk, BufferFull, Chunk, StringOver
  <2> QED  BY <2>1, NotAllocated, ContinueEarly DEF Loop
<1>4. CASE ObjectUnreadable
  <2>1. /\ pc = "object" /\ pc' = "done" /\ ~Due
        /\ UNCHANGED <<alive, crash, record, type, listed, allocated>>
    BY <1>4 DEF ObjectUnreadable, Return, Others, FollowedVars, Due
  <2> QED  BY <2>1, NotAllocated, ReturnEarly DEF Loop
<1>5. CASE WhatUnreadable
  <2>1. /\ pc = "what" /\ pc' = "done" /\ string.result # 0
        /\ UNCHANGED <<alive, crash, record, type, listed, allocated>>
    BY <1>5 DEF WhatUnreadable, Return, Others, FollowedVars
  <2>2. ~Due
    <3> SUFFICES ASSUME Due PROVE FALSE  OBVIOUS
    <3>1. string.result = 2  BY <2>1 DEF StringRight, TypeOK, StringType
    <3>2. text = crash.text /\ text # NoText  BY <2>1 DEF StringRight, Due
    <3>3. text.at >= text.mapped  BY <3>1 DEF StringRight, Due
    <3>4. text.at < text.mapped  BY <3>2 DEF Due, WhatReadable
    <3>5. text \in Texts  BY <3>2 DEF TypeOK, StringType
    <3>6. text.at \in Nat /\ text.mapped \in Nat  BY <3>5, TextAssumption
    <3> QED  BY <3>3, <3>4, <3>6
  <2> QED  BY <2>1, <2>2, NotAllocated, ReturnEarly DEF Loop
<1>6. CASE ReadThrowInfo
  <2>1. /\ pc = "throwInfo" /\ UNCHANGED <<alive, crash, record, type, listed, allocated>>
    BY <1>6 DEF ReadThrowInfo, Others, FollowedVars
  <2>2. CASE pc' = "done"
    <3>1. ~Due  BY <1>6, <2>2 DEF ReadThrowInfo, Due
    <3> QED  BY <2>1, <2>2, <3>1, NotAllocated, ReturnEarly DEF Loop
  <2>3. CASE pc' = "array" /\ result' = result
    BY <2>1, <2>3, NotAllocated, ContinueEarly DEF Loop
  <2> QED  BY <1>6, <2>2, <2>3 DEF ReadThrowInfo, Return
<1>7. CASE Allocate
  <2>1. /\ pc = "array" /\ UNCHANGED <<alive, crash, record, type, listed>>
    BY <1>7 DEF Allocate, Others, FollowedVars
  <2>2. CASE pc' = "done"
    <3>1. (Due => result' = 7) /\ allocated' = allocated
      BY <1>7, <2>2 DEF Allocate, Return, Due
    <3> QED  BY <2>1, <2>2, <3>1, NotAllocated, ReturnEarly DEF Loop
  <2>3. CASE pc' = "rvas" /\ result' = result /\ thrown.count >= 0
    BY <2>1, <2>3, ContinueEarly DEF Loop
  <2> QED  BY <1>7, <2>2, <2>3 DEF Allocate, Return
<1>8. CASE ReadRvas
  <2>1. /\ pc = "rvas" /\ UNCHANGED <<alive, crash, record, type, listed, name>> /\ thrown' = thrown
    BY <1>8 DEF ReadRvas, Others, FollowedVars, thrown
  <2>2. CASE ~alive /\ GiveBack /\ Return(8)
    BY <2>1, <2>2, ReturnEarly DEF Loop, GiveBack, Return, Due
  <2>3. CASE alive /\ pc' = "types" /\ UNCHANGED <<allocated, result>>
    <3>1. type = 1 /\ listed = <<>> /\ thrown.count >= 0 /\ result = 0 /\ ListOrdered
      BY <2>1 DEF TypesRight, Loop
    <3>2. ListOrdered'  BY <2>1, <3>1 DEF ListOrdered
    <3>3. ListedTypes' = {}  BY <2>1, <3>1 DEF ListedTypes
    <3>4. {k \in 1 .. (type - 1) : thrown.types[k]} = {}  BY <3>1
    <3>5. type >= 1 /\ type <= thrown.count + 1  BY <3>1, CrashFacts DEF TypeOK
    <3>6. TypesListed'  BY <2>3 DEF TypesListed
    <3> QED  BY <2>1, <2>3, <3>1, <3>2, <3>3, <3>4, <3>5, <3>6 DEF TypesRight, Loop
  <2> QED  BY <1>8, <2>2, <2>3 DEF ReadRvas
<1>9. CASE SkipType
  <2>1. /\ pc = "types" /\ pc' = "types" /\ type <= thrown.count /\ ~TypeReadable /\ type' = type + 1
        /\ UNCHANGED <<alive, crash, listed, allocated, result>> /\ thrown' = thrown
    BY <1>9 DEF SkipType, NextType, Others, TypeVars, thrown
  <2>2. type \in Nat /\ thrown.count \in Int  BY CrashFacts DEF TypeOK
  <2>3. /\ ListOrdered /\ thrown.count >= 0 /\ result = 0
        /\ alive => ListedTypes = {k \in 1 .. (type - 1) : thrown.types[k]}
    BY <2>1 DEF TypesRight, Loop
  <2>4. ListOrdered'
    <3>1. \A k \in DOMAIN listed : listed[k].type \in 1 .. thrown.count /\ listed[k].type < type
      BY <2>3 DEF ListOrdered
    <3>2. \A k \in DOMAIN listed : listed[k].type < type + 1  BY <3>1, <2>2
    <3> QED  BY <2>1, <2>3, <3>2 DEF ListOrdered
  <2>5. ASSUME alive PROVE ListedTypes' = {k \in 1 .. (type' - 1) : thrown.types[k]}
    <3>1. ~thrown.types[type]  BY <2>1, <2>5 DEF TypeReadable
    <3>2. type' - 1 = type /\ 1 .. type = (1 .. (type - 1)) \cup {k \in {type} : k >= 1}
      BY <2>1, <2>2
    <3>3. ListedTypes' = ListedTypes  BY <2>1 DEF ListedTypes
    <3> QED  BY <2>3, <2>5, <3>1, <3>2, <3>3
  <2>7. type >= 1  BY <2>1 DEF TypesRight, Loop
  <2>6. type' >= 1 /\ type' <= thrown.count + 1  BY <2>1, <2>2, <2>7
  <2> QED
    BY <2>1, <2>3, <2>4, <2>5, <2>6 DEF TypesRight, Loop, TypesListed
<1>10. CASE ReadType
  <2>1. /\ pc = "types" /\ pc' = "name" /\ type <= thrown.count /\ TypeReadable /\ name' = 0
        /\ UNCHANGED <<alive, crash, type, listed, allocated, result>> /\ thrown' = thrown
    BY <1>10 DEF ReadType, Others, TypeVars, thrown
  <2>2. type \in Nat /\ thrown.count \in Int  BY CrashFacts DEF TypeOK
  <2>3. /\ ListOrdered /\ thrown.count >= 0 /\ result = 0
        /\ type <= thrown.count + 1 /\ thrown.types[type]
        /\ alive => ListedTypes = {k \in 1 .. (type - 1) : thrown.types[k]}
    BY <2>1 DEF TypesRight, Loop, TypeReadable
  <2>4. ListOrdered' /\ ListedTypes' = ListedTypes
    BY <2>1, <2>3 DEF ListOrdered, ListedTypes
  <2>5. type >= 1  BY <2>1 DEF TypesRight, Loop
  <2>6. type \in 1 .. thrown.count  BY <2>1, <2>2, <2>5
  <2> QED  BY <2>1, <2>3, <2>4, <2>6 DEF TypesRight, Loop, TypesListed
<1>11. CASE ShowType  BY <1>11, ShowTypeStep
<1>12. CASE TypesOver
  <2>1. /\ pc = "types" /\ pc' = "done" /\ type > thrown.count /\ ~allocated' /\ result' = 0
        /\ UNCHANGED <<alive, crash, type, listed>> /\ thrown' = thrown
    BY <1>12 DEF TypesOver, GiveBack, Return, Others, thrown
  <2>2. type \in Nat /\ thrown.count \in Int  BY CrashFacts DEF TypeOK
  <2>3. /\ ListOrdered /\ type <= thrown.count + 1
        /\ alive => ListedTypes = {k \in 1 .. (type - 1) : thrown.types[k]}
    BY <2>1 DEF TypesRight, Loop
  <2>4. type - 1 = thrown.count  BY <2>1, <2>2, <2>3
  <2>5. ListOrdered' /\ ListedTypes' = ListedTypes
    BY <2>1, <2>3 DEF ListOrdered, ListedTypes
  <2>6. TypesListed'  BY <2>1, <2>3, <2>4, <2>5 DEF TypesListed, ListOrdered
  <2> QED  BY <2>1, <2>5, <2>6 DEF TypesRight, Loop
<1>13. CASE ClientEnds
  <2>1. UNCHANGED <<crash, pc, thrownVars, record>> /\ ~alive' /\ pc # "done" /\ thrown' = thrown
    BY <1>13 DEF ClientEnds, Kill, FollowedVars, thrown
  <2>2. ListOrdered' <=> ListOrdered  BY <2>1 DEF ListOrdered, thrownVars
  <2> QED  BY <2>1, <2>2 DEF TypesRight, thrownVars, TypesListed
<1>14. CASE UNCHANGED vars
  <2>1. UNCHANGED <<alive, crash, pc, thrownVars, record>> /\ thrown' = thrown
    BY <1>14 DEF vars, thrown
  <2>2. (ListOrdered' <=> ListOrdered) /\ ListedTypes' = ListedTypes
    BY <2>1 DEF ListOrdered, ListedTypes, thrownVars
  <2>3. TypesListed' <=> TypesListed
    BY <2>1, <2>2 DEF TypesListed, thrownVars, Decodable, IsThrow, HasTypes, WhatReadable
  <2> QED  BY <2>1, <2>2, <2>3 DEF TypesRight, thrownVars
<1> QED
  BY <1>1, <1>2, <1>3, <1>4, <1>5, <1>6, <1>7, <1>8, <1>9, <1>10, <1>11, <1>12, <1>13, <1>14
  DEF Next, Report, ProcessThrow

(***************************************************************************)
(* The inductive invariant and the theorems.                               *)
(***************************************************************************)
IInv ==
    /\ TypeOK
    /\ StringRight /\ StringWhole
    /\ XStateRight /\ RegistersAreSaved
    /\ TypesRight

(* Init => IInv *)
LEMMA IInvInit == Init => IInv
<1> SUFFICES ASSUME Init PROVE IInv  OBVIOUS
<1>1. TypeOK  BY TypeInit
<1>2. pc = "pointer" /\ string.result = -1 /\ offset = 0 /\ listed = <<>> /\ type = 1
      /\ result = 0 /\ ~allocated
  BY DEF Init, NoString
<1>3. StringRight  BY <1>2 DEF StringRight
<1>4. StringWhole  BY <1>2, PageAssumption DEF StringWhole, maxLen
<1>5. XStateRight  BY <1>2 DEF XStateRight
<1>6. RegistersAreSaved  BY DEF Init, RegistersAreSaved
<1>7. TypesRight  BY <1>2 DEF TypesRight, ListOrdered, TypesListed, Loop
<1> QED  BY <1>1, <1>3, <1>4, <1>5, <1>6, <1>7 DEF IInv

(* IInv /\ [Next]_vars => IInv' *)
LEMMA IInvStep == ASSUME IInv, [Next]_vars PROVE IInv'
    BY TypeStep, StringStep, RegistersStep, TypesStep DEF IInv

(* IInv holds in every reachable state. *)
LEMMA Invariance == Spec => []IInv
<1>1. Init => IInv  BY IInvInit
<1>2. IInv /\ [Next]_vars => IInv'  BY IInvStep
<1> QED  BY <1>1, <1>2, PTL DEF Spec

(* StringWhole: the string is read whole, wherever its pages end. *)
THEOREM StringIsWhole == Spec => []StringWhole
<1>1. IInv => StringWhole  BY DEF IInv
<1> QED  BY <1>1, Invariance, PTL

(* RegistersAreSaved: each feature is read where the processor put it. *)
THEOREM RegistersAreRight == Spec => []RegistersAreSaved
<1>1. IInv => RegistersAreSaved  BY DEF IInv
<1> QED  BY <1>1, Invariance, PTL

(* TypesListed: of any exception the types are shown in order, and nothing leaks; of a
   std::exception whose what() can be read they are all shown that can be read. *)
THEOREM TypesAreListed == Spec => []TypesListed
<1>1. IInv => TypesListed  BY DEF IInv, TypesRight
<1> QED  BY <1>1, Invariance, PTL
===============================================================================
