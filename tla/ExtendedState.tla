----------------------------- MODULE ExtendedState -----------------------------
(***************************************************************************)
(* EH4_ProcessXStateFP and EH4_ProcessXStateCET: the registers that        *)
(* Windows saves behind the CONTEXT of a crash.  The areas of the features *)
(* are found with the machine's XSTATE_CONFIGURATION; in the compacted     *)
(* format their offsets are added up (EH4_CalculateXStateOffsetCompacted). *)
(***************************************************************************)
EXTENDS ClientMemory

CONSTANTS
    Header,           \* sizeof(XSAVE_AREA_HEADER)
    Alignment,        \* 64
    Legacy,           \* sizeof(XSAVE_FORMAT), in front of the header
    XSTATE_AVX, XSTATE_AVX512_KMASK, XSTATE_AVX512_ZMM_H, XSTATE_AVX512_ZMM,
    XSTATE_CET_U, XSTATE_AMX_TILE_DATA,
    Features,         \* indices of the features
    Areas,            \* [enabled, aligned, size, standard |-> the machine's configuration,
                      \*  extended |-> there is a CONTEXT_EX behind the CONTEXT,
                      \*  compacted, saved, layout |-> the XSAVE header,
                      \*  place |-> where each area of the layout is, from the header on,
                      \*  shadow |-> SH_STK_EN]
    JunkHeaders       \* what may be taken for a header: [compacted, saved, layout]

Shown == {XSTATE_AVX, XSTATE_AVX512_ZMM_H, XSTATE_AVX512_ZMM, XSTATE_AMX_TILE_DATA}

(* How the processor compacts: in order, where the areas before leave room, at a
   multiple of Alignment if the feature asks for it, and as low as that allows. *)
FreeFor(a, f, n) ==
    /\ n >= Header
    /\ \A g \in a.layout : g < f => a.place[g] + a.size[g] <= n
    /\ f \in a.aligned => n % Alignment = 0
Compacted(a) ==
    \A f \in a.layout :
        /\ FreeFor(a, f, a.place[f])
        /\ \A n \in 0 .. (a.place[f] - 1) : ~FreeFor(a, f, n)

ASSUME FeatureAssumption ==
    /\ Header \in Nat /\ Alignment \in Nat \ {0} /\ Legacy \in Nat \ {0}
    /\ Features \subseteq Nat /\ Shown \cup {XSTATE_CET_U} \subseteq {f \in Features : f >= 2}
    /\ XSTATE_CET_U \notin Shown
ASSUME AreaAssumption ==
    /\ \A a \in Areas :
          /\ a.enabled \subseteq Features /\ a.aligned \subseteq Features
          /\ a.layout \subseteq {f \in Features : f >= 2} /\ a.saved \subseteq Features
          /\ a.size \in [Features -> Nat] /\ a.standard \in [Features -> Nat]
          /\ a.place \in [a.layout -> Nat]
          /\ {a.extended, a.compacted, a.shadow} \subseteq BOOLEAN
          /\ a.compacted => a.saved \cap {f \in Features : f >= 2} \subseteq a.layout /\ Compacted(a)
    /\ \A h \in JunkHeaders :
          h.compacted \in BOOLEAN /\ h.saved \subseteq Features /\ h.layout \subseteq Features

VARIABLES
    routine,     \* "fp" or "cet"
    contextEx,   \* RemoteContextEx is what was saved, not anything else
    header,      \* XSaveHeader
    todo,        \* features the routine has still to find
    i, Offset,   \* of EH4_CalculateXStateOffsetCompacted
    offsets,     \* OffsetAVX_YMM0HI_YMM15HI, ..., OffsetCET
    registers,   \* what is shown of each feature: "none", "saved" or "junk"
    ssp          \* the same of the shadow stack pointer

xstateVars == <<routine, contextEx, header, todo, i, Offset, offsets, registers, ssp>>

NoHeader == [compacted |-> FALSE, saved |-> {}, layout |-> {}]

StartRoutine(r) ==
    /\ routine' = r /\ pc' = "contextEx"
    /\ UNCHANGED <<contextEx, header, todo, i, Offset, offsets, registers, ssp>>

ReadContextEx ==
    /\ pc = "contextEx"
    /\ contextEx' = (alive /\ crash.areas.extended)
    /\ pc' = "header"
    /\ UNCHANGED <<routine, header, todo, i, Offset, offsets, registers, ssp>>

(* FP looks for what the machine has, whatever the header says. *)
Wanted(enabled) ==
    {f \in Shown : IF f \in {XSTATE_AVX512_ZMM_H, XSTATE_AVX512_ZMM}
                   THEN {XSTATE_AVX512_KMASK, XSTATE_AVX512_ZMM_H, XSTATE_AVX512_ZMM}
                        \cap enabled # {}
                   ELSE f \in enabled}

TrueHeader ==
    [compacted |-> crash.areas.compacted, saved |-> crash.areas.saved,
     layout |-> crash.areas.layout]

ReadHeader ==
    /\ pc = "header"
    /\ IF alive /\ contextEx THEN header' = TrueHeader ELSE header' \in JunkHeaders
    /\ IF routine = "fp"
       THEN /\ todo' = Wanted(crash.areas.enabled)
            /\ offsets' = [f \in Features |-> 0]
            /\ pc' = "find"
       ELSE todo' = {XSTATE_CET_U} /\ pc' = "checks" /\ UNCHANGED offsets
    /\ UNCHANGED <<routine, contextEx, i, Offset, registers, ssp>>

(* CONTEXT_XSTATE shares a bit with every CONTEXT, so that the check of ContextFlags
   only stops a CONTEXT that was not read; a genuine CONTEXT_EX has a length. *)
CetAbsent(contextRead) ==
    /\ pc = "checks"
    /\ ~contextRead \/ ~contextEx \/ XSTATE_CET_U \notin header.saved
    /\ pc' = "exception"
    /\ UNCHANGED xstateVars

(* OffsetCET is not initialised: two values stand for any. *)
CetPresent(contextRead) ==
    /\ pc = "checks" /\ contextRead /\ XSTATE_CET_U \in header.saved
    /\ pc' = "find"
    /\ \E n \in {0, Header} : offsets' = [offsets EXCEPT ![XSTATE_CET_U] = n]
    /\ UNCHANGED <<routine, contextEx, header, todo, i, Offset, registers, ssp>>

FindStandard ==
    /\ pc = "find" /\ todo # {} /\ ~header.compacted
    /\ offsets' = [f \in Features |-> IF f \in todo THEN crash.areas.standard[f] ELSE offsets[f]]
    /\ todo' = {} /\ UNCHANGED <<pc, routine, contextEx, header, i, Offset, registers, ssp>>

(***************************************************************************)
(* EH4_CalculateXStateOffsetCompacted of the first feature in todo.        *)
(***************************************************************************)
FeatureIndex == CHOOSE f \in todo : \A g \in todo : f <= g

NotInLayout ==
    /\ pc = "find" /\ todo # {} /\ header.compacted /\ FeatureIndex \notin header.layout
    /\ todo' = todo \ {FeatureIndex}
    /\ UNCHANGED <<pc, routine, contextEx, header, i, Offset, offsets, registers, ssp>>

BeginOffset ==
    /\ pc = "find" /\ todo # {} /\ header.compacted /\ FeatureIndex \in header.layout
    /\ i' = 2 /\ Offset' = Header /\ pc' = "offset"
    /\ UNCHANGED <<routine, contextEx, header, todo, offsets, registers, ssp>>

Aligned(f, n) ==
    IF f \in crash.areas.aligned THEN (n + Alignment - 1) - ((n + Alignment - 1) % Alignment) ELSE n

WrongBehind(f, n) == n + crash.areas.size[f]           \* forgets to align

Behind(f, n) == Aligned(f, n) + crash.areas.size[f]

PassFeature ==
    /\ pc = "offset" /\ i < FeatureIndex
    /\ Offset' = IF i \in header.layout THEN Behind(i, Offset) ELSE Offset
    /\ i' = i + 1
    /\ UNCHANGED <<pc, routine, contextEx, header, todo, offsets, registers, ssp>>

EndOffset ==
    /\ pc = "offset" /\ i = FeatureIndex
    /\ offsets' = [offsets EXCEPT ![i] = Aligned(i, Offset)]
    /\ todo' = todo \ {i} /\ pc' = "find"
    /\ UNCHANGED <<routine, contextEx, header, i, Offset, registers, ssp>>

(***************************************************************************)
(* What is at an offset from the header: the saved registers of a feature, *)
(* or anything else.  What could not be read counts as that, too: YMM is   *)
(* not initialised, and the others keep what the tables hold.              *)
(***************************************************************************)
PlaceOf(f) ==
    IF crash.areas.compacted THEN crash.areas.place[f] ELSE crash.areas.standard[f] - Legacy

IsAt(f, n) == alive /\ contextEx /\ f \in crash.areas.saved /\ n = PlaceOf(f)

ReadRegisters ==
    /\ pc = "find" /\ todo = {} /\ routine = "fp"
    /\ registers' = [f \in Shown |->
                        IF f \notin Wanted(crash.areas.enabled) THEN "none"
                        ELSE IF IsAt(f, offsets[f]) THEN "saved" ELSE "junk"]
    /\ pc' = "cet"
    /\ UNCHANGED <<routine, contextEx, header, todo, i, Offset, offsets, ssp>>

(* CETData is shown if it could be read and has SH_STK_EN set. *)
ReadCet ==
    /\ pc = "find" /\ todo = {} /\ routine = "cet"
    /\ IF IsAt(XSTATE_CET_U, offsets[XSTATE_CET_U])
       THEN ssp' = IF crash.areas.shadow THEN "saved" ELSE "none"
       ELSE \E read \in Luck, enabled \in BOOLEAN :
               ssp' = IF read /\ enabled THEN "junk" ELSE "none"
    /\ pc' = "exception"
    /\ UNCHANGED <<routine, contextEx, header, todo, i, Offset, offsets, registers>>

XStateStep(contextRead) ==
    \/ ReadContextEx \/ ReadHeader \/ CetAbsent(contextRead) \/ CetPresent(contextRead)
    \/ FindStandard \/ NotInLayout \/ BeginOffset \/ PassFeature \/ EndOffset
    \/ ReadRegisters \/ ReadCet

-----------------------------------------------------------------------------
XStateType ==
    /\ routine \in {"fp", "cet"} /\ contextEx \in BOOLEAN
    /\ header.compacted \in BOOLEAN
    /\ header.saved \subseteq Features /\ header.layout \subseteq Features
    /\ todo \subseteq Features /\ i \in Nat /\ Offset \in Nat
    /\ offsets \in [Features -> Nat]
    /\ registers \in [Shown -> {"none", "saved", "junk"}] /\ ssp \in {"none", "saved", "junk"}

(* In the compacted format each feature is read where the processor put it, with
   whichever others before it, aligned or not; the shadow stack pointer that is shown
   is then the client's, even if the client ends half way and the header was never
   read; and so are the registers, if they were in use and the client lived. *)
RegistersAreSaved ==
    crash.areas.extended /\ crash.areas.compacted =>
        /\ ssp # "junk"
        /\ alive => \A f \in Shown \cap crash.areas.saved : registers[f] # "junk"
===============================================================================
