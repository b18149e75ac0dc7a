------------------------------ MODULE CrashReport ------------------------------
(***************************************************************************)
(* The watchdog's report (EH4_ProcessException): it follows the published  *)
(* pointers to the exception record and the context, reads the extended    *)
(* registers (ExtendedState), and decodes a C++ exception, with the string *)
(* of its what() (RemoteString) and the types that could catch it.  Every  *)
(* read may be the first one that fails.                                   *)
(***************************************************************************)
EXTENDS RemoteString, ExtendedState

CONSTANTS
    Throws,       \* exceptions: [code |-> "msc" or "other", parameters,
                  \* magic |-> MagicNumber is known, throwInfo, base, array |-> not NULL,
                  \* object |-> "exception" (a std::exception), "other" or "none",
                  \* count |-> nCatchableTypes, types |-> which of them can be read]
    JunkTexts     \* what may be taken for a pointer to the text

ASSUME CrashAssumption ==
    /\ \A c \in Crashes :
          c.text \in {NoText} \cup Texts /\ c.thrown \in Throws /\ c.areas \in Areas
    /\ JunkTexts \subseteq {NoText} \cup Texts
    /\ \A t \in Throws :
          /\ t.parameters \in Nat /\ t.object \in {"exception", "other", "none"}
          /\ t.count \in Int /\ t.types \in [1 .. t.count -> BOOLEAN]

VARIABLES
    chain,       \* every pointer so far was read
    record,      \* ExceptionRecord was read (it is zero otherwise),
    context,     \* so was ContextRecord
    what,        \* what() as shown: "none", "exception" or "junk"
    allocated,   \* TypeRVAs
    type, name,  \* the loop over the types, and TypeName: the type it is of, or 0
    listed,      \* the types shown, with their names
    result       \* of EH4_ProcessMSCCXXException

thrownVars == <<what, allocated, type, name, listed, result>>
vars == <<alive, crash, pc, stringVars, xstateVars, chain, record, context, thrownVars>>

thrown == crash.thrown

Init ==
    /\ alive = TRUE /\ crash \in Crashes /\ pc = "pointer"
    /\ text = NoText /\ offset = 0 /\ string = NoString
    /\ routine = "fp" /\ contextEx = FALSE /\ header = NoHeader /\ todo = {}
    /\ i = 0 /\ Offset = 0 /\ offsets = [f \in Features |-> 0]
    /\ registers = [f \in Shown |-> "none"] /\ ssp = "none"
    /\ chain = TRUE /\ record = FALSE /\ context = FALSE
    /\ what = "none" /\ allocated = FALSE /\ type = 1 /\ name = 0 /\ listed = <<>>
    /\ result = 0

(***************************************************************************)
(* EH4_ProcessException                                                    *)
(***************************************************************************)
NextRead == [pointer |-> "info", info |-> "pointers", pointers |-> "record",
             record |-> "context"]

FollowPointer ==
    /\ pc \in DOMAIN NextRead \cup {"context"}
    /\ chain' = (chain /\ alive)
    /\ record' = (IF pc = "record" THEN chain' ELSE record)
    /\ context' = (IF pc = "context" THEN chain' ELSE context)
    /\ \/ pc = "context" /\ StartRoutine("fp")
       \/ pc # "context" /\ pc' = NextRead[pc] /\ UNCHANGED xstateVars
    /\ UNCHANGED <<alive, crash, stringVars, thrownVars>>

FollowedVars == <<chain, record, context>>

ProcessXState ==
    /\ XStateStep(context) \/ (pc = "cet" /\ StartRoutine("cet"))
    /\ UNCHANGED <<alive, crash, stringVars, FollowedVars, thrownVars>>

(***************************************************************************)
(* EH4_ProcessMSCCXXException; the one for GNU does nothing.               *)
(***************************************************************************)
Others == UNCHANGED <<alive, crash, xstateVars, FollowedVars>>
Return(r) == result' = r /\ pc' = "done"

IsThrow == record /\ thrown.code = "msc"
Decodable == IsThrow /\ thrown.parameters >= 3 /\ thrown.magic /\ thrown.throwInfo

Refuse ==
    /\ pc = "exception"
    /\ \/ ~IsThrow /\ Return(0)
       \/ IsThrow /\ thrown.parameters < 3 /\ Return(1)
       \/ IsThrow /\ thrown.parameters >= 3 /\ ~thrown.magic /\ Return(2)
       \/ IsThrow /\ thrown.parameters >= 3 /\ thrown.magic /\ ~thrown.throwInfo /\ Return(0)
    /\ Others /\ UNCHANGED <<stringVars, what, allocated, type, name, listed>>

Decode ==
    /\ pc = "exception" /\ Decodable
    /\ pc' = "object"
    /\ Others /\ UNCHANGED <<stringVars, thrownVars>>

(* With no object its copy is not initialised; that of another type has anything
   where a std::exception has its what. *)
ReadObject ==
    /\ pc = "object" /\ (thrown.object = "none" \/ alive)
    /\ \E t \in IF thrown.object = "exception" THEN {crash.text} ELSE JunkTexts :
          IF t = NoText THEN pc' = "throwInfo" /\ UNCHANGED stringVars ELSE StartString(t)
    /\ Others /\ UNCHANGED thrownVars

(* It may be smaller, too, and end where memory ends. *)
ObjectUnreadable ==
    /\ pc = "object"
    /\ thrown.object # "none" /\ (alive => thrown.object = "other")
    /\ Return(3)
    /\ Others /\ UNCHANGED <<stringVars, what, allocated, type, name, listed>>

ReadWhat == ReadString /\ Others /\ UNCHANGED thrownVars

WhatUnreadable ==
    /\ pc = "what" /\ string.result # 0 /\ Return(4)
    /\ Others /\ UNCHANGED <<stringVars, what, allocated, type, name, listed>>

ShowWhat ==
    /\ pc = "what" /\ string.result = 0
    /\ what' = (IF thrown.object = "exception" THEN "exception" ELSE "junk")
    /\ pc' = "throwInfo"
    /\ Others /\ UNCHANGED <<stringVars, allocated, type, name, listed, result>>

HasTypes == thrown.array /\ thrown.base /\ thrown.parameters >= 4

ReadThrowInfo ==
    /\ pc = "throwInfo"
    /\ \/ ~alive /\ Return(5)
       \/ alive /\ ~HasTypes /\ Return(0)
       \/ alive /\ HasTypes /\ pc' = "array" /\ UNCHANGED result
    /\ Others /\ UNCHANGED <<stringVars, what, allocated, type, name, listed>>

(* malloc may fail, and does for a negative number, whose size is huge. *)
Allocate ==
    /\ pc = "array"
    /\ \/ ~alive /\ Return(6) /\ UNCHANGED allocated
       \/ alive /\ Return(7) /\ UNCHANGED allocated
       \/ alive /\ thrown.count >= 0 /\ allocated' = TRUE /\ pc' = "rvas" /\ UNCHANGED result
    /\ Others /\ UNCHANGED <<stringVars, what, type, name, listed>>

WrongGiveBack == UNCHANGED allocated

GiveBack == allocated' = FALSE

ReadRvas ==
    /\ pc = "rvas"
    /\ \/ ~alive /\ GiveBack /\ Return(8)
       \/ alive /\ pc' = "types" /\ UNCHANGED <<allocated, result>>
    /\ Others /\ UNCHANGED <<stringVars, what, type, name, listed>>

TypeReadable == alive /\ thrown.types[type]
TypeVars == <<stringVars, what, allocated, result>>

StuckNextType == UNCHANGED type                  \* continue without ++i

NextType == type' = type + 1

SkipType ==
    /\ pc = "types" /\ type <= thrown.count /\ ~TypeReadable
    /\ NextType
    /\ Others /\ UNCHANGED <<TypeVars, pc, name, listed>>

ReadType ==
    /\ pc = "types" /\ type <= thrown.count /\ TypeReadable
    /\ name' = 0 /\ pc' = "name"
    /\ Others /\ UNCHANGED <<TypeVars, type, listed>>

(* TypeName is read in one piece, which may be longer than what is mapped. *)
ShowType ==
    /\ pc = "name"
    /\ \E read \in Luck :
          /\ name' = IF read THEN type ELSE name
          /\ listed' = Append(listed, [type |-> type, name |-> name'])
    /\ type' = type + 1 /\ pc' = "types"
    /\ Others /\ UNCHANGED TypeVars

TypesOver ==
    /\ pc = "types" /\ type > thrown.count
    /\ GiveBack /\ Return(0)
    /\ Others /\ UNCHANGED <<stringVars, what, type, name, listed>>

ProcessThrow ==
    \/ Refuse \/ Decode \/ ReadObject \/ ObjectUnreadable \/ ReadWhat \/ WhatUnreadable
    \/ ShowWhat \/ ReadThrowInfo \/ Allocate \/ ReadRvas
    \/ SkipType \/ ReadType \/ ShowType \/ TypesOver

Report == FollowPointer \/ ProcessXState \/ ProcessThrow

ClientEnds == Kill /\ UNCHANGED <<stringVars, xstateVars, FollowedVars, thrownVars>>

Next == Report \/ ClientEnds

Spec == Init /\ [][Next]_vars /\ WF_vars(Report)

-----------------------------------------------------------------------------
TypeOK ==
    /\ alive \in BOOLEAN /\ crash \in Crashes
    /\ StringType /\ XStateType
    /\ {chain, record, context, allocated} \subseteq BOOLEAN
    /\ what \in {"none", "exception", "junk"}
    /\ type \in Nat /\ name \in Nat /\ result \in 0 .. 8
    /\ listed \in Seq([type : Nat, name : Nat])

(* The types are shown in order, no name is taken for that of another type, and the
   memory for the list is given back on every way out.  Of a std::exception whose what()
   can be read, if the client lives and there is memory, the whole list is shown: a type
   that cannot be read hides no other. *)
ListedTypes == {listed[k].type : k \in DOMAIN listed}
WhatReadable == crash.text # NoText => crash.text.at < crash.text.mapped
TypesListed ==
    pc = "done" =>
        /\ ~allocated
        /\ \A k \in DOMAIN listed :
              /\ thrown.types[listed[k].type]
              /\ listed[k].name \in {0, listed[k].type}
              /\ \A j \in 1 .. (k - 1) : listed[j].type < listed[k].type
        /\ alive /\ Decodable /\ HasTypes /\ thrown.object = "exception" /\ WhatReadable =>
              \/ result = 7
              \/ result = 0 /\ ListedTypes = {k \in 1 .. thrown.count : thrown.types[k]}

(* Every report ends, whatever is read and wherever the client ends. *)
ReportEnds == <>(pc = "done")
================================================================================
