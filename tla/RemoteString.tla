----------------------------- MODULE RemoteString -----------------------------
(***************************************************************************)
(* EH4_ReadRemoteStringA: a string of the client is read in chunks that do *)
(* not cross a page, since ReadProcessMemory reads all of a range or       *)
(* nothing.                                                                *)
(***************************************************************************)
EXTENDS ClientMemory

CONSTANTS
    PAGE_CHUNK,
    cchBuffer,     \* size of the caller's buffer
    Texts,         \* strings: [at |-> address, length |-> bytes before the NUL,
                   \*           mapped |-> the first address behind them that is not mapped]
    NoText         \* NULL

ASSUME PageAssumption == PAGE_CHUNK \in Nat \ {0} /\ cchBuffer \in Nat \ {0}
ASSUME TextAssumption ==
    /\ Texts \subseteq [at : Nat, length : Nat, mapped : Nat]
    /\ \A t \in Texts : t.mapped % PAGE_CHUNK = 0
    /\ NoText \notin Texts

VARIABLES
    text,      \* what pRemoteString points to
    offset,    \* of the next chunk
    string     \* the outcome: what is returned, and the length of what is in pBuffer

stringVars == <<text, offset, string>>

NoString == [result |-> -1, length |-> 0]
maxLen == cchBuffer - 1
Smaller(a, b) == IF a < b THEN a ELSE b

StartString(t) ==
    text' = t /\ offset' = 0 /\ pc' = "string" /\ UNCHANGED string

StringOver(n, r) ==
    string' = [result |-> r, length |-> n] /\ pc' = "what" /\ UNCHANGED <<text, offset>>

addr == text.at + offset
WrongToPageEnd == PAGE_CHUNK                            \* as if it started a page

toPageEnd == ((addr + PAGE_CHUNK) - ((addr + PAGE_CHUNK) % PAGE_CHUNK)) - addr
toRead == Smaller(toPageEnd, maxLen - offset)

Readable == alive /\ addr + toRead <= text.mapped
EndInChunk == text.length < offset + toRead
Chunk == pc = "string" /\ offset < maxLen

ChunkUnreadable ==
    Chunk /\ ~Readable /\ StringOver(offset, IF offset > 0 THEN 0 ELSE 2)

LastChunk == Chunk /\ Readable /\ EndInChunk /\ StringOver(text.length, 0)

FullChunk ==
    /\ Chunk /\ Readable /\ ~EndInChunk
    /\ offset' = offset + toRead
    /\ UNCHANGED <<pc, text, string>>

BufferFull == pc = "string" /\ offset >= maxLen /\ StringOver(maxLen, 0)

ReadString == ChunkUnreadable \/ LastChunk \/ FullChunk \/ BufferFull

-----------------------------------------------------------------------------
StringType ==
    /\ text \in Texts \cup {NoText} /\ (pc = "string" => text # NoText)
    /\ offset \in 0 .. maxLen
    /\ string \in [result : {-1, 0, 2}, length : 0 .. maxLen]

(* Nothing is written behind the buffer, which holds a beginning of the remote string,
   whenever the client may have gone.  It is cut short only where the buffer is full or the memory is not mapped,
   however the string lies to the pages; a failure is reported only for nothing. *)
StringWhole ==
    /\ offset <= maxLen
    /\ string.result # -1 =>
        /\ string.length <= text.length
        /\ string.length > 0 => text.at + string.length <= text.mapped
        /\ alive => \/ string.length \in {text.length, maxLen}
                    \/ text.at + string.length >= text.mapped
        /\ string.result # 0 => string.length = 0
===============================================================================
