---------------------------- MODULE ThreadSuspend ----------------------------
(***************************************************************************)
(* How SlimDetours stops every other thread of the process for the length  *)
(* of a transaction and lets them go on afterwards (Thread.c), while these *)
(* threads still create threads, end, and use the process heap.            *)
(*                                                                         *)
(* Both builds of detour_suspend_next_thread are modelled: "walk" asks the *)
(* kernel for the thread after the last one (NtGetNextThread), "list"      *)
(* takes one snapshot and works through it.  Both keep their place in      *)
(* static variables, from one call to the next.  The memory they need      *)
(* comes from SlimDetours' own heap or, if that could not be created, from *)
(* the process heap, whose lock a stopped thread may hold.                 *)
(*                                                                         *)
(* A handle is identified with its thread: an enumeration opens each at    *)
(* most once.                                                              *)
(***************************************************************************)
EXTENDS Naturals, Sequences

CONSTANTS
    Threads,         \* the threads the process may ever have
    Self,            \* the one that runs the transaction
    StaticHandles,   \* ARRAYSIZE(s_Handles)
    MaxSuspend,      \* MAXIMUM_SUSPEND_COUNT
    MaxOperations,   \* operations of a transaction, at most
    Builds,          \* which of the two builds: "walk", "list"
    Heaps,           \* where memory comes from: "private", "process"
    NoThread

ASSUME ThreadAssumption == Self \in Threads /\ NoThread \notin Threads
ASSUME BoundAssumption ==
    /\ StaticHandles \in Nat \ {0} /\ MaxSuspend \in Nat \ {0} /\ MaxOperations \in Nat
ASSUME VariantAssumption == Builds \subseteq {"walk", "list"} /\ Heaps \subseteq {"private", "process"}

VARIABLES
    clock,       \* threads created so far
    born,        \* position in the kernel's list of threads, 0: not created yet
    alive,       \* the threads that have not ended
    count,       \* suspend counts
    foreign,     \* the part of them that others than SlimDetours contributed
    stopped,     \* threads that no longer run user code; suspension takes a while
    open,        \* threads SlimDetours has a handle of
    lock,        \* owner of the process heap's lock
    blocks,      \* heap blocks that SlimDetours holds
    build, heap, \* which build this is, and where its memory comes from
    skipped,     \* g_CurrentThreadSkipped
    prev,        \* g_PrevThreadHandle
    listed,      \* threads still to come in g_SPI; NoList: g_SPI is NULL
    pc,          \* where the transaction is
    closePrev,   \* ClosePrevThread
    next,        \* *NextThreadHandle
    buffer,      \* Buffer[0 .. SuspendedCount - 1]
    capacity,    \* BufferCapacity
    onHeap,      \* Buffer # s_Handles
    ops,         \* operations of the transaction
    refused      \* history: living threads this enumeration failed to suspend

kernelVars == <<clock, born, alive, foreign, lock>>
variantVars == <<build, heap>>
placeVars == <<skipped, prev, listed>>
bufferVars == <<buffer, capacity, onHeap>>
vars == <<kernelVars, count, stopped, open, blocks, variantVars, placeVars, pc,
          closePrev, next, bufferVars, ops, refused>>

NoList == {NoThread}
Held == {buffer[i] : i \in DOMAIN buffer}

(* The process starts with one other thread, before or after the caller. *)
Init ==
    /\ \E t \in Threads \ {Self}, first \in BOOLEAN :
          /\ born = [u \in Threads |-> IF u = Self THEN IF first THEN 1 ELSE 2
                                       ELSE IF u = t THEN IF first THEN 2 ELSE 1
                                       ELSE 0]
          /\ alive = {Self, t}
    /\ clock = 2
    /\ count = [t \in Threads |-> 0] /\ foreign = count
    /\ stopped = {} /\ open = {} /\ lock = NoThread /\ blocks = 0
    /\ build \in Builds /\ heap \in Heaps
    /\ skipped = FALSE /\ prev = NoThread /\ listed = NoList
    /\ pc = "idle" /\ closePrev = FALSE /\ next = NoThread
    /\ buffer = <<>> /\ capacity = StaticHandles /\ onHeap = FALSE
    /\ ops = 0 /\ refused = {}

(***************************************************************************)
(* The heap and the suspend counts.                                        *)
(***************************************************************************)
WrongHeapReady == lock = NoThread          \* no heap of its own

HeapReady == heap = "process" => lock = NoThread

Suspend(t) == count' = [count EXCEPT ![t] = @ + 1] /\ UNCHANGED stopped
Resume(t) ==
    /\ count' = [count EXCEPT ![t] = @ - 1]
    /\ stopped' = IF count[t] = 1 THEN stopped \ {t} ELSE stopped

(* detour_suspend_next_thread_rest, and the heap block it frees *)
WrongRest == prev' = NoThread /\ listed' = NoList /\ UNCHANGED skipped

Rest == skipped' = FALSE /\ prev' = NoThread /\ listed' = NoList

LeakingListBlock == 0                      \* keeps the snapshot

ListBlock == IF listed = NoList THEN 0 ELSE 1

(***************************************************************************)
(* SlimDetoursTransactionBegin calls detour_thread_suspend.                *)
(***************************************************************************)
Begin ==
    /\ pc = "idle"
    /\ pc' = "next" /\ closePrev' = FALSE /\ next' = NoThread
    /\ buffer' = <<>> /\ capacity' = StaticHandles /\ onHeap' = FALSE
    /\ refused' = {}
    /\ UNCHANGED <<kernelVars, count, stopped, open, blocks, variantVars, placeVars, ops>>

(***************************************************************************)
(* detour_suspend_next_thread, the walk.  NtGetNextThread finds the first  *)
(* thread behind the given one; an ended thread is found only while        *)
(* somebody still has a handle of it.                                      *)
(***************************************************************************)
Behind(t) == born[t] > (IF prev = NoThread THEN 0 ELSE born[prev])
NextThreads == {t \in Threads : Behind(t) /\ \A u \in alive : Behind(u) => born[t] <= born[u]}
Walking == build = "walk" /\ pc = "next"
WrongOpenAfterGet == open \ {prev}         \* closes the handle in the buffer, too

OpenAfterGet == IF closePrev THEN open \ {prev} ELSE open

GetNextThread ==
    /\ Walking
    /\ prev = NoThread \/ prev \in open
    /\ \E t \in NextThreads :
          /\ next' = t
          /\ open' = OpenAfterGet \cup {t}
          /\ pc' = IF skipped THEN "suspend" ELSE "query"
    /\ UNCHANGED <<kernelVars, count, stopped, blocks, variantVars, placeVars,
                   closePrev, bufferVars, ops, refused>>

NoMoreThreads ==
    /\ Walking
    /\ prev = NoThread \/ prev \in open
    /\ ~ \E u \in alive : Behind(u)
    /\ open' = OpenAfterGet /\ Rest /\ pc' = "held"
    /\ UNCHANGED <<kernelVars, count, stopped, blocks, variantVars, closePrev, next,
                   bufferVars, ops, refused>>

GetNextThreadFails ==
    /\ Walking
    /\ open' = OpenAfterGet /\ Rest /\ pc' = "fail"
    /\ UNCHANGED <<kernelVars, count, stopped, blocks, variantVars, closePrev, next,
                   bufferVars, ops, refused>>

StepNext == prev' = next /\ closePrev' = TRUE /\ pc' = "next" /\ UNCHANGED listed

(* NtQueryInformationThread: the caller is passed over, like a thread that
   cannot be queried. *)
Query ==
    /\ pc = "query"
    /\ \/ next = Self /\ skipped' = TRUE /\ StepNext /\ UNCHANGED refused
       \/ next # Self /\ pc' = "suspend" /\ UNCHANGED <<placeVars, closePrev, refused>>
       \/ refused' = refused \cup ({next} \cap alive) /\ StepNext /\ UNCHANGED skipped
    /\ UNCHANGED <<kernelVars, count, stopped, open, blocks, variantVars, next,
                   bufferVars, ops>>

SuspendThread ==
    /\ pc = "suspend"
    /\ next \in alive /\ count[next] < MaxSuspend
    /\ Suspend(next)
    /\ prev' = next /\ pc' = "grow"
    /\ UNCHANGED <<kernelVars, open, blocks, variantVars, skipped, listed, closePrev,
                   next, bufferVars, ops, refused>>

SuspendThreadFails ==
    /\ pc = "suspend"
    /\ refused' = refused \cup ({next} \cap alive) /\ StepNext
    /\ UNCHANGED <<kernelVars, count, stopped, open, blocks, variantVars, skipped, next,
                   bufferVars, ops>>

(***************************************************************************)
(* The other build: a snapshot of the threads, then one after the other,   *)
(* in the order the kernel listed them.                                    *)
(***************************************************************************)
Listing == build = "list" /\ pc = "next"

TakeSnapshot ==
    /\ Listing /\ listed = NoList /\ HeapReady
    /\ \/ listed' = alive /\ blocks' = blocks + 1 /\ UNCHANGED pc
       \/ pc' = "fail" /\ UNCHANGED <<listed, blocks>>   \* no memory, or no answer
    /\ UNCHANGED <<kernelVars, count, stopped, open, variantVars, skipped, prev,
                   closePrev, next, bufferVars, ops, refused>>

NextListed(t) == t \in listed /\ \A u \in listed : born[t] <= born[u]

(* The caller is passed over; so is a thread that cannot be opened, and one that
   cannot be suspended, whose handle is closed again. *)
PassListed ==
    /\ Listing /\ listed # NoList
    /\ \E t \in listed :
          /\ NextListed(t)
          /\ listed' = listed \ {t}
          /\ refused' = IF t = Self THEN refused ELSE refused \cup ({t} \cap alive)
    /\ UNCHANGED <<kernelVars, count, stopped, open, blocks, variantVars, skipped, prev,
                   pc, closePrev, next, bufferVars, ops>>

SuspendListed ==
    /\ Listing /\ listed # NoList
    /\ \E t \in listed :
          /\ NextListed(t) /\ t # Self
          /\ t \in alive /\ count[t] < MaxSuspend
          /\ listed' = listed \ {t} /\ next' = t
          /\ open' = open \cup {t}
          /\ Suspend(t)
    /\ pc' = "grow"
    /\ UNCHANGED <<kernelVars, blocks, variantVars, skipped, prev, closePrev,
                   bufferVars, ops, refused>>

ListExhausted ==
    /\ Listing /\ listed = {} /\ HeapReady
    /\ blocks' = blocks - ListBlock /\ Rest /\ pc' = "held"
    /\ UNCHANGED <<kernelVars, count, stopped, open, variantVars, closePrev, next,
                   bufferVars, ops, refused>>

(***************************************************************************)
(* detour_thread_suspend goes on with the suspended thread: room for its   *)
(* handle, then NtGetContextThread, which waits until it really stands.    *)
(***************************************************************************)
Full == Len(buffer) >= capacity

WrongGiveUp(t) == UNCHANGED <<count, stopped>> /\ open' = open \ {t}

GiveUp(t) == Resume(t) /\ open' = open \ {t}

WrongStands(t) == TRUE                     \* does not wait

Stands(t) == t \in stopped \/ t \notin alive

Grow ==
    /\ pc = "grow" /\ Full /\ HeapReady
    /\ capacity' = 2 * capacity /\ onHeap' = TRUE
    /\ blocks' = IF onHeap THEN blocks ELSE blocks + 1
    /\ UNCHANGED <<kernelVars, count, stopped, open, variantVars, placeVars, pc,
                   closePrev, next, buffer, ops, refused>>

GrowFails ==
    /\ pc = "grow" /\ Full /\ HeapReady
    /\ GiveUp(next) /\ next' = NoThread
    /\ blocks' = blocks - ListBlock /\ Rest /\ pc' = "fail"
    /\ UNCHANGED <<kernelVars, variantVars, closePrev, bufferVars, ops, refused>>

WaitUntilStopped ==
    /\ pc = "grow" /\ ~Full /\ Stands(next)
    /\ buffer' = Append(buffer, next) /\ next' = NoThread
    /\ pc' = "next" /\ closePrev' = FALSE
    /\ UNCHANGED <<kernelVars, count, stopped, open, blocks, variantVars, placeVars,
                   capacity, onHeap, ops, refused>>

(***************************************************************************)
(* The transaction: operations take memory, and give it back before        *)
(* detour_thread_resume.  A failed Begin resumes and frees in the same way.*)
(***************************************************************************)
AddOperation ==
    /\ pc = "held" /\ ops < MaxOperations /\ HeapReady
    /\ ops' = ops + 1 /\ blocks' = blocks + 1
    /\ UNCHANGED <<kernelVars, count, stopped, open, variantVars, placeVars, pc,
                   closePrev, next, bufferVars, refused>>

FreeOperations ==
    /\ pc = "held" /\ (ops > 0 => HeapReady)
    /\ blocks' = blocks - ops /\ ops' = 0 /\ pc' = "resume"
    /\ UNCHANGED <<kernelVars, count, stopped, open, variantVars, placeVars, closePrev,
                   next, bufferVars, refused>>

ResumeThread ==
    /\ pc \in {"resume", "fail"} /\ buffer # <<>>
    /\ GiveUp(Head(buffer)) /\ buffer' = Tail(buffer)
    /\ UNCHANGED <<kernelVars, blocks, variantVars, placeVars, pc, closePrev, next,
                   capacity, onHeap, ops, refused>>

End ==
    /\ pc \in {"resume", "fail"} /\ buffer = <<>>
    /\ onHeap => HeapReady
    /\ blocks' = IF onHeap THEN blocks - 1 ELSE blocks
    /\ onHeap' = FALSE /\ pc' = "idle" /\ refused' = {} /\ capacity' = StaticHandles
    /\ next' = NoThread /\ closePrev' = FALSE
    /\ UNCHANGED <<kernelVars, count, stopped, open, variantVars, placeVars, buffer, ops>>

Caller ==
    \/ Begin \/ GetNextThread \/ NoMoreThreads \/ GetNextThreadFails \/ Query
    \/ SuspendThread \/ SuspendThreadFails
    \/ TakeSnapshot \/ PassListed \/ SuspendListed \/ ListExhausted
    \/ Grow \/ GrowFails \/ WaitUntilStopped
    \/ AddOperation \/ FreeOperations \/ ResumeThread \/ End

(***************************************************************************)
(* The other threads, while they run, and the kernel.                      *)
(***************************************************************************)
Running(t) == t \in alive \ stopped /\ t # Self

Others == <<open, blocks, variantVars, placeVars, pc, closePrev, next, bufferVars, ops, refused>>

(* A thread may be created suspended. *)
CreateThread ==
    /\ \E u \in Threads : Running(u)
    /\ \E t \in Threads, c \in {0, 1} :
          /\ born[t] = 0
          /\ clock' = clock + 1 /\ born' = [born EXCEPT ![t] = clock']
          /\ alive' = alive \cup {t}
          /\ count' = [count EXCEPT ![t] = c] /\ foreign' = [foreign EXCEPT ![t] = c]
          /\ stopped' = IF c = 1 THEN stopped \cup {t} ELSE stopped
    /\ UNCHANGED <<lock, Others>>

ExitThread ==
    /\ \E t \in Threads : Running(t) /\ lock # t /\ alive' = alive \ {t}
    /\ UNCHANGED <<clock, born, foreign, lock, count, stopped, Others>>

(* Another thread starts one that was created suspended. *)
StartThread ==
    /\ \E u \in Threads : Running(u)
    /\ \E t \in Threads :
          /\ foreign[t] = 1
          /\ foreign' = [foreign EXCEPT ![t] = 0]
          /\ Resume(t)
    /\ UNCHANGED <<clock, born, alive, lock, Others>>

LockHeap ==
    /\ lock = NoThread
    /\ \E t \in Threads : Running(t) /\ lock' = t
    /\ UNCHANGED <<clock, born, alive, foreign, count, stopped, Others>>

UnlockHeap ==
    /\ lock # NoThread /\ Running(lock)
    /\ lock' = NoThread
    /\ UNCHANGED <<clock, born, alive, foreign, count, stopped, Others>>

(* A suspended thread runs on until the kernel interrupts it. *)
StopThread ==
    /\ \E t \in alive : count[t] > 0 /\ t \notin stopped /\ stopped' = stopped \cup {t}
    /\ UNCHANGED <<kernelVars, count, Others>>

Environment ==
    CreateThread \/ ExitThread \/ StartThread \/ LockHeap \/ UnlockHeap \/ StopThread

Next == Caller \/ Environment

(* The caller is scheduled as long as it is not itself suspended or waiting, the
   kernel delivers a suspension, and nothing makes a transaction begin. *)
Spec ==
    /\ Init /\ [][Next]_vars
    /\ WF_vars(Caller /\ pc # "idle") /\ WF_vars(StopThread)

-----------------------------------------------------------------------------
TypeOK ==
    /\ clock \in Nat /\ born \in [Threads -> 0 .. clock] /\ alive \subseteq Threads
    /\ count \in [Threads -> 0 .. MaxSuspend] /\ foreign \in [Threads -> {0, 1}]
    /\ stopped \subseteq Threads /\ open \subseteq Threads
    /\ lock \in Threads \cup {NoThread} /\ blocks \in Nat
    /\ build \in Builds /\ heap \in Heaps
    /\ skipped \in BOOLEAN /\ prev \in Threads \cup {NoThread}
    /\ listed = NoList \/ listed \subseteq Threads
    /\ pc \in {"idle", "next", "query", "suspend", "grow", "held", "resume", "fail"}
    /\ closePrev \in BOOLEAN /\ next \in Threads \cup {NoThread}
    /\ buffer \in Seq(Threads) /\ capacity \in Nat \ {0} /\ onHeap \in BOOLEAN
    /\ ops \in 0 .. MaxOperations /\ refused \subseteq Threads

(* The thread that runs the transaction is never suspended by it, in any of its
   transactions: g_CurrentThreadSkipped lets the walk stop asking who a thread is,
   and is FALSE again whatever way the last walk ended. *)
CallerRuns == count[Self] = 0

(* While a transaction writes code no other thread runs: each living one stands,
   unless it could not be suspended.  The threads created during the walk are met
   later in it.  The other build's snapshot does not contain them. *)
EveryoneStopped ==
    pc = "held" /\ build = "walk" /\ refused \subseteq {Self}
    => alive \ {Self} \subseteq stopped

(* Threads that SlimDetours suspended and has not resumed yet. *)
Suspended == Held \cup (IF pc = "grow" THEN {next} ELSE {})

(* Every suspension is undone exactly once, and those of others are left alone,
   for threads that end or are started by others in the meantime, too. *)
SuspensionsBalance ==
    \A t \in Threads : count[t] = foreign[t] + (IF t \in Suspended THEN 1 ELSE 0)

(* No handle is used after it was closed: those in the buffer, the one being
   worked on, and the one that holds the place of the walk. *)
HandlesAreOpen ==
    /\ Suspended \subseteq open
    /\ pc \in {"query", "suspend"} => next \in open
    /\ pc = "next" /\ prev # NoThread => prev \in open

(* Between transactions nothing is left over: no handle, no memory, and no
   state that the next enumeration would start from. *)
NothingLeftOver ==
    pc = "idle" =>
        /\ open = {} /\ blocks = 0
        /\ skipped = FALSE /\ prev = NoThread /\ listed = NoList

(* A transaction ends, as long as the memory it needs is SlimDetours' own: a
   stopped thread may own the lock of the process heap for ever. *)
TransactionEnds == pc # "idle" /\ heap = "private" ~> pc = "idle"

=============================================================================
