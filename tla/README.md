# A TLA+ model of EH4

EH4 (`src/README.md`) is a crash handler for Windows programs.  A small library
inside the program (the *client*) starts an external *watchdog* process; when a
thread crashes, the library publishes where the exception information is, signals
the watchdog and suspends the whole client; the watchdog reads the client's memory,
reports, and ends the client.  To see crashes that Windows does not hand to the
unhandled-exception filter, EH4 hooks `ZwRaiseException` with a copy of
KNSoft.SlimDetours, an inline-hooking library that rewrites the first instructions
of running functions.

This directory holds TLA+ modules of the parts of this code whose correctness
depends on order, concurrency or bounds, TLC configurations that check them on
small instances, and proofs that TLAPS checks for every value of the constants.

## 1. Inventory

| Component | State | Operations | Interacts through | What is hard |
|---|---|---|---|---|
| Client library, `src/src/eh4.c` | settings, stop flag, seven global handles, the previous filter, `g_pStoredExceptionInformation` | `EH4_Attach`, `EH4_Detach`, the exception filter, the `ZwRaiseException` hook | two auto-reset events, inherited handles, process and thread handles | every step may fail; crashes during attach and detach; several threads crash at once; suspending the process stops the monitor too |
| Monitor thread, `EH4_AgentWatchdogProc` in `src/src/eh4.c` | the process it created last | wait for the watchdog's death, restart it | the global process handle, the stop flag | races with detach and with a second attach; its error path closes handles others use |
| Watchdog process, `src/src/watchdog/main.c`, `process.c` | the remote pointer, the copies it read | say hello, wait for a crash or the end of the client, read, report, end or resume the client | events, remote memory, the client's process handle | reads memory of a process that may run, change or be gone; may be killed at any moment |
| Hook transactions, `src/src/kndetours/Transaction.c`, `InlineHook.c` | owner, list of pending operations | begin, attach, detach, commit, abort | trampoline regions; the code that is patched; the callers' pointer variables; other threads' program counters | chains of hooks on one function removed in any order; threads inside the bytes that are rewritten; half-done operations |
| Stopping threads, `src/src/kndetours/Thread.c` | the place of the walk in static variables, a buffer of handles | list and suspend the other threads, resume them, move them out of the way | called by the transactions; the kernel; the process heap | threads that are created, end and stop late while they are listed; a buffer that cannot grow; a heap whose lock a stopped thread holds |
| Trampoline regions, `src/src/kndetours/Trampoline.c` | list of regions, default region, a free list in each | find a place in the address space, allocate, free, release unused regions, protect | called by the transactions; Memory | intrusive free lists, a region released while it is the default; six searches with wrapping arithmetic while memory changes |
| Instruction copying, `src/src/kndetours/Disassembler.c`, `Instruction.c`, the loop in `Transaction.c` | one trampoline's code, sizes and alignment table | copy instructions until a jump fits, consume padding, look up positions | used by attach and by the thread update | instructions that grow when copied, tables with 3-bit and 5-bit fields |
| Memory, `src/src/kndetours/Memory.c` | a private heap, the reserved address ranges | init, alloc, free, uninitialize | all of the above | heap fallback while threads are suspended; a range that wraps around |
| Crash report, `EH4_ProcessException` in `process.c` | the copies it read | follow the published pointers, call the decoders below | the client's memory, which may vanish | each read may be the first that fails |
| Remote strings, `src/src/watchdog/util.c` | the caller's buffer | read a string of another process page by page | the C++ decoder | pages that end, memory that vanishes |
| C++ exceptions, `src/src/watchdog/cxxexception.c` | an allocated array | decode a throw's type information | remote memory, remote strings | partial failures, counts read from the crashed process |
| Extended state, `src/src/watchdog/xstate.c` | the tables of registers | find the XSAVE areas of the features, read them | remote memory | two layouts, sizes and alignments that depend on the machine |
| Register tables, unwinding stubs, headers, tests, cJSON, phnt | constants | - | - | nothing that changes state |

What makes each part correct:

* **Protocol (library, monitor, watchdog).** At most one watchdog lives; detaching
  leaves no watchdog, monitor or filter behind; no handle is closed twice; a client that is suspended is
  always looked after by somebody who knows; a report is about a thread that
  really crashed; a suspended client is eventually reported and ended; attach and
  detach return; a killed watchdog is replaced; watchdogs do not outlive the client.
* **Hooks.** No jump leads to a freed trampoline; a hook whose variable says it is
  attached is called; a thread is never left in the middle of rewritten bytes or in
  freed memory; no trampoline leaks; protections are restored; transactions end.
* **Stopping threads.** The caller never suspends itself; while code is rewritten every
  other thread stands; every suspension is undone once; no handle is used after it was
  closed and none is left over.
* **Regions.** A trampoline is within reach of its function, outside of where the system
  loads DLLs, and found if there is room.
* **Report.** The text of an exception is whole or cut where it must be; registers are
  those of the crash; one unreadable type hides no other; a report ends.
* **Instruction copying.** Instructions are cut at their real ends and keep their
  targets; the copy and the jump back fit; the table takes a thread to exactly the
  corresponding instruction.

`PROJECT.json` lists the hazards one by one with their lines and properties.

## 2. Modules

| Module | Models | Extends / uses |
|---|---|---|
| `CrashService` | what EH4 promises, without processes, handles or events | - |
| `Eh4` | client library, monitor and watchdogs as one concurrent system; refines `CrashService` | `INSTANCE CrashService` |
| `Eh4Proofs` | proofs about `Eh4` | `Eh4`, `TLAPS` |
| `MCEh4` | the instance of `Eh4` for TLC (symmetry) | `Eh4` |
| `HookService` | what SlimDetours promises its callers, without trampolines, regions or jumps | - |
| `Detours` | SlimDetours transactions, trampoline regions, thread moves and threads running through hooks; refines `HookService` | `INSTANCE HookService` |
| `DetoursProofs` | proofs about `Detours` | `Detours`, `TLAPS` |
| `MCDetours` | instances of `Detours` | `Detours` |
| `Prologue` | the copy loop of `SlimDetoursAttach`, the size checks, the alignment table | - |
| `PrologueProofs` | proofs about `Prologue` | `Prologue`, `TLAPS` |
| `MCPrologue` | instruction sets for `Prologue` | `Prologue` |
| `ThreadSuspend` | how a transaction stops and resumes the other threads, in both builds of `Thread.c` | - |
| `ThreadSuspendProofs` | proofs about `ThreadSuspend` | `ThreadSuspend`, `TLAPS` |
| `MCThreadSuspend` | the instance of `ThreadSuspend` for TLC | `ThreadSuspend` |
| `RegionSearch` | where a trampoline is put: the reserved ranges, the bounds, the six searches | - |
| `RegionSearchProofs` | proofs about `RegionSearch` | `RegionSearch`, `TLAPS` |
| `MCRegionSearch` | layouts of free memory, functions and allocations of others | `RegionSearch` |
| `ClientMemory` | the crashed client's memory, which may vanish | - |
| `RemoteString` | `EH4_ReadRemoteStringA` | `ClientMemory` |
| `ExtendedState` | the areas of XSAVE features in both formats | `ClientMemory` |
| `CrashReport` | `EH4_ProcessException` and the decoder of C++ exceptions, composing the two | `RemoteString`, `ExtendedState` |
| `CrashReportProofs` | proofs about `CrashReport` and its parts | `CrashReport`, `TLAPS` |
| `MCCrashReport` | strings, machines and exceptions | `CrashReport` |
| `Disassembler` | how one x64 instruction is measured and copied | - |
| `DisassemblerProofs` | proofs about `Disassembler` | `Disassembler`, `TLAPS` |
| `MCDisassembler` | operands and distances for `Disassembler` | `Disassembler` |

`Eh4` and `Detours` are not composed: EH4 uses SlimDetours for one hook in
`EH4_Attach` and ignores the result, and that hook never recognises a crash (see
`eh4_smashed` below), so in `Eh4` it is one line of `AttachFilter` and the action
`RaiseException`.  `Detours` and `Prologue` are two views of `SlimDetoursAttach`:
`Detours` takes the copied code as "the function's own bytes or a jump to an older
trampoline", `Prologue` looks at how many bytes those are.  `ThreadSuspend` is what
`Detours` takes for one step (`OpenTransaction`), and `RegionSearch` where its `NewRegion`
comes from: `Detours` knows only which regions the searches for a function may allocate
(`Searched`) and which of them are in reach (`Reach`).  `CrashReport` is `ReadPointer` and
`ReadFrame` of `Eh4` seen from within the watchdog: `Eh4` shows that the pointer it starts
from is genuine, `CrashReport` what becomes of the bytes behind it.

### 2.1 `Eh4`

Actors: the thread that calls the API (`mainpc`), the monitor thread (`monitor`),
the program's threads inside the exception filter (`pc`), and watchdog processes
(`wd`).  Each action is the code between two points at which another actor can make a
difference: a wait, a system call on a shared object, or an access to a shared
variable.

| Code | Model |
|---|---|
| `g_pStoredExceptionInformation` points into a thread's stack frame | `stored` is the thread; `FrameLive(t)` says whether the frame is still there |
| the seven global handles | `open`, the set of those whose handle is open; the process handle's target is `hWatchdog`; `lost` counts, for each, the open handles that it held and that were overwritten (`Overwrite`) |
| auto-reset events | `crashEvent`, `startedEvent` |
| `EH4_Attach` (eh4.c:291-452) | `AttachAcquire` (five handles, with each error path), `AttachSpawn`, `AttachThread`, `AttachWait`, `AttachHello`, `AttachFilter` |
| `EH4_Detach` (eh4.c:454-474) | `DetachBegin`, `DetachUnfilter`, `DetachTerminate`, `DetachJoin`, `DetachClose` |
| `EH4_AgentWatchdogProc` (eh4.c:233-289) | `MonitorWait`, `MonitorCheck`, `MonitorCreate`, `MonitorStore` |
| `EH4_UnhandledExceptionHandler` (eh4.c:211-231) | `Crash`, `StoreCrashInfo`, `Notify`, `Suspend`, `Return` |
| `EH4_ZwRaiseException_Hook` (eh4.c:106-135) | `RaiseException` |
| watchdog `main` and `EH4_ProcessException` | `Hello`, `WakeOnCrash`, `WakeOnClientExit`, `ReadPointer`, `ReadFrame`, `Finish` |
| outside | `ClientExit` (the program ends), `Kill` (somebody ends a watchdog) |

A read of remote memory that fails leaves locals uninitialised in the code; the
model reads `Garbage`.  `suspended` stops every action of the client's process.

### 2.2 `Detours`

State: the owner of the API, the list of pending operations (newest first, as the
code keeps it), the regions with their intrusive free lists (`pFree`, `pbRemain`),
each trampoline's target, copied bytes and detour pointer, what each function's first
bytes are (`patch`), the protections of pages and regions, the callers' pointer
variables and where each running thread is.

| Code | Model |
|---|---|
| `SlimDetoursTransactionBeginEx` | `Begin`, `MakeWritable` (one region at a time, or the failure), `OpenTransaction` |
| `SlimDetoursAttach` | `Attach`, `AttachFails`; `detour_alloc_trampoline` is `FoundRegion`, `NewRegion`, `FirstFree`, `PopFree`, and `KeepRefused` where the last check refuses a new region |
| `SlimDetoursDetach` | `Detach` |
| `SlimDetoursTransactionCommit` | `Commit`, then one `ApplyAdd`, `ApplyRemove` or `ApplyBypass` per operation, `UpdateThreads`, one `CommitOperation` per operation, `EndTransaction` |
| `SlimDetoursTransactionAbort` | `Abort`, one `AbortOperation` per operation, `EndTransaction` |
| `detour_thread_update` and the two look-ups in the table of alignments | `MovedBy`, `LosesBits`, `Updated` |
| threads that call hooked functions | `Run`: entry, the bytes a hook replaces, `rbCodeIn`, the copied code, the detour |

`SlimDetoursInlineHook` and `SlimDetoursInlineHooks` are sequences of these calls.
Callers are assumed to attach only variables that hold a function and detach only
variables that hold a trampoline.  `RepeatTarget` says whether a transaction may
operate twice on one function; `ProtectFails` whether making a region writable may
fail.  A detour loads its pointer variable and calls through it in one step: with two
steps a thread could call a trampoline freed in between, which no suspension prevents
and no document excludes (a hazard in `PROJECT.json`).
What all this comes to for a caller is `HookService`: a set of attached hooks that only a
commit changes, at once, by what its transaction asked for.  The mapping takes for attached the
hooks `InForce`, those whose detours a call of a function really comes by along the jumps; while
Commit's loop runs, the operations it has still to carry out are counted as done (`Attached`).  So
the order of the loop, the trampoline that Attach takes before anything is decided, and the bypass of
a buried hook must all be invisible (`ImplementsHookService`).

A region's order in the list is abstracted; which region a function reaches is the
constant `Reach`, and which the searches may allocate for it is `Searched`.  The searches do
not all keep within their bounds, so a region may be in the second and not in the first:
then the check of Trampoline.c:312-315 refuses its first trampoline after Trampoline.c:337-357 put
the region in the list, where it stays as the default one with nothing in use, because
`SlimDetoursAttach` has no trampoline to give back (`KeepRefused`).  The history variable
`refused` holds such regions until they serve a function or are released.

Where a thread is put is not exact.  The table keeps the end of each copied instruction
in three bits, so it says the right thing only of bytes replaced before the eighth
(Transaction.c:351, Trampoline.c:460-489).  `LongPrologues` are the functions of which eight bytes or more
are replaced.  A thread that has done all copied instructions of such a one is put at its start
again (the end was 8 or 16), at a later instruction, or into the middle of one
(`Lost`), and a thread at the start perhaps behind the copied instructions.  The table of
a hook that lies on top of another is always right: it copied a jump of five bytes.

### 2.3 `ThreadSuspend`

The caller goes through `Begin`, one round of steps per thread, `AddOperation`,
`FreeOperations`, `ResumeThread` and `End`, over and over; the other threads create
threads (also suspended ones), end, start suspended threads and use the process heap;
the kernel stops a suspended thread some time after `NtSuspendThread` returned.

| Code | Model |
|---|---|
| `NtGetNextThread` build of `detour_suspend_next_thread` | `GetNextThread`, `NoMoreThreads`, `GetNextThreadFails`, `Query`, `SuspendThread`, `SuspendThreadFails` |
| `NtQuerySystemInformation` build | `TakeSnapshot`, `PassListed`, `SuspendListed`, `ListExhausted` |
| `detour_suspend_next_thread_rest` | `Rest`, `ListBlock` |
| the loop of `detour_thread_suspend` | `Grow`, `GrowFails`, `WaitUntilStopped` (`NtGetContextThread` returns when the thread stands) |
| `detour_thread_resume` | `ResumeThread`, `End` |
| `g_CurrentThreadSkipped`, `g_PrevThreadHandle`, `g_SPI` | `skipped`, `prev`, `listed` |
| memory of SlimDetours | `blocks`; taking or giving it back needs `HeapReady` |

`born` is a thread's position in the kernel's list, so "behind `prev`" is a comparison.  A
handle is its thread.  The transaction's operations count only as memory here.

### 2.4 `RegionSearch`

Addresses are numbers below `Space`, and sums wrap around there as pointers do at 2^64.
`Reserved` are the ranges that `detour_memory_init` computes from ntdll.dll's base, `Below`
and `Above` are `detour_memory_2gb_below` and `_above`, `pLo` and `pHi` the bounds after
`detour_find_jmp_bounds`, `SearchOf` the six calls of `detour_alloc_region_from_lo` and
`_from_hi` with their arguments and conditions.  `Call` is `detour_alloc_trampoline` up to
the search, with the choice among the regions that exist; each turn of a search is one of
`SkipReserved`, `Query` (what `NtQueryVirtualMemory` says decides where to go on), `Allocate`,
`AllocateFails`, `AllocateBlocked`, and `SearchOver` starts the next.  `Others` lets the rest
of the program allocate or free memory between any two of them.

### 2.5 `ClientMemory`, `RemoteString`, `ExtendedState`, `CrashReport`

The client is suspended, so its memory (`crash`) does not change, but the process may be
ended by others at any moment (`Kill`), and from then on every read fails.  `CrashReport`
is the order of things in `EH4_ProcessException`: the chain of pointers (`FollowPointer`),
`EH4_ProcessXStateFP` and `EH4_ProcessXStateCET` (`XStateStep` of `ExtendedState`), then
`EH4_ProcessMSCCXXException`, one action per read with its early return (`Return(n)` is the
code's `return n`), in the middle of which `EH4_ReadRemoteStringA` (`ReadString` of
`RemoteString`, one chunk per step) is called.  Locals the code has not initialised when a
read fails become one of a few junk values: `JunkHeaders`, `JunkTexts`, any `Offset`.

The layout of an XSAVE area is described by the architecture's rule, not the code's:
`Compacted` says each area is where the processor would put it, as low as the areas
before it and its alignment allow.  `EH4_CalculateXStateOffsetCompacted`
(`BeginOffset`, `PassFeature`, `EndOffset`) must find the same place by adding up.
`registers` and `ssp` tell whether what is shown of a feature is what was saved.
The shadow stack's base and limit are read like the pointer itself and left out.

### 2.6 `Prologue`

Bytes are counted, not interpreted: an instruction has a length, an amount by which
its copy grows (`lExtra`) and whether it ends the function.  `bounds` is a
history variable that remembers where instructions and their copies really begin.
`MCPrologue` names the growths that the usual instructions have: none, a short
conditional branch (+4), a short jump (+3).

### 2.7 `Disassembler`

One behaviour is a sequence of instructions, each read byte by byte along the chain of
Copy functions: prefixes set the flags of `DETOUR_DISASM`, and the function of the
opcode ends the chain.  The tables `g_rceCopyMap`, `g_rceCopyTable` and
`g_rceCopyTable0F` are those of x64, written as the set of opcodes for each entry.
`CopyBytes` and `CopyBytesJump` return the set of their possible outcomes, one for
each displacement and each distance to the trampoline; their widths are constants,
smaller than 8 and 32 bits.  The properties compare what the code finds with the
architecture's own rules (`InstructionLength`, `HasRelativeOperand`), which are written
from prefixes, opcode maps, ModR/M and SIB byte and immediates and share nothing with
the tables.  Opcodes that do not exist in 64-bit mode are not read.

## 3. What TLC checks

Every property has a mutant: a definition of the module changed the way a bug would
change the code, which makes TLC find the property violated (`PROJECT.json`,
"mutants"; the definitions stand at the head of each module).

| Run | Instance | Shows |
|---|---|---|
| `eh4_safety` | 2 threads, 2 watchdog identities, 1 kill, 1 detach, both settings, smashed stacks | `OneWatchdog`, `DetachedIsClean`, `NoDoubleClose`, `FrozenIsWatched` |
| `eh4_service` | the same sizes without previous handler, stacks intact, fair | `ReportIsGenuine`; the protocol implements `CrashService` (`ImplementsService`); a suspended client is reported and ended (`CrashReported`); attach and detach return (`ApiReturns`); a killed watchdog is replaced (`WatchdogRestored`) and ends after its client (`WatchdogFollowsClient`) |
| `detours_hooks` | 2 callers, 2 functions on one page, of one of which eight bytes or more are replaced, 3 hooks, 1 region of three usable trampolines, 1 running thread, threads suspended | `NoDanglingJump`, `AttachedHooksRun`, `NoLostThread`, `NoTrampolineLeaked`, `WritableOnlyInTransaction`; the transactions implement `HookService` (`ImplementsHookService`) |
| `detours_regions` | 2 callers, 2 functions, 3 hooks, 2 regions of two usable trampolines, one of them out of reach of one function though its searches may allocate it, with and without suspension, regions that cannot always be made writable, fair | `RegionsHoldTrampolines`, `UnusedRegionsReleased`; Begin, Commit and Abort return (`TransactionEnds`) |
| `disassembler` | all opcodes of the one-byte, 0F, VEX, EVEX and XOP maps, up to 2 prefixes, 19 kinds of ModR/M byte (and the SIB bytes that matter), displacements of -8 to 7 with bytes of -4 to 3, distances of -24 to 20 | `TypeOK`, `LengthRight`, `TargetsSeen`, `TargetsKept`, `GrowthRight` |
| `prologue_usual` | instructions of 1 to 11 bytes, short branches, fillers of 1 to 11 bytes | `CodeFits`, and `ShortPrologueMoves`: the table is exact while at most 7 bytes are replaced |
| `thread_suspend` | the caller and three other threads, a static buffer for one handle, suspend counts up to 2, both builds, both heaps, fair | `CallerRuns`, `EveryoneStopped`, `SuspensionsBalance`, `HandlesAreOpen`, `NothingLeftOver`; a transaction ends (`TransactionEnds`) |
| `region_search` | 192 addresses with 1GB as 32 and regions of 4, ntdll.dll at the bottom, in the middle and at the top of the system range or unknown, 15 layouts of free memory, 6 functions (two that jump away, one just above 1GB), 3 calls, 1 change by others, fair | `WithinReach`, `DllRangeLeftAlone`, `FindsRoom`; every search ends (`SearchEnds`) |
| `crash_report` | pages of 4 bytes, a buffer of 7, 60 strings; 7 features, 16 choices of aligned ones with 6 layouts, both formats; exceptions with each field missing; the client ends anywhere, fair | `StringWhole`, `RegistersAreSaved`, `TypesListed`; a report ends (`ReportEnds`) |

The type invariants of `Eh4`, `Detours`, `Prologue`, `ThreadSuspend`, `RegionSearch` and `CrashReport` are
proved (section 4) and not checked again by a run.

The liveness properties of `eh4_service` say what they need: `CrashReported` asks for
no kill and no detach so far, `ApiReturns` for no kill where it speaks of detach, because the code promises
nothing else (the races are described below).

Bounds, and why they are enough. `Eh4`: two threads are needed for crashes that
overwrite each other's pointer and coalesce on the event; two watchdog identities
for an old and a new process; one kill and one detach make every race between
monitor, detach and a second attach possible, since every attach after that starts
from the same state.  `Detours`: two hooks on one function give the chain in which
the lower one is bypassed, and a third slot its re-attachment; two operations per
transaction give every order of two; two usable trampolines in a region (the third and
fourth of `PerRegion` = 4) make regions fill up, be released and be replaced; the region that is
refused to one function is kept, used by the other, released, and refused again.  Two callers
begin while the other one's transaction is open or just ended.
`Disassembler`: the opcodes are all
there, flags are idempotent, so two prefixes give every pair of them, and no result
depends on more than one displacement; `Near + 24 + 4 <= LongHalf`, so every operand is
within reach of every copy.  `Prologue`: `SIZE_OF_JMP` bytes end the loop, so the state space is bounded by the
code itself; the only bound is the longest instruction.  `ThreadSuspend`: with three
other threads one exists from the start, one can be created while it is being suspended,
and one after; a buffer for one handle must grow twice, so both the first growth (away from
the static array) and a later one may fail.  `RegionSearch`: `Giga`, `Slack` and `Region` keep
their order and `Span` is less than the space, so each of the six searches covers addresses
no other does, which the layouts have a hole in each; three calls fill a region of two
trampolines and need a second; one change by others is enough to
invalidate what a query said.  `CrashReport`: strings end before, at and behind the
end of a page, of the buffer and of the mapped memory; three features in front of the one
looked for, each of them there or not and aligned or not, give every way an offset is added
up.  `MaxOperations`, `MaxPrefixes`, `MaxKills`, `MaxDetaches`, `MaxCalls` and `MaxForeign`
are the only artificial bounds.

Deadlock is checked in the `Detours`, `Disassembler` and `Prologue` runs.  In the others it is not:
a client that ended or stays suspended is a legitimate end in `Eh4`; so are a caller that
waits for a heap lock whose owner it stopped in `ThreadSuspend` (`TransactionEnds` says when it
does not happen), the last of `MaxCalls` in `RegionSearch`, and a finished report in `CrashReport`.

### Fairness

`Eh4`: weak fairness for each thread of the client that is inside EH4's code and for
each watchdog: the Windows scheduler runs every ready thread.  Their guards contain
"the client is not suspended", so a suspended client owes nothing.  There is no
fairness for crashing, exiting, calling the API or killing.  `Detours`: weak fairness
for the steps inside Begin, Commit and Abort, whose thread is never suspended by
itself; none for calling them.  `ThreadSuspend`: weak fairness for the caller inside a
transaction and for the kernel's delivery of a suspension (`StopThread`); none for the
other threads, not even for giving up the heap's lock.  `RegionSearch` and `CrashReport`: weak
fairness for the one thread that searches or reports; it waits for nobody.

### Disagreements between the code and what is written about it

Each of these runs checks one sentence of a document or comment and fails.

| Run | Property | What happens |
|---|---|---|
| `eh4_smashed` | `AlwaysFeedback` | the raise hook compares with a pointer that is never set, so a crash the filter cannot see is not handled |
| `eh4_previous` | `PreviousHandlerCalled` | the watchdog resumes the client through a function pointer that is never set |
| `detours_mixed` | `NoDanglingJump` | attaching one hook and detaching another of the same function in one transaction frees a trampoline in use |

Observed in the model and not kept as runs, since no document says otherwise, the
sentence is already refuted above, or the code is not what a property should fix in place:

* A watchdog that dies just before or while it handles the crash is not replaced,
  because the monitor is suspended with the client (`Eh4Smashed.cfg` with
  `MaySmashStack = FALSE`, `MaxKills = 1`: `AlwaysFeedback` fails).
* A thread in the handler during `EH4_Detach` suspends the client after its watchdog
  was terminated (the same with `MaxKills = 0`, `MaxDetaches = 1`).
* A monitor past its test of the stop flag restarts a watchdog that `EH4_Detach` no
  longer ends; `EH4_Detach` then waits for ever (needs a kill).
* Each watchdog that dies and is replaced leaves an open handle of its process behind: the
  monitor stores the new one over it (eh4.c:285).  Each `EH4_Detach` leaves the monitor's thread
  handle, which it does not close (eh4.c:463-469) and the next attach overwrites.
  `DetachedIsClean` says that these handles, counted in `lost`, are all.
* Detaching a hook twice in one transaction leaves the page writable (`DetoursMixed.cfg` with
  `WritableOnlyInTransaction`).  The second operation no longer finds its jump and
  becomes a bypass (Transaction.c:167), so the trampoline is freed once; but it is zeroed when the
  second one's protection is to be restored.
* A `Begin` that fails half way leaves the regions before the failure writable with no
  owner (`DetoursRegions.cfg` with `WritableOnlyInTransaction` less its `ProtectFails`).
* A new region that the last check refuses stays allocated with nothing in use
  (Trampoline.c:337-357, then 312-315), until a later transaction frees some trampoline or an
  Attach that takes one of the region fails.  `UnusedRegionsReleased` says that no other region is kept so.
* A long displacement that does not reach its target from the trampoline is truncated
  and reported as growth 0 (`Disassembler.cfg` with `Near = 32`: `TargetsKept` fails).
  A trampoline may be 512 KB less than 2 GB away, so this takes an operand farther off
  than those 512 KB in the other direction.
* With instructions of up to 15 bytes the size check (Transaction.c:413) does not see
  growth, which counts bytes taken and not bytes copied: the jump back can leave `rbCode`
  (SlimDetours.inl:32,60).  `CodeFits` therefore speaks of instructions up to 11 bytes.
* The 3-bit and 5-bit fields of the alignment table (Transaction.c:351, SlimDetours.inl:24,83)
  lose bits for prologues of 8 bytes and more, and a thread there is moved to a
  wrong place: with instructions of 3 and 9 bytes into the middle of the second.
  `ShortPrologueMoves` speaks of the others, and `NoLostThread` of bytes that are no instruction
  only in the others (with `LongPrologues` taken out of it `detours_hooks` fails).
* LOOP and JRCXZ report a growth of -3 (Disassembler.c:1176), though the comment above the
  field (line 49) calls it a number of extra bytes, and the copy is as long as the
  original: the next copy overwrites its last bytes.
* XBEGIN (C7 F8) has a relative operand that the tables take for an immediate, so its copy
  jumps elsewhere when the transaction aborts: its length is right (`LengthRight`), but
  `TargetsSeen` excludes it (`IsXbegin`).
* The opcodes 78 to 7B of map 0F, which EVEX gives other meanings, are measured as VMREAD
  or as invalid; the model does not read them.
* The free list of a new region starts at its third trampoline (Trampoline.c:349), so
  the first two are never used; the comment above it speaks of the first only.
* If a function's first jump leads more than 1GB away, the third and fourth search may
  find a region outside of `pLo` and `pHi`; the last check (Trampoline.c:312) then gives
  up, although there may be room elsewhere, and the region stays allocated (`KeepRefused` of
  `Detours`, see above).
* The same happens to functions that do not jump at all, if they lie within 512KB of
  `pLo` or `pHi` (at either end of the address space), or so little above 1GB that the third search, which
  starts 1GB below the function (Trampoline.c:256), starts below `pLo`.  The proof of `FindsRoom` failed on
  these; `SearchesWithin` now says which functions it speaks of, and the instance has one at 1GB.
* The comments at Memory.c:17 and Memory.c:146 reserve "1GB after Ntdll.dll"; the code reserves the
  1GB below it, which is where the system goes on (`DllRangeLeftAlone`).
* The jump of 128MB over reserved addresses passes over up to 128MB beside them, so that a
  region that fits only there is not found (the last conjunct of `Room`).
* A search downwards that meets a free block smaller than a region goes on from
  `AllocationBase`, which is 0 for free memory: it wraps around and ends early.  A later
  search covers what it leaves out.
* In the standard XSAVE format an area's offset counts from the start of the XSAVE area,
  and xstate.c:94 adds it to the address of the header, 512 bytes behind (`Legacy`):
  nothing is read where it was saved.  `RegistersAreSaved` speaks of the compacted format, which
  is what current systems use.
* `EH4_ProcessXStateFP` looks at the features the machine has, not those the header says were
  saved: registers not in use show whatever lies at offset 0, and where a read fails the YMM
  and ZMM_H copies are not initialised.
* The test of `CONTEXT_XSTATE` is no test, since the flag contains `CONTEXT_AMD64`.
* A thrown object that is not a std::exception is read as one: its `what` is junk, and when that cannot
  be read, result 4 hides the types.  Without an object (a NULL) the copy was never
  initialised.
* A type's name is read as 8191 bytes at once, which fails near the end of the mapped image: the
  name then shown is empty, or that of no type (never that of another: `TypesListed`).
* The filter is installed before `g_pfnPreviousFilter` is assigned (eh4.c:449), and
  `DebugPrint` formats into one static buffer from every thread (eh4.c:12).

## 4. What is proved

For every number of threads and watchdogs, every setting and every bound
(`Eh4Proofs`, from the assumptions named in `Eh4`):

* `TypeCorrect`: `Spec => []TypeOK`, from two inductive halves, flags and the rest.
* `AtMostOneWatchdog`, `DetachLeavesNothing`, `HandlesClosedOnce`: `OneWatchdog` is not
  inductive, because a state with one live watchdog and a monitor about to create
  another satisfies it.  `WatchdogInv` says which watchdog may be alive (the one the
  handle names, or the one the monitor created and has not stored) and that the
  monitor is past its wait only when that one is dead; `HandleInv` says which handles
  are open at each step of the API.  `LostInv` counts the handles that were overwritten
  while open: the process handle once for each restart, the thread handle once for each
  attach after a detach, the other five never.
* `FrozenClientIsWatched`: `HandlerInv` and `FrozenInv` add that, undisturbed, a signalled
  event or a woken watchdog exists from `Notify` on, and that this watchdog can only
  end by ending the client.
* `ReportsAreGenuine` and `ProtocolImplementsService`: without `callPreviousHandler`
  (an ASSUME of the theorems) a frame, once live, stays live while the client is there,
  so the pointer a watchdog read is still good when it follows it; the refinement is
  proved step by step (`ServiceStep`).

About transactions (`DetoursProofs`), for any functions, hooks, pages, regions, threads and
numbers of operations.  All but the first take `~RepeatTarget` as an assumption, since what
they say is false of the other transactions (`detours_mixed`):

* `TypeCorrect`: `TypeInv` adds that no trampoline of a pending operation is zeroed before
  the last loop, for Commit reads its contents.
* `JumpsCorrect`: the chains are described from below.  A trampoline in use is `Loose` while
  no jump leads to it (its hook is not applied yet, or removed and not freed yet), otherwise
  `Live`; every function and every trampoline in use, loose ones too, jumps to a live one of the
  same function or holds the original bytes (`PatchRight`, `CopiedRight`).  To remove a
  hook without a dangling jump, nothing else may jump to its trampoline: `OneAbove` says that two
  live trampolines never copied the same jump, `NoneAboveTop` that none copied the jump that
  the function itself has, and `OperationRight` that loose ones copied just that; the code's test
  `StillThere` then separates the hook on top, which may go, from those that must be bypassed.
* `TrampolinesKept`: `DetourRight` ties each live trampoline to the variable of its hook.
* `RegionsReleased`: `EmptyOnlyAtEnd` says that a region is empty only after `freed` was set, or
  if it was refused and has not been used since.
* `ProtectionsRestored` (of the regions only with `~ProtectFails`): `PagesRight` says that an operation saved "RX"
  or a later entry of the list, which is restored after it, has the same page.
* `ThreadsSurvive` (with threads suspended): while Commit runs, a thread may stand in a trampoline
  just removed or behind bytes just overwritten (`Removed`, `Covered`); `MovedRight` shows that
  the first operation that moves it takes it to a live trampoline or to original bytes (of a
  function in `LongPrologues`: to any of them, or to bytes that are no instruction), and
  `PlacesKept` that no other step harms a place where a thread stands.

The free lists (`FreeInv`) are part of the same invariant, because Attach overwrites what it takes
from them: each starts with, and leads to, trampolines of its region not in use, no two with the
same successor.

Three more theorems are about sets reached through links (`Reached`: the least set that has the first
element and is closed under the links), for which the module says what it says without recursion:

* `HooksCalled`: `Linked` says that every live trampoline of a function is reached from the function's first
  jump.  The step lemmas (`AddChains`, `RemoveChains`, `BypassChains`, `EndOperationChains`)
  show that it survives each turn of the loops of Commit and Abort: a new hook is put in front of
  the chain, a removed one was the first of it, and a bypassed one stays in it.
* `RegionsAccount`: `AllListed` says that a usable trampoline of a region is in use or listed.
  This made the property stronger than it was: it now also says that no trampoline is lost.  That a list ends
  (`ListEnds`) is a count: its elements have different successors, none of them the first one, so
  one of finitely many has none (`FS_PigeonHole`).

* `TransactionsAreAtomic`: `Spec => ImplementsHookService`.  Under the invariant the hooks in force are those
  whose variables hold a trampoline (`InForceIsHeld`: `Linked` gives the one half, `DetourRight`, with
  the fact that a chain meets nothing but live trampolines, `MetIsLive`, the other).  With that each
  step is mapped (`BeginningService` to `UnseenService`); what an operation of Commit's loop does to its
  hook is what it was counted for, because no other operation is about the same hook
  (`HooksDiffer`), and an operation that is noted is about a hook that had none (`OneMoreAsked`).

About instruction copying (`PrologueProofs`):

* `PrologueTypeCorrect`: for any set of instructions the table's fields stay within
  their widths.
* `CopiedCodeFits`: if every instruction is at most 12 bytes long and grows as in
  `FittingInstructions`, the copy and the jump back fit.  The invariant bounds `cbCode`
  by `cbTarget` and the growth possible before the fifth byte.
* `ThreadsMoveExactly`: if also no copy shrinks (`NoneShrinks`: LOOP and JRCXZ are reported as growing by -3),
  threads are moved exactly while at most 7 bytes are replaced.  `TableExact` says that the entries
  in use are the boundaries passed so far, in increasing order on both sides, and that the rest of the table is zero; then
  the first entry that matches a thread's position is the only one.

About the disassembler (`DisassemblerProofs`), for every set of ModR/M bytes, displacements and
distances:

* `TypeCorrect`, `LengthsRight`, `OperandsSeen`: each table entry is compared with
  the architecture's rule for its opcode (`RightEntry`, `Fitting`), one class of opcodes after the other; `CopyBytesRight`
  then shows that `CopyBytes` adds the same bytes for ModR/M, SIB and displacement as
  `InstructionLength`, and the invariant `RightInv` says so of each finished instruction.  Flags carry what the prefixes
  said (`TypeInv`).
* `TargetsStay` and `GrowthReported`, for operands within reach (`OperandsInReach`): the
  argument needs nothing of the opcode tables but that every entry either has no relative
  operand or is one of two shapes (`GoodEntry`, `LookupGood`); `CopyBytesKeeps` then does the
  arithmetic for each shape, and `CopyInv` carries the result through the chain of prefixes.

The proof of the lengths found two definitions of the architecture's rules whose CASE arms overlapped
(`Immediate`, `OpcodeBytes`: an opcode under VEX and the same one without), so that they meant whichever arm TLC tried
first; they are conditionals now.

About stopping threads (`ThreadSuspendProofs`), for any number of threads, any static
buffer and any length of the lists: `TypeCorrect`, `CallerAlwaysRuns`, `EveryoneIsStopped`,
`SuspensionsAreBalanced`, `HandlesStayOpen`, `NothingIsLeftOver`.  The invariant `IInv` adds to the
type: what the walk has passed is in the buffer, refused, or the caller (`ListOrder`,
`PlaceRight`); the buffer names each thread once and within its capacity (`BufferRight`); which
handles are open and which blocks are held at each point (`OpenRight`, `BlocksRight`); and that the
threads in the buffer stand (`StoppedRight`).  `EveryoneStopped`, which is about the build that walks the
threads and a walk in which none was refused, needs all of it: a thread created during the
walk is behind every one that is already in the buffer, and when the kernel says that nothing
is behind the last one, there is no thread it could have been created by.

About regions (`RegionSearchProofs`), for any sizes that satisfy the assumptions:
`TypeCorrect` (which says that no address leaves the space however the searches wrap), `TrampolinesAreWithinReach`,
`RegionsLeaveDllRange`, `RoomIsFound`.  `IInv` says that every address tried and every region is a multiple of
`Region` (`TryRight`, `RegionsRight`), so a region that starts outside of the reserved ranges, whose
bounds are multiples too, lies outside as a whole; and that what was returned passed the
last check or was chosen from a usable region (`ResultRight`).  For `RoomIsFound`, `RoomInv` follows a
call that nothing disturbs: a search upwards never falls behind its start and one downwards that has passed its end
is above all memory (`WithinRange`), so what it allocates is accepted and only a call
that allocates nothing can fail; and the last two searches pass over nothing: the room below the
function is not above the fifth search, the room above it not below the sixth (`BelowPassed`, `AbovePassed`).  A
step of 128MB over the reserved range passes over no `Room`; a step over a block goes on at its base or end, and
where free memory comes in whole regions a block without room is not free, and ends where room begins (`Block`).
It assumes that 2GB and 128MB behind the highest user address are still addresses
(`SizeAssumption`), which is true of 64-bit Windows: nothing above it wraps around to memory.

About reports (`CrashReportProofs`), for any pages, strings, machines and exceptions:
`TypeCorrect`, `StringIsWhole`, `RegistersAreRight`, `TypesAreListed`.  That the list of types
is complete is said only of a std::exception whose what() can be read; that it is in
order, has no foreign names and gives its memory back, of all.  The strings need that a chunk
that is not readable as a whole ends in the page the mapping ends in (`PageEnd`, `MultiplesApart`); the registers, that
the sum of `EH4_CalculateXStateOffsetCompacted` is at each step the lowest place
free for the next feature (`XStateRight` with `RoomGrows` and `PlaceIsAligned`), which identifies it with
the processor's place; the types, that the list holds exactly the readable ones before
the current one (`TypesRight`).

Every safety invariant and both refinements that the runs check are stated by theorems.  Only model-checked: the
liveness properties (fairness and ENABLED are out of the prover's reach).  The violations are
TLC's counterexamples.

## 5. Not modelled

* The x86 tables and the ARM64 half of `Disassembler.c`, `ppTarget`, which no caller asks
  for (and with it `CopyFF`'s read of an import's address), jump following
  (`detour_skip_jmp`), of which `RegionSearch` knows only where it leads.
* `SlimDetoursUninitialize`, which nothing calls.
* The dispatcher hook (`kiuserexceptiondispatcher.asm`): its installation is commented out
  (eh4.c:446).
* Register tables, unwinding stubs, the GNU C++ decoder (empty), text and layout of logs: they
  keep no state.
* Vendored code (cJSON, phnt): cJSON is not called by what is modelled, and phnt declares the
  native API.  Most lines of the repository are theirs.

## 6. Plan

1. Done: the protocol (`Eh4`, `CrashService`), hook transactions (`Detours`, `HookService`), instruction
   copying (`Prologue`, `Disassembler`), stopping threads (`ThreadSuspend`), the search for regions
   (`RegionSearch`) and the report (`CrashReport`), each with proofs of all its safety invariants.
2. Next: the decoding of jumps by `detour_skip_jmp`, of which `RegionSearch` knows only where it
   leads; then the composition of `ThreadSuspend` with `Detours`.
