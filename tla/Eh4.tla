--------------------------------- MODULE Eh4 ---------------------------------
(***************************************************************************)
(* The crash handling protocol of EH4: the client library (src/eh4.c), the *)
(* monitor thread it runs inside the client, and the external watchdog     *)
(* process (src/watchdog/main.c, src/watchdog/process.c).                  *)
(*                                                                         *)
(* Actors: the thread that calls EH4_Attach and EH4_Detach (mainpc), the   *)
(* monitor thread EH4_AgentWatchdogProc (monitor), the threads of the      *)
(* program that may crash (pc), and the watchdog processes (wd).  They     *)
(* share the library's globals, its kernel handles and two auto-reset      *)
(* events.  NtSuspendProcess stops every actor but the watchdogs.          *)
(***************************************************************************)
EXTENDS Naturals, FiniteSets

CONSTANTS
    Threads,              \* the threads of the client program
    Watchdogs,            \* identities a watchdog process may take
    CallPrevious,         \* the values of EH4_SETTINGS.callPreviousHandler tried
    MaySmashStack,        \* whether a crash may be impossible to dispatch
    DispatcherReturn,     \* return address of ZwRaiseException's call in ntdll
    MaxKills,             \* watchdogs killed from outside, at most
    MaxDetaches,          \* calls of EH4_Detach, at most
    None,                 \* nothing: no thread, no watchdog, a null pointer
    Garbage               \* memory that is not an exception frame

ASSUME ThreadsAssumption ==
    /\ None \notin Threads /\ Garbage \notin Threads /\ None # Garbage
    /\ None \notin Watchdogs
ASSUME SettingsAssumption ==
    CallPrevious \subseteq BOOLEAN /\ MaySmashStack \in BOOLEAN
ASSUME BoundsAssumption == MaxKills \in Nat /\ MaxDetaches \in Nat
\* Windows maps no module into the first 64 KiB of the address space.
ASSUME AddressAssumption == DispatcherReturn \in Nat /\ DispatcherReturn >= 65536

VARIABLES
    client,          \* the client process, and how it ended
    suspended,       \* NtSuspendProcess took effect on it
    mainpc,          \* where the thread calling EH4_Attach / EH4_Detach is
    monitor,         \* where EH4_AgentWatchdogProc is
    callPrev,        \* g_settings.callPreviousHandler
    stopFlag,        \* g_bStopFlag
    filter,          \* EH4_UnhandledExceptionHandler is the top-level filter
    stored,          \* g_pStoredExceptionInformation: whose frame it points to
    hWatchdog,       \* g_hExceptionHandlerWatchdogProcess
    created,         \* pi.hProcess of the monitor
    open,            \* the global handles that are open
    lost,            \* open handles that no global holds any more, by the one that did
    crashEvent,      \* the crash notification event is signalled
    startedEvent,    \* the start event is signalled
    pc,              \* where each thread is in EH4_UnhandledExceptionHandler
    wd,              \* where each watchdog process is in its main
    wptr,            \* pRemoteCrashInfo of each watchdog
    report,          \* history: the thread the last report is about
    raised,          \* history: threads that crashed while EH4 was attached
    kills,           \* history: watchdogs killed from outside
    detaches,        \* history: calls of EH4_Detach
    restarts,        \* history: watchdogs the monitor restarted
    restartFailed,   \* history: the monitor could not restart a watchdog
    badClose         \* history: a handle was closed that was not open

vars == <<client, suspended, mainpc, monitor, callPrev, stopFlag, filter, stored,
          hWatchdog, created, open, lost, crashEvent, startedEvent, pc, wd, wptr,
          report, raised, kills, detaches, restarts, restartFailed, badClose>>

-----------------------------------------------------------------------------
(* The order in which EH4_Attach acquires its handles. *)
AcquireOrder == <<"CrashNotificationEvent", "StartedEvent", "CurrentProcess",
                  "CrashNotificationEventHandle", "StartedEventHandle">>

(* The five handles closed together on every path that gives up after they
   were all acquired. *)
FiveHandles == {AcquireOrder[i] : i \in 1..5}

Handles == FiveHandles \cup {"WatchdogProcess", "WatchdogThread"}

(* A process of the client that is alive and not suspended can take steps. *)
Running == client = "running" /\ ~suspended

(* WaitForSingleObject on a process handle returns once the process is dead. *)
Alive(w) == wd[w] \notin {"none", "dead"}

(* A thread's EXCEPTION_POINTERS and EH4_CRASHINFO live on its stack, from the
   moment the handler wrote them until it returns. *)
FrameLive(t) == pc[t] \in {"notify", "suspend", "after"}

(* CreateProcessW: a process starts in main under a name that is not in use; it
   inherits the handles of the client.  A dead process of which only a lost handle is
   left gives up its name here: the code cannot refer to it any more. *)
CanStart(w) == ~Alive(w) /\ w # hWatchdog
Started(w) == [wd EXCEPT ![w] = "starting"]

(* CloseHandle of each handle of S: remembers a close of one not open. *)
CloseHandles(S) ==
    /\ open' = open \ S
    /\ badClose' = (badClose \/ ~(S \subseteq open))

(* The globals of S are assigned; those that are open are so for good. *)
Overwrite(S) ==
    lost' = [h \in Handles |-> IF h \in S \cap open THEN lost[h] + 1 ELSE lost[h]]

(* g_pfnKiUserExceptionDispatcher stays NULL: the only call that would resolve
   it is commented out in EH4_Attach. *)
KiUserExceptionDispatcher == 0

(* The distance test of EH4_ZwRaiseException_Hook. *)
CameFromDispatcher ==
    LET Distance == DispatcherReturn - KiUserExceptionDispatcher
    IN  Distance >= 0 /\ Distance < 128

(* g_pfnNtResumeProcess stays NULL: ResumeProcess, which would resolve it, is
   never called. *)
NtResumeProcessResolved == FALSE

-----------------------------------------------------------------------------
Init ==
    /\ client = "running" /\ suspended = FALSE
    /\ mainpc = "detached" /\ monitor = "none"
    /\ callPrev = FALSE /\ stopFlag = FALSE /\ filter = FALSE
    /\ stored = None /\ hWatchdog = None /\ created = None
    /\ open = {} /\ lost = [h \in Handles |-> 0] /\ crashEvent = FALSE /\ startedEvent = FALSE
    /\ pc = [t \in Threads |-> "run"]
    /\ wd = [w \in Watchdogs |-> "none"]
    /\ wptr = [w \in Watchdogs |-> None]
    /\ report = None /\ raised = {}
    /\ kills = 0 /\ detaches = 0 /\ restarts = 0
    /\ restartFailed = FALSE /\ badClose = FALSE

handleVars == <<open, lost>>
threadVars == <<pc, stored, raised>>
watchdogVars == <<wptr, report, kills>>
monitorVars == <<monitor, created, restarts, restartFailed>>

-----------------------------------------------------------------------------
(* Faulty variants of the definitions below, each a bug the code could have had.
   The specification uses none of them; every property is shown to reject one. *)

(* An error path of EH4_Attach that forgets the first event. *)
WrongClosedOnFailure(k) == {AcquireOrder[i] : i \in 2..(k - 1)}

(* EH4_Detach that does not set the stop flag. *)
WrongDetachBegin ==
    /\ Running /\ mainpc = "attached" /\ detaches < MaxDetaches
    /\ detaches' = detaches + 1
    /\ mainpc' = "unfilter"
    /\ UNCHANGED <<client, suspended, callPrev, stopFlag, filter, hWatchdog, handleVars,
                   crashEvent, startedEvent, wd, badClose, threadVars,
                   watchdogVars, monitorVars>>

(* EH4_Detach that does not wait for the monitor thread. *)
WrongDetachJoin ==
    /\ Running /\ mainpc = "join"
    /\ mainpc' = "close"
    /\ UNCHANGED <<client, suspended, callPrev, stopFlag, filter, hWatchdog, handleVars,
                   crashEvent, startedEvent, wd, detaches, badClose, threadVars,
                   watchdogVars, monitorVars>>

(* A monitor that cleans up as well when it is told to stop. *)
WrongMonitorCheck ==
    /\ Running /\ monitor = "check"
    /\ monitor' = IF stopFlag THEN "exited" ELSE "create"
    /\ CloseHandles(IF stopFlag THEN FiveHandles ELSE {})
    /\ UNCHANGED <<client, suspended, mainpc, callPrev, stopFlag, filter, hWatchdog,
                   created, lost, crashEvent, startedEvent, wd, detaches, restarts,
                   restartFailed, threadVars, watchdogVars>>

(* A monitor that reads the stop flag the wrong way round. *)
InvertedMonitorCheck ==
    /\ Running /\ monitor = "check"
    /\ monitor' = IF stopFlag THEN "create" ELSE "exited"
    /\ UNCHANGED <<client, suspended, mainpc, callPrev, stopFlag, filter, hWatchdog,
                   created, handleVars, crashEvent, startedEvent, wd, detaches,
                   restarts, restartFailed, badClose, threadVars, watchdogVars>>

(* A handler that notifies the watchdog before it has stored anything. *)
WrongCrash(t) ==
    /\ Running /\ pc[t] = "run" /\ filter
    /\ pc' = [pc EXCEPT ![t] = "store"]
    /\ raised' = raised \cup {t}
    /\ crashEvent' = (crashEvent \/ "CrashNotificationEvent" \in open)
    /\ UNCHANGED <<client, suspended, mainpc, callPrev, stopFlag, filter, stored,
                   hWatchdog, handleVars, startedEvent, wd, detaches,
                   badClose, watchdogVars, monitorVars>>

(* A watchdog that terminates the client before it has read anything. *)
WrongWakeOnCrash(w) ==
    /\ wd[w] = "waiting" /\ crashEvent
    /\ wd' = [wd EXCEPT ![w] = "woken"]
    /\ crashEvent' = FALSE
    /\ client' = IF client = "running" THEN "terminated" ELSE client
    /\ UNCHANGED <<suspended, mainpc, callPrev, stopFlag, filter, hWatchdog,
                   handleVars, startedEvent, detaches, badClose, threadVars,
                   watchdogVars, monitorVars>>

(* A watchdog that only notices a client that exits by itself. *)
WrongWakeOnClientExit(w) ==
    /\ wd[w] = "waiting" /\ ~crashEvent /\ client = "exited"
    /\ wd' = [wd EXCEPT ![w] = "dead"]
    /\ UNCHANGED <<client, suspended, mainpc, callPrev, stopFlag, filter, hWatchdog,
                   handleVars, crashEvent, startedEvent, detaches, badClose, threadVars,
                   watchdogVars, monitorVars>>

(* A watchdog that tests callPreviousHandler the wrong way round. *)
WrongFinish(w) ==
    /\ wd[w] = "reported"
    /\ wd' = [wd EXCEPT ![w] = "dead"]
    /\ client' = IF client = "running" /\ callPrev THEN "terminated" ELSE client
    /\ UNCHANGED <<suspended, mainpc, callPrev, stopFlag, filter, hWatchdog, handleVars,
                   crashEvent, startedEvent, detaches, badClose, threadVars,
                   watchdogVars, monitorVars>>

-----------------------------------------------------------------------------
(* EH4_Attach *)

(* The handles EH4_Attach holds when its k-th acquisition fails. *)
Acquired(k) == {AcquireOrder[i] : i \in 1..(k - 1)}

(* What the error path after the k-th acquisition failed closes: everything
   acquired before it. *)
ClosedOnFailure(k) == {AcquireOrder[i] : i \in 1..(k - 1)}

(* Settings are copied, then the five handles are acquired; the k-th may fail
   (k = 0: ntdll.dll or NtSuspendProcess was not found). *)
AttachAcquire ==
    /\ Running /\ mainpc = "detached"
    /\ callPrev' \in CallPrevious
    /\ \/ /\ \E k \in 0..5 :
               /\ Overwrite(Acquired(k))
               /\ open' = (open \cup Acquired(k)) \ ClosedOnFailure(k)
          /\ UNCHANGED <<mainpc, crashEvent, startedEvent>>
       \/ /\ Overwrite(FiveHandles)
          /\ open' = open \cup FiveHandles
          /\ crashEvent' = FALSE /\ startedEvent' = FALSE
          /\ mainpc' = "spawn"
    /\ UNCHANGED <<client, suspended, stopFlag, filter, hWatchdog, wd, detaches,
                   badClose, threadVars, watchdogVars, monitorVars>>

(* CreateProcessW of the first watchdog, or its error path. *)
AttachSpawn ==
    /\ Running /\ mainpc = "spawn"
    /\ \/ \E w \in Watchdogs :
             /\ CanStart(w)
             /\ wd' = Started(w) /\ hWatchdog' = w
             /\ Overwrite({"WatchdogProcess"})
             /\ open' = open \cup {"WatchdogProcess"}
             /\ mainpc' = "thread"
             /\ UNCHANGED badClose
       \/ /\ CloseHandles(FiveHandles)
          /\ mainpc' = "detached"
          /\ UNCHANGED <<wd, hWatchdog, lost>>
    /\ UNCHANGED <<client, suspended, callPrev, stopFlag, filter, crashEvent,
                   startedEvent, detaches, threadVars, watchdogVars, monitorVars>>

(* The stop flag is cleared, then CreateThread of the monitor, or its error path,
   which terminates the watchdog.  Either way the handle of the monitor of an earlier
   attach, which EH4_Detach does not close, is overwritten. *)
AttachThread ==
    /\ Running /\ mainpc = "thread"
    /\ stopFlag' = FALSE
    /\ Overwrite({"WatchdogThread"})
    /\ \/ /\ monitor' = "wait" /\ mainpc' = "hello"
          /\ open' = open \cup {"WatchdogThread"}
          /\ UNCHANGED <<wd, badClose>>
       \/ /\ wd' = [wd EXCEPT ![hWatchdog] = "dead"]
          /\ open' = open \ Handles
          /\ badClose' = (badClose \/ ~(Handles \ {"WatchdogThread"} \subseteq open))
          /\ mainpc' = "detached"
          /\ UNCHANGED monitor
    /\ UNCHANGED <<client, suspended, callPrev, filter, hWatchdog, crashEvent,
                   startedEvent, created, restarts, restartFailed, detaches, threadVars,
                   watchdogVars>>

(* WaitForSingleObject(g_hStartedEvent): blocks on the event, or fails at once
   when the monitor has closed the handle already. *)
AttachWait ==
    /\ Running /\ mainpc = "hello"
    /\ mainpc' = IF "StartedEvent" \in open THEN "waiting" ELSE "filter"
    /\ UNCHANGED <<client, suspended, callPrev, stopFlag, filter, hWatchdog, handleVars,
                   crashEvent, startedEvent, wd, detaches, badClose, threadVars,
                   watchdogVars, monitorVars>>

(* The wait ends and consumes the auto-reset event. *)
AttachHello ==
    /\ Running /\ mainpc = "waiting" /\ startedEvent
    /\ startedEvent' = FALSE
    /\ mainpc' = "filter"
    /\ UNCHANGED <<client, suspended, callPrev, stopFlag, filter, hWatchdog, handleVars,
                   crashEvent, wd, detaches, badClose, threadVars, watchdogVars,
                   monitorVars>>

(* EH4_InstallRaiseHook, whose result is ignored and whose hook never
   recognises a crash, then SetUnhandledExceptionFilter. *)
AttachFilter ==
    /\ Running /\ mainpc = "filter"
    /\ filter' = TRUE
    /\ mainpc' = "attached"
    /\ UNCHANGED <<client, suspended, callPrev, stopFlag, hWatchdog, handleVars,
                   crashEvent, startedEvent, wd, detaches, badClose, threadVars,
                   watchdogVars, monitorVars>>

-----------------------------------------------------------------------------
(* EH4_Detach *)

DetachBegin ==
    /\ Running /\ mainpc = "attached" /\ detaches < MaxDetaches
    /\ stopFlag' = TRUE
    /\ detaches' = detaches + 1
    /\ mainpc' = "unfilter"
    /\ UNCHANGED <<client, suspended, callPrev, filter, hWatchdog, handleVars,
                   crashEvent, startedEvent, wd, badClose, threadVars,
                   watchdogVars, monitorVars>>

(* The previous filter is put back, then EH4_RemoveRaiseHook and SetErrorMode. *)
DetachUnfilter ==
    /\ Running /\ mainpc = "unfilter"
    /\ filter' = FALSE
    /\ mainpc' = "terminate"
    /\ UNCHANGED <<client, suspended, callPrev, stopFlag, hWatchdog, handleVars,
                   crashEvent, startedEvent, wd, detaches, badClose, threadVars,
                   watchdogVars, monitorVars>>

(* TerminateProcess of the watchdog the global handle names now. *)
DetachTerminate ==
    /\ Running /\ mainpc = "terminate"
    /\ wd' = [wd EXCEPT ![hWatchdog] = "dead"]
    /\ mainpc' = "join"
    /\ UNCHANGED <<client, suspended, callPrev, stopFlag, filter, hWatchdog, handleVars,
                   crashEvent, startedEvent, detaches, badClose, threadVars,
                   watchdogVars, monitorVars>>

(* WaitForSingleObject(g_hWatchdogThread). *)
DetachJoin ==
    /\ Running /\ mainpc = "join" /\ monitor = "exited"
    /\ mainpc' = "close"
    /\ UNCHANGED <<client, suspended, callPrev, stopFlag, filter, hWatchdog, handleVars,
                   crashEvent, startedEvent, wd, detaches, badClose, threadVars,
                   watchdogVars, monitorVars>>

(* The six CloseHandle calls; g_hWatchdogThread is not among them. *)
DetachClose ==
    /\ Running /\ mainpc = "close"
    /\ CloseHandles(FiveHandles \cup {"WatchdogProcess"})
    /\ mainpc' = "detached"
    /\ UNCHANGED <<client, suspended, callPrev, stopFlag, filter, hWatchdog, lost,
                   crashEvent, startedEvent, wd, detaches, threadVars,
                   watchdogVars, monitorVars>>

-----------------------------------------------------------------------------
(* EH4_AgentWatchdogProc *)

MonitorWait ==
    /\ Running /\ monitor = "wait" /\ ~Alive(hWatchdog)
    /\ monitor' = "check"
    /\ UNCHANGED <<client, suspended, mainpc, callPrev, stopFlag, filter, hWatchdog,
                   created, handleVars, crashEvent, startedEvent, wd, detaches,
                   restarts, restartFailed, badClose, threadVars, watchdogVars>>

MonitorCheck ==
    /\ Running /\ monitor = "check"
    /\ monitor' = IF stopFlag THEN "exited" ELSE "create"
    /\ UNCHANGED <<client, suspended, mainpc, callPrev, stopFlag, filter, hWatchdog,
                   created, handleVars, crashEvent, startedEvent, wd, detaches,
                   restarts, restartFailed, badClose, threadVars, watchdogVars>>

(* CreateProcessW of a new watchdog, or its error path, after which the monitor
   thread returns. *)
MonitorCreate ==
    /\ Running /\ monitor = "create"
    /\ \/ \E w \in Watchdogs :
             /\ CanStart(w)
             /\ wd' = Started(w) /\ created' = w
             /\ monitor' = "store"
             /\ restarts' = restarts + 1
             /\ UNCHANGED <<open, badClose, restartFailed>>
       \/ /\ CloseHandles(FiveHandles)
          /\ restartFailed' = TRUE
          /\ monitor' = "exited"
          /\ UNCHANGED <<wd, created, restarts>>
    /\ UNCHANGED <<client, suspended, mainpc, callPrev, stopFlag, filter, hWatchdog, lost,
                   crashEvent, startedEvent, detaches, threadVars, watchdogVars>>

(* The new process handle overwrites the global one, which is not closed: the handle
   of the dead watchdog stays open, and nothing can close it. *)
MonitorStore ==
    /\ Running /\ monitor = "store"
    /\ hWatchdog' = created
    /\ Overwrite({"WatchdogProcess"})
    /\ monitor' = "wait"
    /\ UNCHANGED <<client, suspended, mainpc, callPrev, stopFlag, filter, created,
                   open, crashEvent, startedEvent, wd, detaches, restarts, restartFailed,
                   badClose, threadVars, watchdogVars>>

-----------------------------------------------------------------------------
(* The threads of the program *)

(* An unhandled exception reaches the top-level filter of EH4. *)
Crash(t) ==
    /\ Running /\ pc[t] = "run" /\ filter
    /\ pc' = [pc EXCEPT ![t] = "store"]
    /\ raised' = raised \cup {t}
    /\ UNCHANGED <<client, suspended, mainpc, callPrev, stopFlag, filter, stored,
                   hWatchdog, handleVars, crashEvent, startedEvent, wd, detaches,
                   badClose, watchdogVars, monitorVars>>

(* An exception that cannot be dispatched (a smashed stack) skips the filter and
   comes out of ZwRaiseException.  The hook passes it on: its distance test
   fails, and the system ends the process. *)
RaiseException(t) ==
    /\ Running /\ pc[t] = "run" /\ filter /\ MaySmashStack
    /\ ~CameFromDispatcher
    /\ raised' = raised \cup {t}
    /\ client' = "crashed"
    /\ UNCHANGED <<suspended, mainpc, callPrev, stopFlag, filter, stored, pc,
                   hWatchdog, handleVars, crashEvent, startedEvent, wd, detaches,
                   badClose, watchdogVars, monitorVars>>

(* The handler fills CrashInfo and publishes its address. *)
StoreCrashInfo(t) ==
    /\ Running /\ pc[t] = "store"
    /\ stored' = t
    /\ pc' = [pc EXCEPT ![t] = "notify"]
    /\ UNCHANGED <<client, suspended, mainpc, callPrev, stopFlag, filter, raised,
                   hWatchdog, handleVars, crashEvent, startedEvent, wd, detaches,
                   badClose, watchdogVars, monitorVars>>

(* SetEvent(g_hCrashNotificationEvent): fails silently on a closed handle. *)
Notify(t) ==
    /\ Running /\ pc[t] = "notify"
    /\ crashEvent' = (crashEvent \/ "CrashNotificationEvent" \in open)
    /\ pc' = [pc EXCEPT ![t] = "suspend"]
    /\ UNCHANGED <<client, suspended, mainpc, callPrev, stopFlag, filter, stored,
                   raised, hWatchdog, handleVars, startedEvent, wd, detaches, badClose,
                   watchdogVars, monitorVars>>

(* NtSuspendProcess(g_hCurrentProcess): fails silently on a closed handle. *)
Suspend(t) ==
    /\ Running /\ pc[t] = "suspend"
    /\ suspended' = (suspended \/ "CurrentProcess" \in open)
    /\ pc' = [pc EXCEPT ![t] = "after"]
    /\ UNCHANGED <<client, mainpc, callPrev, stopFlag, filter, stored, raised,
                   hWatchdog, handleVars, crashEvent, startedEvent, wd, detaches,
                   badClose, watchdogVars, monitorVars>>

(* The handler returns: the process ends, unless the previous filter had the
   thread continue. *)
Return(t) ==
    /\ Running /\ pc[t] = "after"
    /\ \/ /\ client' = "crashed"
          /\ UNCHANGED pc
       \/ /\ callPrev
          /\ pc' = [pc EXCEPT ![t] = "run"]
          /\ UNCHANGED client
    /\ UNCHANGED <<suspended, mainpc, callPrev, stopFlag, filter, stored, raised,
                   hWatchdog, handleVars, crashEvent, startedEvent, wd, detaches,
                   badClose, watchdogVars, monitorVars>>

(* The program ends by itself. *)
ClientExit ==
    /\ Running
    /\ client' = "exited"
    /\ UNCHANGED <<suspended, mainpc, callPrev, stopFlag, filter, hWatchdog, handleVars,
                   crashEvent, startedEvent, wd, detaches, badClose, threadVars,
                   watchdogVars, monitorVars>>

-----------------------------------------------------------------------------
(* The watchdog process *)

(* SetEvent(hStartEvent), through the inherited handle. *)
Hello(w) ==
    /\ wd[w] = "starting"
    /\ wd' = [wd EXCEPT ![w] = "waiting"]
    /\ startedEvent' = TRUE
    /\ UNCHANGED <<client, suspended, mainpc, callPrev, stopFlag, filter, hWatchdog,
                   handleVars, crashEvent, detaches, badClose, threadVars, watchdogVars,
                   monitorVars>>

(* WaitForMultipleObjects returns the lowest signalled index: the crash event,
   which the wait resets, before the end of the client. *)
WakeOnCrash(w) ==
    /\ wd[w] = "waiting" /\ crashEvent
    /\ wd' = [wd EXCEPT ![w] = "woken"]
    /\ crashEvent' = FALSE
    /\ UNCHANGED <<client, suspended, mainpc, callPrev, stopFlag, filter, hWatchdog,
                   handleVars, startedEvent, detaches, badClose, threadVars,
                   watchdogVars, monitorVars>>

WakeOnClientExit(w) ==
    /\ wd[w] = "waiting" /\ ~crashEvent /\ client # "running"
    /\ wd' = [wd EXCEPT ![w] = "dead"]
    /\ UNCHANGED <<client, suspended, mainpc, callPrev, stopFlag, filter, hWatchdog,
                   handleVars, crashEvent, startedEvent, detaches, badClose, threadVars,
                   watchdogVars, monitorVars>>

(* The first ReadProcessMemory of EH4_ProcessException; a failed read leaves the
   local variable uninitialised. *)
ReadPointer(w) ==
    /\ wd[w] = "woken"
    /\ wptr' = [wptr EXCEPT ![w] = IF client = "running" THEN stored ELSE Garbage]
    /\ wd' = [wd EXCEPT ![w] = "reading"]
    /\ UNCHANGED <<client, suspended, mainpc, callPrev, stopFlag, filter, hWatchdog,
                   handleVars, crashEvent, startedEvent, detaches, badClose, report,
                   kills, threadVars, monitorVars>>

(* The other reads and the report made of what they returned. *)
ReadFrame(w) ==
    /\ wd[w] = "reading"
    /\ report' = IF /\ client = "running"
                    /\ wptr[w] \in Threads
                    /\ FrameLive(wptr[w])
                 THEN wptr[w] ELSE Garbage
    /\ wd' = [wd EXCEPT ![w] = "reported"]
    /\ UNCHANGED <<client, suspended, mainpc, callPrev, stopFlag, filter, hWatchdog,
                   handleVars, crashEvent, startedEvent, detaches, badClose, wptr,
                   kills, threadVars, monitorVars>>

(* The client is terminated or, with callPreviousHandler, resumed through
   g_pfnNtResumeProcess: a null pointer, so the call ends the watchdog. *)
Finish(w) ==
    /\ wd[w] = "reported"
    /\ wd' = [wd EXCEPT ![w] = "dead"]
    /\ client' = IF client = "running" /\ ~callPrev THEN "terminated" ELSE client
    /\ suspended' = (suspended /\ ~(callPrev /\ NtResumeProcessResolved))
    /\ UNCHANGED <<mainpc, callPrev, stopFlag, filter, hWatchdog, handleVars, crashEvent,
                   startedEvent, detaches, badClose, threadVars, watchdogVars,
                   monitorVars>>

(* Something outside ends a watchdog. *)
Kill(w) ==
    /\ Alive(w) /\ kills < MaxKills
    /\ wd' = [wd EXCEPT ![w] = "dead"]
    /\ kills' = kills + 1
    /\ UNCHANGED <<client, suspended, mainpc, callPrev, stopFlag, filter, hWatchdog,
                   handleVars, crashEvent, startedEvent, detaches, badClose, wptr,
                   report, threadVars, monitorVars>>

-----------------------------------------------------------------------------
(* EH4_Attach and EH4_Detach once they have been called. *)
ApiStep ==
    \/ AttachSpawn \/ AttachThread \/ AttachWait \/ AttachHello \/ AttachFilter
    \/ DetachUnfilter \/ DetachTerminate \/ DetachJoin \/ DetachClose

MonitorStep == MonitorWait \/ MonitorCheck \/ MonitorCreate \/ MonitorStore

HandlerStep(t) == StoreCrashInfo(t) \/ Notify(t) \/ Suspend(t) \/ Return(t)

WatchdogStep(w) ==
    \/ Hello(w) \/ WakeOnCrash(w) \/ WakeOnClientExit(w)
    \/ ReadPointer(w) \/ ReadFrame(w) \/ Finish(w)

Next ==
    \/ AttachAcquire \/ DetachBegin \/ ApiStep
    \/ MonitorStep
    \/ \E t \in Threads : Crash(t) \/ RaiseException(t) \/ HandlerStep(t)
    \/ ClientExit
    \/ \E w \in Watchdogs : WatchdogStep(w) \/ Kill(w)

Spec == Init /\ [][Next]_vars

(* The scheduler runs every thread of a process that is not suspended, and
   every watchdog process.  Nothing makes the program call EH4, crash or exit,
   and nothing makes a watchdog be killed. *)
Fairness ==
    /\ WF_vars(ApiStep) /\ WF_vars(MonitorStep)
    /\ \A t \in Threads : WF_vars(HandlerStep(t))
    /\ \A w \in Watchdogs : WF_vars(WatchdogStep(w))

FairSpec == Spec /\ Fairness

-----------------------------------------------------------------------------
(* The variables that hold truth values. *)
FlagsType ==
    /\ suspended \in BOOLEAN /\ callPrev \in BOOLEAN /\ stopFlag \in BOOLEAN
    /\ filter \in BOOLEAN /\ crashEvent \in BOOLEAN /\ startedEvent \in BOOLEAN
    /\ restartFailed \in BOOLEAN /\ badClose \in BOOLEAN

(* The program counters, the handles and what pointers point to. *)
StateType ==
    /\ client \in {"running", "exited", "crashed", "terminated"}
    /\ mainpc \in {"detached", "spawn", "thread", "hello", "waiting", "filter",
                   "attached", "unfilter", "terminate", "join", "close"}
    /\ monitor \in {"none", "wait", "check", "create", "store", "exited"}
    /\ stored \in Threads \cup {None}
    /\ hWatchdog \in Watchdogs \cup {None} /\ created \in Watchdogs \cup {None}
    /\ open \subseteq Handles /\ lost \in [Handles -> Nat]
    /\ pc \in [Threads -> {"run", "store", "notify", "suspend", "after"}]
    /\ wd \in [Watchdogs -> {"none", "starting", "waiting", "woken", "reading",
                             "reported", "dead"}]
    /\ wptr \in [Watchdogs -> Threads \cup {None, Garbage}]
    /\ report \in Threads \cup {None, Garbage}
    /\ raised \subseteq Threads
    /\ kills \in Nat /\ detaches \in Nat /\ restarts \in Nat

(* The values the globals of src/eh4.c:31-43, the handles and the program
   counters of the client's threads and of src/watchdog/main.c take. *)
TypeOK == FlagsType /\ StateType

(* At no time are two watchdog processes alive: the monitor only starts one when
   the last one is dead, and EH4_Detach leaves no monitor behind that could
   start one next to the watchdog of a later EH4_Attach. *)
OneWatchdog ==
    \A v, w \in Watchdogs : Alive(v) /\ Alive(w) => v = w

(* The handles of monitor threads that are open, lost or not. *)
ThreadHandles == lost["WatchdogThread"] + IF "WatchdogThread" \in open THEN 1 ELSE 0

(* While EH4 is not attached, after EH4_Detach returned or EH4_Attach failed, no
   watchdog is alive, no monitor thread runs and the filter is gone.  Of the handles,
   just those are still open that the code never closes: one of the ended monitor
   thread for each detach (eh4.c:463), and one of the dead watchdog for each that the
   monitor replaced (eh4.c:285), whatever failed in between. *)
DetachedIsClean ==
    mainpc = "detached" =>
        /\ \A w \in Watchdogs : ~Alive(w)
        /\ monitor \in {"none", "exited"}
        /\ ~filter
        /\ open \subseteq {"WatchdogThread"}
        /\ ThreadHandles = detaches /\ lost["WatchdogProcess"] = restarts
        /\ \A h \in FiveHandles : lost[h] = 0

(* Every handle EH4 closes is open when it closes it, unless the monitor failed
   to restart a watchdog: its error path closes what EH4_Detach closes again. *)
NoDoubleClose == badClose => restartFailed

(* A suspended client is being looked after: as long as no watchdog was killed,
   EH4_Detach was not called and the previous handler is not asked for, a
   watchdog is alive that has been woken by the crash or is about to be. *)
FrozenIsWatched ==
    (suspended /\ client = "running" /\ kills = 0 /\ detaches = 0 /\ ~callPrev) =>
        \E w \in Watchdogs :
            /\ Alive(w)
            /\ crashEvent \/ wd[w] \in {"woken", "reading", "reported"}

(* What a watchdog reports of a client that is still there is the frame of a
   thread inside the handler, whatever other threads crash at the same time
   and whichever pointer the watchdog happened to read. *)
ReportIsGenuine ==
    client = "running" /\ report # None =>
        report \in Threads /\ FrameLive(report)

(* The protocol implements the service: the frames in memory are the crashes
   announced, and suspending the client is holding it. *)
Service == INSTANCE CrashService WITH
    process <- IF client # "running" THEN "gone"
               ELSE IF suspended THEN "held" ELSE "running",
    crashed <- {t \in Threads : FrameLive(t)}

ImplementsService == Service!ServiceSpec

(* A suspended client is reported and ended by its watchdog, unless a watchdog
   was killed or EH4 detached. *)
CrashReported ==
    suspended ~> \/ report \in Threads /\ client = "terminated"
                 \/ kills > 0 \/ detaches > 0

(* A call of EH4_Attach returns, unless the client stops first or the monitor
   gave up restarting a watchdog that never said hello.  One of EH4_Detach returns,
   unless the client stops first or a watchdog was killed, which may leave the
   monitor waiting for a new one that nobody ends. *)
ApiReturns ==
    /\ mainpc \in {"spawn", "thread", "hello", "waiting", "filter"} ~>
        \/ mainpc \in {"attached", "detached"}
        \/ ~Running \/ restartFailed
    /\ mainpc \in {"unfilter", "terminate", "join", "close"} ~>
        mainpc = "detached" \/ ~Running \/ kills > 0

(* A watchdog that was killed is replaced by one that listens, unless the client
   stops, EH4 is being detached or the new process cannot be created. *)
WatchdogRestored ==
    (monitor = "wait" /\ ~Alive(hWatchdog)) ~>
        \/ \E w \in Watchdogs : wd[w] = "waiting"
        \/ ~Running \/ stopFlag \/ restartFailed

(* No watchdog outlives its client for ever. *)
WatchdogFollowsClient ==
    client # "running" ~> \A w \in Watchdogs : ~Alive(w)

(* src/README.md:17 "it will *always* try to get you feedback, so that you know
   your program has crashed": a crash of an attached program that does not end
   by itself is reported, unless the system refuses to create a watchdog. *)
AlwaysFeedback ==
    raised # {} ~> \/ report \in Threads
                   \/ client = "exited" \/ restartFailed

(* src/include/eh4.h:21 "Call the previously set unhandled exception filter
   afterwards": a client suspended for its report is resumed to do so. *)
PreviousHandlerCalled ==
    (suspended /\ callPrev /\ client = "running") ~> ~suspended
=============================================================================
