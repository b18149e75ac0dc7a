------------------------------ MODULE Eh4Proofs ------------------------------
(***************************************************************************)
(* Proofs about the protocol of module Eh4, for any number of threads and  *)
(* watchdogs, any settings and any bounds.                                 *)
(***************************************************************************)
EXTENDS Eh4, TLAPS

USE DEF handleVars, threadVars, watchdogVars, monitorVars

(* The handles by name. *)
LEMMA FiveHandlesByName ==
    FiveHandles = {"CrashNotificationEvent", "StartedEvent", "CurrentProcess",
                   "CrashNotificationEventHandle", "StartedEventHandle"}
<1>1. 1..5 = {1, 2, 3, 4, 5}
  BY SMT
<1>2. QED
  BY <1>1, SMT DEF FiveHandles, AcquireOrder

(* A failing EH4_Attach closes exactly what it had acquired, all of it handles. *)
LEMMA FailedAcquisition ==
    ASSUME NEW k \in 0..5
    PROVE  Acquired(k) = ClosedOnFailure(k)
BY DEF Acquired, ClosedOnFailure

-----------------------------------------------------------------------------
(* The truth values stay truth values. *)
LEMMA FlagsStep == FlagsType /\ [Next]_vars => FlagsType'
<1> SUFFICES ASSUME FlagsType, [Next]_vars PROVE FlagsType'
  OBVIOUS
<1>1. CASE AttachAcquire
  <2>1. callPrev' \in BOOLEAN
    BY <1>1, SettingsAssumption DEF AttachAcquire
  <2>2. QED
    BY <1>1, <2>1, Zenon DEF AttachAcquire, FlagsType
<1>2. CASE ApiStep
  BY <1>2, Zenon DEF ApiStep, AttachSpawn, AttachThread, AttachWait, AttachHello,
     AttachFilter, DetachUnfilter, DetachTerminate, DetachJoin, DetachClose,
     CloseHandles, FlagsType
<1>3. CASE DetachBegin \/ ClientExit
  BY <1>3, Zenon DEF DetachBegin, ClientExit, FlagsType
<1>4. CASE MonitorStep
  BY <1>4, Zenon DEF MonitorStep, MonitorWait, MonitorCheck, MonitorCreate,
     MonitorStore, CloseHandles, FlagsType
<1>5. ASSUME NEW t \in Threads, Crash(t) \/ RaiseException(t) \/ HandlerStep(t)
      PROVE  FlagsType'
  BY <1>5, Zenon DEF Crash, RaiseException, HandlerStep, StoreCrashInfo, Notify,
     Suspend, Return, FlagsType
<1>6. ASSUME NEW w \in Watchdogs, WatchdogStep(w) \/ Kill(w)
      PROVE  FlagsType'
  BY <1>6, Zenon DEF WatchdogStep, Hello, WakeOnCrash, WakeOnClientExit,
     ReadPointer, ReadFrame, Finish, Kill, FlagsType
<1>7. CASE UNCHANGED vars
  BY <1>7, Zenon DEF vars, FlagsType
<1>8. QED
  BY <1>1, <1>2, <1>3, <1>4, <1>5, <1>6, <1>7 DEF Next

(* Everything else keeps its type. *)
LEMMA StateStep == StateType /\ [Next]_vars => StateType'
<1> SUFFICES ASSUME StateType, [Next]_vars PROVE StateType'
  OBVIOUS
<1>h. FiveHandles \subseteq Handles /\ {"WatchdogProcess", "WatchdogThread"} \subseteq Handles
  BY DEF Handles
<1>o. ASSUME NEW S, Overwrite(S) PROVE lost' \in [Handles -> Nat]
  BY <1>o DEF Overwrite, StateType
<1>1. CASE AttachAcquire
  <2>1. open' \subseteq Handles
    BY <1>1, <1>h, FailedAcquisition DEF AttachAcquire, StateType
  <2>2. lost' \in [Handles -> Nat]
    BY <1>1, <1>o DEF AttachAcquire
  <2>3. QED
    BY <1>1, <2>1, <2>2 DEF AttachAcquire, StateType
<1>2. CASE AttachSpawn
  <2>1. lost' \in [Handles -> Nat]
    BY <1>2, <1>o DEF AttachSpawn, StateType
  <2>2. QED
    BY <1>2, <1>h, <2>1 DEF AttachSpawn, Started, CloseHandles, StateType
<1>3. CASE AttachThread
  <2>1. lost' \in [Handles -> Nat]
    BY <1>3, <1>o DEF AttachThread
  <2>2. QED
    BY <1>3, <1>h, <2>1 DEF AttachThread, StateType
<1>4. CASE AttachWait \/ AttachHello \/ AttachFilter
  BY <1>4 DEF AttachWait, AttachHello, AttachFilter, StateType
<1>5. CASE DetachBegin \/ DetachUnfilter \/ DetachTerminate \/ DetachJoin
  BY <1>5 DEF DetachBegin, DetachUnfilter, DetachTerminate, DetachJoin, StateType
<1>6. CASE DetachClose
  BY <1>6 DEF DetachClose, CloseHandles, StateType
<1>7. CASE MonitorWait \/ MonitorCheck \/ MonitorStore
  <2>1. lost' \in [Handles -> Nat]
    BY <1>7, <1>o DEF MonitorWait, MonitorCheck, MonitorStore, StateType
  <2>2. QED
    BY <1>7, <2>1 DEF MonitorWait, MonitorCheck, MonitorStore, StateType
<1>8. CASE MonitorCreate
  BY <1>8 DEF MonitorCreate, Started, CloseHandles, StateType
<1>9. ASSUME NEW t \in Threads, Crash(t) \/ RaiseException(t) \/ HandlerStep(t)
      PROVE  StateType'
  BY <1>9 DEF Crash, RaiseException, HandlerStep, StoreCrashInfo, Notify, Suspend,
              Return, StateType
<1>10. CASE ClientExit
  BY <1>10 DEF ClientExit, StateType
<1>11. ASSUME NEW w \in Watchdogs, WatchdogStep(w) \/ Kill(w)
       PROVE  StateType'
  BY <1>11 DEF WatchdogStep, Hello, WakeOnCrash, WakeOnClientExit, ReadPointer,
               ReadFrame, Finish, Kill, StateType
<1>12. CASE UNCHANGED vars
  BY <1>12 DEF vars, StateType
<1>13. QED
  BY <1>1, <1>2, <1>3, <1>4, <1>5, <1>6, <1>7, <1>8, <1>9, <1>10, <1>11, <1>12
     DEF Next, ApiStep, MonitorStep

(* The variables keep the types declared for the globals, the handles and the
   program counters of src/eh4.c and src/watchdog/main.c. *)
THEOREM TypeCorrect == Spec => []TypeOK
<1>1. Init => TypeOK
  <2>1. Init => FlagsType
    BY Zenon DEF Init, FlagsType
  <2>2. Init => StateType
    BY DEF Init, StateType
  <2>3. QED
    BY <2>1, <2>2 DEF TypeOK
<1>2. TypeOK /\ [Next]_vars => TypeOK'
  BY FlagsStep, StateStep DEF TypeOK
<1>3. QED
  BY <1>1, <1>2, PTL DEF Spec

-----------------------------------------------------------------------------
(* Who may be alive: the watchdog the global handle names, or the one the monitor
   has created and not stored yet; and where the monitor is while EH4_Attach and
   EH4_Detach are at each of their steps. *)
WatchdogInv ==
    /\ \A w \in Watchdogs : Alive(w) =>
           \/ w = hWatchdog
           \/ monitor = "store" /\ w = created
    /\ monitor \in {"check", "create", "store"} => ~Alive(hWatchdog)
    /\ monitor = "store" => created \in Watchdogs
    /\ mainpc \notin {"detached", "spawn"} => hWatchdog \in Watchdogs
    /\ monitor = "none" => mainpc \in {"detached", "spawn", "thread"}
    /\ mainpc \in {"detached", "spawn", "thread"} => monitor \in {"none", "exited"}
    /\ mainpc = "close" => monitor = "exited"
    /\ monitor \in {"none", "exited"} /\ mainpc # "thread" =>
           \A w \in Watchdogs : ~Alive(w)

(* Which handles are open: what EH4_Attach has acquired, until EH4_Detach or the
   error path of the monitor closes it. *)
HandleInv ==
    /\ mainpc = "detached" => open \subseteq {"WatchdogThread"}
    /\ mainpc # "detached" /\ ~restartFailed => FiveHandles \subseteq open
    /\ mainpc = "spawn" => FiveHandles \subseteq open
    /\ mainpc = "thread" => FiveHandles \subseteq open
    /\ mainpc \notin {"detached", "spawn"} => "WatchdogProcess" \in open
    /\ mainpc = "spawn" => "WatchdogProcess" \notin open
    /\ monitor \in {"wait", "check", "create", "store"} => FiveHandles \subseteq open
    /\ filter => mainpc \in {"attached", "unfilter"}
    /\ badClose => restartFailed

(* Which handles are lost: those of the threads of detached monitors, and those of the
   watchdogs whose successor has been stored. *)
LostInv ==
    /\ \A h \in FiveHandles : lost[h] = 0
    /\ lost["WatchdogProcess"] + (IF monitor = "store" THEN 1 ELSE 0) = restarts
    /\ ThreadHandles =
         detaches + IF mainpc \in {"hello", "waiting", "filter", "attached"} THEN 1 ELSE 0

(* A suspended client has a thread past NtSuspendProcess; and as long as EH4 was
   never detached, threads are in the handler only while it is attached. *)
HandlerInv ==
    /\ suspended => \E t \in Threads : pc[t] = "after"
    /\ detaches = 0 =>
         /\ mainpc \in {"detached", "spawn", "thread", "hello", "waiting", "filter",
                        "attached"}
         /\ \A t \in Threads : pc[t] # "run" => mainpc = "attached"
         /\ mainpc \in {"detached", "spawn", "thread"} => monitor = "none"

(* Nothing has interfered with the watchdog of a live client. *)
Undisturbed == client = "running" /\ kills = 0 /\ detaches = 0 /\ ~callPrev

(* An undisturbed watchdog lives as long as the client, and a thread that has
   notified it is being looked after. *)
FrozenInv ==
    Undisturbed =>
        /\ mainpc \notin {"detached", "spawn"} =>
             Alive(hWatchdog) /\ monitor \in {"none", "wait"}
        /\ \A t \in Threads : pc[t] \in {"suspend", "after"} =>
             crashEvent \/ wd[hWatchdog] \in {"woken", "reading", "reported"}

(* What points to whose frame, when the previous handler is never asked for: a
   pointer that was stored, or read by a watchdog, names a thread that is still
   in its handler. *)
ReportInv ==
    /\ ~callPrev
    /\ stored # None => stored \in Threads /\ FrameLive(stored)
    /\ \A t \in Threads : FrameLive(t) => stored # None
    /\ crashEvent => stored # None
    /\ suspended => stored # None
    /\ \A w \in Watchdogs : wd[w] = "woken" => stored # None
    /\ client = "running" =>
         /\ \A w \in Watchdogs : wd[w] = "reading" =>
               wptr[w] \in Threads /\ FrameLive(wptr[w])
         /\ \A w \in Watchdogs : wd[w] = "reported" => report \in Threads
         /\ report # None => report \in Threads /\ FrameLive(report)

LEMMA WatchdogStepInv ==
    StateType /\ WatchdogInv /\ [Next]_vars => WatchdogInv'
<1> SUFFICES ASSUME StateType, WatchdogInv, [Next]_vars PROVE WatchdogInv'
  OBVIOUS
<1> USE DEF WatchdogInv, StateType, Alive
<1>1. CASE AttachAcquire
  BY <1>1 DEF AttachAcquire
<1>2. CASE AttachSpawn
  BY <1>2 DEF AttachSpawn, CanStart, Started
<1>3. CASE AttachThread
  BY <1>3 DEF AttachThread
<1>4. CASE AttachWait \/ AttachHello \/ AttachFilter
  BY <1>4 DEF AttachWait, AttachHello, AttachFilter
<1>5. CASE DetachBegin \/ DetachUnfilter \/ DetachJoin \/ DetachClose
  BY <1>5 DEF DetachBegin, DetachUnfilter, DetachJoin, DetachClose
<1>6. CASE DetachTerminate
  BY <1>6 DEF DetachTerminate
<1>7. CASE MonitorWait \/ MonitorCheck \/ MonitorStore
  BY <1>7, ThreadsAssumption DEF MonitorWait, MonitorCheck, MonitorStore
<1>8. CASE MonitorCreate
  BY <1>8 DEF MonitorCreate, CanStart, Started
<1>9. ASSUME NEW t \in Threads, Crash(t) \/ RaiseException(t) \/ HandlerStep(t)
      PROVE  WatchdogInv'
  BY <1>9 DEF Crash, RaiseException, HandlerStep, StoreCrashInfo, Notify, Suspend, Return
<1>10. CASE ClientExit
  BY <1>10 DEF ClientExit
<1>11. ASSUME NEW w \in Watchdogs, WatchdogStep(w) \/ Kill(w)
       PROVE  WatchdogInv'
  BY <1>11 DEF WatchdogStep, Hello, WakeOnCrash, WakeOnClientExit, ReadPointer,
               ReadFrame, Finish, Kill
<1>12. CASE UNCHANGED vars
  BY <1>12 DEF vars
<1>13. QED
  BY <1>1, <1>2, <1>3, <1>4, <1>5, <1>6, <1>7, <1>8, <1>9, <1>10, <1>11, <1>12
     DEF Next, ApiStep, MonitorStep

LEMMA HandleStepInv ==
    StateType /\ WatchdogInv /\ HandleInv /\ [Next]_vars => HandleInv'
<1> SUFFICES ASSUME StateType, WatchdogInv, HandleInv, [Next]_vars PROVE HandleInv'
  OBVIOUS
<1> USE DEF HandleInv, StateType, WatchdogInv
<1>h. "WatchdogProcess" \notin FiveHandles /\ "WatchdogThread" \notin FiveHandles
  BY FiveHandlesByName
<1>1. CASE AttachAcquire
  <2>1. \A k \in 0..5 : (open \cup Acquired(k)) \ ClosedOnFailure(k) \subseteq open
    BY FailedAcquisition
  <2>2. QED
    BY <1>1, <1>h, <2>1 DEF AttachAcquire
<1>2. CASE AttachSpawn
  <2>1. open \ FiveHandles \subseteq {"WatchdogThread"}
    BY <1>2 DEF AttachSpawn, Handles
  <2>2. badClose' => badClose
    BY <1>2 DEF AttachSpawn, CloseHandles
  <2>3. CASE mainpc' = "thread"
    BY <1>2, <1>h, <2>2, <2>3 DEF AttachSpawn
  <2>4. CASE mainpc' = "detached"
    BY <1>2, <1>h, <2>1, <2>2, <2>4 DEF AttachSpawn, CloseHandles
  <2>5. QED
    BY <1>2, <2>3, <2>4 DEF AttachSpawn
<1>3. CASE AttachThread
  <2>1. open \ (FiveHandles \cup {"WatchdogProcess"}) \subseteq {"WatchdogThread"}
    BY DEF Handles
  <2>2. badClose' => badClose
    BY <1>3, <1>h DEF AttachThread, Handles
  <2>3. CASE mainpc' = "hello"
    BY <1>3, <1>h, <2>2, <2>3 DEF AttachThread
  <2>4. CASE mainpc' = "detached"
    BY <1>3, <1>h, <2>1, <2>2, <2>4 DEF AttachThread, Handles
  <2>5. QED
    BY <1>3, <2>3, <2>4 DEF AttachThread
<1>4. CASE AttachWait \/ AttachHello \/ AttachFilter
  BY <1>4 DEF AttachWait, AttachHello, AttachFilter
<1>5. CASE DetachBegin \/ DetachUnfilter \/ DetachJoin \/ DetachTerminate
  BY <1>5 DEF DetachBegin, DetachUnfilter, DetachJoin, DetachTerminate
<1>6. CASE DetachClose
  BY <1>6, <1>h DEF DetachClose, CloseHandles, Handles
<1>7. CASE MonitorWait \/ MonitorCheck \/ MonitorStore
  BY <1>7 DEF MonitorWait, MonitorCheck, MonitorStore
<1>8. CASE MonitorCreate
  BY <1>8, <1>h DEF MonitorCreate, CloseHandles
<1>9. ASSUME NEW t \in Threads, Crash(t) \/ RaiseException(t) \/ HandlerStep(t)
      PROVE  HandleInv'
  BY <1>9 DEF Crash, RaiseException, HandlerStep, StoreCrashInfo, Notify, Suspend, Return
<1>10. CASE ClientExit
  BY <1>10 DEF ClientExit
<1>11. ASSUME NEW w \in Watchdogs, WatchdogStep(w) \/ Kill(w)
       PROVE  HandleInv'
  BY <1>11 DEF WatchdogStep, Hello, WakeOnCrash, WakeOnClientExit, ReadPointer,
               ReadFrame, Finish, Kill
<1>12. CASE UNCHANGED vars
  BY <1>12 DEF vars
<1>13. QED
  BY <1>1, <1>2, <1>3, <1>4, <1>5, <1>6, <1>7, <1>8, <1>9, <1>10, <1>11, <1>12
     DEF Next, ApiStep, MonitorStep

(* Globals that are not open lose nothing when they are assigned, and one that is open
   loses one handle. *)
LEMMA OverwriteLoses ==
    ASSUME StateType, NEW S \in SUBSET Handles, Overwrite(S)
    PROVE  /\ \A h \in Handles : h \notin S \cap open => lost'[h] = lost[h]
           /\ \A h \in S \cap open : lost'[h] = lost[h] + 1
BY DEF Overwrite, StateType

(* Only the handle that the monitor replaces and that of a monitor before are lost. *)
LEMMA LostStepInv ==
    StateType /\ WatchdogInv /\ HandleInv /\ LostInv /\ [Next]_vars => LostInv'
<1> SUFFICES ASSUME StateType, WatchdogInv, HandleInv, LostInv, [Next]_vars PROVE LostInv'
  OBVIOUS
<1>h. /\ "WatchdogProcess" \notin FiveHandles /\ "WatchdogThread" \notin FiveHandles
      /\ FiveHandles \subseteq Handles
      /\ "WatchdogProcess" \in Handles /\ "WatchdogThread" \in Handles
  BY FiveHandlesByName DEF Handles
<1>t. /\ lost \in [Handles -> Nat] /\ detaches \in Nat /\ restarts \in Nat
  BY DEF StateType
<1>k. ASSUME UNCHANGED <<lost, restarts, detaches, monitor, mainpc>>,
             "WatchdogThread" \in open' <=> "WatchdogThread" \in open
      PROVE  LostInv'
  BY <1>k DEF LostInv, ThreadHandles
<1>1. CASE AttachAcquire
  <2>1. open \subseteq {"WatchdogThread"}
    BY <1>1 DEF AttachAcquire, HandleInv
  <2>2. \A k \in 0..5 : Acquired(k) \subseteq FiveHandles
    BY SMT DEF Acquired, FiveHandles
  <2>3. UNCHANGED lost
    <3>1. PICK S \in SUBSET FiveHandles : Overwrite(S)
      BY <1>1, <2>2 DEF AttachAcquire
    <3>2. S \cap open = {}
      BY <2>1, <1>h
    <3>3. QED
      BY <1>t, <3>1, <3>2 DEF Overwrite
  <2>4. "WatchdogThread" \in open' <=> "WatchdogThread" \in open
    BY <1>1, <1>h, <2>2, FailedAcquisition DEF AttachAcquire
  <2>5. mainpc' \in {"detached", "spawn"} /\ mainpc = "detached"
    BY <1>1 DEF AttachAcquire
  <2>6. QED
    BY <1>1, <2>3, <2>4, <2>5 DEF AttachAcquire, LostInv, ThreadHandles
<1>2. CASE AttachSpawn
  <2>1. UNCHANGED lost
    <3>1. "WatchdogProcess" \notin open
      BY <1>2 DEF AttachSpawn, HandleInv
    <3>2. CASE Overwrite({"WatchdogProcess"})
      BY <1>t, <3>1, <3>2 DEF Overwrite
    <3>3. QED
      BY <1>2, <3>2 DEF AttachSpawn
  <2>2. "WatchdogThread" \in open' <=> "WatchdogThread" \in open
    BY <1>2, <1>h DEF AttachSpawn, CloseHandles
  <2>3. mainpc' \in {"detached", "thread"} /\ mainpc = "spawn"
    BY <1>2 DEF AttachSpawn
  <2>4. QED
    BY <1>2, <2>1, <2>2, <2>3 DEF AttachSpawn, LostInv, ThreadHandles
<1>3. CASE AttachThread
  <2>1. /\ \A h \in Handles : h # "WatchdogThread" => lost'[h] = lost[h]
        /\ "WatchdogThread" \in open => lost'["WatchdogThread"] = lost["WatchdogThread"] + 1
        /\ "WatchdogThread" \notin open => lost'["WatchdogThread"] = lost["WatchdogThread"]
    BY <1>3, <1>h, OverwriteLoses DEF AttachThread
  <2>2. lost'["WatchdogThread"] = ThreadHandles
    BY <1>t, <1>h, <2>1 DEF ThreadHandles
  <2>3. monitor # "store" /\ monitor' # "store" /\ mainpc = "thread"
    BY <1>3 DEF AttachThread, WatchdogInv
  <2>4. ThreadHandles = detaches
    BY <1>t, <2>3 DEF LostInv
  <2>5. /\ UNCHANGED <<restarts, detaches>>
        /\ \/ mainpc' = "hello" /\ "WatchdogThread" \in open'
           \/ mainpc' = "detached" /\ "WatchdogThread" \notin open'
    BY <1>3, <1>h DEF AttachThread
  <2>6. ThreadHandles' = lost'["WatchdogThread"] + IF mainpc' = "hello" THEN 1 ELSE 0
    BY <2>5 DEF ThreadHandles
  <2>7. QED
    BY <1>t, <1>h, <2>1, <2>2, <2>3, <2>4, <2>5, <2>6 DEF LostInv
<1>4. CASE AttachWait \/ AttachHello \/ AttachFilter
  BY <1>4 DEF AttachWait, AttachHello, AttachFilter, LostInv, ThreadHandles
<1>5. CASE DetachBegin
  BY <1>5, <1>t, <1>h DEF DetachBegin, LostInv, ThreadHandles
<1>6. CASE DetachUnfilter \/ DetachTerminate \/ DetachJoin
  BY <1>6 DEF DetachUnfilter, DetachTerminate, DetachJoin, LostInv, ThreadHandles
<1>7. CASE DetachClose
  BY <1>7, <1>h DEF DetachClose, CloseHandles, LostInv, ThreadHandles
<1>8. CASE MonitorWait \/ MonitorCheck
  BY <1>8 DEF MonitorWait, MonitorCheck, LostInv, ThreadHandles
<1>9. CASE MonitorCreate
  <2>1. "WatchdogThread" \in open' <=> "WatchdogThread" \in open
    BY <1>9, <1>h DEF MonitorCreate, CloseHandles
  <2>2. QED
    BY <1>9, <1>t, <1>h, <2>1 DEF MonitorCreate, LostInv, ThreadHandles
<1>10. CASE MonitorStore
  <2>1. "WatchdogProcess" \in open
    BY <1>10 DEF MonitorStore, WatchdogInv, HandleInv
  <2>2. /\ lost'["WatchdogProcess"] = lost["WatchdogProcess"] + 1
        /\ \A h \in Handles : h # "WatchdogProcess" => lost'[h] = lost[h]
    BY <1>10, <1>h, <2>1, OverwriteLoses DEF MonitorStore
  <2>3. QED
    BY <1>10, <1>t, <1>h, <2>2 DEF MonitorStore, LostInv, ThreadHandles
<1>11. ASSUME NEW t \in Threads, Crash(t) \/ RaiseException(t) \/ HandlerStep(t)
       PROVE  LostInv'
  BY <1>11, <1>k DEF Crash, RaiseException, HandlerStep, StoreCrashInfo, Notify, Suspend,
     Return
<1>12. CASE ClientExit
  BY <1>12, <1>k DEF ClientExit
<1>13. ASSUME NEW w \in Watchdogs, WatchdogStep(w) \/ Kill(w)
       PROVE  LostInv'
  BY <1>13, <1>k DEF WatchdogStep, Hello, WakeOnCrash, WakeOnClientExit, ReadPointer,
     ReadFrame, Finish, Kill
<1>14. CASE UNCHANGED vars
  BY <1>14, <1>k DEF vars
<1>15. QED
  BY <1>1, <1>2, <1>3, <1>4, <1>5, <1>6, <1>7, <1>8, <1>9, <1>10, <1>11, <1>12, <1>13,
     <1>14 DEF Next, ApiStep, MonitorStep

(* The invariants hold from the start. *)
LEMMA InvInit == Init => WatchdogInv /\ HandleInv /\ LostInv
<1>1. FiveHandles \subseteq Handles /\ {"WatchdogProcess", "WatchdogThread"} \subseteq Handles
  BY DEF Handles
<1>2. QED
  BY <1>1, FiveHandlesByName
     DEF Init, WatchdogInv, HandleInv, LostInv, ThreadHandles, Alive

(* Never two watchdog processes at a time (src/eh4.c:246 waits for the death of
   the last one, src/eh4.c:463 for the end of the monitor). *)
THEOREM AtMostOneWatchdog == Spec => []OneWatchdog
<1>1. WatchdogInv => OneWatchdog
  BY DEF WatchdogInv, OneWatchdog
<1>2. StateType /\ WatchdogInv /\ [Next]_vars => WatchdogInv'
  BY WatchdogStepInv
<1>3. TypeOK => StateType
  BY DEF TypeOK
<1>4. QED
  BY <1>1, <1>2, <1>3, TypeCorrect, InvInit, PTL DEF Spec

(* EH4_Detach and every failed EH4_Attach leave no watchdog, monitor or filter behind
   (src/eh4.c:325-436, 454-474), and no open handle but one of a thread for each detach
   and one of a process for each watchdog that was replaced (src/eh4.c:285). *)
THEOREM DetachLeavesNothing == Spec => []DetachedIsClean
<1>1. StateType /\ WatchdogInv /\ HandleInv /\ LostInv => DetachedIsClean
  <2> SUFFICES ASSUME StateType, WatchdogInv, HandleInv, LostInv, mainpc = "detached"
               PROVE  DetachedIsClean
    BY DEF DetachedIsClean
  <2>1. monitor \in {"none", "exited"}
    BY DEF WatchdogInv
  <2>2. "WatchdogProcess" \in Handles
    BY DEF Handles
  <2>3. lost["WatchdogProcess"] = restarts /\ ThreadHandles = detaches
    BY <2>1, <2>2 DEF LostInv, StateType
  <2>4. QED
    BY <2>1, <2>3 DEF WatchdogInv, HandleInv, LostInv, DetachedIsClean
<1>2. TypeOK => StateType
  BY DEF TypeOK
<1>3. QED
  BY <1>1, <1>2, WatchdogStepInv, HandleStepInv, LostStepInv, TypeCorrect, InvInit, PTL
     DEF Spec

(* A handle is closed twice only after a failed restart (src/eh4.c:276-280). *)
THEOREM HandlesClosedOnce == Spec => []NoDoubleClose
<1>1. HandleInv => NoDoubleClose
  BY DEF HandleInv, NoDoubleClose
<1>2. TypeOK => StateType
  BY DEF TypeOK
<1>3. QED
  BY <1>1, <1>2, WatchdogStepInv, HandleStepInv, TypeCorrect, InvInit, PTL DEF Spec

-----------------------------------------------------------------------------
LEMMA HandlerStepInv ==
    StateType /\ HandleInv /\ HandlerInv /\ [Next]_vars => HandlerInv'
<1> SUFFICES ASSUME StateType, HandleInv, HandlerInv, [Next]_vars PROVE HandlerInv'
  OBVIOUS
<1> USE DEF HandlerInv, StateType
<1>1. CASE AttachAcquire \/ DetachBegin \/ ApiStep \/ ClientExit
  <2>1. UNCHANGED <<suspended, pc>>
    BY <1>1 DEF AttachAcquire, DetachBegin, ApiStep, AttachSpawn, AttachThread,
       AttachWait, AttachHello, AttachFilter, DetachUnfilter, DetachTerminate,
       DetachJoin, DetachClose, ClientExit
  <2>2. detaches' = 0 => detaches = 0 /\ ~DetachBegin
    BY <1>1 DEF AttachAcquire, DetachBegin, ApiStep, AttachSpawn, AttachThread,
       AttachWait, AttachHello, AttachFilter, DetachUnfilter, DetachTerminate,
       DetachJoin, DetachClose, ClientExit
  <2>3. detaches = 0 /\ mainpc = "attached" /\ ~DetachBegin => mainpc' = "attached"
    BY <1>1 DEF AttachAcquire, ApiStep, AttachSpawn, AttachThread,
       AttachWait, AttachHello, AttachFilter, DetachUnfilter, DetachTerminate,
       DetachJoin, DetachClose, ClientExit
  <2>4. detaches = 0 /\ ~DetachBegin =>
          mainpc' \in {"detached", "spawn", "thread", "hello", "waiting", "filter",
                      "attached"}
    BY <1>1 DEF AttachAcquire, ApiStep, AttachSpawn, AttachThread,
       AttachWait, AttachHello, AttachFilter, DetachUnfilter, DetachTerminate,
       DetachJoin, DetachClose, ClientExit
  <2>5. detaches = 0 /\ mainpc' \in {"detached", "spawn", "thread"} /\ ~DetachBegin =>
          mainpc \in {"detached", "spawn", "thread"} /\ UNCHANGED monitor
    BY <1>1 DEF AttachAcquire, ApiStep, AttachSpawn, AttachThread,
       AttachWait, AttachHello, AttachFilter, DetachUnfilter, DetachTerminate,
       DetachJoin, DetachClose, ClientExit
  <2>6. QED
    BY <2>1, <2>2, <2>3, <2>4, <2>5
<1>2. CASE MonitorStep
  BY <1>2 DEF MonitorStep, MonitorWait, MonitorCheck, MonitorCreate, MonitorStore
<1>3. ASSUME NEW t \in Threads, Crash(t) \/ RaiseException(t) \/ HandlerStep(t)
      PROVE  HandlerInv'
  <2>1. UNCHANGED <<mainpc, detaches, monitor>>
    BY <1>3 DEF Crash, RaiseException, HandlerStep, StoreCrashInfo, Notify, Suspend, Return
  <2>2. detaches = 0 => \A u \in Threads : pc'[u] # "run" => mainpc' = "attached"
    BY <1>3, <2>1 DEF Crash, RaiseException, HandlerStep, StoreCrashInfo, Notify,
       Suspend, Return, HandleInv
  <2>3. suspended' => \E u \in Threads : pc'[u] = "after"
    BY <1>3 DEF Crash, RaiseException, HandlerStep, StoreCrashInfo, Notify, Suspend,
       Return, Running
  <2>4. QED
    BY <2>1, <2>2, <2>3
<1>4. ASSUME NEW w \in Watchdogs, WatchdogStep(w) \/ Kill(w)
      PROVE  HandlerInv'
  <2>1. UNCHANGED <<pc, mainpc, detaches, monitor>>
    BY <1>4 DEF WatchdogStep, Hello, WakeOnCrash, WakeOnClientExit, ReadPointer,
                ReadFrame, Finish, Kill
  <2>2. suspended' => suspended
    BY <1>4 DEF WatchdogStep, Hello, WakeOnCrash, WakeOnClientExit, ReadPointer,
                ReadFrame, Finish, Kill
  <2>3. QED
    BY <2>1, <2>2
<1>5. CASE UNCHANGED vars
  BY <1>5 DEF vars
<1>6. QED
  BY <1>1, <1>2, <1>3, <1>4, <1>5 DEF Next

LEMMA FrozenStepInv ==
    StateType /\ WatchdogInv /\ HandleInv /\ HandlerInv /\ FrozenInv /\ [Next]_vars
        => FrozenInv'
<1> SUFFICES ASSUME StateType, WatchdogInv, HandleInv, HandlerInv, FrozenInv,
                    [Next]_vars
             PROVE  FrozenInv'
  OBVIOUS
<1> USE DEF FrozenInv, StateType, Alive, Undisturbed
<1>1. CASE AttachAcquire
  <2>1. mainpc' \in {"detached", "spawn"}
    BY <1>1 DEF AttachAcquire
  <2>2. detaches' = 0 => \A t \in Threads : pc'[t] \notin {"suspend", "after"}
    BY <1>1 DEF AttachAcquire, HandlerInv
  <2>3. QED
    BY <2>1, <2>2
<1>2. CASE AttachSpawn
  BY <1>2 DEF AttachSpawn, CanStart, Started, HandlerInv, WatchdogInv
<1>3. CASE AttachThread
  BY <1>3 DEF AttachThread, HandlerInv
<1>4. CASE AttachWait \/ AttachHello \/ AttachFilter
  BY <1>4 DEF AttachWait, AttachHello, AttachFilter
<1>5. CASE DetachBegin \/ DetachUnfilter \/ DetachTerminate \/ DetachJoin \/ DetachClose
  <2>1. detaches' # 0
    BY <1>5 DEF DetachBegin, DetachUnfilter, DetachTerminate, DetachJoin, DetachClose,
                HandlerInv
  <2>2. QED
    BY <2>1
<1>7. CASE MonitorWait \/ MonitorCheck \/ MonitorStore
  BY <1>7 DEF MonitorWait, MonitorCheck, MonitorStore, WatchdogInv
<1>8. CASE MonitorCreate
  BY <1>8 DEF MonitorCreate, WatchdogInv
<1>9. ASSUME NEW t \in Threads, Crash(t) \/ RaiseException(t) \/ HandlerStep(t)
      PROVE  FrozenInv'
  <2> SUFFICES ASSUME Undisturbed'
               PROVE  /\ mainpc' \notin {"detached", "spawn"} =>
                           Alive(hWatchdog)' /\ monitor' \in {"none", "wait"}
                      /\ \A u \in Threads : pc'[u] \in {"suspend", "after"} =>
                           crashEvent' \/ wd'[hWatchdog'] \in {"woken", "reading", "reported"}
    OBVIOUS
  <2>1. UNCHANGED <<mainpc, detaches, kills, callPrev, wd, hWatchdog, monitor, open>>
    BY <1>9 DEF Crash, RaiseException, HandlerStep, StoreCrashInfo, Notify, Suspend, Return
  <2>2. Undisturbed
    BY <1>9, <2>1 DEF Crash, RaiseException, HandlerStep, StoreCrashInfo, Notify,
       Suspend, Return, Running
  <2>3. mainpc' \notin {"detached", "spawn"} =>
           Alive(hWatchdog)' /\ monitor' \in {"none", "wait"}
    BY <2>1, <2>2
  <2>4. ASSUME NEW u \in Threads, pc'[u] \in {"suspend", "after"}
        PROVE  crashEvent' \/ wd'[hWatchdog'] \in {"woken", "reading", "reported"}
    <3>1. CASE Notify(t)
      <4>1. mainpc = "attached"
        BY <3>1, <2>2 DEF Notify, HandlerInv
      <4>2. monitor \in {"none", "wait"}
        BY <4>1, <2>2
      <4>3. monitor = "wait"
        BY <4>1, <4>2 DEF WatchdogInv
      <4>4. "CrashNotificationEvent" \in open
        BY <4>3, FiveHandlesByName DEF HandleInv
      <4>5. QED
        BY <3>1, <4>4 DEF Notify
    <3>2. CASE Crash(t) \/ RaiseException(t) \/ StoreCrashInfo(t)
      BY <3>2, <2>1, <2>2, <2>4 DEF Crash, RaiseException, StoreCrashInfo
    <3>3. CASE Suspend(t)
      BY <3>3, <2>1, <2>2, <2>4 DEF Suspend
    <3>4. CASE Return(t)
      BY <3>4, <2>1, <2>2, <2>4 DEF Return
    <3>5. QED
      BY <1>9, <3>1, <3>2, <3>3, <3>4 DEF HandlerStep
  <2>5. QED
    BY <2>3, <2>4
<1>10. CASE ClientExit
  BY <1>10 DEF ClientExit
<1>11. ASSUME NEW w \in Watchdogs, WatchdogStep(w) \/ Kill(w)
       PROVE  FrozenInv'
  <2>1. CASE Kill(w)
    BY <2>1 DEF Kill
  <2>2. CASE WakeOnClientExit(w)
    BY <2>2 DEF WakeOnClientExit
  <2>3. CASE Finish(w)
    <3>1. client' # "running" \/ callPrev'
      BY <2>3 DEF Finish
    <3>2. QED
      BY <3>1
  <2>4. CASE Hello(w) \/ ReadPointer(w) \/ ReadFrame(w)
    <3>1. UNCHANGED <<client, kills, detaches, callPrev, mainpc, monitor, hWatchdog,
                      pc, crashEvent>>
      BY <2>4 DEF Hello, ReadPointer, ReadFrame
    <3>2. Undisturbed' => Undisturbed
      BY <3>1, Zenon DEF Undisturbed
    <3>3. \A v \in Watchdogs : Alive(v) => Alive(v)'
      BY <2>4 DEF Hello, ReadPointer, ReadFrame
    <3>4. \A v \in Watchdogs : wd[v] \in {"woken", "reading", "reported"} =>
              wd'[v] \in {"woken", "reading", "reported"}
      BY <2>4 DEF Hello, ReadPointer, ReadFrame
    <3>5. mainpc \notin {"detached", "spawn"} => hWatchdog \in Watchdogs
      BY DEF WatchdogInv
    <3>6. Undisturbed => \A t \in Threads : pc[t] # "run" => mainpc = "attached"
      BY DEF HandlerInv
    <3>7. QED
      BY <3>1, <3>2, <3>3, <3>4, <3>5, <3>6
  <2>5. CASE WakeOnCrash(w)
    <3>1. Alive(w) /\ monitor # "store" => w = hWatchdog
      BY DEF WatchdogInv
    <3>2. QED
      BY <2>5, <3>1 DEF WakeOnCrash, HandlerInv
  <2>6. QED
    BY <1>11, <2>1, <2>2, <2>3, <2>4, <2>5 DEF WatchdogStep
<1>12. CASE UNCHANGED vars
  BY <1>12 DEF vars
<1>13. QED
  BY <1>1, <1>2, <1>3, <1>4, <1>5, <1>7, <1>8, <1>9, <1>10, <1>11, <1>12
     DEF Next, ApiStep, MonitorStep

LEMMA FrozenInit == Init => HandlerInv /\ FrozenInv
BY DEF Init, HandlerInv, FrozenInv, Alive

(* A suspended client is looked after: unless a watchdog was killed, EH4_Detach
   was called or the previous handler is wanted, SetEvent before NtSuspendProcess
   (src/eh4.c:219-221) guarantees a live watchdog that knows of the crash. *)
THEOREM FrozenClientIsWatched == Spec => []FrozenIsWatched
<1>1. StateType /\ WatchdogInv /\ HandlerInv /\ FrozenInv => FrozenIsWatched
  <2> SUFFICES ASSUME StateType, WatchdogInv, HandlerInv, FrozenInv, suspended,
                      Undisturbed
               PROVE  \E w \in Watchdogs :
                         /\ Alive(w)
                         /\ crashEvent \/ wd[w] \in {"woken", "reading", "reported"}
    BY DEF FrozenIsWatched, Undisturbed
  <2>1. PICK t \in Threads : pc[t] = "after"
    BY DEF HandlerInv
  <2>2. mainpc = "attached"
    BY <2>1 DEF HandlerInv, Undisturbed
  <2>3. hWatchdog \in Watchdogs /\ Alive(hWatchdog)
    BY <2>2 DEF WatchdogInv, FrozenInv
  <2>4. crashEvent \/ wd[hWatchdog] \in {"woken", "reading", "reported"}
    BY <2>1 DEF FrozenInv
  <2>5. QED
    BY <2>3, <2>4
<1>2. TypeOK => StateType
  BY DEF TypeOK
<1>3. QED
  BY <1>1, <1>2, WatchdogStepInv, HandleStepInv, HandlerStepInv, FrozenStepInv,
     TypeCorrect, InvInit, FrozenInit, PTL DEF Spec

-----------------------------------------------------------------------------
LEMMA ReportStepInv ==
    ASSUME CallPrevious = {FALSE}
    PROVE  StateType /\ ReportInv /\ [Next]_vars => ReportInv'
<1> SUFFICES ASSUME StateType, ReportInv, [Next]_vars PROVE ReportInv'
  OBVIOUS
<1> USE DEF ReportInv, StateType, FrameLive
<1>1. CASE AttachAcquire
  <2>1. ~callPrev'
    BY <1>1 DEF AttachAcquire
  <2>2. crashEvent' => crashEvent
    BY <1>1 DEF AttachAcquire
  <2>3. QED
    BY <1>1, <2>1, <2>2 DEF AttachAcquire
<1>2. CASE AttachSpawn
  BY <1>2 DEF AttachSpawn, CanStart, Started
<1>3. CASE AttachThread
  BY <1>3 DEF AttachThread
<1>4. CASE AttachWait \/ AttachHello \/ AttachFilter
  BY <1>4 DEF AttachWait, AttachHello, AttachFilter
<1>5. CASE DetachBegin \/ DetachUnfilter \/ DetachTerminate \/ DetachJoin \/ DetachClose
  BY <1>5 DEF DetachBegin, DetachUnfilter, DetachTerminate, DetachJoin, DetachClose
<1>6. CASE MonitorWait \/ MonitorCheck \/ MonitorStore
  BY <1>6 DEF MonitorWait, MonitorCheck, MonitorStore
<1>7. CASE MonitorCreate
  BY <1>7 DEF MonitorCreate, Started
<1>8. ASSUME NEW t \in Threads, Crash(t) \/ RaiseException(t)
      PROVE  ReportInv'
  BY <1>8 DEF Crash, RaiseException
<1>9. ASSUME NEW t \in Threads, StoreCrashInfo(t)
      PROVE  ReportInv'
  BY <1>9, ThreadsAssumption DEF StoreCrashInfo
<1>10. ASSUME NEW t \in Threads, Notify(t)
       PROVE  ReportInv'
  BY <1>10 DEF Notify
<1>11. ASSUME NEW t \in Threads, Suspend(t)
       PROVE  ReportInv'
  BY <1>11 DEF Suspend
<1>12. ASSUME NEW t \in Threads, Return(t)
       PROVE  ReportInv'
  BY <1>12 DEF Return
<1>13. CASE ClientExit
  BY <1>13 DEF ClientExit
<1>14. ASSUME NEW w \in Watchdogs, Hello(w) \/ WakeOnClientExit(w) \/ Kill(w)
       PROVE  ReportInv'
  BY <1>14 DEF Hello, WakeOnClientExit, Kill
<1>15. ASSUME NEW w \in Watchdogs, WakeOnCrash(w)
       PROVE  ReportInv'
  BY <1>15 DEF WakeOnCrash
<1>16. ASSUME NEW w \in Watchdogs, ReadPointer(w)
       PROVE  ReportInv'
  BY <1>16 DEF ReadPointer
<1>17. ASSUME NEW w \in Watchdogs, ReadFrame(w)
       PROVE  ReportInv'
  BY <1>17, ThreadsAssumption DEF ReadFrame
<1>18. ASSUME NEW w \in Watchdogs, Finish(w)
       PROVE  ReportInv'
  BY <1>18 DEF Finish
<1>19. CASE UNCHANGED vars
  BY <1>19 DEF vars
<1>20. QED
  BY <1>1, <1>2, <1>3, <1>4, <1>5, <1>6, <1>7, <1>8, <1>9, <1>10, <1>11, <1>12,
     <1>13, <1>14, <1>15, <1>16, <1>17, <1>18, <1>19
     DEF Next, ApiStep, MonitorStep, HandlerStep, WatchdogStep

LEMMA ReportInit == Init => ReportInv
BY ThreadsAssumption DEF Init, ReportInv, FrameLive

(* A watchdog never shows anything but the frame of a thread that crashed, as
   long as the client is there and its handlers never return
   (src/eh4.c:213-221, src/watchdog/process.c:30-34). *)
THEOREM ReportsAreGenuine ==
    ASSUME CallPrevious = {FALSE}
    PROVE  Spec => []ReportIsGenuine
<1>1. ReportInv => ReportIsGenuine
  BY DEF ReportInv, ReportIsGenuine
<1>2. TypeOK => StateType
  BY DEF TypeOK
<1>3. StateType /\ ReportInv /\ [Next]_vars => ReportInv'
  BY ReportStepInv
<1>4. QED
  BY <1>1, <1>2, <1>3, ReportInit, TypeCorrect, PTL DEF Spec

-----------------------------------------------------------------------------
(* The abstract service's process and its crashes, as functions of the state of
   the protocol. *)
Process == IF client # "running" THEN "gone"
           ELSE IF suspended THEN "held" ELSE "running"
Crashed == {t \in Threads : FrameLive(t)}

LEMMA ServiceStep ==
    ASSUME CallPrevious = {FALSE}, StateType, ReportInv, StateType', Next
    PROVE  Service!ServiceNext \/ UNCHANGED <<Process, Crashed, report>>
<1> USE DEF Process, Crashed, FrameLive, StateType
<1>1. CASE AttachAcquire \/ DetachBegin \/ ApiStep
  <2>1. UNCHANGED <<client, suspended, pc, report>>
    BY <1>1 DEF AttachAcquire, DetachBegin, ApiStep, AttachSpawn, AttachThread,
       AttachWait, AttachHello, AttachFilter, DetachUnfilter, DetachTerminate,
       DetachJoin, DetachClose
  <2>2. QED
    BY <2>1
<1>2. CASE MonitorStep
  <2>1. UNCHANGED <<client, suspended, pc, report>>
    BY <1>2 DEF MonitorStep, MonitorWait, MonitorCheck, MonitorCreate, MonitorStore
  <2>2. QED
    BY <2>1
<1>3. ASSUME NEW t \in Threads, Crash(t) \/ Notify(t)
      PROVE  UNCHANGED <<Process, Crashed, report>>
  <2>1. UNCHANGED <<client, suspended, report>>
    BY <1>3 DEF Crash, Notify
  <2>2. \A u \in Threads : FrameLive(u)' <=> FrameLive(u)
    BY <1>3 DEF Crash, Notify
  <2>3. QED
    BY <2>1, <2>2
<1>4. ASSUME NEW t \in Threads, RaiseException(t) \/ Return(t)
      PROVE  Service!End
  <2>1. UNCHANGED <<pc, report>> /\ client' = "crashed" /\ Running
    BY <1>4 DEF RaiseException, Return, ReportInv
  <2>2. QED
    BY <2>1 DEF Service!End, Running
<1>5. ASSUME NEW t \in Threads, StoreCrashInfo(t)
      PROVE  Service!Announce(t)
  <2>1. UNCHANGED <<client, suspended, report>> /\ Running
    BY <1>5 DEF StoreCrashInfo
  <2>2. Crashed' = Crashed \cup {t}
    BY <1>5 DEF StoreCrashInfo
  <2>3. QED
    BY <2>1, <2>2 DEF Service!Announce, Running
<1>6. ASSUME NEW t \in Threads, Suspend(t)
      PROVE  Service!Hold \/ UNCHANGED <<Process, Crashed, report>>
  <2>1. UNCHANGED <<client, report>> /\ Running
    BY <1>6 DEF Suspend
  <2>2. Crashed' = Crashed
    BY <1>6 DEF Suspend
  <2>3. t \in Crashed
    BY <1>6 DEF Suspend
  <2>4. QED
    BY <2>1, <2>2, <2>3 DEF Service!Hold, Running
<1>7. CASE ClientExit
  <2>1. UNCHANGED <<pc, report>> /\ client' = "exited" /\ Running
    BY <1>7 DEF ClientExit
  <2>2. QED
    BY <2>1 DEF Service!ServiceNext, Service!End, Running
<1>8. ASSUME NEW w \in Watchdogs,
             Hello(w) \/ WakeOnCrash(w) \/ WakeOnClientExit(w) \/ ReadPointer(w) \/ Kill(w)
      PROVE  UNCHANGED <<Process, Crashed, report>>
  <2>1. UNCHANGED <<client, suspended, pc, report>>
    BY <1>8 DEF Hello, WakeOnCrash, WakeOnClientExit, ReadPointer, Kill
  <2>2. QED
    BY <2>1
<1>9. ASSUME NEW w \in Watchdogs, ReadFrame(w)
      PROVE  Service!ReportCrash
  <2>1. UNCHANGED <<client, suspended, pc>>
    BY <1>9 DEF ReadFrame
  <2>2. CASE client = "running"
    <3>1. report' = wptr[w] /\ wptr[w] \in Crashed
      BY <1>9, <2>2 DEF ReadFrame, ReportInv
    <3>2. QED
      BY <2>1, <3>1 DEF Service!ReportCrash
  <2>3. CASE client # "running"
    <3>1. report' = Garbage
      BY <1>9, <2>3 DEF ReadFrame
    <3>2. QED
      BY <2>1, <2>3, <3>1 DEF Service!ReportCrash
  <2>4. QED
    BY <2>2, <2>3
<1>10. ASSUME NEW w \in Watchdogs, Finish(w)
       PROVE  Service!ServiceNext \/ UNCHANGED <<Process, Crashed, report>>
  <2>1. UNCHANGED <<pc, report>>
    BY <1>10 DEF Finish
  <2>2. CASE client = "running"
    <3>1. client' = "terminated"
      BY <1>10, <2>2 DEF Finish, ReportInv
    <3>2. report \in Crashed
      BY <1>10, <2>2, ThreadsAssumption DEF Finish, ReportInv
    <3>3. QED
      BY <2>1, <2>2, <3>1, <3>2
         DEF Service!ServiceNext, Service!End, Service!Release
  <2>3. CASE client # "running"
    <3>1. client' # "running"
      BY <1>10, <2>3 DEF Finish
    <3>2. QED
      BY <2>1, <2>3, <3>1
  <2>4. QED
    BY <2>2, <2>3
<1>11. QED
  BY <1>1, <1>2, <1>3, <1>4, <1>5, <1>6, <1>7, <1>8, <1>9, <1>10
     DEF Next, HandlerStep, WatchdogStep, Service!ServiceNext

(* The protocol implements the abstract service: every step of a client, its
   monitor and its watchdogs is a step of the service or none at all. *)
THEOREM ProtocolImplementsService ==
    ASSUME CallPrevious = {FALSE}
    PROVE  Spec => ImplementsService
<1>1. Init => Service!ServiceInit
  BY DEF Init, Service!ServiceInit, FrameLive
<1>2. StateType /\ ReportInv /\ StateType' /\ [Next]_vars
        => [Service!ServiceNext]_(Service!serviceVars)
  <2>1. CASE Next
    BY <2>1, ServiceStep DEF Service!serviceVars, Process, Crashed
  <2>2. CASE UNCHANGED vars
    BY <2>2 DEF vars, Service!serviceVars, FrameLive
  <2>3. QED
    BY <2>1, <2>2
<1>3. TypeOK => StateType
  BY DEF TypeOK
<1>4. StateType /\ ReportInv /\ [Next]_vars => ReportInv'
  BY ReportStepInv
<1>5. QED
  BY <1>1, <1>2, <1>3, <1>4, ReportInit, TypeCorrect, PTL
     DEF Spec, ImplementsService, Service!ServiceSpec
=============================================================================
