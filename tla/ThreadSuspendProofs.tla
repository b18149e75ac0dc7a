------------------------- MODULE ThreadSuspendProofs -------------------------
(***************************************************************************)
(* The safety properties of ThreadSuspend hold for any set of threads, any *)
(* size of the static buffer and both builds.                              *)
(***************************************************************************)
EXTENDS ThreadSuspend, TLAPS

(***************************************************************************)
(* The inductive invariant.                                                *)
(***************************************************************************)
Resting == pc \in {"idle", "held", "resume", "fail"}

(* The kernel's list has one place for each thread. *)
ListOrder ==
    /\ \A t, u \in Threads : born[t] = born[u] /\ born[t] > 0 => t = u
    /\ \A t \in alive : born[t] > 0
    /\ Self \in alive /\ foreign[Self] = 0
    /\ \A t \in Threads : foreign[t] = 1 => born[t] > 0

(* The static variables say where the enumeration is, and nothing when it is over. *)
PlaceRight ==
    /\ Resting => prev = NoThread /\ listed = NoList /\ skipped = FALSE
    /\ build = "walk" => listed = NoList
    /\ build = "list" => prev = NoThread /\ skipped = FALSE
                         /\ pc \notin {"query", "suspend"}
    /\ prev # NoThread => born[prev] > 0
    /\ skipped => prev # NoThread /\ born[Self] <= born[prev]
    /\ pc \in {"query", "suspend", "grow"} => next \in Threads /\ born[next] > 0
    /\ pc \in {"query", "suspend"} => (prev # NoThread => born[prev] < born[next])
    /\ pc \in {"suspend", "grow"} => next # Self
    /\ pc = "grow" /\ build = "walk" => prev = next

(* Each suspended thread is in the buffer once, behind the place of the walk or
   off the list. *)
BufferRight ==
    /\ \A i, j \in DOMAIN buffer : buffer[i] = buffer[j] => i = j
    /\ Self \notin Held
    /\ \A t \in Held : born[t] > 0
    /\ build = "walk" /\ pc = "next" =>
          \A t \in Held : prev # NoThread /\ born[t] <= born[prev]
    /\ build = "walk" /\ pc \in {"query", "suspend", "grow"} =>
          \A t \in Held : born[t] < born[next]
    /\ pc = "grow" => next \notin Held
    /\ build = "list" /\ pc \in {"next", "grow"} =>
          /\ listed = NoList => pc = "next" /\ Held = {}
          /\ listed # NoList => listed \cap Held = {} /\ \A t \in listed : born[t] > 0
          /\ pc = "grow" => next \notin listed
    /\ pc = "idle" => buffer = <<>>

OpenRight ==
    /\ Resting => open = Held
    /\ pc \in {"query", "suspend", "grow"} => open = Held \cup {next}
    /\ pc = "next" => open = Held \cup (IF closePrev THEN {prev} ELSE {})
    /\ pc = "next" /\ closePrev => prev # NoThread /\ prev \notin Held
    /\ pc = "next" /\ prev # NoThread /\ ~closePrev => prev \in Held
    /\ build = "list" => ~closePrev

BlocksRight ==
    /\ blocks = ops + (IF onHeap THEN 1 ELSE 0) + ListBlock
    /\ pc # "held" => ops = 0
    /\ pc = "idle" => ~onHeap

(* A living thread the walk has passed stands in the buffer, or was refused. *)
Passed(t) ==
    CASE pc = "next" -> prev # NoThread /\ born[t] <= born[prev]
      [] pc \in {"query", "suspend", "grow"} -> born[t] < born[next]
      [] pc = "held" -> TRUE
      [] OTHER -> FALSE

StoppedRight ==
    /\ Held \cap alive \subseteq stopped
    /\ build = "walk" /\ refused \subseteq {Self} =>
          \A t \in alive \ {Self} : Passed(t) => t \in Held

IInv ==
    /\ TypeOK /\ ListOrder /\ PlaceRight /\ BufferRight /\ OpenRight
    /\ SuspensionsBalance /\ BlocksRight /\ StoppedRight

(***************************************************************************)
(* The steps, one lemma for each action.                                   *)
(***************************************************************************)
LEMMA HeldAppend ==
    ASSUME NEW S, NEW s \in Seq(S), NEW t
    PROVE  {Append(s, t)[i] : i \in DOMAIN Append(s, t)} = {s[i] : i \in DOMAIN s} \cup {t}
<1>1. DOMAIN Append(s, t) = (DOMAIN s) \cup {Len(s) + 1} /\ DOMAIN s = 1 .. Len(s) /\ Len(s) \in Nat
  OBVIOUS
<1>2. \A i \in DOMAIN s : Append(s, t)[i] = s[i]
  OBVIOUS
<1>3. Append(s, t)[Len(s) + 1] = t
  OBVIOUS
<1> QED
  BY <1>1, <1>2, <1>3

LEMMA HeldTail ==
    ASSUME NEW S, NEW s \in Seq(S), s # <<>>,
           \A i, j \in DOMAIN s : s[i] = s[j] => i = j
    PROVE  /\ {Tail(s)[i] : i \in DOMAIN Tail(s)} = {s[i] : i \in DOMAIN s} \ {Head(s)}
           /\ Head(s) \in {s[i] : i \in DOMAIN s}
           /\ \A i, j \in DOMAIN Tail(s) : Tail(s)[i] = Tail(s)[j] => i = j
<1>1. DOMAIN s = 1 .. Len(s) /\ Len(s) \in Nat /\ Len(s) > 0 /\ Head(s) = s[1]
  OBVIOUS
<1>2. DOMAIN Tail(s) = 1 .. (Len(s) - 1) /\ \A i \in 1 .. (Len(s) - 1) : Tail(s)[i] = s[i + 1]
  BY <1>1
<1>3. \A x : x \in {Tail(s)[i] : i \in DOMAIN Tail(s)} => x \in {s[i] : i \in DOMAIN s} \ {Head(s)}
  <2> SUFFICES ASSUME NEW i \in DOMAIN Tail(s)
               PROVE  Tail(s)[i] \in {s[j] : j \in DOMAIN s} \ {Head(s)}
    OBVIOUS
  <2>1. i + 1 \in DOMAIN s /\ i + 1 # 1 /\ 1 \in DOMAIN s /\ Tail(s)[i] = s[i + 1]
    BY <1>1, <1>2
  <2>2. s[i + 1] # s[1]
    BY <2>1
  <2> QED
    BY <1>1, <2>1, <2>2
<1>4. \A x : x \in {s[i] : i \in DOMAIN s} \ {Head(s)} => x \in {Tail(s)[i] : i \in DOMAIN Tail(s)}
  <2> SUFFICES ASSUME NEW i \in DOMAIN s, s[i] # Head(s)
               PROVE  s[i] \in {Tail(s)[j] : j \in DOMAIN Tail(s)}
    OBVIOUS
  <2>1. i # 1
    BY <1>1
  <2>2. i - 1 \in DOMAIN Tail(s) /\ Tail(s)[i - 1] = s[i]
    BY <1>1, <1>2, <2>1
  <2> QED
    BY <2>2
<1>5. \A i, j \in DOMAIN Tail(s) : Tail(s)[i] = Tail(s)[j] => i = j
  <2> SUFFICES ASSUME NEW i \in DOMAIN Tail(s), NEW j \in DOMAIN Tail(s), Tail(s)[i] = Tail(s)[j]
               PROVE  i = j
    OBVIOUS
  <2>1. i + 1 \in DOMAIN s /\ j + 1 \in DOMAIN s /\ s[i + 1] = s[j + 1]
    BY <1>1, <1>2
  <2>2. i + 1 = j + 1
    BY <2>1
  <2> QED
    BY <1>2, <2>2
<1>6. Head(s) \in {s[i] : i \in DOMAIN s}
  BY <1>1
<1> QED
  BY <1>3, <1>4, <1>5, <1>6

(* What suspending and resuming one thread does to the counts. *)
LEMMA SuspendBalance ==
    \A x \in Threads :
        /\ IInv /\ count' = [count EXCEPT ![x] = @ + 1] /\ foreign' = foreign
        /\ count[x] < MaxSuspend /\ x \notin Suspended /\ Suspended' = Suspended \cup {x}
        => SuspensionsBalance' /\ count' \in [Threads -> 0 .. MaxSuspend]
<1> TAKE x \in Threads
<1> HAVE /\ IInv /\ count' = [count EXCEPT ![x] = @ + 1] /\ foreign' = foreign
         /\ count[x] < MaxSuspend /\ x \notin Suspended /\ Suspended' = Suspended \cup {x}
<1>1. SuspensionsBalance /\ count \in [Threads -> 0 .. MaxSuspend] /\ MaxSuspend \in Nat
      /\ foreign \in [Threads -> {0, 1}]
  BY BoundAssumption DEF IInv, TypeOK
<1>2. count' \in [Threads -> 0 .. MaxSuspend]
  BY <1>1
<1>3. SuspensionsBalance'
  <2> SUFFICES ASSUME NEW t \in Threads
               PROVE  count'[t] = foreign'[t] + (IF t \in Suspended' THEN 1 ELSE 0)
    BY DEF SuspensionsBalance
  <2> QED
    BY <1>1 DEF SuspensionsBalance
<1> QED
  BY <1>2, <1>3

LEMMA ResumeBalance ==
    \A x \in Threads :
        /\ IInv /\ count' = [count EXCEPT ![x] = @ - 1] /\ foreign' = foreign
        /\ x \in Suspended /\ Suspended' = Suspended \ {x}
        => SuspensionsBalance' /\ count' \in [Threads -> 0 .. MaxSuspend]
<1> TAKE x \in Threads
<1> HAVE /\ IInv /\ count' = [count EXCEPT ![x] = @ - 1] /\ foreign' = foreign
         /\ x \in Suspended /\ Suspended' = Suspended \ {x}
<1>1. SuspensionsBalance /\ count \in [Threads -> 0 .. MaxSuspend] /\ MaxSuspend \in Nat
      /\ foreign \in [Threads -> {0, 1}]
  BY BoundAssumption DEF IInv, TypeOK
<1>2. count[x] = foreign[x] + 1
  BY <1>1 DEF SuspensionsBalance
<1>3. count[x] \in 1 .. MaxSuspend
  BY <1>1, <1>2
<1>4. SuspensionsBalance'
  BY <1>1 DEF SuspensionsBalance
<1> QED
  BY <1>1, <1>3, <1>4

LEMMA HeldThreads == IInv => Held \subseteq Threads
BY DEF IInv, TypeOK, Held

LEMMA BeginStep == IInv /\ Begin => IInv'
<1> SUFFICES ASSUME IInv, Begin PROVE IInv'
  OBVIOUS
<1> USE ThreadAssumption, BoundAssumption, VariantAssumption DEF IInv, Begin, kernelVars,
       variantVars, placeVars, bufferVars, TypeOK
<1>h. Held' = {} /\ Held = {}
  BY DEF Held, BufferRight
<1>k. Held \subseteq Threads
  BY HeldThreads
<1>e. <<>> \in Seq(Threads)
  OBVIOUS
<1>1. TypeOK'
  BY <1>h, <1>k, <1>e
<1>2. ListOrder'
  BY <1>h, <1>k, <1>e DEF ListOrder
<1>3. PlaceRight'
  BY <1>h, <1>k, <1>e DEF ListOrder, PlaceRight, Resting, NoList, OpenRight, BufferRight
<1>4. BufferRight'
  BY <1>h, <1>k, <1>e DEF ListOrder, PlaceRight, BufferRight, Resting, NoList
<1>5. OpenRight'
  BY <1>h, <1>k, <1>e DEF ListOrder, PlaceRight, BufferRight, OpenRight, Resting
<1>6. SuspensionsBalance'
  BY <1>h, <1>k, <1>e DEF ListOrder, PlaceRight, BufferRight, SuspensionsBalance, Suspended
<1>7. BlocksRight'
  BY <1>h, <1>k, <1>e DEF PlaceRight, BlocksRight, ListBlock, Resting, NoList
<1>8. StoppedRight'
  BY <1>h, <1>k, <1>e DEF ListOrder, PlaceRight, BufferRight, SuspensionsBalance, Suspended,
     StoppedRight, Passed, Resting
<1> QED
  BY <1>1, <1>2, <1>3, <1>4, <1>5, <1>6, <1>7, <1>8

LEMMA GetNextThreadStep == IInv /\ GetNextThread => IInv'
<1> SUFFICES ASSUME IInv, GetNextThread PROVE IInv'
  OBVIOUS
<1> USE ThreadAssumption, BoundAssumption, VariantAssumption DEF IInv, GetNextThread,
       Walking, Behind, NextThreads, OpenAfterGet, kernelVars, variantVars, placeVars,
       bufferVars, TypeOK
<1>h. Held' = Held
  BY DEF Held
<1>k. Held \subseteq Threads
  BY HeldThreads
<1>1. TypeOK'
  BY <1>h, <1>k
<1>2. ListOrder'
  BY <1>h, <1>k DEF ListOrder
<1>3. PlaceRight'
  BY SMTT(30), <1>h, <1>k DEF ListOrder, PlaceRight, Resting, NoList, OpenRight, BufferRight
<1>4. BufferRight'
  BY <1>h, <1>k DEF ListOrder, PlaceRight, BufferRight, Resting, NoList
<1>5. OpenRight'
  BY <1>h, <1>k DEF ListOrder, PlaceRight, BufferRight, OpenRight, Resting
<1>6. SuspensionsBalance'
  BY <1>h, <1>k DEF ListOrder, PlaceRight, BufferRight, SuspensionsBalance, Suspended
<1>7. BlocksRight'
  BY <1>h, <1>k DEF PlaceRight, BlocksRight, ListBlock, Resting, NoList
<1>8. StoppedRight'
  <2> USE <1>h DEF ListOrder, PlaceRight, BufferRight, StoppedRight
  <2>1. (Held \cap alive \subseteq stopped)'
    OBVIOUS
  <2>2. ASSUME build = "walk", refused' \subseteq {Self}, NEW t \in alive' \ {Self}, Passed(t)'
        PROVE  t \in Held'
    <3>1. t \in alive /\ born[t] < born[next'] /\ refused \subseteq {Self}
      BY <2>2 DEF Passed
    <3>2. ~ Behind(t)
      <4>1. next' \in NextThreads /\ born \in [Threads -> Nat] /\ next' \in Threads
        OBVIOUS
      <4>2. Behind(t) => born[next'] <= born[t]
        BY <3>1, <4>1
      <4> QED
        BY <3>1, <4>1, <4>2 
    <3>3. Passed(t)
      BY SMTT(30), <3>1, <3>2 DEF Passed
    <3> QED
      BY <2>2, <3>1, <3>3
  <2> QED
    BY <2>1, <2>2
<1> QED
  BY <1>1, <1>2, <1>3, <1>4, <1>5, <1>6, <1>7, <1>8

LEMMA NoMoreThreadsStep == IInv /\ NoMoreThreads => IInv'
<1> SUFFICES ASSUME IInv, NoMoreThreads PROVE IInv'
  OBVIOUS
<1> USE ThreadAssumption, BoundAssumption, VariantAssumption DEF IInv, NoMoreThreads,
       Walking, Behind, OpenAfterGet, Rest, kernelVars, variantVars, placeVars, bufferVars,
       TypeOK
<1>h. Held' = Held
  BY DEF Held
<1>k. Held \subseteq Threads
  BY HeldThreads
<1>1. TypeOK'
  BY <1>h, <1>k
<1>2. ListOrder'
  BY <1>h, <1>k DEF ListOrder
<1>3. PlaceRight'
  BY <1>h, <1>k DEF ListOrder, PlaceRight, Resting, NoList, OpenRight, BufferRight
<1>4. BufferRight'
  BY <1>h, <1>k DEF ListOrder, PlaceRight, BufferRight, Resting, NoList
<1>5. OpenRight'
  <2>1. open' = Held
    <3>1. CASE closePrev
      BY <3>1 DEF OpenRight
    <3>2. CASE ~closePrev
      BY <3>2 DEF OpenRight
    <3> QED
      BY <3>1, <3>2
  <2> QED
    BY <1>h, <2>1 DEF OpenRight, Resting, PlaceRight
<1>6. SuspensionsBalance'
  BY <1>h, <1>k DEF ListOrder, PlaceRight, BufferRight, SuspensionsBalance, Suspended
<1>7. BlocksRight'
  BY <1>h, <1>k DEF PlaceRight, BlocksRight, ListBlock, Resting, NoList
<1>8. StoppedRight'
  <2> USE <1>h DEF ListOrder, PlaceRight, BufferRight, StoppedRight
  <2>1. (Held \cap alive \subseteq stopped)'
    OBVIOUS
  <2>2. ASSUME build = "walk", refused' \subseteq {Self}, NEW t \in alive' \ {Self}, Passed(t)'
        PROVE  t \in Held'
    <3>1. t \in alive /\ ~ Behind(t) /\ refused \subseteq {Self} /\ pc = "next"
      BY <2>2
    <3>2. Passed(t)
      BY <3>1 DEF Passed
    <3> QED
      BY <2>2, <3>1, <3>2
  <2> QED
    BY <2>1, <2>2
<1> QED
  BY <1>1, <1>2, <1>3, <1>4, <1>5, <1>6, <1>7, <1>8

LEMMA GetNextThreadFailsStep == IInv /\ GetNextThreadFails => IInv'
<1> SUFFICES ASSUME IInv, GetNextThreadFails PROVE IInv'
  OBVIOUS
<1> USE ThreadAssumption, BoundAssumption, VariantAssumption DEF IInv, GetNextThreadFails,
       Walking, OpenAfterGet, Rest, kernelVars, variantVars, placeVars, bufferVars, TypeOK
<1>h. Held' = Held
  BY DEF Held
<1>k. Held \subseteq Threads
  BY HeldThreads
<1>1. TypeOK'
  BY <1>h, <1>k
<1>2. ListOrder'
  BY <1>h, <1>k DEF ListOrder
<1>3. PlaceRight'
  BY <1>h, <1>k DEF ListOrder, PlaceRight, Resting, NoList, OpenRight, BufferRight
<1>4. BufferRight'
  BY <1>h, <1>k DEF ListOrder, PlaceRight, BufferRight, Resting, NoList
<1>5. OpenRight'
  <2>1. open' = Held
    <3>1. CASE closePrev
      BY <3>1 DEF OpenRight
    <3>2. CASE ~closePrev
      BY <3>2 DEF OpenRight
    <3> QED
      BY <3>1, <3>2
  <2> QED
    BY <1>h, <2>1 DEF OpenRight, Resting, PlaceRight
<1>6. SuspensionsBalance'
  BY <1>h, <1>k DEF ListOrder, PlaceRight, BufferRight, SuspensionsBalance, Suspended
<1>7. BlocksRight'
  BY <1>h, <1>k DEF PlaceRight, BlocksRight, ListBlock, Resting, NoList
<1>8. StoppedRight'
  BY <1>h, <1>k DEF ListOrder, PlaceRight, BufferRight, SuspensionsBalance, Suspended,
     StoppedRight, Passed, Resting
<1> QED
  BY <1>1, <1>2, <1>3, <1>4, <1>5, <1>6, <1>7, <1>8

LEMMA QueryStep == IInv /\ Query => IInv'
<1> SUFFICES ASSUME IInv, Query PROVE IInv'
  OBVIOUS
<1> USE ThreadAssumption, BoundAssumption, VariantAssumption DEF IInv, Query, StepNext,
       kernelVars, variantVars, placeVars, bufferVars, TypeOK
<1>h. Held' = Held
  BY DEF Held
<1>k. Held \subseteq Threads
  BY HeldThreads
<1>1. TypeOK'
  BY <1>h, <1>k
<1>2. ListOrder'
  BY <1>h, <1>k DEF ListOrder
<1>3. PlaceRight'
  BY SMTT(30), <1>h, <1>k DEF ListOrder, PlaceRight, Resting, NoList, OpenRight, BufferRight
<1>4. BufferRight'
  BY SMTT(30), <1>h, <1>k DEF ListOrder, PlaceRight, BufferRight, Resting, NoList
<1>5. OpenRight'
  BY <1>h, <1>k DEF ListOrder, PlaceRight, BufferRight, OpenRight, Resting
<1>6. SuspensionsBalance'
  BY <1>h, <1>k DEF ListOrder, PlaceRight, BufferRight, SuspensionsBalance, Suspended
<1>7. BlocksRight'
  BY <1>h, <1>k DEF PlaceRight, BlocksRight, ListBlock, Resting, NoList
<1>8. StoppedRight'
  <2> USE <1>h DEF ListOrder, PlaceRight, BufferRight, StoppedRight
  <2>1. (Held \cap alive \subseteq stopped)'
    OBVIOUS
  <2>2. ASSUME build = "walk", refused' \subseteq {Self}, NEW t \in alive' \ {Self}, Passed(t)'
        PROVE  t \in Held'
    <3>1. t \in alive /\ refused \subseteq {Self} /\ t \in Threads
      BY <2>2
    <3>2. CASE pc' # "next"
      BY <2>2, <3>1, <3>2 DEF Passed
    <3>3. CASE pc' = "next"
      <4>1. born[t] <= born[next] /\ prev' = next
        BY <2>2, <3>3 DEF Passed
      <4>2. t # next
        BY <2>2, <3>1, <3>3
      <4>3. born[t] < born[next]
        BY <3>1, <4>1, <4>2
      <4> QED
        BY <2>2, <3>1, <4>3 DEF Passed
    <3> QED
      BY <3>2, <3>3
  <2> QED
    BY <2>1, <2>2
<1> QED
  BY <1>1, <1>2, <1>3, <1>4, <1>5, <1>6, <1>7, <1>8

LEMMA SuspendThreadStep == IInv /\ SuspendThread => IInv'
<1> SUFFICES ASSUME IInv, SuspendThread PROVE IInv'
  OBVIOUS
<1> USE ThreadAssumption, BoundAssumption, VariantAssumption DEF IInv, SuspendThread,
       Suspend, kernelVars, variantVars, placeVars, bufferVars, TypeOK
<1>h. Held' = Held
  BY DEF Held
<1>k. Held \subseteq Threads
  BY HeldThreads
<1>b. Suspended = Held /\ Suspended' = Held \cup {next} /\ next \in Threads \ Held
  BY SMTT(30), <1>h DEF Suspended, PlaceRight, BufferRight, ListOrder
<1>c. /\ count' = [count EXCEPT ![next] = @ + 1] /\ foreign' = foreign
      /\ count[next] < MaxSuspend
  OBVIOUS
<1>r. SuspensionsBalance' /\ count' \in [Threads -> 0 .. MaxSuspend]
  <2> HIDE DEF IInv, TypeOK, SuspendThread
  <2> QED
    BY <1>h, <1>b, <1>c, SuspendBalance
<1>1. TypeOK'
  BY SMTT(30), <1>r
<1>2. ListOrder'
  BY <1>h, <1>k DEF ListOrder
<1>3. PlaceRight'
  BY <1>h, <1>k DEF ListOrder, PlaceRight, Resting, NoList, OpenRight, BufferRight
<1>4. BufferRight'
  BY <1>h, <1>k DEF ListOrder, PlaceRight, BufferRight, Resting, NoList
<1>5. OpenRight'
  BY <1>h, <1>k DEF ListOrder, PlaceRight, BufferRight, OpenRight, Resting
<1>6. SuspensionsBalance'
  BY <1>r
<1>7. BlocksRight'
  BY <1>h, <1>k DEF PlaceRight, BlocksRight, ListBlock, Resting, NoList
<1>8. StoppedRight'
  BY <1>h, <1>k DEF ListOrder, PlaceRight, BufferRight, SuspensionsBalance, Suspended,
     StoppedRight, Passed, Resting
<1> QED
  BY <1>1, <1>2, <1>3, <1>4, <1>5, <1>6, <1>7, <1>8

LEMMA SuspendThreadFailsStep == IInv /\ SuspendThreadFails => IInv'
<1> SUFFICES ASSUME IInv, SuspendThreadFails PROVE IInv'
  OBVIOUS
<1> USE ThreadAssumption, BoundAssumption, VariantAssumption DEF IInv, SuspendThreadFails,
       StepNext, kernelVars, variantVars, placeVars, bufferVars, TypeOK
<1>h. Held' = Held
  BY DEF Held
<1>k. Held \subseteq Threads
  BY HeldThreads
<1>1. TypeOK'
  BY <1>h, <1>k
<1>2. ListOrder'
  BY <1>h, <1>k DEF ListOrder
<1>3. PlaceRight'
  BY <1>h, <1>k DEF ListOrder, PlaceRight, Resting, NoList, OpenRight, BufferRight
<1>4. BufferRight'
  BY <1>h, <1>k DEF ListOrder, PlaceRight, BufferRight, Resting, NoList
<1>5. OpenRight'
  BY <1>h, <1>k DEF ListOrder, PlaceRight, BufferRight, OpenRight, Resting
<1>6. SuspensionsBalance'
  BY <1>h, <1>k DEF ListOrder, PlaceRight, BufferRight, SuspensionsBalance, Suspended
<1>7. BlocksRight'
  BY <1>h, <1>k DEF PlaceRight, BlocksRight, ListBlock, Resting, NoList
<1>8. StoppedRight'
  <2> USE <1>h DEF ListOrder, PlaceRight, BufferRight, StoppedRight
  <2>1. (Held \cap alive \subseteq stopped)'
    OBVIOUS
  <2>2. ASSUME build = "walk", refused' \subseteq {Self}, NEW t \in alive' \ {Self}, Passed(t)'
        PROVE  t \in Held'
    <3>1. t \in alive /\ refused \subseteq {Self} /\ t \in Threads
      BY <2>2
    <3>2. CASE pc' # "next"
      BY <2>2, <3>1, <3>2 DEF Passed
    <3>3. CASE pc' = "next"
      <4>1. born[t] <= born[next] /\ prev' = next
        BY <2>2, <3>3 DEF Passed
      <4>2. t # next
        BY <2>2, <3>1, <3>3
      <4>3. born[t] < born[next]
        BY <3>1, <4>1, <4>2
      <4> QED
        BY <2>2, <3>1, <4>3 DEF Passed
    <3> QED
      BY <3>2, <3>3
  <2> QED
    BY <2>1, <2>2
<1> QED
  BY <1>1, <1>2, <1>3, <1>4, <1>5, <1>6, <1>7, <1>8

LEMMA TakeSnapshotStep == IInv /\ TakeSnapshot => IInv'
<1> SUFFICES ASSUME IInv, TakeSnapshot PROVE IInv'
  OBVIOUS
<1> USE ThreadAssumption, BoundAssumption, VariantAssumption DEF IInv, TakeSnapshot,
       Listing, kernelVars, variantVars, placeVars, bufferVars, TypeOK
<1>h. Held' = Held
  BY DEF Held
<1>k. Held \subseteq Threads
  BY HeldThreads
<1>1. TypeOK'
  BY SMTT(30), <1>h, <1>k
<1>2. ListOrder'
  BY <1>h, <1>k DEF ListOrder
<1>3. PlaceRight'
  BY <1>h, <1>k DEF ListOrder, PlaceRight, Resting, NoList, OpenRight, BufferRight
<1>4. BufferRight'
  BY <1>h, <1>k DEF ListOrder, PlaceRight, BufferRight, Resting, NoList
<1>5. OpenRight'
  <2>1. open = Held /\ open' = open /\ prev' = NoThread /\ ~closePrev /\ closePrev' = closePrev
    BY DEF OpenRight, PlaceRight
  <2>2. pc' \in {"next", "held", "fail"}
    OBVIOUS
  <2> HIDE DEF IInv, TypeOK, TakeSnapshot
  <2> QED
    BY <1>h, <2>1, <2>2 DEF OpenRight
<1>6. SuspensionsBalance'
  BY <1>h, <1>k DEF ListOrder, PlaceRight, BufferRight, SuspensionsBalance, Suspended
<1>7. BlocksRight'
  BY <1>h, <1>k DEF PlaceRight, BlocksRight, ListBlock, Resting, NoList
<1>8. StoppedRight'
  BY <1>h, <1>k DEF ListOrder, PlaceRight, BufferRight, SuspensionsBalance, Suspended,
     StoppedRight, Passed, Resting
<1> QED
  BY <1>1, <1>2, <1>3, <1>4, <1>5, <1>6, <1>7, <1>8

LEMMA PassListedStep == IInv /\ PassListed => IInv'
<1> SUFFICES ASSUME IInv, PassListed PROVE IInv'
  OBVIOUS
<1> USE ThreadAssumption, BoundAssumption, VariantAssumption DEF IInv, PassListed, Listing,
       NextListed, kernelVars, variantVars, placeVars, bufferVars, TypeOK
<1>h. Held' = Held
  BY DEF Held
<1>k. Held \subseteq Threads
  BY HeldThreads
<1>1. TypeOK'
  BY <1>h, <1>k
<1>2. ListOrder'
  BY <1>h, <1>k DEF ListOrder
<1>3. PlaceRight'
  BY <1>h, <1>k DEF ListOrder, PlaceRight, Resting, NoList, OpenRight, BufferRight
<1>4. BufferRight'
  BY <1>h, <1>k DEF ListOrder, PlaceRight, BufferRight, Resting, NoList
<1>5. OpenRight'
  BY <1>h, <1>k DEF ListOrder, PlaceRight, BufferRight, OpenRight, Resting
<1>6. SuspensionsBalance'
  BY <1>h, <1>k DEF ListOrder, PlaceRight, BufferRight, SuspensionsBalance, Suspended
<1>7. BlocksRight'
  BY <1>h, <1>k DEF PlaceRight, BlocksRight, ListBlock, Resting, NoList
<1>8. StoppedRight'
  BY <1>h, <1>k DEF ListOrder, PlaceRight, BufferRight, SuspensionsBalance, Suspended,
     StoppedRight, Passed, Resting
<1> QED
  BY <1>1, <1>2, <1>3, <1>4, <1>5, <1>6, <1>7, <1>8

LEMMA SuspendListedStep == IInv /\ SuspendListed => IInv'
<1> SUFFICES ASSUME IInv, SuspendListed PROVE IInv'
  OBVIOUS
<1> USE ThreadAssumption, BoundAssumption, VariantAssumption DEF IInv, SuspendListed,
       Listing, NextListed, Suspend, kernelVars, variantVars, placeVars, bufferVars, TypeOK
<1>h. Held' = Held
  BY DEF Held
<1>k. Held \subseteq Threads
  BY HeldThreads
<1>b. Suspended = Held /\ Suspended' = Held \cup {next'} /\ next' \in Threads \ Held
  BY SMTT(30), <1>h DEF Suspended, PlaceRight, BufferRight, NoList
<1>c. /\ count' = [count EXCEPT ![next'] = @ + 1] /\ foreign' = foreign
      /\ count[next'] < MaxSuspend
  OBVIOUS
<1>r. SuspensionsBalance' /\ count' \in [Threads -> 0 .. MaxSuspend]
  <2> HIDE DEF IInv, TypeOK, SuspendListed
  <2> QED
    BY <1>h, <1>b, <1>c, SuspendBalance
<1>1. TypeOK'
  BY SMTT(30), <1>r
<1>2. ListOrder'
  BY <1>h, <1>k DEF ListOrder
<1>3. PlaceRight'
  BY <1>h, <1>k DEF ListOrder, PlaceRight, Resting, NoList, OpenRight, BufferRight
<1>4. BufferRight'
  BY SMTT(30), <1>h, <1>k DEF ListOrder, PlaceRight, BufferRight, Resting, NoList
<1>5. OpenRight'
  BY <1>h, <1>k DEF ListOrder, PlaceRight, BufferRight, OpenRight, Resting
<1>6. SuspensionsBalance'
  BY <1>r
<1>7. BlocksRight'
  BY <1>h, <1>k DEF PlaceRight, BlocksRight, ListBlock, Resting, NoList
<1>8. StoppedRight'
  BY <1>h, <1>k DEF ListOrder, PlaceRight, BufferRight, SuspensionsBalance, Suspended,
     StoppedRight, Passed, Resting
<1> QED
  BY <1>1, <1>2, <1>3, <1>4, <1>5, <1>6, <1>7, <1>8

LEMMA ListExhaustedStep == IInv /\ ListExhausted => IInv'
<1> SUFFICES ASSUME IInv, ListExhausted PROVE IInv'
  OBVIOUS
<1> USE ThreadAssumption, BoundAssumption, VariantAssumption DEF IInv, ListExhausted,
       Listing, Rest, kernelVars, variantVars, placeVars, bufferVars, TypeOK
<1>h. Held' = Held
  BY DEF Held
<1>k. Held \subseteq Threads
  BY HeldThreads
<1>m. blocks' \in Nat
  <2>1. listed # NoList
    BY DEF NoList
  <2> QED
    BY <2>1 DEF BlocksRight, ListBlock
<1>1. TypeOK'
  BY <1>m
<1>2. ListOrder'
  BY <1>h, <1>k DEF ListOrder
<1>3. PlaceRight'
  BY <1>h, <1>k DEF ListOrder, PlaceRight, Resting, NoList, OpenRight, BufferRight
<1>4. BufferRight'
  BY <1>h, <1>k DEF ListOrder, PlaceRight, BufferRight, Resting, NoList
<1>5. OpenRight'
  <2>1. open = Held /\ open' = open /\ prev' = NoThread /\ ~closePrev /\ closePrev' = closePrev
    BY DEF OpenRight, PlaceRight
  <2>2. pc' \in {"next", "held", "fail"}
    OBVIOUS
  <2> HIDE DEF IInv, TypeOK, ListExhausted
  <2> QED
    BY <1>h, <2>1, <2>2 DEF OpenRight
<1>6. SuspensionsBalance'
  BY <1>h, <1>k DEF ListOrder, PlaceRight, BufferRight, SuspensionsBalance, Suspended
<1>7. BlocksRight'
  <2>1. listed # NoList /\ ListBlock = 1 /\ ListBlock' = 0
    BY DEF ListBlock, NoList
  <2> QED
    BY <2>1 DEF BlocksRight
<1>8. StoppedRight'
  BY <1>h, <1>k DEF ListOrder, PlaceRight, BufferRight, SuspensionsBalance, Suspended,
     StoppedRight, Passed, Resting
<1> QED
  BY <1>1, <1>2, <1>3, <1>4, <1>5, <1>6, <1>7, <1>8

LEMMA GrowStep == IInv /\ Grow => IInv'
<1> SUFFICES ASSUME IInv, Grow PROVE IInv'
  OBVIOUS
<1> USE ThreadAssumption, BoundAssumption, VariantAssumption DEF IInv, Grow, kernelVars,
       variantVars, placeVars, bufferVars, TypeOK
<1>h. Held' = Held
  BY DEF Held
<1>k. Held \subseteq Threads
  BY HeldThreads
<1>1. TypeOK'
  BY <1>h, <1>k
<1>2. ListOrder'
  BY <1>h, <1>k DEF ListOrder
<1>3. PlaceRight'
  BY <1>h, <1>k DEF ListOrder, PlaceRight, Resting, NoList, OpenRight, BufferRight
<1>4. BufferRight'
  BY <1>h, <1>k DEF ListOrder, PlaceRight, BufferRight, Resting, NoList
<1>5. OpenRight'
  BY <1>h, <1>k DEF ListOrder, PlaceRight, BufferRight, OpenRight, Resting
<1>6. SuspensionsBalance'
  BY <1>h, <1>k DEF ListOrder, PlaceRight, BufferRight, SuspensionsBalance, Suspended
<1>7. BlocksRight'
  BY <1>h, <1>k DEF PlaceRight, BlocksRight, ListBlock, Resting, NoList
<1>8. StoppedRight'
  BY <1>h, <1>k DEF ListOrder, PlaceRight, BufferRight, SuspensionsBalance, Suspended,
     StoppedRight, Passed, Resting
<1> QED
  BY <1>1, <1>2, <1>3, <1>4, <1>5, <1>6, <1>7, <1>8

LEMMA GrowFailsStep == IInv /\ GrowFails => IInv'
<1> SUFFICES ASSUME IInv, GrowFails PROVE IInv'
  OBVIOUS
<1> USE ThreadAssumption, BoundAssumption, VariantAssumption DEF IInv, GrowFails, GiveUp,
       Resume, Rest, kernelVars, variantVars, placeVars, bufferVars, TypeOK
<1>h. Held' = Held
  BY DEF Held
<1>k. Held \subseteq Threads
  BY HeldThreads
<1>b. Suspended = Held \cup {next} /\ Suspended' = Held /\ next \in Threads \ Held
  BY <1>h DEF Suspended, PlaceRight, BufferRight
<1>c. count' = [count EXCEPT ![next] = @ - 1] /\ foreign' = foreign
  OBVIOUS
<1>r. SuspensionsBalance' /\ count' \in [Threads -> 0 .. MaxSuspend]
  <2> HIDE DEF IInv, TypeOK, GrowFails, ResumeThread
  <2> QED
    BY <1>h, <1>b, <1>c, ResumeBalance
<1>m. blocks' \in Nat
  BY SMTT(30) DEF BlocksRight, ListBlock, NoList
<1>1. TypeOK'
  BY <1>m, <1>r
<1>2. ListOrder'
  BY <1>h, <1>k, <1>b DEF ListOrder
<1>3. PlaceRight'
  BY <1>h, <1>k, <1>b DEF ListOrder, PlaceRight, Resting, NoList, OpenRight, BufferRight
<1>4. BufferRight'
  BY <1>h, <1>k, <1>b DEF ListOrder, PlaceRight, BufferRight, Resting, NoList
<1>5. OpenRight'
  BY <1>h, <1>k, <1>b DEF ListOrder, PlaceRight, BufferRight, OpenRight, Resting
<1>6. SuspensionsBalance'
  BY <1>r
<1>7. BlocksRight'
  BY <1>h, <1>k, <1>b DEF PlaceRight, BlocksRight, ListBlock, Resting, NoList
<1>8. StoppedRight'
  BY <1>h, <1>k, <1>b DEF ListOrder, PlaceRight, BufferRight, SuspensionsBalance, Suspended,
     StoppedRight, Passed, Resting
<1> QED
  BY <1>1, <1>2, <1>3, <1>4, <1>5, <1>6, <1>7, <1>8

LEMMA WaitUntilStoppedStep == IInv /\ WaitUntilStopped => IInv'
<1> SUFFICES ASSUME IInv, WaitUntilStopped PROVE IInv'
  OBVIOUS
<1> USE ThreadAssumption, BoundAssumption, VariantAssumption DEF IInv, WaitUntilStopped,
       Stands, kernelVars, variantVars, placeVars, bufferVars, TypeOK
<1>s. next \in Threads /\ buffer \in Seq(Threads) /\ buffer' = Append(buffer, next)
  BY DEF PlaceRight
<1>h. Held' = Held \cup {next}
  <2> HIDE DEF IInv, TypeOK, WaitUntilStopped
  <2>1. {Append(buffer, next)[i] : i \in DOMAIN Append(buffer, next)} = Held \cup {next}
    BY <1>s, HeldAppend DEF Held
  <2> QED
    BY <1>s, <2>1 DEF Held
<1>b. buffer' \in Seq(Threads)
  <2> HIDE DEF IInv, TypeOK, WaitUntilStopped
  <2> QED
    BY <1>s
<1>k. Held \subseteq Threads
  BY HeldThreads
<1>1. TypeOK'
  BY <1>h, <1>k, <1>s, <1>b
<1>2. ListOrder'
  BY <1>h, <1>k, <1>s, <1>b DEF ListOrder
<1>3. PlaceRight'
  BY <1>h, <1>k, <1>s, <1>b DEF ListOrder, PlaceRight, Resting, NoList, OpenRight,
     BufferRight
<1>4. BufferRight'
  <2>1. \A i \in DOMAIN buffer : buffer[i] # next
    BY <1>s DEF BufferRight, Held
  <2>2. (\A i, j \in DOMAIN buffer : buffer[i] = buffer[j] => i = j)'
    <3>1. \A i, j \in DOMAIN buffer : buffer[i] = buffer[j] => i = j
      BY DEF BufferRight
    <3> HIDE DEF IInv, TypeOK, WaitUntilStopped
    <3>2. \A i \in DOMAIN buffer : buffer'[i] = buffer[i]
      BY <1>s
    <3>3. DOMAIN buffer' = (DOMAIN buffer) \cup {Len(buffer) + 1} /\ buffer'[Len(buffer) + 1] = next
      BY <1>s
    <3> QED
      BY <2>1, <3>1, <3>2, <3>3
  <2>3. (\A t \in Held : born[t] > 0) /\ (\A t \in Held' : born[t] > 0) /\ Self \notin Held'
    BY <1>h, <1>s DEF PlaceRight, BufferRight
  <2>4. build = "walk" => prev = next /\ \A t \in Held' : born[t] <= born[next]
    BY <1>h, <1>k, <1>s DEF PlaceRight, BufferRight
  <2>5. build = "list" => listed # NoList /\ listed \cap Held' = {}
    BY <1>h, <1>s DEF BufferRight
  <2> QED
    BY <1>h, <1>s, <2>2, <2>3, <2>4, <2>5 DEF BufferRight
<1>5. OpenRight'
  BY <1>h, <1>k, <1>s, <1>b DEF ListOrder, PlaceRight, BufferRight, OpenRight, Resting
<1>6. SuspensionsBalance'
  BY <1>h, <1>k, <1>s, <1>b DEF ListOrder, PlaceRight, BufferRight, SuspensionsBalance,
     Suspended
<1>7. BlocksRight'
  BY <1>h, <1>k, <1>s, <1>b DEF PlaceRight, BlocksRight, ListBlock, Resting, NoList
<1>8. StoppedRight'
  <2>1. (Held \cap alive \subseteq stopped)'
    BY <1>h DEF StoppedRight
  <2>2. ASSUME build = "walk", refused' \subseteq {Self}, NEW t \in alive' \ {Self}, Passed(t)'
        PROVE  t \in Held'
    <3>1. born[t] <= born[next] /\ t \in alive
      BY <1>s, <2>2 DEF Passed, PlaceRight
    <3>2. CASE t = next
      BY <1>h, <3>2
    <3>3. CASE t # next
      <4>1. born[t] < born[next]
        BY <1>s, <3>1, <3>3 DEF ListOrder
      <4>2. Passed(t)
        BY <4>1 DEF Passed
      <4> QED
        BY <1>h, <2>2, <3>1, <4>2 DEF StoppedRight
    <3> QED
      BY <3>2, <3>3
  <2> QED
    BY <2>1, <2>2 DEF StoppedRight
<1> QED
  BY <1>1, <1>2, <1>3, <1>4, <1>5, <1>6, <1>7, <1>8

LEMMA AddOperationStep == IInv /\ AddOperation => IInv'
<1> SUFFICES ASSUME IInv, AddOperation PROVE IInv'
  OBVIOUS
<1> USE ThreadAssumption, BoundAssumption, VariantAssumption DEF IInv, AddOperation,
       kernelVars, variantVars, placeVars, bufferVars, TypeOK
<1>h. Held' = Held
  BY DEF Held
<1>k. Held \subseteq Threads
  BY HeldThreads
<1>1. TypeOK'
  BY SMTT(30), <1>h, <1>k
<1>2. ListOrder'
  BY <1>h, <1>k DEF ListOrder
<1>3. PlaceRight'
  BY <1>h, <1>k DEF ListOrder, PlaceRight, Resting, NoList, OpenRight, BufferRight
<1>4. BufferRight'
  BY <1>h, <1>k DEF ListOrder, PlaceRight, BufferRight, Resting, NoList
<1>5. OpenRight'
  BY <1>h, <1>k DEF ListOrder, PlaceRight, BufferRight, OpenRight, Resting
<1>6. SuspensionsBalance'
  BY <1>h, <1>k DEF ListOrder, PlaceRight, BufferRight, SuspensionsBalance, Suspended
<1>7. BlocksRight'
  BY <1>h, <1>k DEF PlaceRight, BlocksRight, ListBlock, Resting, NoList
<1>8. StoppedRight'
  BY <1>h, <1>k DEF ListOrder, PlaceRight, BufferRight, SuspensionsBalance, Suspended,
     StoppedRight, Passed, Resting
<1> QED
  BY <1>1, <1>2, <1>3, <1>4, <1>5, <1>6, <1>7, <1>8

LEMMA FreeOperationsStep == IInv /\ FreeOperations => IInv'
<1> SUFFICES ASSUME IInv, FreeOperations PROVE IInv'
  OBVIOUS
<1> USE ThreadAssumption, BoundAssumption, VariantAssumption DEF IInv, FreeOperations,
       kernelVars, variantVars, placeVars, bufferVars, TypeOK
<1>h. Held' = Held
  BY DEF Held
<1>k. Held \subseteq Threads
  BY HeldThreads
<1>m. blocks' \in Nat
  BY SMTT(30) DEF BlocksRight, ListBlock, NoList
<1>1. TypeOK'
  BY <1>m
<1>2. ListOrder'
  BY <1>h, <1>k DEF ListOrder
<1>3. PlaceRight'
  BY <1>h, <1>k DEF ListOrder, PlaceRight, Resting, NoList, OpenRight, BufferRight
<1>4. BufferRight'
  BY <1>h, <1>k DEF ListOrder, PlaceRight, BufferRight, Resting, NoList
<1>5. OpenRight'
  BY <1>h, <1>k DEF ListOrder, PlaceRight, BufferRight, OpenRight, Resting
<1>6. SuspensionsBalance'
  BY <1>h, <1>k DEF ListOrder, PlaceRight, BufferRight, SuspensionsBalance, Suspended
<1>7. BlocksRight'
  BY <1>h, <1>k DEF PlaceRight, BlocksRight, ListBlock, Resting, NoList
<1>8. StoppedRight'
  BY <1>h, <1>k DEF ListOrder, PlaceRight, BufferRight, SuspensionsBalance, Suspended,
     StoppedRight, Passed, Resting
<1> QED
  BY <1>1, <1>2, <1>3, <1>4, <1>5, <1>6, <1>7, <1>8

LEMMA ResumeThreadStep == IInv /\ ResumeThread => IInv'
<1> SUFFICES ASSUME IInv, ResumeThread PROVE IInv'
  OBVIOUS
<1> USE ThreadAssumption, BoundAssumption, VariantAssumption DEF IInv, ResumeThread, GiveUp,
       Resume, kernelVars, variantVars, placeVars, bufferVars, TypeOK
<1>s. /\ buffer \in Seq(Threads) /\ buffer # <<>> /\ buffer' = Tail(buffer)
      /\ \A i, j \in DOMAIN buffer : buffer[i] = buffer[j] => i = j
  BY DEF BufferRight
<1>h. Held' = Held \ {Head(buffer)} /\ Head(buffer) \in Held
  <2> HIDE DEF IInv, TypeOK, ResumeThread
  <2>1. /\ {Tail(buffer)[i] : i \in DOMAIN Tail(buffer)} = Held \ {Head(buffer)}
        /\ Head(buffer) \in Held
    BY <1>s, HeldTail DEF Held
  <2> QED
    BY <1>s, <2>1 DEF Held
<1>i. buffer' \in Seq(Threads) /\ (\A i, j \in DOMAIN buffer : buffer[i] = buffer[j] => i = j)'
  <2> HIDE DEF IInv, TypeOK, ResumeThread
  <2>1. \A i, j \in DOMAIN Tail(buffer) : Tail(buffer)[i] = Tail(buffer)[j] => i = j
    BY <1>s, HeldTail
  <2> QED
    BY <1>s, <2>1
<1>k. Held \subseteq Threads
  BY HeldThreads
<1>b. Suspended = Held /\ Suspended' = Held \ {Head(buffer)} /\ Head(buffer) \in Threads
  BY <1>h, <1>k DEF Suspended
<1>c. count' = [count EXCEPT ![Head(buffer)] = @ - 1] /\ foreign' = foreign
  OBVIOUS
<1>r. SuspensionsBalance' /\ count' \in [Threads -> 0 .. MaxSuspend]
  <2> HIDE DEF IInv, TypeOK, GrowFails, ResumeThread
  <2> QED
    BY <1>h, <1>b, <1>c, ResumeBalance
<1>1. TypeOK'
  BY SMTT(30), <1>i, <1>r
<1>2. ListOrder'
  BY <1>h, <1>k, <1>i, <1>b DEF ListOrder
<1>3. PlaceRight'
  BY <1>h, <1>k, <1>i, <1>b DEF ListOrder, PlaceRight, Resting, NoList, OpenRight,
     BufferRight
<1>4. BufferRight'
  BY <1>h, <1>k, <1>i, <1>b DEF ListOrder, PlaceRight, BufferRight, Resting, NoList
<1>5. OpenRight'
  BY <1>h, <1>k, <1>i, <1>b DEF ListOrder, PlaceRight, BufferRight, OpenRight, Resting
<1>6. SuspensionsBalance'
  BY <1>r
<1>7. BlocksRight'
  BY <1>h, <1>k, <1>i, <1>b DEF PlaceRight, BlocksRight, ListBlock, Resting, NoList
<1>8. StoppedRight'
  BY <1>h, <1>k, <1>i, <1>b DEF ListOrder, PlaceRight, BufferRight, SuspensionsBalance,
     Suspended, StoppedRight, Passed, Resting
<1> QED
  BY <1>1, <1>2, <1>3, <1>4, <1>5, <1>6, <1>7, <1>8

LEMMA EndStep == IInv /\ End => IInv'
<1> SUFFICES ASSUME IInv, End PROVE IInv'
  OBVIOUS
<1> USE ThreadAssumption, BoundAssumption, VariantAssumption DEF IInv, End, kernelVars,
       variantVars, placeVars, bufferVars, TypeOK
<1>h. Held' = Held
  BY DEF Held
<1>k. Held \subseteq Threads
  BY HeldThreads
<1>m. blocks' \in Nat
  BY SMTT(30) DEF BlocksRight, ListBlock, NoList
<1>1. TypeOK'
  BY <1>m
<1>2. ListOrder'
  BY <1>h, <1>k DEF ListOrder
<1>3. PlaceRight'
  BY <1>h, <1>k DEF ListOrder, PlaceRight, Resting, NoList, OpenRight, BufferRight
<1>4. BufferRight'
  BY <1>h, <1>k DEF ListOrder, PlaceRight, BufferRight, Resting, NoList
<1>5. OpenRight'
  BY <1>h, <1>k DEF ListOrder, PlaceRight, BufferRight, OpenRight, Resting
<1>6. SuspensionsBalance'
  BY <1>h, <1>k DEF ListOrder, PlaceRight, BufferRight, SuspensionsBalance, Suspended
<1>7. BlocksRight'
  BY <1>h, <1>k DEF PlaceRight, BlocksRight, ListBlock, Resting, NoList
<1>8. StoppedRight'
  BY <1>h, <1>k DEF ListOrder, PlaceRight, BufferRight, SuspensionsBalance, Suspended,
     StoppedRight, Passed, Resting
<1> QED
  BY <1>1, <1>2, <1>3, <1>4, <1>5, <1>6, <1>7, <1>8

LEMMA CreateThreadStep == IInv /\ CreateThread => IInv'
<1> SUFFICES ASSUME IInv, CreateThread PROVE IInv'
  OBVIOUS
<1> USE ThreadAssumption, BoundAssumption, VariantAssumption DEF IInv, CreateThread, Others,
       Running, kernelVars, variantVars, placeVars, bufferVars, TypeOK
<1>h. Held' = Held
  BY DEF Held
<1>k. Held \subseteq Threads
  BY HeldThreads
<1>n. PICK n \in Threads, c \in {0, 1} :
         /\ born[n] = 0
         /\ clock' = clock + 1 /\ born' = [born EXCEPT ![n] = clock']
         /\ alive' = alive \cup {n}
         /\ count' = [count EXCEPT ![n] = c] /\ foreign' = [foreign EXCEPT ![n] = c]
         /\ stopped' = IF c = 1 THEN stopped \cup {n} ELSE stopped
  OBVIOUS
<1>o. \A t \in Threads : born[t] > 0 => born'[t] = born[t]
  BY <1>n
<1>p. /\ \A t \in Suspended : t \in Threads /\ born[t] > 0
      /\ \A t \in Held : t \in Threads /\ born[t] > 0
      /\ Suspended' = Suspended
  <2>1. (\A t \in Held : born[t] > 0) /\ (pc = "grow" => next \in Threads /\ born[next] > 0)
    BY DEF PlaceRight, BufferRight
  <2>2. pc' = pc /\ next' = next
    OBVIOUS
  <2> HIDE DEF IInv, TypeOK, CreateThread
  <2> QED
    BY <1>h, <1>k, <2>1, <2>2 DEF Suspended
<1>q. clock' \in Nat /\ clock' > 0 /\ born' \in [Threads -> 0 .. clock'] /\ born'[n] = clock'
      /\ \A t \in Threads : born[t] < born'[n]
  <2>1. clock \in Nat /\ born \in [Threads -> 0 .. clock]
    OBVIOUS
  <2> HIDE DEF IInv, TypeOK, CreateThread
  <2> QED
    BY <1>n, <2>1
<1>r. count' \in [Threads -> 0 .. MaxSuspend] /\ foreign' \in [Threads -> {0, 1}]
  <2>1. MaxSuspend >= 1 /\ MaxSuspend \in Nat
    OBVIOUS
  <2>2. count \in [Threads -> 0 .. MaxSuspend] /\ foreign \in [Threads -> {0, 1}]
    OBVIOUS
  <2> HIDE DEF IInv, TypeOK, CreateThread
  <2> QED
    BY <1>n, <2>1, <2>2
<1>1. TypeOK'
  <2>1. alive' \subseteq Threads /\ stopped' \subseteq Threads
    BY SMTT(30), <1>n
  <2> QED
    BY SMTT(30), <1>q, <1>r, <2>1
<1>2. ListOrder'
  <2>1. ListOrder /\ born \in [Threads -> Nat] /\ alive \subseteq Threads
        /\ foreign \in [Threads -> {0, 1}]
    BY SMTT(30)
  <2> HIDE DEF IInv, TypeOK, CreateThread
  <2>2. \A t \in Threads : born[t] > 0 => born'[t] = born[t] /\ born'[t] < born'[n]
    BY <1>o, <1>q
  <2>3. \A t \in Threads : t # n => born'[t] = born[t]
    BY <1>n, <2>1
  <2>4. \A t, u \in Threads : born'[t] = born'[u] /\ born'[t] > 0 => t = u
    BY <1>q, <2>1, <2>2, <2>3 DEF ListOrder
  <2>5. Self # n /\ Self \in Threads
    BY <1>n, <2>1 DEF ListOrder
  <2> QED
    BY <1>n, <1>o, <1>q, <2>1, <2>3, <2>4, <2>5 DEF ListOrder
<1>3. PlaceRight'
  <2>1. prev # NoThread => born[prev] > 0 /\ born'[prev] = born[prev]
    BY <1>o DEF PlaceRight
  <2>2. pc \in {"query", "suspend", "grow"} => born'[next] = born[next]
    BY <1>o DEF PlaceRight
  <2>3. born'[Self] = born[Self]
    BY <1>o DEF ListOrder
  <2> QED
    BY <2>1, <2>2, <2>3 DEF PlaceRight, Resting
<1>4. BufferRight'
  <2>1. (\A t \in Held : born[t] > 0)'
    BY <1>h, <1>o, <1>p
  <2>2. (build = "walk" /\ pc = "next" =>
           \A t \in Held : prev # NoThread /\ born[t] <= born[prev])'
    BY <1>h, <1>o, <1>p DEF BufferRight, PlaceRight
  <2>3. (build = "walk" /\ pc \in {"query", "suspend", "grow"} =>
           \A t \in Held : born[t] < born[next])'
    BY <1>h, <1>o, <1>p DEF BufferRight, PlaceRight
  <2>4. (listed # NoList => \A t \in listed : born[t] > 0)' \/ ~(build = "list" /\ pc \in {"next", "grow"})
    BY <1>n, <1>o DEF BufferRight
  <2> QED
    BY <1>h, <1>n, <2>1, <2>2, <2>3, <2>4 DEF BufferRight
<1>5. OpenRight'
  BY <1>h, <1>k, <1>n, <1>o, <1>p, <1>q, <1>r DEF ListOrder, PlaceRight, BufferRight,
     OpenRight, Resting
<1>6. SuspensionsBalance'
  <2>1. /\ SuspensionsBalance /\ count \in [Threads -> 0 .. MaxSuspend] /\ MaxSuspend \in Nat
        /\ foreign \in [Threads -> {0, 1}]
    BY SMTT(30)
  <2>2. n \notin Suspended
    BY <1>n, <1>p
  <2> HIDE DEF IInv, TypeOK, CreateThread
  <2> QED
    BY <1>n, <1>p, <2>1, <2>2 DEF SuspensionsBalance
<1>7. BlocksRight'
  BY <1>h, <1>k, <1>n, <1>o, <1>p, <1>q, <1>r DEF PlaceRight, BlocksRight, ListBlock,
     Resting, NoList
<1>8. StoppedRight'
  <2>1. (Held \cap alive \subseteq stopped)'
    BY <1>h, <1>k, <1>n, <1>p DEF StoppedRight
  <2>2. ASSUME build = "walk", refused' \subseteq {Self}, NEW t \in alive' \ {Self}, Passed(t)'
        PROVE  t \in Held'
    <3>1. prev # NoThread => born'[prev] = born[prev] /\ born[prev] < clock'
      BY <1>o, <1>q DEF PlaceRight
    <3>2. pc \in {"query", "suspend", "grow"} => born'[next] = born[next] /\ born[next] < clock'
      BY <1>o, <1>q DEF PlaceRight
    <3>6. pc # "held"
      <4>1. PICK u \in Threads : u \in alive \ stopped /\ u # Self
        OBVIOUS
      <4>2. u \in Held => u \in stopped
        BY <4>1 DEF StoppedRight
      <4>3. pc = "held" => u \in Held
        BY <2>2, <4>1 DEF StoppedRight, Passed
      <4> QED
        BY <4>1, <4>2, <4>3
    <3>3. t # n
      <4>1. pc' = pc /\ prev' = prev /\ next' = next /\ born'[n] = clock'
        BY <1>q
      <4>3. pc = "next" /\ prev # NoThread => ~(born'[n] <= born'[prev])
        <5>1. pc = "next" /\ prev # NoThread => prev \in Threads
          OBVIOUS
        <5> HIDE DEF IInv, TypeOK, CreateThread
        <5> QED
          BY <1>q, <3>1, <4>1, <5>1
      <4>4. pc \in {"query", "suspend", "grow"} => ~(born'[n] < born'[next])
        <5>1. pc \in {"query", "suspend", "grow"} => next \in Threads
          BY DEF PlaceRight
        <5> HIDE DEF IInv, TypeOK, CreateThread
        <5> QED
          BY <1>q, <3>2, <4>1, <5>1
      <4>2. Passed(n)' => FALSE
        <5> HIDE DEF IInv, TypeOK, CreateThread
        <5> QED
          BY <3>6, <4>1, <4>3, <4>4 DEF Passed
      <4> QED
        BY <2>2, <4>2
    <3>4. t \in alive /\ born'[t] = born[t]
      BY <1>n, <1>o, <3>3 DEF ListOrder
    <3>5. Passed(t)
      BY <2>2, <3>1, <3>2, <3>4 DEF Passed
    <3> QED
      BY <1>h, <2>2, <3>4, <3>5 DEF StoppedRight
  <2> QED
    BY <2>1, <2>2 DEF StoppedRight
<1> QED
  BY <1>1, <1>2, <1>3, <1>4, <1>5, <1>6, <1>7, <1>8

LEMMA ExitThreadStep == IInv /\ ExitThread => IInv'
<1> SUFFICES ASSUME IInv, ExitThread PROVE IInv'
  OBVIOUS
<1> USE ThreadAssumption, BoundAssumption, VariantAssumption DEF IInv, ExitThread, Others,
       Running, kernelVars, variantVars, placeVars, bufferVars, TypeOK
<1>h. Held' = Held
  BY DEF Held
<1>k. Held \subseteq Threads
  BY HeldThreads
<1>1. TypeOK'
  BY SMTT(30), <1>h, <1>k
<1>2. ListOrder'
  BY <1>h, <1>k DEF ListOrder
<1>3. PlaceRight'
  BY <1>h, <1>k DEF ListOrder, PlaceRight, Resting, NoList, OpenRight, BufferRight
<1>4. BufferRight'
  BY <1>h, <1>k DEF ListOrder, PlaceRight, BufferRight, Resting, NoList
<1>5. OpenRight'
  BY <1>h, <1>k DEF ListOrder, PlaceRight, BufferRight, OpenRight, Resting
<1>6. SuspensionsBalance'
  BY <1>h, <1>k DEF ListOrder, PlaceRight, BufferRight, SuspensionsBalance, Suspended
<1>7. BlocksRight'
  BY <1>h, <1>k DEF PlaceRight, BlocksRight, ListBlock, Resting, NoList
<1>8. StoppedRight'
  BY <1>h, <1>k DEF ListOrder, PlaceRight, BufferRight, SuspensionsBalance, Suspended,
     StoppedRight, Passed, Resting
<1> QED
  BY <1>1, <1>2, <1>3, <1>4, <1>5, <1>6, <1>7, <1>8

LEMMA StartThreadStep == IInv /\ StartThread => IInv'
<1> SUFFICES ASSUME IInv, StartThread PROVE IInv'
  OBVIOUS
<1> USE ThreadAssumption, BoundAssumption, VariantAssumption DEF IInv, StartThread, Others,
       Resume, kernelVars, variantVars, placeVars, bufferVars, TypeOK
<1>h. Held' = Held
  BY DEF Held
<1>k. Held \subseteq Threads
  BY HeldThreads
<1>n. PICK n \in Threads : foreign[n] = 1 /\ foreign' = [foreign EXCEPT ![n] = 0] /\ Resume(n)
  OBVIOUS
<1>c. count' = [count EXCEPT ![n] = @ - 1]
  BY <1>n
<1>d. /\ SuspensionsBalance /\ count \in [Threads -> 0 .. MaxSuspend] /\ MaxSuspend \in Nat
      /\ foreign \in [Threads -> {0, 1}]
  OBVIOUS
<1>e. Suspended' = Suspended
  BY <1>h DEF Suspended
<1>f. count[n] \in 1 .. MaxSuspend /\ (count[n] = 1 => n \notin Held)
  <2> HIDE DEF IInv, TypeOK, StartThread
  <2> QED
    BY <1>n, <1>d DEF SuspensionsBalance, Suspended
<1>t. count' \in [Threads -> 0 .. MaxSuspend] /\ foreign' \in [Threads -> {0, 1}]
  <2> HIDE DEF IInv, TypeOK, StartThread
  <2> QED
    BY <1>n, <1>c, <1>d, <1>f
<1>x. stopped' \subseteq Threads
  BY <1>n
<1>1. TypeOK'
  BY SMTT(30), <1>t, <1>x
<1>2. ListOrder'
  BY <1>h, <1>k, <1>n, <1>c, <1>f DEF ListOrder
<1>3. PlaceRight'
  BY <1>h, <1>k, <1>n, <1>c, <1>f DEF ListOrder, PlaceRight, Resting, NoList, OpenRight,
     BufferRight
<1>4. BufferRight'
  BY <1>h, <1>k, <1>n, <1>c, <1>f DEF ListOrder, PlaceRight, BufferRight, Resting, NoList
<1>5. OpenRight'
  BY <1>h, <1>k, <1>n, <1>c, <1>f DEF ListOrder, PlaceRight, BufferRight, OpenRight, Resting
<1>6. SuspensionsBalance'
  <2> HIDE DEF IInv, TypeOK, StartThread
  <2> QED
    BY <1>n, <1>c, <1>d, <1>e, <1>f DEF SuspensionsBalance
<1>7. BlocksRight'
  BY <1>h, <1>k, <1>n, <1>c, <1>f DEF PlaceRight, BlocksRight, ListBlock, Resting, NoList
<1>8. StoppedRight'
  <2>1. (Held \cap alive \subseteq stopped)'
    BY <1>h, <1>n, <1>f DEF StoppedRight
  <2> QED
    BY <1>h, <2>1 DEF StoppedRight, Passed
<1> QED
  BY <1>1, <1>2, <1>3, <1>4, <1>5, <1>6, <1>7, <1>8

LEMMA LockHeapStep == IInv /\ LockHeap => IInv'
<1> SUFFICES ASSUME IInv, LockHeap PROVE IInv'
  OBVIOUS
<1> USE ThreadAssumption, BoundAssumption, VariantAssumption DEF IInv, LockHeap, Others,
       Running, kernelVars, variantVars, placeVars, bufferVars, TypeOK
<1>h. Held' = Held
  BY DEF Held
<1>k. Held \subseteq Threads
  BY HeldThreads
<1>1. TypeOK'
  BY <1>h, <1>k
<1>2. ListOrder'
  BY <1>h, <1>k DEF ListOrder
<1>3. PlaceRight'
  BY <1>h, <1>k DEF ListOrder, PlaceRight, Resting, NoList, OpenRight, BufferRight
<1>4. BufferRight'
  BY <1>h, <1>k DEF ListOrder, PlaceRight, BufferRight, Resting, NoList
<1>5. OpenRight'
  BY <1>h, <1>k DEF ListOrder, PlaceRight, BufferRight, OpenRight, Resting
<1>6. SuspensionsBalance'
  BY <1>h, <1>k DEF ListOrder, PlaceRight, BufferRight, SuspensionsBalance, Suspended
<1>7. BlocksRight'
  BY <1>h, <1>k DEF PlaceRight, BlocksRight, ListBlock, Resting, NoList
<1>8. StoppedRight'
  BY <1>h, <1>k DEF ListOrder, PlaceRight, BufferRight, SuspensionsBalance, Suspended,
     StoppedRight, Passed, Resting
<1> QED
  BY <1>1, <1>2, <1>3, <1>4, <1>5, <1>6, <1>7, <1>8

LEMMA UnlockHeapStep == IInv /\ UnlockHeap => IInv'
<1> SUFFICES ASSUME IInv, UnlockHeap PROVE IInv'
  OBVIOUS
<1> USE ThreadAssumption, BoundAssumption, VariantAssumption DEF IInv, UnlockHeap, Others,
       kernelVars, variantVars, placeVars, bufferVars, TypeOK
<1>h. Held' = Held
  BY DEF Held
<1>k. Held \subseteq Threads
  BY HeldThreads
<1>1. TypeOK'
  BY SMTT(30), <1>h, <1>k
<1>2. ListOrder'
  BY <1>h, <1>k DEF ListOrder
<1>3. PlaceRight'
  BY <1>h, <1>k DEF ListOrder, PlaceRight, Resting, NoList, OpenRight, BufferRight
<1>4. BufferRight'
  BY <1>h, <1>k DEF ListOrder, PlaceRight, BufferRight, Resting, NoList
<1>5. OpenRight'
  BY <1>h, <1>k DEF ListOrder, PlaceRight, BufferRight, OpenRight, Resting
<1>6. SuspensionsBalance'
  BY <1>h, <1>k DEF ListOrder, PlaceRight, BufferRight, SuspensionsBalance, Suspended
<1>7. BlocksRight'
  BY <1>h, <1>k DEF PlaceRight, BlocksRight, ListBlock, Resting, NoList
<1>8. StoppedRight'
  BY <1>h, <1>k DEF ListOrder, PlaceRight, BufferRight, SuspensionsBalance, Suspended,
     StoppedRight, Passed, Resting
<1> QED
  BY <1>1, <1>2, <1>3, <1>4, <1>5, <1>6, <1>7, <1>8

LEMMA StopThreadStep == IInv /\ StopThread => IInv'
<1> SUFFICES ASSUME IInv, StopThread PROVE IInv'
  OBVIOUS
<1> USE ThreadAssumption, BoundAssumption, VariantAssumption DEF IInv, StopThread, Others,
       kernelVars, variantVars, placeVars, bufferVars, TypeOK
<1>h. Held' = Held
  BY DEF Held
<1>k. Held \subseteq Threads
  BY HeldThreads
<1>1. TypeOK'
  BY SMTT(30), <1>h, <1>k
<1>2. ListOrder'
  BY <1>h, <1>k DEF ListOrder
<1>3. PlaceRight'
  BY <1>h, <1>k DEF ListOrder, PlaceRight, Resting, NoList, OpenRight, BufferRight
<1>4. BufferRight'
  BY <1>h, <1>k DEF ListOrder, PlaceRight, BufferRight, Resting, NoList
<1>5. OpenRight'
  BY <1>h, <1>k DEF ListOrder, PlaceRight, BufferRight, OpenRight, Resting
<1>6. SuspensionsBalance'
  BY <1>h, <1>k DEF ListOrder, PlaceRight, BufferRight, SuspensionsBalance, Suspended
<1>7. BlocksRight'
  BY <1>h, <1>k DEF PlaceRight, BlocksRight, ListBlock, Resting, NoList
<1>8. StoppedRight'
  BY <1>h, <1>k DEF ListOrder, PlaceRight, BufferRight, SuspensionsBalance, Suspended,
     StoppedRight, Passed, Resting
<1> QED
  BY <1>1, <1>2, <1>3, <1>4, <1>5, <1>6, <1>7, <1>8

LEMMA StutterStep == IInv /\ UNCHANGED vars => IInv'
<1> SUFFICES ASSUME IInv, UNCHANGED vars PROVE IInv'
  OBVIOUS
<1> USE DEF vars, kernelVars, variantVars, placeVars, bufferVars
<1>1. Held' = Held /\ ListBlock' = ListBlock /\ Resting' = Resting
  BY DEF Held, ListBlock, Resting
<1>2. TypeOK'
  BY DEF IInv, TypeOK, NoList
<1>5. ListOrder' /\ PlaceRight' /\ BlocksRight'
  BY <1>1 DEF IInv, ListOrder, PlaceRight, BlocksRight, NoList
<1>6. BufferRight' /\ OpenRight'
  BY <1>1 DEF IInv, BufferRight, OpenRight, NoList
<1>3. SuspensionsBalance'
  BY <1>1 DEF IInv, SuspensionsBalance, Suspended
<1>4. StoppedRight'
  BY <1>1 DEF IInv, StoppedRight, Passed
<1> QED
  BY <1>2, <1>3, <1>4, <1>5, <1>6 DEF IInv

LEMMA InitIInv == Init => IInv
<1> SUFFICES ASSUME Init PROVE IInv
  OBVIOUS
<1> USE ThreadAssumption, BoundAssumption, VariantAssumption
<1>1. PICK t \in Threads \ {Self}, first \in BOOLEAN :
         /\ born = [u \in Threads |-> IF u = Self THEN IF first THEN 1 ELSE 2
                                      ELSE IF u = t THEN IF first THEN 2 ELSE 1
                                      ELSE 0]
         /\ alive = {Self, t}
  BY DEF Init
<1>2. count = [u \in Threads |-> 0] /\ foreign = [u \in Threads |-> 0]
  BY DEF Init
<1>3. buffer = <<>> /\ Held = {} /\ buffer \in Seq(Threads)
  BY DEF Init, Held
<1>4. TypeOK
  <2>1. clock \in Nat /\ born \in [Threads -> 0 .. clock] /\ alive \subseteq Threads
    BY <1>1 DEF Init
  <2>2. count \in [Threads -> 0 .. MaxSuspend] /\ foreign \in [Threads -> {0, 1}]
    BY <1>2
  <2>3. /\ stopped = {} /\ open = {} /\ lock = NoThread /\ blocks = 0
        /\ skipped = FALSE /\ prev = NoThread /\ listed = NoList /\ refused = {}
    BY DEF Init
  <2>4. /\ pc = "idle" /\ closePrev = FALSE /\ next = NoThread
        /\ capacity \in Nat \ {0} /\ onHeap = FALSE /\ ops \in 0 .. MaxOperations
        /\ build \in Builds /\ heap \in Heaps
    BY DEF Init
  <2> QED
    BY <1>3, <2>1, <2>2, <2>3, <2>4 DEF TypeOK
<1>5. ListOrder
  BY <1>1, <1>2 DEF ListOrder
<1>6. PlaceRight /\ OpenRight /\ BlocksRight
  BY <1>3 DEF Init, PlaceRight, OpenRight, BlocksRight, Resting, NoList, ListBlock
<1>7. BufferRight /\ StoppedRight
  BY <1>3 DEF Init, BufferRight, StoppedRight, Passed
<1>8. SuspensionsBalance
  BY <1>2, <1>3 DEF Init, SuspensionsBalance, Suspended
<1> QED
  BY <1>4, <1>5, <1>6, <1>7, <1>8 DEF IInv

LEMMA IInvStep == IInv /\ [Next]_vars => IInv'
BY BeginStep, GetNextThreadStep, NoMoreThreadsStep, GetNextThreadFailsStep, QueryStep,
  SuspendThreadStep, SuspendThreadFailsStep, TakeSnapshotStep, PassListedStep,
  SuspendListedStep, ListExhaustedStep, GrowStep, GrowFailsStep,
  WaitUntilStoppedStep, AddOperationStep, FreeOperationsStep, ResumeThreadStep,
  EndStep, CreateThreadStep, ExitThreadStep, StartThreadStep, LockHeapStep,
  UnlockHeapStep, StopThreadStep, StutterStep DEF Next, Caller, Environment

LEMMA Invariance == Spec => []IInv
BY InitIInv, IInvStep, PTL DEF Spec

(***************************************************************************)
(* The theorems.                                                           *)
(***************************************************************************)
(* The variables of the enumeration keep their types, suspend counts within
   MAXIMUM_SUSPEND_COUNT and the index within the buffer included (Thread.c:188). *)
THEOREM TypeCorrect == Spec => []TypeOK
<1>1. IInv => TypeOK
  BY DEF IInv
<1> QED
  BY <1>1, Invariance, PTL

(* The walk never suspends the thread that runs it, whatever way the walks before it
   ended (Thread.c:60). *)
THEOREM CallerAlwaysRuns == Spec => []CallerRuns
<1>1. IInv => CallerRuns
  BY ThreadAssumption DEF IInv, ListOrder, PlaceRight, BufferRight, SuspensionsBalance,
     Suspended, CallerRuns
<1> QED
  BY <1>1, Invariance, PTL

(* For any number of threads created and ended during the walk: when it is over and no
   thread was refused, every other living thread stands, until they are resumed
   (Thread.c:25, 241).  Of the build that lists the threads it says nothing. *)
THEOREM EveryoneIsStopped == Spec => []EveryoneStopped
<1>1. IInv => EveryoneStopped
  BY DEF IInv, StoppedRight, Passed, EveryoneStopped
<1> QED
  BY <1>1, Invariance, PTL

(* Each suspension is undone once, and no other one (Thread.c:252, 275). *)
THEOREM SuspensionsAreBalanced == Spec => []SuspensionsBalance
<1>1. IInv => SuspensionsBalance
  BY DEF IInv
<1> QED
  BY <1>1, Invariance, PTL

(* Whichever thread the walk closes, it is none that stands in the buffer, and the one
   that keeps its place is open (Thread.c:41). *)
THEOREM HandlesStayOpen == Spec => []HandlesAreOpen
<1>1. IInv => HandlesAreOpen
  <2> SUFFICES ASSUME IInv PROVE HandlesAreOpen
    OBVIOUS
  <2>1. Suspended \subseteq open
    BY DEF IInv, TypeOK, OpenRight, Suspended, Resting
  <2>2. pc \in {"query", "suspend"} => next \in open
    BY DEF IInv, OpenRight
  <2>3. pc = "next" /\ prev # NoThread => prev \in open
    BY DEF IInv, OpenRight
  <2> QED
    BY <2>1, <2>2, <2>3 DEF HandlesAreOpen
<1> QED
  BY <1>1, Invariance, PTL

(* A transaction gives back every handle and heap block and leaves the static
   variables as it found them (Thread.c:94, 256). *)
THEOREM NothingIsLeftOver == Spec => []NothingLeftOver
<1>1. IInv => NothingLeftOver
  BY DEF IInv, TypeOK, OpenRight, BufferRight, PlaceRight, BlocksRight, Resting, ListBlock, Held,
     NothingLeftOver
<1> QED
  BY <1>1, Invariance, PTL

=============================================================================
