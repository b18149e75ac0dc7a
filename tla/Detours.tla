------------------------------- MODULE Detours -------------------------------
(***************************************************************************)
(* SlimDetours: transactions that attach and detach inline hooks           *)
(* (Transaction.c), the memory regions that hold their trampolines         *)
(* (Trampoline.c), and what happens to the threads that run through the    *)
(* hooked functions meanwhile (Thread.c).                                  *)
(*                                                                         *)
(* A hook is a pointer variable of the caller (ppPointer) together with    *)
(* its detour function; the variable first holds the function to hook and, *)
(* once attached, the trampoline.  A hooked function begins with a jump to *)
(* its trampoline.  A trampoline keeps the bytes it replaced, which are    *)
(* either the function's own or the jump to an older trampoline, so the    *)
(* hooks of one function form a chain.                                     *)
(***************************************************************************)
EXTENDS Naturals, Sequences

CONSTANTS
    Callers,          \* threads that use the API
    Runners,          \* threads that call the hooked functions
    Functions,        \* the functions that are hooked
    Hooks,            \* the hooks
    Home,             \* the function each hook is for
    Pages,            \* pages of code
    PageOf,           \* the page each function lies in
    Regions,          \* addresses a trampoline region may have
    Reach,            \* <<f, r>>: region r is within 2 GB of function f
    Searched,         \* <<f, r>>: the searches for f may allocate region r
    LongPrologues,    \* functions of which a hook replaces eight bytes or more
    PerRegion,        \* DETOUR_TRAMPOLINES_PER_REGION
    SuspendOptions,   \* the values of fSuspendThreads tried
    RepeatTarget,     \* whether a transaction may name a function twice
    ProtectFails,     \* whether making a region writable may fail
    MaxOperations,    \* operations of one transaction, at most
    Original,         \* the bytes a function was linked with
    Bypass,           \* pbDetour of a trampoline that skips its detour
    None              \* nothing: no thread, no region, zeroed memory

Slots == 0 .. (PerRegion - 1)
Trampolines == Regions \X Slots

ASSUME SizeAssumption == PerRegion \in Nat /\ PerRegion > 2 /\ MaxOperations \in Nat
ASSUME PlaceAssumption ==
    /\ Home \in [Hooks -> Functions] /\ PageOf \in [Functions -> Pages]
    /\ Reach \subseteq Functions \X Regions /\ Searched \subseteq Functions \X Regions
    /\ LongPrologues \subseteq Functions
ASSUME OptionAssumption ==
    /\ SuspendOptions \subseteq BOOLEAN
    /\ RepeatTarget \in BOOLEAN /\ ProtectFails \in BOOLEAN
ASSUME DistinctAssumption ==
    /\ Functions \cap Trampolines = {}
    /\ Original \notin Trampolines /\ None \notin Trampolines /\ None # Original
    /\ Bypass \notin Hooks /\ None \notin Hooks /\ None # Bypass
    /\ None \notin Functions /\ None \notin Regions /\ None \notin Callers

VARIABLES
    owner,         \* s_nPendingThreadId
    phase,         \* where the owner's current call is
    ops,           \* s_pPendingOperations, the newest first
    cursor,        \* the operation Commit is at
    freed,         \* the local freed of Commit and Abort
    suspended,     \* the other threads are suspended
    regions,       \* s_pRegions (its order only decides which is tried first)
    default,       \* s_pRegion
    pFree,         \* the first trampoline on the free list of each region
    pbRemain,      \* the one that follows each free trampoline on its list
    refused,       \* history: regions refused for what they were made for, unused since
    regionPerm,    \* protection of each region's memory
    tramp,         \* contents of the trampolines
    patch,         \* what the first bytes of each function are
    perm,          \* protection of each page of code
    pointer,       \* *ppPointer of each hook
    location       \* where each runner is

memoryVars == <<regions, default, pFree, pbRemain, refused>>
codeVars == <<patch, pointer>>
vars == <<owner, phase, ops, cursor, freed, suspended, memoryVars, regionPerm,
          tramp, codeVars, perm, location>>

Zeroed == [target |-> None, copied |-> None, detour |-> None]
InUse(t) == tramp[t] # Zeroed

Init ==
    /\ owner = None /\ phase = "idle"
    /\ ops = <<>> /\ cursor = 1 /\ freed = FALSE /\ suspended = FALSE
    /\ regions = {} /\ default = None /\ refused = {}
    /\ pFree = [r \in Regions |-> None]
    /\ pbRemain = [t \in Trampolines |-> None]
    /\ regionPerm = [r \in Regions |-> "RX"]
    /\ tramp = [t \in Trampolines |-> Zeroed]
    /\ patch = [f \in Functions |-> Original]
    /\ perm = [p \in Pages |-> "RX"]
    /\ pointer = Home
    /\ location = [x \in Runners |-> <<"out">>]

-----------------------------------------------------------------------------
(* Commit's loop over the operations *)

Applying(c, kind) ==
    /\ owner = c /\ phase = "apply" /\ cursor \in DOMAIN ops
    /\ ops[cursor].kind = kind
    /\ cursor' = cursor + 1

(* The places of a runner. *)
Entry(f) == <<"entry", f>>      \* at the first instruction of f
Middle(f) == <<"middle", f>>    \* at a later one of those a hook replaces
In(t) == <<"in", t>>            \* at rbCodeIn, before the detour
Copy(t) == <<"copy", t>>        \* at the first copied instruction
Rest(t) == <<"rest", t>>        \* at a later copied instruction
InDetour(h) == <<"detour", h>>  \* in the detour function
Out == <<"out">>
Lost(f) == <<"lost", f>>        \* at bytes of f that are no instruction

Places ==
    {Out}
    \cup (UNION {{Entry(f), Middle(f), Lost(f)} : f \in Functions})
    \cup (UNION {{In(t), Copy(t), Rest(t)} : t \in Trampolines})
    \cup {InDetour(h) : h \in Hooks}

-----------------------------------------------------------------------------
(* Faulty variants of the definitions below, each a bug the code could have had.
   The specification uses none of them; every property is shown to reject one. *)

(* A Commit that does not look whether another hook was put on top. *)
WrongStillThere(o) == TRUE

(* A region that is released but stays the default one. *)
WrongReleaseRegions(unused) ==
    /\ regions' = regions \ unused
    /\ pFree' = [r \in Regions |-> IF r \in unused THEN None ELSE pFree[r]]
    /\ pbRemain' = [t \in Trampolines |-> IF t[1] \in unused THEN None ELSE pbRemain[t]]
    /\ refused' = refused \ unused
    /\ UNCHANGED default

(* A Commit that bypasses a hook and frees its trampoline all the same. *)
FreeingApplyBypass(c) ==
    /\ Applying(c, "remove")
    /\ LET o == ops[cursor] IN
         /\ patch[o.target] # o.tramp
         /\ tramp' = [tramp EXCEPT ![o.tramp] = [@ EXCEPT !.detour = Bypass]]
         /\ pointer' = [pointer EXCEPT ![o.hook] = o.target]
    /\ UNCHANGED <<owner, phase, ops, freed, suspended, memoryVars, regionPerm, patch,
                   perm, location>>

(* A Commit that leaves the variable of a bypassed hook alone. *)
WrongApplyBypass(c) ==
    /\ Applying(c, "remove")
    /\ LET o == ops[cursor] IN
         /\ patch[o.target] # o.tramp
         /\ ops' = [ops EXCEPT ![cursor] = [o EXCEPT !.kind = "bypass"]]
         /\ tramp' = [tramp EXCEPT ![o.tramp] = [@ EXCEPT !.detour = Bypass]]
    /\ UNCHANGED <<owner, phase, freed, suspended, memoryVars, regionPerm, codeVars,
                   perm, location>>

(* detour_thread_update before it knew of rbCodeIn. *)
WrongMovedBy(o, l) ==
    CASE o.kind = "remove" /\ l = Copy(o.tramp) -> {Entry(o.target)}
      [] o.kind = "remove" /\ l = Rest(o.tramp) -> {Middle(o.target)}
      [] o.kind = "add" /\ l = Entry(o.target) -> {Copy(o.tramp)}
      [] o.kind = "add" /\ l = Middle(o.target) -> {Rest(o.tramp)}
      [] OTHER -> {l}

(* A last loop that skips the protection of a hook that was bypassed. *)
WrongRestorePerm(o) ==
    perm' = IF o.kind # "bypass" THEN [perm EXCEPT ![PageOf[o.target]] = o.perm] ELSE perm

(* A trampoline freed without noting that its region may now be unused. *)
WrongFreeTrampoline(t) ==
    /\ tramp' = [tramp EXCEPT ![t] = Zeroed]
    /\ pbRemain' = [pbRemain EXCEPT ![t] = pFree[t[1]]]
    /\ pFree' = [pFree EXCEPT ![t[1]] = t]
    /\ UNCHANGED freed

(* An Abort that frees nothing. *)
WrongAbortOperation(c) ==
    /\ owner = c /\ phase = "abort" /\ ops # <<>>
    /\ perm' = [perm EXCEPT ![PageOf[Head(ops).target]] = Head(ops).perm]
    /\ ops' = Tail(ops)
    /\ UNCHANGED <<owner, phase, cursor, freed, suspended, memoryVars, regionPerm,
                   tramp, codeVars, location>>

(* A last loop that does not advance. *)
WrongEndOperation(c, ending, kind) ==
    /\ owner = c /\ phase = ending /\ ops # <<>>
    /\ perm' = [perm EXCEPT ![PageOf[Head(ops).target]] = Head(ops).perm]
    /\ UNCHANGED <<owner, phase, ops, cursor, freed, suspended, memoryVars, regionPerm,
                   tramp, codeVars, location>>

-----------------------------------------------------------------------------
(* SlimDetoursTransactionBeginEx *)

(* The compare-and-exchange that elects the owner.  A thread that finds another
   owner returns STATUS_TRANSACTIONAL_CONFLICT and changes nothing. *)
Begin(c) ==
    /\ owner = None
    /\ owner' = c /\ phase' = "writable"
    /\ UNCHANGED <<ops, cursor, freed, suspended, memoryVars, regionPerm, tramp,
                   codeVars, perm, location>>

(* detour_writable_trampoline_regions: one region, or the failure that ends the
   call and leaves the regions before it writable. *)
MakeWritable(c) ==
    /\ owner = c /\ phase = "writable"
    /\ \/ \E r \in regions :
             /\ regionPerm[r] = "RX"
             /\ regionPerm' = [regionPerm EXCEPT ![r] = "RWX"]
             /\ UNCHANGED <<owner, phase>>
       \/ /\ ProtectFails /\ regions # {}
          /\ owner' = None /\ phase' = "idle"
          /\ UNCHANGED regionPerm
    /\ UNCHANGED <<ops, cursor, freed, suspended, memoryVars, tramp, codeVars,
                   perm, location>>

(* detour_thread_suspend stops every other thread, or resumes those it stopped
   and fails: then the regions are made runnable again. *)
OpenTransaction(c) ==
    /\ owner = c /\ phase = "writable"
    /\ \A r \in regions : regionPerm[r] = "RWX"
    /\ \/ /\ suspended' \in SuspendOptions
          /\ phase' = "open" /\ ops' = <<>>
          /\ UNCHANGED <<owner, regionPerm>>
       \/ /\ TRUE \in SuspendOptions
          /\ owner' = None /\ phase' = "idle"
          /\ regionPerm' = [r \in Regions |-> "RX"]
          /\ UNCHANGED <<ops, suspended>>
    /\ UNCHANGED <<cursor, freed, memoryVars, tramp, codeVars, perm, location>>

-----------------------------------------------------------------------------
(* detour_alloc_trampoline *)

Usable(r, f) == r \in regions /\ pFree[r] # None /\ <<f, r>> \in Reach

(* The default region is tried first, then the others. *)
FoundRegion(r, f) == Usable(r, f) /\ (Usable(default, f) => r = default)

(* A new region, when no existing one will do.  It need not be in reach of f: not all
   of the searches keep within its bounds. *)
NewRegion(r, f) ==
    /\ r \notin regions /\ <<f, r>> \in Searched
    /\ \A q \in Regions : ~Usable(q, f)

(* The free list of a new region goes from the third trampoline to the last. *)
FirstFree(r) == IF r \in regions THEN pFree[r] ELSE <<r, 2>>
NextFree(r, t) ==
    IF r \in regions THEN pbRemain[t]
    ELSE IF t[2] \in 2 .. (PerRegion - 2) THEN <<r, t[2] + 1>> ELSE None

(* The free list without its first trampoline. *)
PopFree(r) ==
    /\ pFree' = [pFree EXCEPT ![r] = NextFree(r, FirstFree(r))]
    /\ pbRemain' = [t \in Trampolines |-> IF t[1] = r THEN NextFree(r, t) ELSE pbRemain[t]]

(* detour_is_region_empty, detour_free_region *)
RegionEmpty(r) == \A s \in Slots : ~InUse(<<r, s>>)
ReleaseRegions(unused) ==
    /\ regions' = regions \ unused
    /\ default' = IF unused = {} THEN default ELSE None
    /\ refused' = refused \ unused
    /\ pFree' = [r \in Regions |-> IF r \in unused THEN None ELSE pFree[r]]
    /\ pbRemain' = [t \in Trampolines |-> IF t[1] \in unused THEN None ELSE pbRemain[t]]

MayOperateOn(f) == RepeatTarget \/ \A i \in DOMAIN ops : ops[i].target # f

(* The caller passes a hook that is detached: the variable holds a function. *)
MayAttach(c, h) ==
    /\ owner = c /\ phase = "open" /\ Len(ops) < MaxOperations
    /\ pointer[h] \in Functions /\ MayOperateOn(pointer[h])

(* SlimDetoursAttach.  The copied instructions of a hooked function are the jump
   to its present trampoline, which detour_skip_jmp does not follow. *)
Attach(c, h) ==
    /\ MayAttach(c, h)
    /\ LET f == pointer[h] IN
       \E r \in Regions :
         /\ FoundRegion(r, f) \/ (NewRegion(r, f) /\ <<f, r>> \in Reach)
         /\ regions' = regions \cup {r} /\ default' = r /\ refused' = refused \ {r}
         /\ regionPerm' = [regionPerm EXCEPT ![r] = "RWX"]
         /\ PopFree(r)
         /\ LET t == FirstFree(r) IN
              /\ tramp' = [tramp EXCEPT ![t] =
                             [target |-> f, copied |-> patch[f], detour |-> h]]
              /\ ops' = <<[kind |-> "add", hook |-> h, target |-> f,
                           tramp |-> t, perm |-> perm[PageOf[f]]]>> \o ops
         /\ perm' = [perm EXCEPT ![PageOf[f]] = "RWX"]
    /\ UNCHANGED <<owner, phase, cursor, freed, suspended, codeVars, location>>

(* The last check refuses the first trampoline of a new region, which is out of
   reach: the region stays in the list, as the default one, with all its trampolines
   free, and SlimDetoursAttach has no trampoline to give back. *)
KeepRefused(r) ==
    /\ regions' = regions \cup {r} /\ default' = r /\ refused' = refused \cup {r}
    /\ regionPerm' = [regionPerm EXCEPT ![r] = "RWX"]
    /\ pFree' = [pFree EXCEPT ![r] = FirstFree(r)]
    /\ pbRemain' = [t \in Trampolines |-> IF t[1] = r THEN NextFree(r, t) ELSE pbRemain[t]]

(* SlimDetoursAttach fails after it allocated the trampoline (the function is too
   short, or its page cannot be made writable): the trampoline goes back to its
   free list and a region left empty, as a new one is, is released.  Or no
   trampoline was to be had, and the search ended with no default region, or with a
   new region that is refused. *)
AttachFails(c, h) ==
    /\ MayAttach(c, h)
    /\ LET f == pointer[h] IN
       \/ \E r \in Regions :
            /\ FoundRegion(r, f)
            /\ IF RegionEmpty(r) THEN ReleaseRegions({r})
               ELSE default' = r /\ UNCHANGED <<regions, pFree, pbRemain, refused>>
            /\ UNCHANGED regionPerm
       \/ /\ \A r \in Regions : ~Usable(r, f)
          /\ default' = None
          /\ UNCHANGED <<regions, pFree, pbRemain, refused, regionPerm>>
       \/ \E r \in Regions : NewRegion(r, f) /\ <<f, r>> \notin Reach /\ KeepRefused(r)
    /\ UNCHANGED <<owner, phase, ops, cursor, freed, suspended, tramp, codeVars, perm,
                   location>>

(* SlimDetoursDetach.  It refuses a variable that holds no live trampoline of
   this detour. *)
Detach(c, h) ==
    /\ owner = c /\ phase = "open" /\ Len(ops) < MaxOperations
    /\ pointer[h] \in Trampolines
    /\ LET t == pointer[h]
           f == tramp[t].target
       IN  /\ InUse(t) /\ tramp[t].detour = h /\ MayOperateOn(f)
           /\ ops' = <<[kind |-> "remove", hook |-> h, target |-> f,
                        tramp |-> t, perm |-> perm[PageOf[f]]]>> \o ops
           /\ perm' = [perm EXCEPT ![PageOf[f]] = "RWX"]
    /\ UNCHANGED <<owner, phase, cursor, freed, suspended, memoryVars, regionPerm,
                   tramp, codeVars, location>>

-----------------------------------------------------------------------------
(* SlimDetoursTransactionCommit *)

Commit(c) ==
    /\ owner = c /\ phase = "open"
    /\ phase' = "apply" /\ cursor' = 1 /\ freed' = FALSE
    /\ UNCHANGED <<owner, ops, suspended, memoryVars, regionPerm, tramp, codeVars,
                   perm, location>>

(* The function jumps to the trampoline, and so does a call of the variable,
   which enters it behind the detour. *)
ApplyAdd(c) ==
    /\ Applying(c, "add")
    /\ LET o == ops[cursor] IN
         /\ patch' = [patch EXCEPT ![o.target] = o.tramp]
         /\ pointer' = [pointer EXCEPT ![o.hook] = o.tramp]
    /\ UNCHANGED <<owner, phase, ops, freed, suspended, memoryVars, regionPerm, tramp,
                   perm, location>>

(* hookIsStillThere *)
StillThere(o) == patch[o.target] = o.tramp

(* The hook is still there: the bytes it replaced are put back. *)
ApplyRemove(c) ==
    /\ Applying(c, "remove")
    /\ LET o == ops[cursor] IN
         /\ StillThere(o)
         /\ patch' = [patch EXCEPT ![o.target] = tramp[o.tramp].copied]
         /\ pointer' = [pointer EXCEPT ![o.hook] = o.target]
    /\ UNCHANGED <<owner, phase, ops, freed, suspended, memoryVars, regionPerm, tramp,
                   perm, location>>

(* Another hook was put on top: the trampoline stays, and skips its detour. *)
ApplyBypass(c) ==
    /\ Applying(c, "remove")
    /\ LET o == ops[cursor] IN
         /\ ~StillThere(o)
         /\ ops' = [ops EXCEPT ![cursor] = [o EXCEPT !.kind = "bypass"]]
         /\ tramp' = [tramp EXCEPT ![o.tramp] = [@ EXCEPT !.detour = Bypass]]
         /\ pointer' = [pointer EXCEPT ![o.hook] = o.target]
    /\ UNCHANGED <<owner, phase, freed, suspended, memoryVars, regionPerm, patch,
                   perm, location>>

(* Whether the table of alignments says less than it should: it keeps where an
   instruction ends in three bits, so the end of eight bytes or more is taken for an
   earlier one, and that of eight or sixteen for the start.  A copied jump has five. *)
LosesBits(o) == o.target \in LongPrologues /\ tramp[o.tramp].copied = Original

(* detour_thread_update: where an operation may move a thread, out of the code it
   removes, or out of the bytes it overwrote.  Of a long prologue, a thread that has done
   all copied instructions is put at the start, at a later instruction or in the middle
   of one, and a thread at the start perhaps behind them. *)
MovedBy(o, l) ==
    CASE o.kind = "remove" /\ l \in {In(o.tramp), Copy(o.tramp)} -> {Entry(o.target)}
      [] o.kind = "remove" /\ l = Rest(o.tramp) ->
           {Middle(o.target)} \cup
             IF LosesBits(o) THEN {Entry(o.target), Lost(o.target)} ELSE {}
      [] o.kind = "add" /\ l = Entry(o.target) ->
           {Copy(o.tramp)} \cup IF LosesBits(o) THEN {Rest(o.tramp)} ELSE {}
      [] o.kind = "add" /\ l = Middle(o.target) -> {Rest(o.tramp)}
      [] OTHER -> {l}

(* The first operation of the list that moves the thread is the only one. *)
Updated(l) ==
    LET moving == {i \in DOMAIN ops : MovedBy(ops[i], l) # {l}}
    IN  IF moving = {} THEN {l}
        ELSE MovedBy(ops[CHOOSE i \in moving : \A j \in moving : i <= j], l)

UpdateThreads(c) ==
    /\ owner = c /\ phase = "apply" /\ cursor = Len(ops) + 1
    /\ phase' = "restore"
    /\ location' \in [Runners -> Places]
    /\ \A x \in Runners :
          location'[x] \in IF suspended THEN Updated(location[x]) ELSE {location[x]}
    /\ UNCHANGED <<owner, ops, cursor, freed, suspended, memoryVars, regionPerm, tramp,
                   codeVars, perm>>

-----------------------------------------------------------------------------
(* The loop that ends Commit and Abort *)

(* NtProtectVirtualMemory with the saved protection and the trampoline's
   cbRestore: it fails for a trampoline that was zeroed, whose size is 0. *)
RestorePerm(o) ==
    perm' = IF InUse(o.tramp) THEN [perm EXCEPT ![PageOf[o.target]] = o.perm] ELSE perm

(* detour_free_trampoline *)
FreeTrampoline(t) ==
    /\ tramp' = [tramp EXCEPT ![t] = Zeroed]
    /\ pbRemain' = [pbRemain EXCEPT ![t] = pFree[t[1]]]
    /\ pFree' = [pFree EXCEPT ![t[1]] = t]
    /\ freed' = TRUE

EndOperation(c, ending, kind) ==
    /\ owner = c /\ phase = ending /\ ops # <<>>
    /\ RestorePerm(Head(ops))
    /\ IF Head(ops).kind = kind THEN FreeTrampoline(Head(ops).tramp)
       ELSE UNCHANGED <<tramp, pFree, pbRemain, freed>>
    /\ ops' = Tail(ops)
    /\ UNCHANGED <<owner, phase, cursor, suspended, regions, default, refused,
                   regionPerm, codeVars, location>>

(* Commit frees the trampolines it removed, Abort those it added. *)
CommitOperation(c) == EndOperation(c, "restore", "remove")
AbortOperation(c) == EndOperation(c, "abort", "add")

Abort(c) ==
    /\ owner = c /\ phase = "open"
    /\ phase' = "abort" /\ freed' = FALSE
    /\ UNCHANGED <<owner, ops, cursor, suspended, memoryVars, regionPerm, tramp,
                   codeVars, perm, location>>

(* detour_free_unused_trampoline_regions, detour_runnable_trampoline_regions,
   detour_thread_resume and the release of the transaction. *)
EndTransaction(c) ==
    /\ owner = c /\ phase \in {"restore", "abort"} /\ ops = <<>>
    /\ ReleaseRegions({r \in regions : freed /\ RegionEmpty(r)})
    /\ regionPerm' = [r \in Regions |-> "RX"]
    /\ suspended' = FALSE
    /\ owner' = None /\ phase' = "idle"
    /\ UNCHANGED <<ops, cursor, freed, tramp, codeVars, perm, location>>

-----------------------------------------------------------------------------
(* The threads that run through the hooked functions *)

(* Where a call of a hook's pointer variable leads; loading it and calling are one
   step. *)
Callee(x) == IF x \in Functions THEN Entry(x) ELSE Copy(x)

(* Executing rbCodeIn, the copied code, or the first bytes of a function. *)
FromIn(t) == IF tramp[t].detour \in Hooks THEN InDetour(tramp[t].detour) ELSE Copy(t)
FromCopy(t) == IF tramp[t].copied \in Trampolines THEN In(tramp[t].copied) ELSE Rest(t)
FromEntry(f) == IF patch[f] = Original THEN Middle(f) ELSE In(patch[f])

(* Commit is writing over the first bytes of f. *)
BeingPatched(f) ==
    /\ phase = "apply" /\ cursor \in DOMAIN ops /\ ops[cursor].target = f
    /\ ops[cursor].kind = "remove" => StillThere(ops[cursor])

(* One step of a runner from place l to place n.  The bytes a hook overwrote are
   not instructions to a thread that was between them. *)
Moves(l, n) ==
    \/ l = Out /\ \E f \in Functions : n = Entry(f)
    \/ \E f \in Functions :
         \/ l = Entry(f) /\ (n = FromEntry(f) \/ (BeingPatched(f) /\ n = Lost(f)))
         \/ l = Middle(f) /\ n = IF patch[f] = Original THEN Out ELSE Lost(f)
    \/ \E t \in Trampolines :
         \/ l = In(t) /\ n = FromIn(t)
         \/ l = Copy(t) /\ n = FromCopy(t)
         \/ l = Rest(t) /\ n = Out
    \/ \E h \in Hooks :
         /\ l = InDetour(h)
         /\ \/ n = Out
            \/ n = Callee(pointer[h])

Run(x) ==
    /\ ~suspended
    /\ \E n \in Places : Moves(location[x], n) /\ location' = [location EXCEPT ![x] = n]
    /\ UNCHANGED <<owner, phase, ops, cursor, freed, suspended, memoryVars, regionPerm,
                   tramp, codeVars, perm>>

-----------------------------------------------------------------------------
(* What Commit and Abort do before they return. *)
EndStep(c) ==
    \/ ApplyAdd(c) \/ ApplyRemove(c) \/ ApplyBypass(c) \/ UpdateThreads(c)
    \/ CommitOperation(c) \/ AbortOperation(c) \/ EndTransaction(c)

CallerStep(c) ==
    \/ Begin(c) \/ MakeWritable(c) \/ OpenTransaction(c)
    \/ \E h \in Hooks : Attach(c, h) \/ AttachFails(c, h) \/ Detach(c, h)
    \/ Commit(c) \/ Abort(c)
    \/ EndStep(c)

Next == (\E c \in Callers : CallerStep(c)) \/ (\E x \in Runners : Run(x))

Spec == Init /\ [][Next]_vars

(* The owner is never suspended, so a call it made of Begin, Commit or Abort
   returns.  Nothing obliges it to make one. *)
Fairness ==
    \A c \in Callers :
        WF_vars(MakeWritable(c) \/ OpenTransaction(c)) /\ WF_vars(EndStep(c))
FairSpec == Spec /\ Fairness

-----------------------------------------------------------------------------
(* Properties *)

Operations ==
    [kind : {"add", "remove", "bypass"}, hook : Hooks, target : Functions,
     tramp : Trampolines, perm : {"RX", "RWX"}]

(* The variables hold what the fields of the C code can hold. *)
TypeOK ==
    /\ owner \in Callers \cup {None}
    /\ phase \in {"idle", "writable", "open", "apply", "restore", "abort"}
    /\ ops \in Seq(Operations) /\ cursor \in Nat
    /\ freed \in BOOLEAN /\ suspended \in BOOLEAN
    /\ regions \subseteq Regions /\ refused \subseteq Regions
    /\ default \in Regions \cup {None}
    /\ pFree \in [Regions -> Trampolines \cup {None}]
    /\ pbRemain \in [Trampolines -> Trampolines \cup {None}]
    /\ regionPerm \in [Regions -> {"RX", "RWX"}]
    /\ tramp \in [Trampolines ->
                    [target : Functions, copied : Trampolines \cup {Original},
                     detour : Hooks \cup {Bypass}] \cup {Zeroed}]
    /\ patch \in [Functions -> Trampolines \cup {Original}]
    /\ perm \in [Pages -> {"RX", "RWX"}]
    /\ pointer \in [Hooks -> Functions \cup Trampolines]
    /\ location \in [Runners -> Places]

(* Trampoline t is in use for function f. *)
Serves(t, f) == t \in Trampolines /\ InUse(t) /\ tramp[t].target = f

(* Every jump written into a function or copied into a trampoline, and every
   pointer a detour calls the original through, leads to a trampoline that is in
   use for that function: none was freed under it, whatever the order in which
   several hooks of a function come and go (the bypass of Commit). *)
NoDanglingJump ==
    /\ \A f \in Functions : patch[f] = Original \/ Serves(patch[f], f)
    /\ \A t \in Trampolines :
          InUse(t) => \/ tramp[t].copied = Original
                      \/ Serves(tramp[t].copied, tramp[t].target)
    /\ \A h \in Hooks : pointer[h] = Home[h] \/ Serves(pointer[h], Home[h])

(* S holds first, if that is a trampoline, and with each of its trampolines the one
   that follows it. *)
Closed(S, first, next) ==
    /\ first \in Trampolines => first \in S
    /\ \A t \in S : next[t] \in Trampolines => next[t] \in S

(* The trampolines that are first or follow another. *)
Followers(first, next) == Trampolines \cap ({first} \cup {next[t] : t \in Trampolines})

(* The least closed set: the trampolines that one meets from first on. *)
Reached(first, next) ==
    LET closed == {S \in SUBSET Followers(first, next) : Closed(S, first, next)}
    IN  {t \in Followers(first, next) : \A S \in closed : t \in S}

(* The trampolines that a call of f runs through if no detour stops it. *)
Chain(f) == Reached(patch[f], [t \in Trampolines |-> tramp[t].copied])

(* A hook whose variable says that it is attached is really called: its
   trampoline is on the way of every call of its function and enters its detour. *)
AttachedHooksRun ==
    \A h \in Hooks : pointer[h] \in Trampolines =>
        pointer[h] \in Chain(Home[h]) /\ tramp[pointer[h]].detour = h

(* Outside a transaction no code is writable: every page has got back the protection
   it had, also when two functions share it, and so has every region, unless a Begin
   can fail half way. *)
WritableOnlyInTransaction ==
    owner = None => /\ \A p \in Pages : perm[p] = "RX"
                    /\ ProtectFails \/ \A r \in regions : regionPerm[r] = "RX"

(* No thread is in a trampoline that was freed, and none at bytes that are no
   instruction, if less than eight bytes of its function are replaced: Commit moved it
   before it freed or overwrote them.  With longer prologues the table loses bits
   (Transaction.c:351), and the second part is false. *)
NoLostThread ==
    \A x \in Runners :
        /\ \A f \in Functions \ LongPrologues : location[x] # Lost(f)
        /\ \A t \in Trampolines : location[x] \in {In(t), Copy(t), Rest(t)} => InUse(t)

(* Outside a transaction a trampoline is in use only while a hook's variable
   holds it, or if it was bypassed and given up for good. *)
NoTrampolineLeaked ==
    owner = None =>
        \A t \in Trampolines : InUse(t) =>
            tramp[t].detour = Bypass \/ \E h \in Hooks : pointer[h] = t

(* The trampolines on the free list of region r. *)
FreeList(r) == Reached(pFree[r], pbRemain)

(* The regions account for the trampolines: one in use lies in a region that is
   allocated; the free list of a region holds its own and none in use, so none is
   handed out twice, and all of those but the two that no list ever holds, so none is
   lost; and the list ends.  The default region is allocated. *)
RegionsHoldTrampolines ==
    /\ default \in regions \cup {None}
    /\ \A t \in Trampolines : InUse(t) => t[1] \in regions
    /\ \A r \in regions :
          LET free == FreeList(r)
          IN  /\ \A t \in free : t[1] = r /\ ~InUse(t)
              /\ \A s \in Slots : s > 1 => InUse(<<r, s>>) \/ <<r, s>> \in free
              /\ free # {} => \E t \in free : pbRemain[t] = None

(* Outside a transaction no region without a trampoline is kept, except one that was
   refused to the function it was made for and has served no other function since:
   what an Attach that fails later, an Abort and a Commit leave empty, they release. *)
UnusedRegionsReleased ==
    owner = None => \A r \in regions : RegionEmpty(r) => r \in refused

(* Commit, Abort and a Begin that goes on or fails return: no step of them is
   stuck, whatever the operations, and the lock of the API is free again. *)
TransactionEnds ==
    /\ phase \in {"apply", "restore", "abort"} ~> owner = None
    /\ phase = "writable" ~> (phase = "open" \/ owner = None)

-----------------------------------------------------------------------------
(* What a caller may rely on *)

(* The hooks that a call of their function really comes by. *)
InForce == Hooks \cap UNION {{tramp[t].detour : t \in Chain(f)} : f \in Functions}

(* The hooks of the operations of one kind that are still to be carried out. *)
Requested(kind) ==
    {ops[i].hook : i \in {j \in DOMAIN ops :
                             ops[j].kind = kind /\ (phase = "apply" => cursor <= j)}}

(* A transaction as its caller sees it.  A commit takes effect at once: the hooks that
   are attached are those in force and those that Commit has still to write, less those
   it has to remove. *)
Stage ==
    CASE phase = "writable" -> "opening"
      [] phase \in {"idle", "open"} -> phase
      [] OTHER -> "ending"
Attached ==
    IF phase = "apply" THEN (InForce \cup Requested("add")) \ Requested("remove")
    ELSE InForce
Asked(kind) == IF phase = "open" THEN Requested(kind) ELSE {}

Service == INSTANCE HookService WITH
    stage <- Stage, attached <- Attached, adds <- Asked("add"), removes <- Asked("remove")

(* The hooks in force change by nothing but a commit, and by just what its
   transaction asked for: the trampolines and jumps that Attach and Abort make and
   free, the order of Commit's loop and the bypass of a buried hook are invisible. *)
ImplementsHookService == Service!ServiceSpec

=============================================================================
