---------------------------- MODULE DetoursProofs ----------------------------
(***************************************************************************)
(* What holds of the transactions of SlimDetours for any number of         *)
(* functions, hooks, regions and threads.  Where a transaction may name a  *)
(* function twice it does not (DetoursMixed.cfg), so all but the types is  *)
(* proved for transactions that do not.                                    *)
(***************************************************************************)
EXTENDS Detours, FiniteSetTheorems, WellFoundedInduction, TLAPS

(***************************************************************************)
(* Sequences.                                                              *)
(***************************************************************************)

(* What an operation put in front of a list makes of it. *)
LEMMA PutInFront ==
    ASSUME NEW S, NEW s \in Seq(S), NEW e \in S
    PROVE  /\ <<e>> \o s \in Seq(S)
           /\ DOMAIN (<<e>> \o s) = 1 .. (Len(s) + 1)
           /\ (<<e>> \o s)[1] = e
           /\ \A k \in 2 .. (Len(s) + 1) : (<<e>> \o s)[k] = s[k - 1] /\ k - 1 \in DOMAIN s
  OBVIOUS

(* A list without its first operation. *)
LEMMA WithoutFirst ==
    ASSUME NEW S, NEW s \in Seq(S), s # <<>>
    PROVE  /\ Head(s) \in S /\ Head(s) = s[1] /\ 1 \in DOMAIN s
           /\ Tail(s) \in Seq(S)
           /\ \A k \in DOMAIN Tail(s) : k + 1 \in DOMAIN s /\ Tail(s)[k] = s[k + 1]
           /\ \A k \in DOMAIN s : k # 1 => k - 1 \in DOMAIN Tail(s) /\ Tail(s)[k - 1] = s[k]
  OBVIOUS

(***************************************************************************)
(* What one meets from a trampoline on.                                    *)
(***************************************************************************)

(* A trampoline is met if no set that is closed leaves it out. *)
LEMMA ReachedMeans ==
    ASSUME NEW first, NEW next, NEW t
    PROVE  t \in Reached(first, next) <=>
             /\ t \in Trampolines
             /\ \A S \in SUBSET Trampolines : Closed(S, first, next) => t \in S
<1>1. Closed(Followers(first, next), first, next)  BY DEF Closed, Followers
<1>2. ASSUME NEW S \in SUBSET Trampolines, Closed(S, first, next)
      PROVE  Closed(S \cap Followers(first, next), first, next)
  BY <1>2 DEF Closed, Followers
<1>3. ASSUME t \in Reached(first, next), NEW S \in SUBSET Trampolines, Closed(S, first, next)
      PROVE  t \in S
  BY <1>2, <1>3 DEF Reached
<1>4. ASSUME t \in Trampolines,
             \A S \in SUBSET Trampolines : Closed(S, first, next) => t \in S
      PROVE  t \in Reached(first, next)
  <2>1. Followers(first, next) \subseteq Trampolines  BY DEF Followers
  <2> QED  BY <1>1, <1>4, <2>1 DEF Reached
<1>5. t \in Reached(first, next) => t \in Trampolines  BY DEF Reached, Followers
<1> QED  BY <1>3, <1>4, <1>5

(* A closed set holds all that is met. *)
LEMMA ReachedWithin ==
    ASSUME NEW first, NEW next, NEW S \in SUBSET Trampolines, Closed(S, first, next),
           NEW t \in Reached(first, next)
    PROVE  t \in S
  BY ReachedMeans

(* The first trampoline is met, and with each the one that follows it. *)
LEMMA ReachedClosed ==
    ASSUME NEW first, NEW next
    PROVE  Closed(Reached(first, next), first, next)
<1>1. ASSUME first \in Trampolines PROVE first \in Reached(first, next)
  BY <1>1, ReachedMeans DEF Closed
<1>2. ASSUME NEW t \in Reached(first, next), next[t] \in Trampolines
      PROVE  next[t] \in Reached(first, next)
  <2>1. ASSUME NEW S \in SUBSET Trampolines, Closed(S, first, next) PROVE next[t] \in S
    <3>1. t \in S  BY <2>1, ReachedWithin
    <3> QED  BY <1>2, <2>1, <3>1 DEF Closed
  <2> QED  BY <1>2, <2>1, ReachedMeans
<1> QED  BY <1>1, <1>2 DEF Closed

(* Only what follows the trampolines that one can meet decides which one meets. *)
LEMMA ReachedAlong ==
    ASSUME NEW first, NEW next, NEW next2, NEW P \in SUBSET Trampolines,
           first \in Trampolines => first \in P,
           \A u \in P : next2[u] = next[u] /\ (next[u] \in Trampolines => next[u] \in P),
           NEW t \in Reached(first, next)
    PROVE  t \in Reached(first, next2)
<1>1. ASSUME NEW S \in SUBSET Trampolines, Closed(S, first, next2) PROVE t \in S
  <2>1. Closed(S \cap P, first, next)  BY <1>1 DEF Closed
  <2>2. t \in S \cap P  BY <2>1, ReachedWithin
  <2> QED  BY <2>2
<1> QED  BY <1>1, ReachedMeans

(* From the second trampoline on one meets the others. *)
LEMMA ReachedBehind ==
    ASSUME NEW first \in Trampolines, NEW next, NEW t \in Reached(first, next), t # first
    PROVE  t \in Reached(next[first], next)
<1>1. ASSUME NEW S \in SUBSET Trampolines, Closed(S, next[first], next) PROVE t \in S
  <2>1. Closed(S \cup {first}, first, next)  BY <1>1 DEF Closed
  <2>2. t \in S \cup {first}  BY <2>1, ReachedWithin
  <2> QED  BY <2>2
<1> QED  BY <1>1, ReachedMeans

(* From one put in front one meets it and all the others. *)
LEMMA ReachedInFront ==
    ASSUME NEW top \in Trampolines, NEW next, NEW t \in Reached(next[top], next) \cup {top}
    PROVE  t \in Reached(top, next)
<1>1. ASSUME NEW S \in SUBSET Trampolines, Closed(S, top, next) PROVE t \in S
  <2>1. top \in S /\ Closed(S, next[top], next)  BY <1>1 DEF Closed
  <2>2. t \in Reached(next[top], next) => t \in S  BY <2>1, ReachedWithin
  <2> QED  BY <2>1, <2>2
<1>2. t \in Trampolines  BY ReachedMeans
<1> QED  BY <1>1, <1>2, ReachedMeans

(***************************************************************************)
(* Types.                                                                  *)
(***************************************************************************)
Contents ==
    [target : Functions, copied : Trampolines \cup {Original}, detour : Hooks \cup {Bypass}]

(* Nothing is freed before the last loop. *)
PendingInUse ==
    phase \in {"open", "apply"} => \A k \in DOMAIN ops : InUse(ops[k].tramp)

TypeInv == TypeOK /\ PendingInUse

(* The contents of a trampoline in use name a function, zeroed ones do not. *)
LEMMA ZeroedIsNoContents == Zeroed \notin Contents
  BY DistinctAssumption DEF Zeroed, Contents

(* What is in use has contents. *)
LEMMA InUseContents ==
    ASSUME TypeOK, NEW t \in Trampolines
    PROVE  InUse(t) <=> tramp[t] \in Contents
  BY ZeroedIsNoContents DEF TypeOK, Contents, InUse

(* The types of an operation's fields. *)
LEMMA OperationTypes ==
    ASSUME TypeOK, NEW k \in DOMAIN ops
    PROVE  /\ ops[k] \in Operations
           /\ ops[k].kind \in {"add", "remove", "bypass"} /\ ops[k].hook \in Hooks
           /\ ops[k].target \in Functions /\ ops[k].tramp \in Trampolines
           /\ ops[k].perm \in {"RX", "RWX"}
<1>1. ops[k] \in Operations  BY DEF TypeOK
<1> QED  BY <1>1 DEF Operations

(* The first trampoline of a list, and those behind it, have their type. *)
LEMMA FreeListTypes ==
    ASSUME TypeOK, NEW r \in Regions
    PROVE  /\ r \notin regions \/ pFree[r] # None => FirstFree(r) \in Trampolines
           /\ \A t \in Trampolines : NextFree(r, t) \in Trampolines \cup {None}
<1>1. <<r, 2>> \in Trampolines  BY SizeAssumption DEF Trampolines, Slots
<1>2. ASSUME NEW t \in Trampolines, t[2] \in 2 .. (PerRegion - 2)
      PROVE  <<r, t[2] + 1>> \in Trampolines
  <2>1. t[2] + 1 \in Slots  BY <1>2, SizeAssumption DEF Slots
  <2> QED  BY <2>1 DEF Trampolines
<1> QED  BY <1>1, <1>2 DEF FirstFree, NextFree, TypeOK

(* A set of natural numbers has a least one. *)
LEMMA LeastIn ==
    ASSUME NEW T, T \subseteq Nat, T # {}
    PROVE  \E n \in T : \A m \in T : n <= m
<1>1. PICK n \in T : \A m \in T : ~(<<m, n>> \in OpToRel(<, Nat))
  BY WFMin, NatLessThanWellFounded
<1>2. ASSUME NEW m \in T PROVE n <= m
  <2>1. m \in Nat /\ n \in Nat  OBVIOUS
  <2>2. <<m, n>> \in OpToRel(<, Nat) <=> m < n  BY <2>1, Zenon DEF OpToRel
  <2>3. ~(m < n)  BY <1>1, <2>2, Zenon
  <2> QED  BY <2>1, <2>3
<1> QED  BY <1>2

(* Releasing regions. *)
LEMMA ReleaseTypes ==
    ASSUME TypeOK, NEW S \in SUBSET Regions, ReleaseRegions(S)
    PROVE  /\ regions' \subseteq Regions /\ default' \in Regions \cup {None}
           /\ refused' \subseteq Regions
           /\ pFree' \in [Regions -> Trampolines \cup {None}]
           /\ pbRemain' \in [Trampolines -> Trampolines \cup {None}]
  BY DEF TypeOK, ReleaseRegions

(* Keeping a region that is refused. *)
LEMMA RefusedTypes ==
    ASSUME TypeOK, NEW r \in Regions, r \notin regions, KeepRefused(r)
    PROVE  /\ regions' \subseteq Regions /\ default' \in Regions \cup {None}
           /\ refused' \subseteq Regions
           /\ pFree' \in [Regions -> Trampolines \cup {None}]
           /\ pbRemain' \in [Trampolines -> Trampolines \cup {None}]
           /\ regionPerm' \in [Regions -> {"RX", "RWX"}]
<1>1. /\ FirstFree(r) \in Trampolines
      /\ \A t \in Trampolines : NextFree(r, t) \in Trampolines \cup {None}
  BY FreeListTypes
<1> QED  BY <1>1 DEF KeepRefused, TypeOK

(* A new operation has its type, and its trampoline is in use. *)
LEMMA AttachTypes ==
    ASSUME TypeInv, NEW c \in Callers, NEW h \in Hooks, Attach(c, h)
    PROVE  TypeInv'
<1> DEFINE f == pointer[h]
<1>1. f \in Functions /\ owner = c /\ phase = "open" /\ phase' = phase
  BY DEF Attach, MayAttach
<1>2. PICK r \in Regions :
        /\ FoundRegion(r, f) \/ NewRegion(r, f)
        /\ regions' = regions \cup {r} /\ default' = r
        /\ regionPerm' = [regionPerm EXCEPT ![r] = "RWX"]
        /\ PopFree(r)
        /\ tramp' = [tramp EXCEPT ![FirstFree(r)] =
                        [target |-> f, copied |-> patch[f], detour |-> h]]
        /\ ops' = <<[kind |-> "add", hook |-> h, target |-> f,
                      tramp |-> FirstFree(r), perm |-> perm[PageOf[f]]]>> \o ops
  BY DEF Attach
<1>3. PICK t \in Trampolines : t = FirstFree(r)
  BY <1>2, FreeListTypes DEF TypeInv, FoundRegion, NewRegion, Usable
<1> DEFINE content == [target |-> f, copied |-> patch[f], detour |-> h]
           o == [kind |-> "add", hook |-> h, target |-> f, tramp |-> t,
                 perm |-> perm[PageOf[f]]]
<1>4. content \in Contents  BY <1>1 DEF Contents, TypeInv, TypeOK
<1>5. o \in Operations
  <2>1. perm[PageOf[f]] \in {"RX", "RWX"}
    BY <1>1, PlaceAssumption DEF TypeInv, TypeOK
  <2> HIDE DEF f
  <2> QED  BY <1>1, <1>3, <2>1 DEF Operations
<1> HIDE DEF content, o, f
<1>6. tramp' = [tramp EXCEPT ![t] = content] /\ ops' = <<o>> \o ops
  BY <1>2, <1>3 DEF content, o
<1>7. ops' \in Seq(Operations)  BY <1>5, <1>6, PutInFront DEF TypeInv, TypeOK
<1>8. tramp' \in [Trampolines -> Contents \cup {Zeroed}]
  BY <1>4, <1>6 DEF TypeInv, TypeOK, Contents
<1>9. pFree' \in [Regions -> Trampolines \cup {None}]
      /\ pbRemain' \in [Trampolines -> Trampolines \cup {None}]
  <2>1. \A u \in Trampolines : NextFree(r, u) \in Trampolines \cup {None}
    BY <1>2, FreeListTypes DEF TypeInv
  <2>2. pFree' = [pFree EXCEPT ![r] = NextFree(r, t)]
        /\ pbRemain' = [u \in Trampolines |-> IF u[1] = r THEN NextFree(r, u) ELSE pbRemain[u]]
    BY <1>2, <1>3 DEF PopFree
  <2> QED  BY <1>3, <2>1, <2>2 DEF TypeInv, TypeOK
<1>10. perm' \in [Pages -> {"RX", "RWX"}]  BY DEF Attach, TypeInv, TypeOK
<1>11. TypeOK'
  BY <1>1, <1>2, <1>7, <1>8, <1>9, <1>10 DEF TypeInv, TypeOK, Contents, Attach, codeVars
<1>12. PendingInUse'
  <2>1. \A u \in Trampolines : InUse(u) \/ u = t => InUse(u)'
    BY <1>4, <1>6, <1>8, ZeroedIsNoContents DEF InUse, TypeInv, TypeOK
  <2>2. \A k \in DOMAIN ops : ops[k].tramp \in Trampolines /\ InUse(ops[k].tramp)
    BY <1>1, OperationTypes DEF TypeInv, PendingInUse
  <2>3. o.tramp = t  BY DEF o
  <2>4. ASSUME NEW k \in DOMAIN ops' PROVE InUse(ops[k].tramp)'
    <3>1. k = 1 \/ (k \in 2 .. (Len(ops) + 1) /\ ops'[k] = ops[k - 1] /\ k - 1 \in DOMAIN ops)
      BY <1>5, <1>6, PutInFront DEF TypeInv, TypeOK
    <3>2. CASE k = 1
      <4>1. ops'[1] = o  BY <1>5, <1>6, PutInFront DEF TypeInv, TypeOK
      <4>2. InUse(t)'  BY <1>3, <2>1
      <4> QED  BY <2>3, <3>2, <4>1, <4>2 DEF InUse
    <3>3. CASE k # 1
      <4>1. ops'[k] = ops[k - 1] /\ k - 1 \in DOMAIN ops  BY <3>1, <3>3
      <4>2. InUse(ops[k - 1].tramp) /\ ops[k - 1].tramp \in Trampolines  BY <2>2, <4>1
      <4> QED  BY <2>1, <4>1, <4>2 DEF InUse
    <3> QED  BY <3>2, <3>3
  <2> QED  BY <2>4 DEF PendingInUse
<1> QED  BY <1>11, <1>12 DEF TypeInv

(* So has one that removes a hook. *)
LEMMA DetachTypes ==
    ASSUME TypeInv, NEW c \in Callers, NEW h \in Hooks, Detach(c, h)
    PROVE  TypeInv'
<1> DEFINE t == pointer[h]
           f == tramp[t].target
           o == [kind |-> "remove", hook |-> h, target |-> f, tramp |-> t,
                 perm |-> perm[PageOf[f]]]
<1>1. /\ t \in Trampolines /\ InUse(t) /\ owner = c /\ phase = "open"
      /\ ops' = <<o>> \o ops /\ perm' = [perm EXCEPT ![PageOf[f]] = "RWX"]
      /\ tramp' = tramp /\ phase' = phase
  BY DEF Detach
<1>2. f \in Functions  BY <1>1, InUseContents DEF TypeInv, Contents
<1>3. o \in Operations
  <2>1. perm[PageOf[f]] \in {"RX", "RWX"}
    BY <1>2, PlaceAssumption DEF TypeInv, TypeOK
  <2> HIDE DEF t, f
  <2> QED  BY <1>1, <1>2, <2>1 DEF Operations
<1>4. o.tramp = t  OBVIOUS
<1> HIDE DEF t, f, o
<1>5. ops' \in Seq(Operations)  BY <1>1, <1>3, PutInFront DEF TypeInv, TypeOK
<1>6. perm' \in [Pages -> {"RX", "RWX"}]  BY <1>1 DEF TypeInv, TypeOK
<1>7. TypeOK'
  BY <1>5, <1>6 DEF TypeInv, TypeOK, Detach, codeVars, memoryVars
<1>8. ASSUME NEW k \in DOMAIN ops' PROVE InUse(ops[k].tramp)'
  <2>1. k = 1 \/ (k \in 2 .. (Len(ops) + 1) /\ ops'[k] = ops[k - 1] /\ k - 1 \in DOMAIN ops)
    BY <1>1, <1>3, PutInFront DEF TypeInv, TypeOK
  <2>2. CASE k = 1
    <3>1. ops'[1] = o  BY <1>1, <1>3, PutInFront DEF TypeInv, TypeOK
    <3> QED  BY <1>1, <1>4, <2>2, <3>1 DEF InUse
  <2>3. CASE k # 1
    <3>1. ops'[k] = ops[k - 1] /\ k - 1 \in DOMAIN ops  BY <2>1, <2>3
    <3>2. InUse(ops[k - 1].tramp)  BY <1>1, <3>1 DEF TypeInv, PendingInUse
    <3> QED  BY <1>1, <3>1, <3>2 DEF InUse
  <2> QED  BY <2>2, <2>3
<1> QED  BY <1>7, <1>8 DEF TypeInv, PendingInUse

(* Applying an operation zeroes no trampoline. *)
LEMMA ApplyTypes ==
    ASSUME TypeInv, NEW c \in Callers, ApplyAdd(c) \/ ApplyRemove(c) \/ ApplyBypass(c)
    PROVE  TypeInv'
<1> DEFINE o == ops[cursor]
<1>1. owner = c /\ phase = "apply" /\ cursor \in DOMAIN ops /\ cursor' = cursor + 1
  BY DEF ApplyAdd, ApplyRemove, ApplyBypass, Applying
<1>2. /\ o \in Operations /\ o.hook \in Hooks
      /\ o.target \in Functions /\ o.tramp \in Trampolines
  BY <1>1, OperationTypes DEF TypeInv
<1>3. InUse(o.tramp) /\ tramp[o.tramp] \in Contents
  BY <1>1, <1>2, InUseContents DEF TypeInv, PendingInUse
<1>4. cursor' \in Nat  BY <1>1 DEF TypeInv, TypeOK
<1>5. CASE ApplyAdd(c)
  <2>1. patch' = [patch EXCEPT ![o.target] = o.tramp]
        /\ pointer' = [pointer EXCEPT ![o.hook] = o.tramp]
    BY <1>5 DEF ApplyAdd
  <2>2. patch' \in [Functions -> Trampolines \cup {Original}]
        /\ pointer' \in [Hooks -> Functions \cup Trampolines]
    BY <1>2, <2>1 DEF TypeInv, TypeOK
  <2>3. TypeOK'  BY <1>4, <1>5, <2>2 DEF TypeInv, TypeOK, ApplyAdd, memoryVars
  <2>4. PendingInUse'  BY <1>5 DEF TypeInv, PendingInUse, InUse, ApplyAdd
  <2> QED  BY <2>3, <2>4 DEF TypeInv
<1>6. CASE ApplyRemove(c)
  <2>1. patch' = [patch EXCEPT ![o.target] = tramp[o.tramp].copied]
        /\ pointer' = [pointer EXCEPT ![o.hook] = o.target]
    BY <1>6 DEF ApplyRemove
  <2>2. tramp[o.tramp].copied \in Trampolines \cup {Original}  BY <1>3 DEF Contents
  <2>3. patch' \in [Functions -> Trampolines \cup {Original}]
        /\ pointer' \in [Hooks -> Functions \cup Trampolines]
    BY <1>2, <2>1, <2>2 DEF TypeInv, TypeOK
  <2>4. TypeOK'  BY <1>4, <1>6, <2>3 DEF TypeInv, TypeOK, ApplyRemove, memoryVars
  <2>5. PendingInUse'  BY <1>6 DEF TypeInv, PendingInUse, InUse, ApplyRemove
  <2> QED  BY <2>4, <2>5 DEF TypeInv
<1>7. CASE ApplyBypass(c)
  <2> DEFINE content == [tramp[o.tramp] EXCEPT !.detour = Bypass]
             bypassed == [o EXCEPT !.kind = "bypass"]
  <2>1. /\ ops' = [ops EXCEPT ![cursor] = bypassed]
        /\ tramp' = [tramp EXCEPT ![o.tramp] = content]
        /\ pointer' = [pointer EXCEPT ![o.hook] = o.target]
    BY <1>7 DEF ApplyBypass
  <2>2. content \in Contents  BY <1>3 DEF Contents
  <2>3. bypassed \in Operations /\ bypassed.tramp = o.tramp  BY <1>2 DEF Operations
  <2> HIDE DEF content, bypassed
  <2>4. ops' \in Seq(Operations) /\ DOMAIN ops' = DOMAIN ops
    BY <1>1, <2>1, <2>3 DEF TypeInv, TypeOK
  <2>5. tramp' \in [Trampolines -> Contents \cup {Zeroed}]
    BY <2>1, <2>2 DEF TypeInv, TypeOK, Contents
  <2>6. pointer' \in [Hooks -> Functions \cup Trampolines]
    BY <1>2, <2>1 DEF TypeInv, TypeOK
  <2>7. TypeOK'
    BY <1>4, <1>7, <2>4, <2>5, <2>6 DEF TypeInv, TypeOK, Contents, ApplyBypass, memoryVars
  <2>8. \A u \in Trampolines : InUse(u) => InUse(u)'
    BY <2>1, <2>2, ZeroedIsNoContents DEF InUse, TypeInv, TypeOK
  <2>9. ASSUME NEW k \in DOMAIN ops PROVE ops'[k].tramp = ops[k].tramp
    BY <1>1, <2>1, <2>3 DEF TypeInv, TypeOK
  <2>10. \A k \in DOMAIN ops : ops[k].tramp \in Trampolines /\ InUse(ops[k].tramp)
    BY <1>1, OperationTypes DEF TypeInv, PendingInUse
  <2>11. ASSUME NEW k \in DOMAIN ops' PROVE InUse(ops[k].tramp)'
    <3>1. k \in DOMAIN ops  BY <2>4
    <3>2. InUse(ops[k].tramp) /\ ops[k].tramp \in Trampolines  BY <2>10, <3>1
    <3>3. ops'[k].tramp = ops[k].tramp  BY <2>9, <3>1
    <3> QED  BY <2>8, <3>2, <3>3 DEF InUse
  <2> QED  BY <2>7, <2>11 DEF TypeInv, PendingInUse
<1> QED  BY <1>5, <1>6, <1>7

(* The last loop may zero trampolines: nothing is pending any more. *)
LEMMA EndOperationTypes ==
    ASSUME TypeInv, NEW c \in Callers, NEW ending \in {"restore", "abort"}, NEW kind,
           EndOperation(c, ending, kind)
    PROVE  TypeInv'
<1>1. ops # <<>> /\ phase = ending /\ phase' = phase /\ ops' = Tail(ops)
  BY DEF EndOperation
<1>2. Head(ops) \in Operations /\ ops' \in Seq(Operations)
  BY <1>1, WithoutFirst DEF TypeInv, TypeOK
<1> DEFINE o == Head(ops)
<1>3. o.tramp \in Trampolines /\ o.perm \in {"RX", "RWX"} /\ o.target \in Functions
  BY <1>2 DEF Operations
<1> HIDE DEF o
<1>4. perm' \in [Pages -> {"RX", "RWX"}]
  BY <1>3 DEF EndOperation, RestorePerm, TypeInv, TypeOK, o
<1>5. /\ tramp' \in [Trampolines -> Contents \cup {Zeroed}]
      /\ pFree' \in [Regions -> Trampolines \cup {None}]
      /\ pbRemain' \in [Trampolines -> Trampolines \cup {None}]
      /\ freed' \in BOOLEAN
  <2>1. CASE FreeTrampoline(o.tramp)
    <3>1. o.tramp[1] \in Regions  BY <1>3 DEF Trampolines
    <3> QED  BY <1>3, <2>1, <3>1 DEF FreeTrampoline, TypeInv, TypeOK, Contents
  <2>2. CASE UNCHANGED <<tramp, pFree, pbRemain, freed>>
    BY <2>2 DEF TypeInv, TypeOK, Contents
  <2> QED  BY <2>1, <2>2 DEF EndOperation, o
<1>6. TypeOK'
  BY <1>2, <1>4, <1>5 DEF TypeInv, TypeOK, Contents, EndOperation, codeVars
<1>7. PendingInUse'  BY <1>1 DEF PendingInUse
<1> QED  BY <1>6, <1>7 DEF TypeInv

(* The types hold at first. *)
LEMMA InitTypes == Init => TypeInv
<1> SUFFICES ASSUME Init PROVE TypeInv  OBVIOUS
<1>1. \A x \in Runners : <<"out">> \in Places  BY DEF Places, Out
<1>2. Home \in [Hooks -> Functions \cup Trampolines]  BY PlaceAssumption
<1>3. ops = <<>> /\ <<>> \in Seq(Operations)  BY DEF Init
<1> QED  BY <1>1, <1>2, <1>3 DEF Init, TypeInv, TypeOK, PendingInUse

(* Every step keeps the types, also where a function is named twice. *)
LEMMA TypeStep == TypeInv /\ [Next]_vars => TypeInv'
<1> SUFFICES ASSUME TypeInv, [Next]_vars PROVE TypeInv'  OBVIOUS
<1> USE DEF codeVars, memoryVars
<1>1. ASSUME NEW c \in Callers, Begin(c) PROVE TypeInv'
  BY <1>1 DEF TypeInv, TypeOK, PendingInUse, Begin
<1>2. ASSUME NEW c \in Callers, MakeWritable(c) PROVE TypeInv'
  BY <1>2 DEF TypeInv, TypeOK, PendingInUse, MakeWritable
<1>3. ASSUME NEW c \in Callers, OpenTransaction(c) PROVE TypeInv'
  <2>1. <<>> \in Seq(Operations) /\ DOMAIN <<>> = {}  OBVIOUS
  <2> QED
    BY <1>3, <2>1, OptionAssumption DEF TypeInv, TypeOK, PendingInUse, OpenTransaction
<1>4. ASSUME NEW c \in Callers, NEW h \in Hooks, Attach(c, h) PROVE TypeInv'
  BY <1>4, AttachTypes
<1>5. ASSUME NEW c \in Callers, NEW h \in Hooks, AttachFails(c, h) PROVE TypeInv'
  <2>1. /\ regions' \subseteq Regions /\ default' \in Regions \cup {None}
        /\ refused' \subseteq Regions
        /\ pFree' \in [Regions -> Trampolines \cup {None}]
        /\ pbRemain' \in [Trampolines -> Trampolines \cup {None}]
        /\ regionPerm' \in [Regions -> {"RX", "RWX"}]
    <3>1. CASE \E r \in Regions : ReleaseRegions({r}) /\ UNCHANGED regionPerm
      BY <3>1, ReleaseTypes DEF TypeInv, TypeOK
    <3>2. CASE (default' = None \/ \E r \in Regions : default' = r)
               /\ UNCHANGED <<regions, pFree, pbRemain, refused, regionPerm>>
      BY <3>2 DEF TypeInv, TypeOK
    <3>3. CASE \E r \in Regions : r \notin regions /\ KeepRefused(r)
      BY <3>3, RefusedTypes DEF TypeInv
    <3> QED  BY <1>5, <3>1, <3>2, <3>3 DEF AttachFails, NewRegion
  <2>2. UNCHANGED <<owner, phase, ops, cursor, freed, suspended, tramp, codeVars, perm,
                    location>>
    BY <1>5 DEF AttachFails
  <2> QED  BY <2>1, <2>2 DEF TypeInv, TypeOK, PendingInUse, InUse
<1>6. ASSUME NEW c \in Callers, NEW h \in Hooks, Detach(c, h) PROVE TypeInv'
  BY <1>6, DetachTypes
<1>7. ASSUME NEW c \in Callers, Commit(c) PROVE TypeInv'
  BY <1>7 DEF TypeInv, TypeOK, PendingInUse, Commit, InUse
<1>8. ASSUME NEW c \in Callers, Abort(c) PROVE TypeInv'
  BY <1>8 DEF TypeInv, TypeOK, PendingInUse, Abort
<1>9. ASSUME NEW c \in Callers, ApplyAdd(c) \/ ApplyRemove(c) \/ ApplyBypass(c) PROVE TypeInv'
  BY <1>9, ApplyTypes
<1>10. ASSUME NEW c \in Callers, UpdateThreads(c) PROVE TypeInv'
  BY <1>10 DEF TypeInv, TypeOK, PendingInUse, UpdateThreads
<1>11. ASSUME NEW c \in Callers, CommitOperation(c) \/ AbortOperation(c) PROVE TypeInv'
  BY <1>11, EndOperationTypes DEF CommitOperation, AbortOperation
<1>12. ASSUME NEW c \in Callers, EndTransaction(c) PROVE TypeInv'
  <2>1. {r \in regions : freed /\ RegionEmpty(r)} \subseteq Regions  BY DEF TypeInv, TypeOK
  <2>2. /\ regions' \subseteq Regions /\ default' \in Regions \cup {None}
        /\ refused' \subseteq Regions
        /\ pFree' \in [Regions -> Trampolines \cup {None}]
        /\ pbRemain' \in [Trampolines -> Trampolines \cup {None}]
    BY <1>12, <2>1, ReleaseTypes DEF EndTransaction, TypeInv
  <2> QED  BY <1>12, <2>2 DEF TypeInv, TypeOK, PendingInUse, EndTransaction
<1>13. ASSUME NEW x \in Runners, Run(x) PROVE TypeInv'
  BY <1>13 DEF TypeInv, TypeOK, PendingInUse, Run, InUse
<1>14. CASE UNCHANGED vars
  BY <1>14 DEF TypeInv, TypeOK, PendingInUse, vars, InUse
<1> QED
  BY <1>1, <1>2, <1>3, <1>4, <1>5, <1>6, <1>7, <1>8, <1>9, <1>10, <1>11, <1>12, <1>13, <1>14
     DEF Next, CallerStep, EndStep

(***************************************************************************)
(* The operations that are not done yet, or half undone.                   *)
(***************************************************************************)
Unapplied(k) == phase \in {"open", "abort"} \/ (phase = "apply" /\ cursor <= k)

(* Trampolines no jump leads to: one that is not attached yet, one that was removed
   and is not freed yet. *)
Unlinked(k) == ops[k].kind = (IF Unapplied(k) THEN "add" ELSE "remove")
Loose == {ops[k].tramp : k \in {j \in DOMAIN ops : Unlinked(j)}}
Live(t) == t \in Trampolines /\ InUse(t) /\ t \notin Loose
LiveFor(t, f) == Live(t) /\ tramp[t].target = f

OperationRight(k) ==
    /\ InUse(ops[k].tramp) /\ tramp[ops[k].tramp].target = ops[k].target
    /\ Home[ops[k].hook] = ops[k].target
    /\ Unapplied(k) =>
         /\ ops[k].kind # "bypass"
         /\ tramp[ops[k].tramp].detour = ops[k].hook
         /\ pointer[ops[k].hook] =
              IF ops[k].kind = "add" THEN ops[k].target ELSE ops[k].tramp
    /\ Unlinked(k) => tramp[ops[k].tramp].copied = patch[ops[k].target]
    /\ ~Unapplied(k) /\ ops[k].kind = "add" => patch[ops[k].target] = ops[k].tramp

TargetsDiffer ==
    \A j, k \in DOMAIN ops : ops[j].target = ops[k].target => j = k

PhaseRight ==
    /\ phase \in {"idle", "writable"} => ops = <<>>
    /\ phase = "apply" => cursor \in 1 .. (Len(ops) + 1)

OpsInv == PhaseRight /\ TargetsDiffer /\ \A k \in DOMAIN ops : OperationRight(k)

(***************************************************************************)
(* The chains of jumps.                                                    *)
(***************************************************************************)
PatchRight == \A f \in Functions : patch[f] = Original \/ LiveFor(patch[f], f)
CopiedRight ==
    \A t \in Trampolines :
        InUse(t) => tramp[t].copied = Original \/ LiveFor(tramp[t].copied, tramp[t].target)
OneAbove ==
    \A t, u \in Trampolines :
        Live(t) /\ Live(u) /\ tramp[t].copied = tramp[u].copied /\ tramp[t].copied # Original
        => t = u
NoneAboveTop ==
    \A t \in Trampolines :
        Live(t) => tramp[t].copied = Original \/ tramp[t].copied # patch[tramp[t].target]
PointerRight ==
    \A h \in Hooks :
        pointer[h] = Home[h]
        \/ (LiveFor(pointer[h], Home[h]) /\ tramp[pointer[h]].detour = h)
DetourRight ==
    \A t \in Trampolines :
        Live(t) => tramp[t].detour = Bypass \/ pointer[tramp[t].detour] = t

Linked == \A t \in Trampolines, f \in Functions : LiveFor(t, f) => t \in Chain(f)

ChainInv ==
    /\ PatchRight /\ CopiedRight /\ OneAbove /\ NoneAboveTop /\ PointerRight /\ DetourRight
    /\ Linked

(***************************************************************************)
(* The free lists.                                                         *)
(***************************************************************************)
FreeIn(r, t) == t \in Trampolines /\ t[1] = r /\ ~InUse(t)
HeadRight(r) == pFree[r] = None \/ FreeIn(r, pFree[r])
NextRight(r) ==
    \A t \in Trampolines :
        FreeIn(r, t) /\ pbRemain[t] # None => FreeIn(r, pbRemain[t]) /\ pbRemain[t] # pFree[r]
NextDiffers(r) ==
    \A t, u \in Trampolines :
        FreeIn(r, t) /\ FreeIn(r, u) /\ pbRemain[t] = pbRemain[u] /\ pbRemain[t] # None => t = u
AllListed(r) ==
    \A t \in Trampolines : FreeIn(r, t) /\ t[2] > 1 => t \in FreeList(r)
FreeInv ==
    /\ default \in regions \cup {None}
    /\ \A t \in Trampolines : InUse(t) => t[1] \in regions
    /\ \A r \in regions : HeadRight(r) /\ NextRight(r) /\ NextDiffers(r) /\ AllListed(r)

(***************************************************************************)
(* Protections and unused regions.                                         *)
(***************************************************************************)
OwnerRight == owner = None <=> phase = "idle"
PagesRight ==
    /\ \A p \in Pages : perm[p] = "RX" \/ \E k \in DOMAIN ops : PageOf[ops[k].target] = p
    /\ \A k \in DOMAIN ops :
          ops[k].perm = "RX"
          \/ \E j \in DOMAIN ops : j > k /\ PageOf[ops[j].target] = PageOf[ops[k].target]
RegionsProtected == ~ProtectFails /\ owner = None => \A r \in Regions : regionPerm[r] = "RX"
EmptyOnlyAtEnd ==
    \A r \in regions :
        RegionEmpty(r) => r \in refused \/ (freed /\ phase \in {"restore", "abort"})

(***************************************************************************)
(* The threads that run.                                                   *)
(***************************************************************************)

(* Applied operations from whose code Commit has not moved the threads yet. *)
Covered(f) ==
    \E k \in DOMAIN ops :
        /\ phase = "apply" /\ ~Unapplied(k) /\ ops[k].kind = "add"
        /\ ops[k].target = f /\ tramp[ops[k].tramp].copied = Original
Removed(t) ==
    \E k \in DOMAIN ops :
        phase = "apply" /\ ~Unapplied(k) /\ ops[k].kind = "remove" /\ ops[k].tramp = t

(* The code a thread may be in the middle of, the trampolines it may be in. *)
MayBeInside(f) == patch[f] = Original \/ Covered(f)
MayHold(t) == Live(t) \/ Removed(t)
PlaceRight(l) ==
    /\ \A f \in Functions \ LongPrologues : l # Lost(f)
    /\ \A f \in Functions : l = Middle(f) => MayBeInside(f)
    /\ \A t \in Trampolines :
          /\ l \in {In(t), Copy(t), Rest(t)} => MayHold(t)
          /\ l = Rest(t) => tramp[t].copied = Original
ThreadsRight ==
    /\ phase \in {"open", "apply", "restore", "abort"} => suspended
    /\ \A x \in Runners : PlaceRight(location[x])

(* A step that leaves the threads where they are must keep their places good. *)
PlacesKept ==
    /\ \A f \in Functions : MayBeInside(f) => MayBeInside(f)'
    /\ \A t \in Trampolines : MayHold(t) => MayHold(t)' /\ tramp'[t].copied = tramp[t].copied

(* Two operations of a transaction are about two trampolines. *)
LEMMA TrampolinesDiffer ==
    ASSUME TypeInv, OpsInv, NEW j \in DOMAIN ops, NEW k \in DOMAIN ops,
           ops[j].tramp = ops[k].tramp
    PROVE  j = k
<1>1. ops[j].target = ops[k].target  BY DEF OpsInv, OperationRight
<1> QED  BY <1>1 DEF OpsInv, TargetsDiffer

(* What is loose is in use, and copied what its function begins with. *)
LEMMA LooseRight ==
    ASSUME TypeInv, OpsInv, NEW t \in Loose
    PROVE  /\ t \in Trampolines /\ InUse(t)
           /\ \E k \in DOMAIN ops :
                /\ Unlinked(k) /\ ops[k].tramp = t /\ ops[k].target = tramp[t].target
                /\ tramp[t].copied = patch[ops[k].target]
<1>1. PICK k \in DOMAIN ops : Unlinked(k) /\ ops[k].tramp = t  BY DEF Loose
<1>2. OperationRight(k)  BY DEF OpsInv
<1> QED  BY <1>1, <1>2, OperationTypes DEF OperationRight, TypeInv

(* The chains stay whole while what begins them, and what the live trampolines copied,
   stays. *)
LEMMA LinkedKept ==
    ASSUME ChainInv, patch' = patch, \A u : Live(u)' => Live(u),
           \A u \in Trampolines : Live(u) => tramp'[u].copied = tramp[u].copied
                                             /\ tramp'[u].target = tramp[u].target
    PROVE  Linked'
<1>1. ASSUME NEW t \in Trampolines, NEW f \in Functions, LiveFor(t, f)'
      PROVE  t \in Chain(f)'
  <2>1. LiveFor(t, f)  BY <1>1 DEF LiveFor
  <2>2. PICK first, next, next2, P :
          /\ first = patch[f] /\ next = [u \in Trampolines |-> tramp[u].copied]
          /\ next2 = [u \in Trampolines |-> tramp'[u].copied]
          /\ P = {u \in Trampolines : Live(u)}
    OBVIOUS
  <2>3. first \in Trampolines => first \in P
    BY <2>2, DistinctAssumption DEF ChainInv, PatchRight, LiveFor
  <2>4. ASSUME NEW u \in P
        PROVE  next2[u] = next[u] /\ (next[u] \in Trampolines => next[u] \in P)
    <3>1. Live(u) /\ InUse(u) /\ u \in Trampolines  BY <2>2, <2>4 DEF Live
    <3>2. next[u] = tramp[u].copied /\ next2[u] = tramp'[u].copied  BY <2>2, <3>1
    <3>3. next[u] = Original \/ Live(next[u])
      BY <3>1, <3>2 DEF ChainInv, CopiedRight, LiveFor
    <3> QED  BY <2>2, <3>1, <3>2, <3>3, DistinctAssumption
  <2>5. t \in Reached(first, next)  BY <2>1, <2>2 DEF ChainInv, Linked, Chain
  <2>6. t \in Reached(first, next2)  BY <2>2, <2>3, <2>4, <2>5, ReachedAlong
  <2> QED  BY <2>2, <2>6 DEF Chain
<1> QED  BY <1>1 DEF Linked

(* A step that leaves the jumps alone, and what is applied of which operation. *)
LEMMA ChainsUntouched ==
    ASSUME TypeInv, OpsInv, ChainInv, UNCHANGED <<ops, tramp, patch, pointer>>, PhaseRight',
           \A k \in DOMAIN ops : Unapplied(k)' <=> Unapplied(k)
    PROVE  OpsInv' /\ ChainInv' /\ \A t : Live(t)' <=> Live(t)
<1>1. \A k \in DOMAIN ops : Unlinked(k)' <=> Unlinked(k)  BY DEF Unlinked
<1>2. \A k \in DOMAIN ops : OperationRight(k)'
  <2>1. TAKE k \in DOMAIN ops
  <2>2. OperationRight(k)  BY DEF OpsInv
  <2> QED  BY <1>1, <2>2 DEF OperationRight, InUse
<1>3. Loose' = Loose  BY <1>1 DEF Loose
<1>4. \A t : Live(t)' <=> Live(t)  BY <1>3 DEF Live, InUse
<1>5. \A t, f : LiveFor(t, f)' <=> LiveFor(t, f)  BY <1>4 DEF LiveFor
<1>6. Linked'  BY <1>4, LinkedKept
<1>7. ChainInv'
  BY <1>4, <1>5, <1>6 DEF ChainInv, PatchRight, CopiedRight, OneAbove, NoneAboveTop,
                          PointerRight, DetourRight, InUse
<1> QED  BY <1>2, <1>4, <1>7 DEF OpsInv, TargetsDiffer

(* The trampoline that Attach takes is not in use. *)
LEMMA FirstFreeIsFree ==
    ASSUME TypeInv, FreeInv, NEW r \in Regions, r \notin regions \/ pFree[r] # None
    PROVE  FirstFree(r) \in Trampolines /\ ~InUse(FirstFree(r)) /\ FirstFree(r)[1] = r
<1>1. FirstFree(r) \in Trampolines  BY FreeListTypes DEF TypeInv
<1>2. CASE r \in regions
  BY <1>1, <1>2 DEF FreeInv, HeadRight, FreeIn, FirstFree
<1>3. CASE r \notin regions
  <2>1. FirstFree(r) = <<r, 2>>  BY <1>3 DEF FirstFree
  <2>2. FirstFree(r)[1] = r  BY <2>1
  <2> QED  BY <1>1, <1>3, <2>2 DEF FreeInv
<1> QED  BY <1>2, <1>3

(* The trampoline that Attach fills is loose until Commit. *)
LEMMA AttachChains ==
    ASSUME ~RepeatTarget, TypeInv, OpsInv, ChainInv, FreeInv,
           NEW c \in Callers, NEW h \in Hooks, Attach(c, h)
    PROVE  OpsInv' /\ ChainInv' /\ PlacesKept
<1>1. PICK f : f = pointer[h]  OBVIOUS
<1>2. /\ f \in Functions /\ phase = "open" /\ phase' = phase
      /\ patch' = patch /\ pointer' = pointer
      /\ \A k \in DOMAIN ops : ops[k].target # f
  BY <1>1 DEF Attach, MayAttach, MayOperateOn, codeVars
<1>3. PICK r \in Regions :
        /\ FoundRegion(r, f) \/ NewRegion(r, f)
        /\ tramp' = [tramp EXCEPT ![FirstFree(r)] =
                        [target |-> f, copied |-> patch[f], detour |-> h]]
        /\ ops' = <<[kind |-> "add", hook |-> h, target |-> f,
                      tramp |-> FirstFree(r), perm |-> perm[PageOf[f]]]>> \o ops
  BY <1>1 DEF Attach
<1>4. PICK t : t = FirstFree(r)  OBVIOUS
<1>5. t \in Trampolines /\ ~InUse(t)
  BY <1>3, <1>4, FirstFreeIsFree DEF FoundRegion, NewRegion, Usable
<1>6. PICK p : p = perm[PageOf[f]]  OBVIOUS
<1>7. PICK o : o = [kind |-> "add", hook |-> h, target |-> f, tramp |-> t, perm |-> p]  OBVIOUS
<1>8. /\ o \in Operations
      /\ o.kind = "add" /\ o.hook = h /\ o.target = f /\ o.tramp = t
  <2>1. p \in {"RX", "RWX"}  BY <1>2, <1>6, PlaceAssumption DEF TypeInv, TypeOK
  <2> QED  BY <1>2, <1>5, <1>7, <2>1 DEF Operations
<1>9. /\ tramp'[t] = [target |-> f, copied |-> patch[f], detour |-> h]
      /\ \A u \in Trampolines : u # t => tramp'[u] = tramp[u]
  BY <1>3, <1>4, <1>5 DEF TypeInv, TypeOK
<1>10. /\ DOMAIN ops' = 1 .. (Len(ops) + 1) /\ ops'[1] = o
       /\ \A k \in 2 .. (Len(ops) + 1) : ops'[k] = ops[k - 1] /\ k - 1 \in DOMAIN ops
  <2>1. ops' = <<o>> \o ops  BY <1>3, <1>4, <1>6, <1>7
  <2> QED  BY <1>8, <2>1, PutInFront DEF TypeInv, TypeOK
<1>11. tramp'[t].target = f /\ tramp'[t].copied = patch[f] /\ tramp'[t].detour = h
       /\ InUse(t)'
  <2>1. tramp'[t] \in Contents  BY <1>2, <1>9 DEF Contents, TypeInv, TypeOK
  <2> QED  BY <1>9, <2>1, ZeroedIsNoContents DEF InUse
<1>12. \A u \in Trampolines : u # t => (InUse(u)' <=> InUse(u))  BY <1>9 DEF InUse
<1>13. \A k \in DOMAIN ops : /\ ops[k].tramp \in Trampolines /\ ops[k].tramp # t
                             /\ OperationRight(k)
  BY <1>5, OperationTypes DEF OpsInv, OperationRight, TypeInv
<1>14. Home[h] = f
  <2>1. pointer[h] \notin Trampolines  BY <1>1, <1>2, DistinctAssumption
  <2> QED  BY <1>1, <2>1 DEF ChainInv, PointerRight, LiveFor, Live
<1>15. \A k : Unapplied(k) /\ Unapplied(k)'  BY <1>2 DEF Unapplied
<1>16. OpsInv'
  <2>1. ASSUME NEW k \in DOMAIN ops' PROVE OperationRight(k)'
    <3>1. CASE k = 1
      <4>1. ops'[k] = o  BY <1>10, <3>1
      <4> QED  BY <1>1, <1>2, <1>8, <1>11, <1>14, <1>15, <4>1 DEF OperationRight, InUse
    <3>2. CASE k # 1
      <4>1. ops'[k] = ops[k - 1] /\ k - 1 \in DOMAIN ops  BY <1>10, <3>2
      <4>2. OperationRight(k - 1) /\ ops[k - 1].tramp \in Trampolines /\ ops[k - 1].tramp # t
        BY <1>13, <4>1
      <4>3. tramp'[ops[k - 1].tramp] = tramp[ops[k - 1].tramp]  BY <1>9, <4>2
      <4> QED  BY <1>2, <1>15, <4>1, <4>2, <4>3 DEF OperationRight, InUse, Unlinked
    <3> QED  BY <3>1, <3>2
  <2>2. ASSUME NEW j \in DOMAIN ops', NEW k \in DOMAIN ops', ops'[j].target = ops'[k].target
        PROVE  j = k
    <3>1. CASE j = 1 \/ k = 1  BY <1>2, <1>8, <1>10, <2>2, <3>1
    <3>2. CASE j # 1 /\ k # 1
      <4>1. j - 1 \in DOMAIN ops /\ k - 1 \in DOMAIN ops
            /\ ops[j - 1].target = ops[k - 1].target
        BY <1>10, <2>2, <3>2
      <4>2. j - 1 = k - 1  BY <4>1 DEF OpsInv, TargetsDiffer
      <4> QED  BY <1>10, <4>2
    <3> QED  BY <3>1, <3>2
  <2>3. PhaseRight'  BY <1>2 DEF PhaseRight
  <2> QED  BY <2>1, <2>2, <2>3 DEF OpsInv, TargetsDiffer
<1>17. Loose' = Loose \cup {t}
  <2>1. ASSUME NEW u \in Loose' PROVE u \in Loose \cup {t}
    <3>1. PICK k \in DOMAIN ops' : Unlinked(k)' /\ ops'[k].tramp = u  BY <2>1 DEF Loose
    <3>2. CASE k = 1  BY <1>8, <1>10, <3>1, <3>2
    <3>3. CASE k # 1
      <4>1. ops'[k] = ops[k - 1] /\ k - 1 \in DOMAIN ops  BY <1>10, <3>3
      <4>2. Unlinked(k - 1)  BY <1>15, <3>1, <4>1 DEF Unlinked
      <4> QED  BY <3>1, <4>1, <4>2 DEF Loose
    <3> QED  BY <3>2, <3>3
  <2>2. t \in Loose'
    <3>1. 1 \in DOMAIN ops' /\ Unlinked(1)' /\ ops'[1].tramp = t
      BY <1>8, <1>10, <1>15 DEF Unlinked, TypeInv, TypeOK
    <3> QED  BY <3>1 DEF Loose
  <2>3. ASSUME NEW u \in Loose PROVE u \in Loose'
    <3>1. PICK k \in DOMAIN ops : Unlinked(k) /\ ops[k].tramp = u  BY <2>3 DEF Loose
    <3>2. k + 1 \in 2 .. (Len(ops) + 1) /\ (k + 1) - 1 = k  BY DEF TypeInv, TypeOK
    <3>3. k + 1 \in DOMAIN ops' /\ ops'[k + 1] = ops[k]  BY <1>10, <3>2
    <3>4. Unlinked(k + 1)'  BY <1>15, <3>1, <3>3 DEF Unlinked
    <3> QED  BY <3>1, <3>3, <3>4 DEF Loose
  <2> QED  BY <2>1, <2>2, <2>3
<1>18. \A u : Live(u)' <=> Live(u)  BY <1>5, <1>12, <1>17 DEF Live
<1>19. \A u, g : LiveFor(u, g)' <=> LiveFor(u, g)
  <2>1. \A u : Live(u) => u # t /\ u \in Trampolines  BY <1>5 DEF Live
  <2> QED  BY <1>9, <1>18, <2>1 DEF LiveFor
<1>20. ChainInv'
  <2>1. \A u : Live(u) => u \in Trampolines /\ tramp'[u] = tramp[u]  BY <1>5, <1>9 DEF Live
  <2>2. PatchRight'  BY <1>2, <1>19 DEF ChainInv, PatchRight
  <2>3. CopiedRight'
    <3>1. PatchRight  BY DEF ChainInv
    <3>2. ASSUME NEW u \in Trampolines, InUse(u)'
          PROVE  (tramp[u].copied = Original \/ LiveFor(tramp[u].copied, tramp[u].target))'
      <4>1. PICK v, g : v = tramp'[u].copied /\ g = tramp'[u].target  OBVIOUS
      <4>2. v = Original \/ LiveFor(v, g)
        <5>1. CASE u = t
          BY <1>2, <1>11, <3>1, <4>1, <5>1 DEF PatchRight
        <5>2. CASE u # t
          <6>1. InUse(u) /\ v = tramp[u].copied /\ g = tramp[u].target
            BY <1>9, <1>12, <3>2, <4>1, <5>2
          <6> QED  BY <6>1 DEF ChainInv, CopiedRight
        <5> QED  BY <5>1, <5>2
      <4>3. v = Original \/ LiveFor(v, g)'  BY <1>19, <4>2
      <4> QED  BY <4>1, <4>3 DEF LiveFor, Live, InUse
    <3> QED  BY <3>2 DEF CopiedRight
  <2>4. OneAbove'  BY <1>18, <2>1 DEF ChainInv, OneAbove
  <2>5. NoneAboveTop'  BY <1>2, <1>18, <2>1 DEF ChainInv, NoneAboveTop
  <2>6. PointerRight'  BY <1>2, <1>18, <1>19, <2>1 DEF ChainInv, PointerRight, LiveFor
  <2>7. DetourRight'  BY <1>2, <1>18, <2>1 DEF ChainInv, DetourRight
  <2>8. Linked'  BY <1>2, <1>18, <2>1, LinkedKept
  <2> QED  BY <2>2, <2>3, <2>4, <2>5, <2>6, <2>7, <2>8 DEF ChainInv
<1>21. PlacesKept
  BY <1>2, <1>5, <1>9, <1>18 DEF PlacesKept, MayBeInside, MayHold, Covered, Removed, Live
<1> QED  BY <1>16, <1>20, <1>21

(* Detach only notes what is to be removed. *)
LEMMA DetachChains ==
    ASSUME ~RepeatTarget, TypeInv, OpsInv, ChainInv,
           NEW c \in Callers, NEW h \in Hooks, Detach(c, h)
    PROVE  OpsInv' /\ ChainInv' /\ PlacesKept
<1>1. PICK t, f : t = pointer[h] /\ f = tramp[t].target  OBVIOUS
<1>2. PICK p : p = perm[PageOf[f]]  OBVIOUS
<1>3. PICK o : o = [kind |-> "remove", hook |-> h, target |-> f, tramp |-> t, perm |-> p]
  OBVIOUS
<1>4. /\ phase = "open" /\ phase' = phase
      /\ t \in Trampolines /\ InUse(t) /\ tramp[t].detour = h
      /\ \A k \in DOMAIN ops : ops[k].target # f
      /\ ops' = <<o>> \o ops
      /\ patch' = patch /\ pointer' = pointer /\ tramp' = tramp
  BY <1>1, <1>2, <1>3 DEF Detach, MayOperateOn, codeVars
<1>5. f \in Functions  BY <1>1, <1>4, InUseContents DEF TypeInv, Contents
<1>6. /\ o \in Operations
      /\ o.kind = "remove" /\ o.hook = h /\ o.target = f /\ o.tramp = t
  <2>1. p \in {"RX", "RWX"}  BY <1>2, <1>5, PlaceAssumption DEF TypeInv, TypeOK
  <2> QED  BY <1>3, <1>4, <1>5, <2>1 DEF Operations
<1>7. /\ DOMAIN ops' = 1 .. (Len(ops) + 1) /\ ops'[1] = o
      /\ \A k \in 2 .. (Len(ops) + 1) : ops'[k] = ops[k - 1] /\ k - 1 \in DOMAIN ops
  BY <1>4, <1>6, PutInFront DEF TypeInv, TypeOK
<1>8. Home[h] = f
  <2>1. Home[h] \notin Trampolines  BY PlaceAssumption, DistinctAssumption
  <2> QED  BY <1>1, <1>4, <2>1 DEF ChainInv, PointerRight, LiveFor
<1>9. \A k : Unapplied(k) /\ Unapplied(k)'  BY <1>4 DEF Unapplied
<1>10. OpsInv'
  <2>1. ASSUME NEW k \in DOMAIN ops' PROVE OperationRight(k)'
    <3>1. CASE k = 1
      <4>1. ops'[k] = o /\ ~Unlinked(k)'  BY <1>6, <1>7, <1>9, <3>1 DEF Unlinked
      <4> QED  BY <1>1, <1>4, <1>6, <1>8, <4>1 DEF OperationRight, InUse
    <3>2. CASE k # 1
      <4>1. ops'[k] = ops[k - 1] /\ k - 1 \in DOMAIN ops  BY <1>7, <3>2
      <4>2. OperationRight(k - 1)  BY <4>1 DEF OpsInv
      <4> QED  BY <1>4, <1>9, <4>1, <4>2 DEF OperationRight, InUse, Unlinked
    <3> QED  BY <3>1, <3>2
  <2>2. ASSUME NEW j \in DOMAIN ops', NEW k \in DOMAIN ops', ops'[j].target = ops'[k].target
        PROVE  j = k
    <3>1. CASE j = 1 \/ k = 1  BY <1>4, <1>6, <1>7, <2>2, <3>1
    <3>2. CASE j # 1 /\ k # 1
      <4>1. j - 1 \in DOMAIN ops /\ k - 1 \in DOMAIN ops
            /\ ops[j - 1].target = ops[k - 1].target
        BY <1>7, <2>2, <3>2
      <4>2. j - 1 = k - 1  BY <4>1 DEF OpsInv, TargetsDiffer
      <4> QED  BY <1>7, <4>2
    <3> QED  BY <3>1, <3>2
  <2>3. PhaseRight'  BY <1>4 DEF PhaseRight
  <2> QED  BY <2>1, <2>2, <2>3 DEF OpsInv, TargetsDiffer
<1>11. Loose' = Loose
  <2>1. ASSUME NEW u \in Loose' PROVE u \in Loose
    <3>1. PICK k \in DOMAIN ops' : Unlinked(k)' /\ ops'[k].tramp = u  BY <2>1 DEF Loose
    <3>2. k # 1  BY <1>6, <1>7, <1>9, <3>1 DEF Unlinked
    <3>3. ops'[k] = ops[k - 1] /\ k - 1 \in DOMAIN ops  BY <1>7, <3>2
    <3>4. Unlinked(k - 1)  BY <1>9, <3>1, <3>3 DEF Unlinked
    <3> QED  BY <3>1, <3>3, <3>4 DEF Loose
  <2>2. ASSUME NEW u \in Loose PROVE u \in Loose'
    <3>1. PICK k \in DOMAIN ops : Unlinked(k) /\ ops[k].tramp = u  BY <2>2 DEF Loose
    <3>2. k + 1 \in 2 .. (Len(ops) + 1) /\ (k + 1) - 1 = k  BY DEF TypeInv, TypeOK
    <3>3. k + 1 \in DOMAIN ops' /\ ops'[k + 1] = ops[k]  BY <1>7, <3>2
    <3>4. Unlinked(k + 1)'  BY <1>9, <3>1, <3>3 DEF Unlinked
    <3> QED  BY <3>1, <3>3, <3>4 DEF Loose
  <2> QED  BY <2>1, <2>2
<1>12. \A u : Live(u)' <=> Live(u)  BY <1>4, <1>11 DEF Live, InUse
<1>13. \A u, g : LiveFor(u, g)' <=> LiveFor(u, g)  BY <1>4, <1>12 DEF LiveFor
<1>14. Linked'  BY <1>4, <1>12, LinkedKept
<1>15. ChainInv'
  BY <1>4, <1>12, <1>13, <1>14
     DEF ChainInv, PatchRight, CopiedRight, OneAbove, NoneAboveTop, PointerRight,
         DetourRight, InUse
<1>16. PlacesKept
  BY <1>4, <1>12 DEF PlacesKept, MayBeInside, MayHold, Covered, Removed
<1> QED  BY <1>10, <1>15, <1>16

(* What is known of the operation that Commit applies. *)
LEMMA Applied ==
    ASSUME TypeInv, OpsInv, NEW c \in Callers, NEW kind, Applying(c, kind), phase' = phase
    PROVE  \E n \in DOMAIN ops :
             /\ n = cursor /\ ops[n].kind = kind
             /\ ops[n].hook \in Hooks /\ ops[n].target \in Functions
             /\ ops[n].tramp \in Trampolines
             /\ Unapplied(n) /\ ~Unapplied(n)' /\ OperationRight(n)
             /\ \A k \in DOMAIN ops : k # n => (Unapplied(k)' <=> Unapplied(k))
             /\ phase = "apply" /\ cursor' \in 1 .. (Len(ops) + 1)
<1>1. PICK n \in DOMAIN ops : n = cursor  BY DEF Applying
<1>2. phase = "apply" /\ cursor' = n + 1 /\ ops[n].kind = kind  BY <1>1 DEF Applying
<1>3. DOMAIN ops = 1 .. Len(ops) /\ Len(ops) \in Nat  BY DEF TypeInv, TypeOK
<1>4. \A k \in DOMAIN ops : Unapplied(k) <=> n <= k  BY <1>1, <1>2 DEF Unapplied
<1>5. \A k \in DOMAIN ops : Unapplied(k)' <=> n + 1 <= k  BY <1>2 DEF Unapplied
<1>6. n \in Nat /\ \A k \in DOMAIN ops : k \in Nat  BY <1>3
<1>7. Unapplied(n) /\ ~Unapplied(n)'  BY <1>4, <1>5, <1>6
<1>8. \A k \in DOMAIN ops : k # n => (Unapplied(k)' <=> Unapplied(k))  BY <1>4, <1>5, <1>6
<1>9. cursor' \in 1 .. (Len(ops) + 1)  BY <1>2, <1>3
<1>10. OperationRight(n)  BY DEF OpsInv
<1>11. ops[n].hook \in Hooks /\ ops[n].target \in Functions /\ ops[n].tramp \in Trampolines
  BY OperationTypes DEF TypeInv
<1> QED  BY <1>1, <1>2, <1>7, <1>8, <1>9, <1>10, <1>11

(* Adding puts the loose trampoline on top of the chain of its function. *)
LEMMA AddChains ==
    ASSUME TypeInv, OpsInv, ChainInv, NEW c \in Callers, ApplyAdd(c)
    PROVE  OpsInv' /\ ChainInv' /\ PlacesKept
<1>1. ApplyAdd(c) /\ Applying(c, "add") /\ phase' = phase  BY DEF ApplyAdd
<1>2. PICK n \in DOMAIN ops :
        /\ n = cursor /\ ops[n].kind = "add"
        /\ ops[n].hook \in Hooks /\ ops[n].target \in Functions
        /\ ops[n].tramp \in Trampolines
        /\ Unapplied(n) /\ ~Unapplied(n)' /\ OperationRight(n)
        /\ \A k \in DOMAIN ops : k # n => (Unapplied(k)' <=> Unapplied(k))
        /\ phase = "apply" /\ cursor' \in 1 .. (Len(ops) + 1)
  BY <1>1, Applied
<1>3. PICK o : o = ops[n]  OBVIOUS
<1>4. PICK t, f, h : t = o.tramp /\ f = o.target /\ h = o.hook  OBVIOUS
<1>5. /\ patch' = [patch EXCEPT ![f] = t] /\ pointer' = [pointer EXCEPT ![h] = t]
      /\ tramp' = tramp /\ ops' = ops
      /\ o.kind = "add" /\ h \in Hooks /\ f \in Functions /\ t \in Trampolines
  BY <1>1, <1>2, <1>3, <1>4 DEF ApplyAdd
<1>6. Unlinked(n) /\ ~Unlinked(n)'  BY <1>2, <1>5 DEF Unlinked
<1>7. /\ InUse(t) /\ tramp[t].target = f /\ Home[h] = f /\ tramp[t].detour = h
      /\ pointer[h] = f /\ tramp[t].copied = patch[f]
  BY <1>2, <1>3, <1>4, <1>6 DEF OperationRight
<1>8. /\ patch'[f] = t /\ \A g \in Functions : g # f => patch'[g] = patch[g]
      /\ pointer'[h] = t /\ \A x \in Hooks : x # h => pointer'[x] = pointer[x]
  BY <1>5 DEF TypeInv, TypeOK
<1>9. \A k \in DOMAIN ops : k # n => (Unlinked(k)' <=> Unlinked(k))
  BY <1>2, <1>5 DEF Unlinked
<1>10. OpsInv'
  <2>1. ASSUME NEW k \in DOMAIN ops PROVE OperationRight(k)'
    <3>1. CASE k = n
      BY <1>2, <1>3, <1>4, <1>5, <1>6, <1>7, <1>8, <3>1 DEF OperationRight, InUse
    <3>2. CASE k # n
      <4>1. OperationRight(k) /\ ops[k].hook \in Hooks /\ ops[k].target \in Functions
        BY OperationTypes DEF OpsInv, TypeInv
      <4>2. ops[k].target # f  BY <1>3, <1>4, <3>2 DEF OpsInv, TargetsDiffer
      <4>3. ops[k].hook # h  BY <1>7, <4>1, <4>2 DEF OperationRight
      <4> QED  BY <1>2, <1>5, <1>8, <1>9, <3>2, <4>1, <4>2, <4>3 DEF OperationRight, InUse
    <3> QED  BY <3>1, <3>2
  <2>2. PhaseRight'  BY <1>1, <1>2, <1>5 DEF PhaseRight
  <2> QED  BY <1>5, <2>1, <2>2 DEF OpsInv, TargetsDiffer
<1>11. t \in Loose /\ Loose' = Loose \ {t}
  <2>1. t \in Loose  BY <1>3, <1>4, <1>6 DEF Loose
  <2>2. ASSUME NEW u \in Loose' PROVE u \in Loose /\ u # t
    <3>1. PICK k \in DOMAIN ops : Unlinked(k)' /\ ops[k].tramp = u  BY <1>5, <2>2 DEF Loose
    <3>2. k # n  BY <1>6, <3>1
    <3> QED  BY <1>3, <1>4, <1>9, <3>1, <3>2, TrampolinesDiffer DEF Loose
  <2>3. ASSUME NEW u \in Loose, u # t PROVE u \in Loose'
    <3>1. PICK k \in DOMAIN ops : Unlinked(k) /\ ops[k].tramp = u  BY <2>3 DEF Loose
    <3>2. k # n  BY <1>3, <1>4, <2>3, <3>1
    <3> QED  BY <1>5, <1>9, <3>1, <3>2 DEF Loose
  <2> QED  BY <2>1, <2>2, <2>3
<1>12. /\ ~Live(t) /\ Live(t)'
       /\ \A u : Live(u)' <=> Live(u) \/ u = t
  BY <1>5, <1>7, <1>11 DEF Live, InUse
<1>13. LiveFor(t, f)' /\ \A u, g : LiveFor(u, g) => LiveFor(u, g)'
  BY <1>5, <1>7, <1>12 DEF LiveFor
<1>14. \A u \in Trampolines :
          Live(u) => tramp[u].target \in Functions /\ InUse(u) /\ u # t
                     /\ tramp[u].copied \in Trampolines \cup {Original}
                     /\ tramp[u].detour \in Hooks \cup {Bypass}
  BY <1>12, InUseContents DEF Live, TypeInv, Contents
<1>15. PatchRight'  BY <1>8, <1>13 DEF ChainInv, PatchRight
<1>16. CopiedRight'  BY <1>5, <1>13 DEF ChainInv, CopiedRight, InUse
<1>17. ASSUME NEW u \in Trampolines, Live(u), tramp[u].copied # Original
       PROVE  tramp[u].copied # tramp[t].copied
  <2>1. LiveFor(tramp[u].copied, tramp[u].target) /\ tramp[u].target \in Functions
    BY <1>14, <1>17 DEF ChainInv, CopiedRight
  <2>2. tramp[u].copied # patch[tramp[u].target]  BY <1>17 DEF ChainInv, NoneAboveTop
  <2>3. ASSUME tramp[u].copied = patch[f] PROVE FALSE
    <3>1. LiveFor(patch[f], f)  BY <1>5, <1>17, <2>3 DEF ChainInv, PatchRight
    <3>2. tramp[u].target = f  BY <2>1, <2>3, <3>1 DEF LiveFor
    <3> QED  BY <2>2, <2>3, <3>2
  <2> QED  BY <1>7, <2>3
<1>18. OneAbove'
  <2>1. ASSUME NEW u \in Trampolines, NEW v \in Trampolines, Live(u)', Live(v)',
               tramp[u].copied = tramp[v].copied, tramp[u].copied # Original
        PROVE  u = v
    BY <1>12, <1>17, <2>1 DEF ChainInv, OneAbove
  <2> QED  BY <1>5, <2>1 DEF OneAbove
<1>19. NoneAboveTop'
  <2>1. ASSUME NEW u \in Trampolines, Live(u)', tramp[u].copied # Original
        PROVE  tramp[u].copied # patch'[tramp[u].target]
    <3>1. LiveFor(tramp[u].copied, tramp[u].target)
      BY <1>7, <1>12, <1>14, <2>1 DEF ChainInv, CopiedRight
    <3>2. tramp[u].copied # t  BY <1>12, <3>1 DEF LiveFor
    <3>3. CASE u = t  BY <1>7, <1>8, <3>2, <3>3
    <3>4. CASE u # t
      <4>1. Live(u) /\ tramp[u].target \in Functions  BY <1>12, <1>14, <2>1, <3>4
      <4>2. tramp[u].copied # patch[tramp[u].target]  BY <2>1, <4>1 DEF ChainInv, NoneAboveTop
      <4> QED  BY <1>8, <3>2, <4>1, <4>2
    <3> QED  BY <3>3, <3>4
  <2> QED  BY <1>5, <2>1 DEF NoneAboveTop
<1>20. PointerRight'
  <2>1. ASSUME NEW x \in Hooks
        PROVE  pointer'[x] = Home[x]
               \/ (LiveFor(pointer[x], Home[x])' /\ tramp'[pointer'[x]].detour = x)
    <3>1. CASE x = h
      BY <1>5, <1>7, <1>8, <1>12, <3>1 DEF LiveFor, Live, InUse
    <3>2. CASE x # h
      <4>1. PICK v : v = pointer[x]  OBVIOUS
      <4>2. v = Home[x] \/ (LiveFor(v, Home[x]) /\ tramp[v].detour = x)
        BY <4>1 DEF ChainInv, PointerRight
      <4>3. v = Home[x] \/ (LiveFor(v, Home[x])' /\ tramp[v].detour = x)  BY <1>13, <4>2
      <4> QED  BY <1>5, <1>8, <3>2, <4>1, <4>3 DEF LiveFor, Live, InUse
    <3> QED  BY <3>1, <3>2
  <2> QED  BY <2>1 DEF PointerRight
<1>21. DetourRight'
  <2>1. ASSUME NEW u \in Trampolines, Live(u)', tramp[u].detour # Bypass
        PROVE  pointer'[tramp[u].detour] = u
    <3>1. CASE u = t  BY <1>7, <1>8, <3>1
    <3>2. CASE u # t
      <4>1. tramp[u].detour \in Hooks /\ pointer[tramp[u].detour] = u
        BY <1>12, <1>14, <2>1, <3>2 DEF ChainInv, DetourRight
      <4>2. tramp[u].detour # h  BY <1>5, <1>7, <4>1, DistinctAssumption
      <4> QED  BY <1>8, <4>1, <4>2
    <3> QED  BY <3>1, <3>2
  <2> QED  BY <1>5, <2>1 DEF DetourRight
<1>22. PlacesKept
  <2>1. ASSUME NEW g \in Functions, patch[g] = Original PROVE MayBeInside(g)'
    <3>1. CASE g = f
      <4>1. ops'[n].kind = "add" /\ ops'[n].target = f /\ tramp'[ops'[n].tramp].copied = Original
        BY <1>3, <1>4, <1>5, <1>7, <2>1, <3>1
      <4>2. Covered(f)'  BY <1>1, <1>2, <1>5, <4>1 DEF Covered
      <4> QED  BY <3>1, <4>2 DEF MayBeInside, Covered, Unapplied
    <3>2. CASE g # f  BY <1>8, <2>1, <3>2 DEF MayBeInside
    <3> QED  BY <3>1, <3>2
  <2>2. ASSUME NEW k \in DOMAIN ops, ~Unapplied(k) PROVE ~Unapplied(k)'
    BY <1>2, <2>2
  <2>3. \A g \in Functions : Covered(g) => Covered(g)'  BY <1>1, <1>5, <2>2 DEF Covered
  <2>4. \A u \in Trampolines : Removed(u) => Removed(u)'  BY <1>1, <1>5, <2>2 DEF Removed
  <2> QED  BY <1>5, <1>12, <2>1, <2>3, <2>4 DEF PlacesKept, MayBeInside, MayHold
<1>23. Linked'
  <2>1. ASSUME NEW u \in Trampolines, NEW g \in Functions, LiveFor(u, g)'
        PROVE  u \in Chain(g)'
    <3>1. PICK next : next = [v \in Trampolines |-> tramp[v].copied]  OBVIOUS
    <3>2. u # t => u \in Reached(patch[g], next)
      BY <1>5, <1>12, <2>1, <3>1 DEF LiveFor, ChainInv, Linked, Chain
    <3>3. u = t => g = f  BY <1>5, <1>7, <2>1 DEF LiveFor
    <3>4. u \in Reached(patch'[g], next)
      <4>1. CASE g = f
        <5>1. next[t] = patch[f]  BY <1>5, <1>7, <3>1
        <5>2. u \in Reached(next[t], next) \cup {t}  BY <3>2, <4>1, <5>1
        <5> QED  BY <1>5, <1>8, <4>1, <5>2, ReachedInFront
      <4>2. CASE g # f  BY <1>8, <3>2, <3>3, <4>2
      <4> QED  BY <4>1, <4>2
    <3> QED  BY <1>5, <3>1, <3>4 DEF Chain
  <2> QED  BY <2>1 DEF Linked
<1> QED
  BY <1>10, <1>15, <1>16, <1>18, <1>19, <1>20, <1>21, <1>22, <1>23 DEF ChainInv

(* An operation that removes a hook knows what it removes. *)
LEMMA ToRemove ==
    ASSUME TypeInv, OpsInv, ChainInv, NEW n \in DOMAIN ops,
           Unapplied(n), OperationRight(n), ops[n].kind = "remove",
           NEW t, NEW f, NEW h, t = ops[n].tramp, f = ops[n].target, h = ops[n].hook,
           h \in Hooks, f \in Functions, t \in Trampolines
    PROVE  /\ ~Unlinked(n) /\ Live(t) /\ InUse(t)
           /\ tramp[t].target = f /\ Home[h] = f /\ tramp[t].detour = h /\ pointer[h] = t
           /\ \A k \in DOMAIN ops : k # n =>
                ops[k].tramp # t /\ ops[k].target # f /\ ops[k].hook # h
<1>1. ~Unlinked(n)  BY DEF Unlinked
<1>2. /\ InUse(t) /\ tramp[t].target = f /\ Home[h] = f
      /\ tramp[t].detour = h /\ pointer[h] = t
  BY DEF OperationRight
<1>3. t \notin Loose
  <2>1. ASSUME NEW k \in DOMAIN ops, Unlinked(k), ops[k].tramp = t PROVE FALSE
    <3>1. k = n  BY <2>1, TrampolinesDiffer
    <3> QED  BY <1>1, <2>1, <3>1
  <2> QED  BY <2>1 DEF Loose
<1>4. ASSUME NEW k \in DOMAIN ops, k # n
      PROVE  ops[k].tramp # t /\ ops[k].target # f /\ ops[k].hook # h
  <2>1. ops[k].tramp # t  BY <1>4, TrampolinesDiffer
  <2>2. ops[k].target # f  BY <1>4 DEF OpsInv, TargetsDiffer
  <2>3. OperationRight(k)  BY DEF OpsInv
  <2> QED  BY <1>2, <2>1, <2>2, <2>3 DEF OperationRight
<1> QED  BY <1>1, <1>2, <1>3, <1>4 DEF Live

(* Removing the top of a chain makes it loose; what it had copied leads to the next. *)
LEMMA RemoveChains ==
    ASSUME TypeInv, OpsInv, ChainInv, NEW c \in Callers, ApplyRemove(c)
    PROVE  OpsInv' /\ ChainInv' /\ PlacesKept
<1>1. ApplyRemove(c) /\ Applying(c, "remove") /\ phase' = phase  BY DEF ApplyRemove
<1>2. PICK n \in DOMAIN ops :
        /\ n = cursor /\ ops[n].kind = "remove"
        /\ ops[n].hook \in Hooks /\ ops[n].target \in Functions
        /\ ops[n].tramp \in Trampolines
        /\ Unapplied(n) /\ ~Unapplied(n)' /\ OperationRight(n)
        /\ \A k \in DOMAIN ops : k # n => (Unapplied(k)' <=> Unapplied(k))
        /\ phase = "apply" /\ cursor' \in 1 .. (Len(ops) + 1)
  BY <1>1, Applied
<1>3. PICK t, f, h, b :
        t = ops[n].tramp /\ f = ops[n].target /\ h = ops[n].hook /\ b = tramp[t].copied
  OBVIOUS
<1>4. /\ patch' = [patch EXCEPT ![f] = b] /\ pointer' = [pointer EXCEPT ![h] = f]
      /\ tramp' = tramp /\ ops' = ops /\ patch[f] = t
      /\ h \in Hooks /\ f \in Functions /\ t \in Trampolines
  BY <1>1, <1>2, <1>3 DEF ApplyRemove, StillThere
<1>5. /\ ~Unlinked(n) /\ Live(t) /\ InUse(t)
      /\ tramp[t].target = f /\ Home[h] = f /\ tramp[t].detour = h /\ pointer[h] = t
      /\ \A k \in DOMAIN ops : k # n =>
           ops[k].tramp # t /\ ops[k].target # f /\ ops[k].hook # h
  BY <1>2, <1>3, <1>4, ToRemove
<1>6. Unlinked(n)' /\ \A k \in DOMAIN ops : k # n => (Unlinked(k)' <=> Unlinked(k))
  BY <1>2, <1>4 DEF Unlinked
<1>7. /\ patch'[f] = b /\ \A g \in Functions : g # f => patch'[g] = patch[g]
      /\ pointer'[h] = f /\ \A x \in Hooks : x # h => pointer'[x] = pointer[x]
  BY <1>4 DEF TypeInv, TypeOK
<1>8. OpsInv'
  <2>1. ASSUME NEW k \in DOMAIN ops PROVE OperationRight(k)'
    <3>1. CASE k = n
      BY <1>2, <1>3, <1>4, <1>5, <1>7, <3>1 DEF OperationRight, InUse
    <3>2. CASE k # n
      <4>1. OperationRight(k) /\ ops[k].hook \in Hooks /\ ops[k].target \in Functions
        BY OperationTypes DEF OpsInv, TypeInv
      <4> QED  BY <1>2, <1>4, <1>5, <1>6, <1>7, <3>2, <4>1 DEF OperationRight, InUse
    <3> QED  BY <3>1, <3>2
  <2>2. PhaseRight'  BY <1>1, <1>2, <1>4 DEF PhaseRight
  <2> QED  BY <1>4, <2>1, <2>2 DEF OpsInv, TargetsDiffer
<1>9. Loose' = Loose \cup {t}
  <2>1. t \in Loose'  BY <1>3, <1>4, <1>6 DEF Loose
  <2>2. ASSUME NEW u \in Loose', u # t PROVE u \in Loose
    <3>1. PICK k \in DOMAIN ops : Unlinked(k)' /\ ops[k].tramp = u  BY <1>4, <2>2 DEF Loose
    <3>2. k # n  BY <1>3, <2>2, <3>1
    <3> QED  BY <1>6, <3>1, <3>2 DEF Loose
  <2>3. ASSUME NEW u \in Loose PROVE u \in Loose'
    <3>1. PICK k \in DOMAIN ops : Unlinked(k) /\ ops[k].tramp = u  BY <2>3 DEF Loose
    <3> QED  BY <1>4, <1>6, <3>1 DEF Loose
  <2> QED  BY <2>1, <2>2, <2>3
<1>10. \A u : Live(u)' <=> Live(u) /\ u # t  BY <1>4, <1>9 DEF Live, InUse
<1>11. \A u, g : LiveFor(u, g) /\ u # t => LiveFor(u, g)'  BY <1>4, <1>10 DEF LiveFor
<1>12. b = Original \/ (LiveFor(b, f) /\ b # t)
  <2>1. b = Original \/ LiveFor(b, f)  BY <1>3, <1>4, <1>5 DEF ChainInv, CopiedRight
  <2>2. b = Original \/ b # t  BY <1>3, <1>4, <1>5 DEF ChainInv, NoneAboveTop
  <2> QED  BY <2>1, <2>2
<1>13. PatchRight'
  <2>1. ASSUME NEW g \in Functions PROVE patch'[g] = Original \/ LiveFor(patch[g], g)'
    <3>1. CASE g = f
      <4>1. b = Original \/ LiveFor(b, f)'  BY <1>11, <1>12
      <4> QED  BY <1>7, <3>1, <4>1 DEF LiveFor, Live, InUse
    <3>2. CASE g # f
      <4>1. PICK v : v = patch[g]  OBVIOUS
      <4>2. v = Original \/ LiveFor(v, g)  BY <4>1 DEF ChainInv, PatchRight
      <4>3. v = Original \/ LiveFor(v, g)'  BY <1>5, <1>11, <3>2, <4>2 DEF LiveFor
      <4> QED  BY <1>7, <3>2, <4>1, <4>3 DEF LiveFor, Live, InUse
    <3> QED  BY <3>1, <3>2
  <2> QED  BY <2>1 DEF PatchRight
<1>14. CopiedRight'
  <2>1. ASSUME NEW u \in Trampolines, InUse(u), tramp[u].copied = t PROVE FALSE
    <3>1. t # Original  BY <1>4, DistinctAssumption
    <3>2. tramp[u].target = f  BY <1>5, <2>1, <3>1 DEF ChainInv, CopiedRight, LiveFor
    <3>3. CASE Live(u)  BY <1>4, <2>1, <3>1, <3>2, <3>3 DEF ChainInv, NoneAboveTop
    <3>4. CASE u \in Loose
      <4>1. PICK k \in DOMAIN ops : Unlinked(k) /\ ops[k].target = tramp[u].target
        BY <3>4, LooseRight
      <4>2. k = n  BY <1>5, <3>2, <4>1
      <4> QED  BY <1>5, <4>1, <4>2
    <3> QED  BY <2>1, <3>3, <3>4 DEF Live
  <2>2. ASSUME NEW u \in Trampolines, InUse(u)
        PROVE  tramp[u].copied = Original \/ LiveFor(tramp[u].copied, tramp[u].target)'
    <3>1. PICK v, g : v = tramp[u].copied /\ g = tramp[u].target  OBVIOUS
    <3>2. v = Original \/ LiveFor(v, g)'
      BY <1>11, <2>1, <2>2, <3>1 DEF ChainInv, CopiedRight
    <3> QED  BY <1>4, <3>1, <3>2 DEF LiveFor, Live, InUse
  <2> QED  BY <1>4, <2>2 DEF CopiedRight, InUse
<1>15. OneAbove'  BY <1>4, <1>10 DEF ChainInv, OneAbove
<1>16. NoneAboveTop'
  <2>1. ASSUME NEW u \in Trampolines, Live(u), u # t, tramp[u].copied # Original
        PROVE  tramp[u].copied # patch'[tramp[u].target]
    <3>1. tramp[u].target \in Functions
      BY <2>1, InUseContents DEF Live, TypeInv, Contents
    <3>2. CASE tramp[u].target = f
      BY <1>3, <1>4, <1>5, <1>7, <2>1, <3>2 DEF ChainInv, OneAbove
    <3>3. CASE tramp[u].target # f
      BY <1>7, <2>1, <3>1, <3>3 DEF ChainInv, NoneAboveTop
    <3> QED  BY <3>2, <3>3
  <2> QED  BY <1>4, <1>10, <2>1 DEF NoneAboveTop
<1>17. PointerRight'
  <2>1. ASSUME NEW x \in Hooks
        PROVE  pointer'[x] = Home[x]
               \/ (LiveFor(pointer[x], Home[x])' /\ tramp'[pointer'[x]].detour = x)
    <3>1. CASE x = h  BY <1>5, <1>7, <3>1
    <3>2. CASE x # h
      <4>1. PICK v : v = pointer[x]  OBVIOUS
      <4>2. v = Home[x] \/ (LiveFor(v, Home[x]) /\ tramp[v].detour = x)
        BY <4>1 DEF ChainInv, PointerRight
      <4>3. v = Home[x] \/ (LiveFor(v, Home[x])' /\ tramp[v].detour = x)
        BY <1>5, <1>11, <3>2, <4>2
      <4> QED  BY <1>4, <1>7, <3>2, <4>1, <4>3 DEF LiveFor, Live, InUse
    <3> QED  BY <3>1, <3>2
  <2> QED  BY <2>1 DEF PointerRight
<1>18. DetourRight'
  <2>1. ASSUME NEW u \in Trampolines, Live(u), u # t, tramp[u].detour # Bypass
        PROVE  pointer'[tramp[u].detour] = u
    <3>1. tramp[u].detour \in Hooks
      BY <2>1, InUseContents DEF Live, TypeInv, Contents
    <3>2. pointer[tramp[u].detour] = u  BY <2>1 DEF ChainInv, DetourRight
    <3> QED  BY <1>5, <1>7, <2>1, <3>1, <3>2
  <2> QED  BY <1>4, <1>10, <2>1 DEF DetourRight
<1>19. PlacesKept
  <2>1. ASSUME NEW k \in DOMAIN ops, ~Unapplied(k) PROVE ~Unapplied(k)' /\ k # n
    BY <1>2, <2>1
  <2>2. \A g \in Functions : Covered(g) => Covered(g)'  BY <1>1, <1>4, <2>1 DEF Covered
  <2>3. \A u \in Trampolines : Removed(u) => Removed(u)'  BY <1>1, <1>4, <2>1 DEF Removed
  <2>4. Removed(t)'  BY <1>1, <1>2, <1>3, <1>4 DEF Removed
  <2>5. ASSUME NEW u \in Trampolines, MayHold(u) PROVE MayHold(u)'
    <3>1. CASE u = t  BY <2>4, <3>1 DEF MayHold, Removed, Unapplied
    <3>2. CASE u # t  BY <1>10, <2>3, <2>5, <3>2 DEF MayHold
    <3> QED  BY <3>1, <3>2
  <2>6. ASSUME NEW g \in Functions, patch[g] = Original PROVE patch'[g] = Original
    <3>1. g # f  BY <1>4, <2>6, DistinctAssumption
    <3> QED  BY <1>7, <2>6, <3>1
  <2> QED  BY <1>4, <2>2, <2>5, <2>6 DEF PlacesKept, MayBeInside
<1>20. Linked'
  <2>1. ASSUME NEW u \in Trampolines, NEW g \in Functions, LiveFor(u, g)'
        PROVE  u \in Chain(g)'
    <3>1. PICK next : next = [v \in Trampolines |-> tramp[v].copied]  OBVIOUS
    <3>2. u # t /\ u \in Reached(patch[g], next)
      BY <1>4, <1>10, <2>1, <3>1 DEF LiveFor, ChainInv, Linked, Chain
    <3>3. u \in Reached(patch'[g], next)
      <4>1. CASE g = f
        <5>1. next[t] = b /\ patch[g] = t  BY <1>3, <1>4, <3>1, <4>1
        <5>2. u \in Reached(next[t], next)  BY <1>4, <3>2, <5>1, ReachedBehind
        <5> QED  BY <1>7, <4>1, <5>1, <5>2
      <4>2. CASE g # f  BY <1>7, <3>2, <4>2
      <4> QED  BY <4>1, <4>2
    <3> QED  BY <1>4, <3>1, <3>3 DEF Chain
  <2> QED  BY <2>1 DEF Linked
<1> QED
  BY <1>8, <1>13, <1>14, <1>15, <1>16, <1>17, <1>18, <1>19, <1>20 DEF ChainInv

(* A hook that is not on top keeps its place in the chain. *)
LEMMA BypassChains ==
    ASSUME TypeInv, OpsInv, ChainInv, NEW c \in Callers, ApplyBypass(c)
    PROVE  OpsInv' /\ ChainInv' /\ PlacesKept
<1>1. ApplyBypass(c) /\ Applying(c, "remove") /\ phase' = phase  BY DEF ApplyBypass
<1>2. PICK n \in DOMAIN ops :
        /\ n = cursor /\ ops[n].kind = "remove"
        /\ ops[n].hook \in Hooks /\ ops[n].target \in Functions
        /\ ops[n].tramp \in Trampolines
        /\ Unapplied(n) /\ ~Unapplied(n)' /\ OperationRight(n)
        /\ \A k \in DOMAIN ops : k # n => (Unapplied(k)' <=> Unapplied(k))
        /\ phase = "apply" /\ cursor' \in 1 .. (Len(ops) + 1)
  BY <1>1, Applied
<1>3. PICK t, f, h : t = ops[n].tramp /\ f = ops[n].target /\ h = ops[n].hook  OBVIOUS
<1>4. PICK o, d : o = [ops[n] EXCEPT !.kind = "bypass"]
                  /\ d = [tramp[t] EXCEPT !.detour = Bypass]
  OBVIOUS
<1>5. /\ ops' = [ops EXCEPT ![n] = o] /\ pointer' = [pointer EXCEPT ![h] = f]
      /\ tramp' = [tramp EXCEPT ![t] = d] /\ patch' = patch
      /\ h \in Hooks /\ f \in Functions /\ t \in Trampolines
  BY <1>1, <1>2, <1>3, <1>4 DEF ApplyBypass
<1>6. /\ ~Unlinked(n) /\ Live(t) /\ InUse(t)
      /\ tramp[t].target = f /\ Home[h] = f /\ tramp[t].detour = h /\ pointer[h] = t
      /\ \A k \in DOMAIN ops : k # n =>
           ops[k].tramp # t /\ ops[k].target # f /\ ops[k].hook # h
  BY <1>2, <1>3, <1>5, ToRemove
<1>7. tramp[t] \in Contents  BY <1>5, <1>6, InUseContents DEF TypeInv
<1>8. /\ d \in Contents /\ d.detour = Bypass
      /\ d.copied = tramp[t].copied /\ d.target = f
  BY <1>4, <1>6, <1>7 DEF Contents
<1>9. o.kind = "bypass" /\ o.target = f /\ o.tramp = t /\ o.hook = h
  <2>1. ops[n] \in Operations  BY OperationTypes DEF TypeInv
  <2> QED  BY <1>3, <1>4, <2>1 DEF Operations
<1>10. /\ DOMAIN ops' = DOMAIN ops /\ Len(ops') = Len(ops) /\ ops'[n] = o
       /\ \A k \in DOMAIN ops : k # n => ops'[k] = ops[k]
       /\ tramp'[t] = d /\ \A u \in Trampolines : u # t => tramp'[u] = tramp[u]
       /\ pointer'[h] = f /\ \A x \in Hooks : x # h => pointer'[x] = pointer[x]
  BY <1>5 DEF TypeInv, TypeOK
<1>11. ~Unlinked(n)' /\ \A k \in DOMAIN ops : k # n => (Unlinked(k)' <=> Unlinked(k))
  BY <1>2, <1>9, <1>10 DEF Unlinked
<1>12. \A u \in Trampolines :
          /\ InUse(u)' <=> InUse(u)
          /\ tramp'[u].copied = tramp[u].copied
          /\ InUse(u) => tramp'[u].target = tramp[u].target
          /\ tramp'[u].detour = IF u = t THEN Bypass ELSE tramp[u].detour
  BY <1>6, <1>8, <1>10, ZeroedIsNoContents DEF InUse
<1>13. OpsInv'
  <2>1. ASSUME NEW k \in DOMAIN ops PROVE OperationRight(k)'
    <3>1. CASE k = n
      BY <1>2, <1>5, <1>6, <1>9, <1>10, <1>11, <1>12, <3>1 DEF OperationRight, InUse
    <3>2. CASE k # n
      <4>1. OperationRight(k) /\ ops[k].hook \in Hooks /\ ops[k].tramp \in Trampolines
        BY OperationTypes DEF OpsInv, TypeInv
      <4> QED
        BY <1>2, <1>5, <1>6, <1>10, <1>11, <3>2, <4>1 DEF OperationRight, InUse
    <3> QED  BY <3>1, <3>2
  <2>2. PhaseRight'  BY <1>1, <1>2, <1>10 DEF PhaseRight
  <2>3. \A k \in DOMAIN ops : ops'[k].target = ops[k].target  BY <1>3, <1>9, <1>10
  <2> QED  BY <1>10, <2>1, <2>2, <2>3 DEF OpsInv, TargetsDiffer
<1>14. Loose' = Loose
  <2>1. \A k \in DOMAIN ops : ops'[k].tramp = ops[k].tramp  BY <1>3, <1>9, <1>10
  <2>2. \A k \in DOMAIN ops : Unlinked(k)' <=> Unlinked(k)  BY <1>6, <1>11
  <2> QED  BY <1>10, <2>1, <2>2 DEF Loose
<1>15. \A u : Live(u)' <=> Live(u)  BY <1>12, <1>14 DEF Live
<1>16. \A u, g : LiveFor(u, g)' <=> LiveFor(u, g)  BY <1>12, <1>15 DEF LiveFor, Live
<1>17. PatchRight'  BY <1>5, <1>16 DEF ChainInv, PatchRight
<1>18. CopiedRight'
  <2>1. ASSUME NEW u \in Trampolines, InUse(u)'
        PROVE  (tramp[u].copied = Original \/ LiveFor(tramp[u].copied, tramp[u].target))'
    <3>1. PICK v, g : v = tramp[u].copied /\ g = tramp[u].target  OBVIOUS
    <3>2. v = Original \/ LiveFor(v, g)
      BY <1>12, <2>1, <3>1 DEF ChainInv, CopiedRight
    <3>3. v = Original \/ LiveFor(v, g)'  BY <1>16, <3>2
    <3> QED  BY <1>12, <2>1, <3>1, <3>3 DEF LiveFor, Live, InUse
  <2> QED  BY <2>1 DEF CopiedRight
<1>19. OneAbove'  BY <1>12, <1>15 DEF ChainInv, OneAbove
<1>20. NoneAboveTop'  BY <1>5, <1>12, <1>15 DEF ChainInv, NoneAboveTop, Live
<1>21. PointerRight'
  <2>1. ASSUME NEW x \in Hooks
        PROVE  pointer'[x] = Home[x]
               \/ (LiveFor(pointer[x], Home[x])' /\ tramp'[pointer'[x]].detour = x)
    <3>1. CASE x = h  BY <1>6, <1>10, <3>1
    <3>2. CASE x # h
      <4>1. PICK v : v = pointer[x]  OBVIOUS
      <4>2. v = Home[x] \/ (LiveFor(v, Home[x]) /\ tramp[v].detour = x)
        BY <4>1 DEF ChainInv, PointerRight
      <4>3. v = Home[x] \/ (LiveFor(v, Home[x])' /\ tramp'[v].detour = x)
        BY <1>6, <1>12, <1>16, <3>2, <4>2 DEF LiveFor, Live
      <4> QED  BY <1>10, <3>2, <4>1, <4>3 DEF LiveFor, Live, InUse
    <3> QED  BY <3>1, <3>2
  <2> QED  BY <2>1 DEF PointerRight
<1>22. DetourRight'
  <2>1. ASSUME NEW u \in Trampolines, Live(u)
        PROVE  tramp'[u].detour = Bypass \/ pointer'[tramp'[u].detour] = u
    <3>1. CASE u = t  BY <1>12, <3>1
    <3>2. CASE u # t /\ tramp[u].detour # Bypass
      <4>1. tramp[u].detour \in Hooks
        BY <2>1, <3>2, InUseContents DEF Live, TypeInv, Contents
      <4>2. pointer[tramp[u].detour] = u  BY <2>1, <3>2 DEF ChainInv, DetourRight
      <4> QED  BY <1>6, <1>10, <1>12, <3>2, <4>1, <4>2
    <3> QED  BY <1>12, <3>1, <3>2
  <2> QED  BY <1>15, <2>1 DEF DetourRight
<1>23. PlacesKept
  <2>1. ASSUME NEW k \in DOMAIN ops, ~Unapplied(k)
        PROVE  ~Unapplied(k)' /\ ops'[k] = ops[k] /\ ops[k].tramp \in Trampolines
    BY <1>2, <1>10, <2>1, OperationTypes DEF TypeInv
  <2>2. \A g \in Functions : Covered(g) => Covered(g)'
    BY <1>1, <1>10, <1>12, <2>1 DEF Covered
  <2>3. \A u \in Trampolines : Removed(u) => Removed(u)'  BY <1>1, <1>10, <2>1 DEF Removed
  <2> QED  BY <1>5, <1>12, <1>15, <2>2, <2>3 DEF PlacesKept, MayBeInside, MayHold
<1>24. Linked'  BY <1>5, <1>12, <1>15, LinkedKept DEF Live
<1> QED
  BY <1>13, <1>17, <1>18, <1>19, <1>20, <1>21, <1>22, <1>23, <1>24 DEF ChainInv

(* Undoing an operation, or ending it, leaves every chain as it is. *)
LEMMA EndOperationChains ==
    ASSUME TypeInv, OpsInv, ChainInv, NEW c \in Callers,
           CommitOperation(c) \/ AbortOperation(c)
    PROVE  OpsInv' /\ ChainInv' /\ PlacesKept
<1>1. PICK ending, kind :
        /\ EndOperation(c, ending, kind)
        /\ (ending = "restore" /\ kind = "remove") \/ (ending = "abort" /\ kind = "add")
  BY DEF CommitOperation, AbortOperation
<1>2. /\ phase = ending /\ phase' = phase /\ ops # <<>> /\ ops' = Tail(ops)
      /\ patch' = patch /\ pointer' = pointer
  BY <1>1 DEF EndOperation, codeVars
<1>3. /\ ops[1] = Head(ops) /\ 1 \in DOMAIN ops
      /\ \A k \in DOMAIN ops' : k + 1 \in DOMAIN ops /\ ops'[k] = ops[k + 1] /\ k \in Nat \ {0}
      /\ \A k \in DOMAIN ops : k # 1 => k - 1 \in DOMAIN ops' /\ ops'[k - 1] = ops[k]
  BY <1>2, WithoutFirst DEF TypeInv, TypeOK
<1>4. PICK t : t = ops[1].tramp  OBVIOUS
<1>5. t \in Trampolines  BY <1>3, <1>4, OperationTypes DEF TypeInv
<1>6. \A k : (Unapplied(k)' <=> Unapplied(k)) /\ (Unapplied(k) <=> ending = "abort")
  BY <1>1, <1>2 DEF Unapplied
<1>7. \A k : Unlinked(k) <=> ops[k].kind = kind  BY <1>1, <1>6 DEF Unlinked
<1>8. \A k : Unlinked(k)' <=> ops'[k].kind = kind  BY <1>1, <1>6 DEF Unlinked
<1>9. \A k \in DOMAIN ops' : ops[k + 1].tramp # t /\ ops[k + 1].tramp \in Trampolines
  <2>1. ASSUME NEW k \in DOMAIN ops', ops[k + 1].tramp = t PROVE FALSE
    <3>1. k + 1 = 1  BY <1>3, <1>4, <2>1, TrampolinesDiffer
    <3> QED  BY <1>3, <3>1
  <2> QED  BY <1>3, <2>1, OperationTypes DEF TypeInv
<1>10. /\ \A u \in Trampolines : u # t => tramp'[u] = tramp[u]
       /\ IF ops[1].kind = kind THEN tramp'[t] = Zeroed ELSE tramp' = tramp
  BY <1>1, <1>3, <1>4, <1>5 DEF EndOperation, FreeTrampoline, TypeInv, TypeOK
<1>11. \A u \in Trampolines : InUse(u)' => InUse(u) /\ tramp'[u] = tramp[u]
  BY <1>10 DEF InUse
<1>12. OpsInv'
  <2>1. ASSUME NEW k \in DOMAIN ops' PROVE OperationRight(k)'
    <3>1. ops'[k] = ops[k + 1] /\ k + 1 \in DOMAIN ops /\ OperationRight(k + 1)
      BY <1>3 DEF OpsInv
    <3>2. tramp'[ops[k + 1].tramp] = tramp[ops[k + 1].tramp]  BY <1>9, <1>10
    <3> QED  BY <1>2, <1>6, <1>7, <1>8, <3>1, <3>2 DEF OperationRight, InUse
  <2>2. ASSUME NEW j \in DOMAIN ops', NEW k \in DOMAIN ops', ops'[j].target = ops'[k].target
        PROVE  j = k
    <3>1. j + 1 = k + 1  BY <1>3, <2>2 DEF OpsInv, TargetsDiffer
    <3> QED  BY <1>3, <3>1
  <2>3. PhaseRight'  BY <1>1, <1>2 DEF PhaseRight
  <2> QED  BY <2>1, <2>2, <2>3 DEF OpsInv, TargetsDiffer
<1>13. \A u \in Trampolines : Live(u)' <=> Live(u)
  <2>1. ASSUME NEW u \in Loose' PROVE u \in Loose
    <3>1. PICK k \in DOMAIN ops' : Unlinked(k)' /\ ops'[k].tramp = u  BY <2>1 DEF Loose
    <3>2. k + 1 \in DOMAIN ops /\ Unlinked(k + 1) /\ ops[k + 1].tramp = u
      BY <1>3, <1>7, <1>8, <3>1
    <3> QED  BY <3>2 DEF Loose
  <2>2. ASSUME NEW u \in Loose, InUse(u)' PROVE u \in Loose'
    <3>1. PICK k \in DOMAIN ops : Unlinked(k) /\ ops[k].tramp = u  BY <2>2 DEF Loose
    <3>2. CASE k = 1
      BY <1>4, <1>5, <1>7, <1>10, <2>2, <3>1, <3>2 DEF InUse
    <3>3. CASE k # 1
      <4>1. k - 1 \in DOMAIN ops' /\ Unlinked(k - 1)' /\ ops'[k - 1].tramp = u
        BY <1>3, <1>7, <1>8, <3>1, <3>3
      <4> QED  BY <4>1 DEF Loose
    <3> QED  BY <3>2, <3>3
  <2>3. ASSUME NEW u \in Trampolines, Live(u) PROVE InUse(u)'
    <3>1. CASE u = t /\ ops[1].kind = kind
      <4>1. Unlinked(1) /\ t \in Loose  BY <1>3, <1>4, <1>7, <3>1 DEF Loose
      <4> QED  BY <2>3, <3>1, <4>1 DEF Live
    <3>2. CASE ~(u = t /\ ops[1].kind = kind)
      BY <1>10, <2>3, <3>2 DEF Live, InUse
    <3> QED  BY <3>1, <3>2
  <2> QED  BY <1>11, <2>1, <2>2, <2>3 DEF Live
<1>14. \A u, g : LiveFor(u, g)' <=> LiveFor(u, g)
  <2>1. \A u : Live(u) => u \in Trampolines /\ tramp'[u] = tramp[u]
    BY <1>11, <1>13 DEF Live
  <2>2. \A u : Live(u)' <=> Live(u)  BY <1>13 DEF Live
  <2> QED  BY <2>1, <2>2 DEF LiveFor
<1>15. \A u \in Trampolines : Live(u) => tramp'[u] = tramp[u]
  BY <1>11, <1>13 DEF Live
<1>16. PatchRight'  BY <1>2, <1>14 DEF ChainInv, PatchRight
<1>17. CopiedRight'
  <2>1. ASSUME NEW u \in Trampolines, InUse(u)'
        PROVE  (tramp[u].copied = Original \/ LiveFor(tramp[u].copied, tramp[u].target))'
    <3>1. PICK v, g : v = tramp[u].copied /\ g = tramp[u].target  OBVIOUS
    <3>2. tramp'[u] = tramp[u] /\ InUse(u)  BY <1>11, <2>1
    <3>3. v = Original \/ LiveFor(v, g)  BY <3>1, <3>2 DEF ChainInv, CopiedRight
    <3>4. v = Original \/ LiveFor(v, g)'  BY <1>14, <3>3
    <3> QED  BY <3>1, <3>2, <3>4 DEF LiveFor, Live, InUse
  <2> QED  BY <2>1 DEF CopiedRight
<1>18. OneAbove'  BY <1>13, <1>15 DEF ChainInv, OneAbove
<1>19. NoneAboveTop'  BY <1>2, <1>13, <1>15 DEF ChainInv, NoneAboveTop
<1>20. PointerRight'
  <2>1. ASSUME NEW x \in Hooks
        PROVE  pointer'[x] = Home[x]
               \/ (LiveFor(pointer[x], Home[x])' /\ tramp'[pointer'[x]].detour = x)
    <3>1. PICK v : v = pointer[x]  OBVIOUS
    <3>2. v = Home[x] \/ (LiveFor(v, Home[x]) /\ tramp[v].detour = x)
      BY <3>1 DEF ChainInv, PointerRight
    <3>3. v = Home[x] \/ (LiveFor(v, Home[x])' /\ tramp'[v].detour = x)
      BY <1>14, <1>15, <3>2 DEF LiveFor, Live
    <3> QED  BY <1>2, <3>1, <3>3 DEF LiveFor, Live, InUse
  <2> QED  BY <2>1 DEF PointerRight
<1>21. DetourRight'  BY <1>2, <1>13, <1>15 DEF ChainInv, DetourRight
<1>22. PlacesKept
  <2>1. (\A u \in Trampolines : ~Removed(u)) /\ (\A g \in Functions : ~Covered(g))
    BY <1>1, <1>2 DEF Removed, Covered
  <2> QED  BY <1>2, <1>13, <1>15, <2>1 DEF PlacesKept, MayBeInside, MayHold
<1>23. Linked'
  <2>1. \A u : Live(u)' => Live(u)  BY <1>13 DEF Live
  <2> QED  BY <1>2, <1>15, <2>1, LinkedKept
<1> QED
  BY <1>12, <1>16, <1>17, <1>18, <1>19, <1>20, <1>21, <1>22, <1>23 DEF ChainInv

(***************************************************************************)
(* The free lists.                                                         *)
(***************************************************************************)

(* What follows the trampolines that are free decides what the list holds. *)
LEMMA ListAlong ==
    ASSUME NEW r, HeadRight(r), NextRight(r),
           NEW next, \A u : FreeIn(r, u) => next[u] = pbRemain[u], NEW t \in FreeList(r)
    PROVE  t \in Reached(pFree[r], next)
<1>1. PICK P : P = {u \in Trampolines : FreeIn(r, u)}  OBVIOUS
<1>2. pFree[r] \in Trampolines => pFree[r] \in P
  BY <1>1, DistinctAssumption DEF HeadRight
<1>3. ASSUME NEW u \in P
      PROVE  next[u] = pbRemain[u] /\ (pbRemain[u] \in Trampolines => pbRemain[u] \in P)
  BY <1>1, DistinctAssumption DEF NextRight
<1> QED  BY <1>1, <1>2, <1>3, ReachedAlong DEF FreeList

(* Every trampoline on the list of a region is one of its own that is free. *)
LEMMA ListIsFree ==
    ASSUME NEW r, HeadRight(r), NextRight(r), NEW t \in FreeList(r)
    PROVE  FreeIn(r, t)
<1>1. PICK P : P = {u \in Trampolines : FreeIn(r, u)}  OBVIOUS
<1>2. Closed(P, pFree[r], pbRemain)
  BY <1>1, DistinctAssumption DEF HeadRight, NextRight, Closed
<1>3. t \in P  BY <1>1, <1>2, ReachedWithin DEF FreeList
<1> QED  BY <1>1, <1>3

(* A new list holds all from the trampoline k it begins with. *)
LEMMA NewList ==
    ASSUME NEW r \in Regions, NEW k \in 2 .. 3, NEW first, NEW next,
           first = IF k \in 2 .. (PerRegion - 1) THEN <<r, k>> ELSE None,
           \A s \in k .. (PerRegion - 2) : next[<<r, s>>] = <<r, s + 1>>,
           NEW s \in k .. (PerRegion - 1)
    PROVE  <<r, s>> \in Reached(first, next)
<1>1. \A n \in k .. (PerRegion - 1) : <<r, n>> \in Trampolines
  BY SizeAssumption DEF Trampolines, Slots
<1>2. ASSUME NEW S \in SUBSET Trampolines, Closed(S, first, next) PROVE <<r, s>> \in S
  <2>1. PICK T : T = {n \in k .. (PerRegion - 1) : <<r, n>> \notin S}  OBVIOUS
  <2>2. CASE T = {}  BY <2>1, <2>2
  <2>3. CASE T # {}
    <3>1. T \subseteq Nat  BY <2>1, SizeAssumption
    <3>2. PICK n \in T : \A m \in T : n <= m  BY <2>3, <3>1, LeastIn
    <3>3. n \in k .. (PerRegion - 1) /\ <<r, n>> \notin S /\ <<r, n>> \in Trampolines
      BY <1>1, <2>1, <3>2
    <3>4. CASE n = k
      <4>1. k \in 2 .. (PerRegion - 1)  BY <3>3, SizeAssumption
      <4>2. first = <<r, n>>  BY <3>4, <4>1
      <4> QED  BY <1>2, <3>3, <4>2 DEF Closed
    <3>5. CASE n # k
      <4>1. PICK m : m = n - 1  OBVIOUS
      <4>2. m \in k .. (PerRegion - 2) /\ m \in k .. (PerRegion - 1) /\ m + 1 = n /\ ~(n <= m)
        BY <3>3, <3>5, <4>1, SizeAssumption
      <4>3. <<r, m>> \in S  BY <2>1, <3>2, <4>2
      <4>4. next[<<r, m>>] = <<r, n>>  BY <4>2
      <4> QED  BY <1>2, <3>3, <4>3, <4>4 DEF Closed
    <3> QED  BY <3>4, <3>5
  <2> QED  BY <2>2, <2>3
<1> QED  BY <1>1, <1>2, ReachedMeans

(* A step that leaves the free trampolines of a region alone, and their list. *)
LEMMA OtherRegionFree ==
    ASSUME FreeInv, NEW q \in regions, pFree'[q] = pFree[q],
           \A u \in Trampolines : u[1] = q => pbRemain'[u] = pbRemain[u],
           \A u : FreeIn(q, u)' <=> FreeIn(q, u)
    PROVE  HeadRight(q)' /\ NextRight(q)' /\ NextDiffers(q)' /\ AllListed(q)'
<1>1. HeadRight(q) /\ NextRight(q) /\ NextDiffers(q) /\ AllListed(q)  BY DEF FreeInv
<1>2. \A u : FreeIn(q, u) => u \in Trampolines /\ pbRemain'[u] = pbRemain[u]
  BY DEF FreeIn
<1>3. HeadRight(q)'
  <2>1. PICK v : v = pFree[q]  OBVIOUS
  <2>2. v = None \/ FreeIn(q, v)'  BY <1>1, <2>1 DEF HeadRight
  <2> QED  BY <2>1, <2>2 DEF HeadRight, FreeIn, InUse
<1>4. NextRight(q)'
  <2>1. ASSUME NEW u \in Trampolines, FreeIn(q, u)', pbRemain'[u] # None
        PROVE  FreeIn(q, pbRemain[u])' /\ pbRemain'[u] # pFree'[q]
    <3>1. PICK v : v = pbRemain[u]  OBVIOUS
    <3>2. FreeIn(q, v) /\ v # pFree[q] /\ pbRemain'[u] = v
      BY <1>1, <1>2, <2>1, <3>1 DEF NextRight
    <3>3. FreeIn(q, v)'  BY <3>2
    <3> QED  BY <3>2, <3>3 DEF FreeIn, InUse
  <2> QED  BY <2>1 DEF NextRight
<1>5. NextDiffers(q)'  BY <1>1, <1>2 DEF NextDiffers
<1>6. AllListed(q)'
  <2>1. ASSUME NEW u \in Trampolines, FreeIn(q, u)', u[2] > 1 PROVE u \in FreeList(q)'
    <3>1. PICK next : next = pbRemain'  OBVIOUS
    <3>2. u \in FreeList(q)  BY <1>1, <2>1 DEF AllListed
    <3>3. u \in Reached(pFree[q], next)  BY <1>1, <1>2, <3>1, <3>2, ListAlong
    <3> QED  BY <3>1, <3>3 DEF FreeList
  <2> QED  BY <2>1 DEF AllListed
<1> QED  BY <1>3, <1>4, <1>5, <1>6

(* The list of a new region, whose trampolines are all free before the k-th. *)
LEMMA NewRegionFree ==
    ASSUME TypeInv, NEW r \in Regions, NEW k \in 2 .. 3,
           pFree'[r] = IF k \in 2 .. (PerRegion - 1) THEN <<r, k>> ELSE None,
           \A u \in Trampolines :
               u[1] = r => pbRemain'[u] = IF u[2] \in 2 .. (PerRegion - 2)
                                          THEN <<r, u[2] + 1>> ELSE None,
           \A u : FreeIn(r, u)' <=> /\ u \in Trampolines /\ u[1] = r
                                    /\ u[2] \in 0 .. 1 \/ u[2] >= k
    PROVE  HeadRight(r)' /\ NextRight(r)' /\ NextDiffers(r)' /\ AllListed(r)'
<1>1. \A u \in Trampolines : u[1] = r => u = <<r, u[2]>> /\ u[2] \in Slots /\ u[2] \in Nat
  BY DEF Trampolines, Slots
<1>2. \A s \in k .. (PerRegion - 1) :
        <<r, s>> \in Trampolines /\ <<r, s>>[1] = r /\ <<r, s>>[2] = s /\ <<r, s>> # None
  BY SizeAssumption, DistinctAssumption DEF Trampolines, Slots
<1>3. \A s \in k .. (PerRegion - 1) : FreeIn(r, <<r, s>>)'
  <2>1. TAKE s \in k .. (PerRegion - 1)
  <2>2. PICK u : u = <<r, s>>  OBVIOUS
  <2>3. u \in Trampolines /\ u[1] = r /\ u[2] = s /\ s >= k  BY <1>2, <2>2, SizeAssumption
  <2> QED  BY <2>2, <2>3
<1>4. HeadRight(r)'
  <2>1. CASE k \in 2 .. (PerRegion - 1)
    <3>1. k \in k .. (PerRegion - 1)  BY <2>1, SizeAssumption
    <3>2. FreeIn(r, <<r, k>>)'  BY <1>3, <3>1
    <3> QED  BY <2>1, <3>2 DEF HeadRight, FreeIn, InUse
  <2>2. CASE k \notin 2 .. (PerRegion - 1)  BY <2>2 DEF HeadRight
  <2> QED  BY <2>1, <2>2
<1>5. ASSUME NEW u \in Trampolines, FreeIn(r, u)', pbRemain'[u] # None
      PROVE  /\ u = <<r, u[2]>> /\ u[2] \in k .. (PerRegion - 2)
             /\ pbRemain'[u] = <<r, u[2] + 1>> /\ u[2] + 1 \in k .. (PerRegion - 1)
  <2>1. u[1] = r /\ (u[2] \in 0 .. 1 \/ u[2] >= k)  BY <1>5
  <2>2. /\ u = <<r, u[2]>> /\ u[2] \in Nat /\ u[2] \in 2 .. (PerRegion - 2)
        /\ pbRemain'[u] = <<r, u[2] + 1>>
    BY <1>1, <1>5, <2>1
  <2> QED  BY <2>1, <2>2, SizeAssumption
<1>6. NextRight(r)'
  <2>1. ASSUME NEW u \in Trampolines, FreeIn(r, u)', pbRemain'[u] # None
        PROVE  FreeIn(r, pbRemain[u])' /\ pbRemain'[u] # pFree'[r]
    <3>1. PICK s : s = u[2] + 1  OBVIOUS
    <3>2. pbRemain'[u] = <<r, s>> /\ s \in k .. (PerRegion - 1) /\ s # k
      BY <1>5, <2>1, <3>1, SizeAssumption
    <3>3. FreeIn(r, <<r, s>>)'  BY <1>3, <3>2
    <3>4. <<r, s>> # <<r, k>> /\ <<r, s>> # None  BY <1>2, <3>2
    <3> QED  BY <3>2, <3>3, <3>4 DEF FreeIn, InUse
  <2> QED  BY <2>1 DEF NextRight
<1>7. NextDiffers(r)'
  <2>1. ASSUME NEW u \in Trampolines, NEW v \in Trampolines, FreeIn(r, u)', FreeIn(r, v)',
               pbRemain'[u] = pbRemain'[v], pbRemain'[u] # None
        PROVE  u = v
    <3>1. u = <<r, u[2]>> /\ u[2] \in Int /\ pbRemain'[u] = <<r, u[2] + 1>>
      BY <1>5, <2>1, SizeAssumption
    <3>2. v = <<r, v[2]>> /\ v[2] \in Int /\ pbRemain'[v] = <<r, v[2] + 1>>
      BY <1>5, <2>1, SizeAssumption
    <3>3. PICK a, b : a = u[2] + 1 /\ b = v[2] + 1  OBVIOUS
    <3>4. u[2] = v[2]
      <4>1. <<r, a>> = <<r, b>>  BY <2>1, <3>1, <3>2, <3>3
      <4>2. a = b  BY <4>1
      <4> QED  BY <3>1, <3>2, <3>3, <4>2
    <3> QED  BY <3>1, <3>2, <3>4
  <2> QED  BY <2>1 DEF NextDiffers
<1>8. AllListed(r)'
  <2>1. \A s \in k .. (PerRegion - 2) : pbRemain'[<<r, s>>] = <<r, s + 1>>
    <3>1. TAKE s \in k .. (PerRegion - 2)
    <3>2. s \in k .. (PerRegion - 1) /\ s \in 2 .. (PerRegion - 2)  BY SizeAssumption
    <3>3. PICK u : u = <<r, s>>  OBVIOUS
    <3>4. u \in Trampolines /\ u[1] = r /\ u[2] = s  BY <1>2, <3>2, <3>3
    <3> QED  BY <3>2, <3>3, <3>4
  <2>2. ASSUME NEW u \in Trampolines, FreeIn(r, u)', u[2] > 1 PROVE u \in FreeList(r)'
    <3>1. u[1] = r /\ (u[2] \in 0 .. 1 \/ u[2] >= k)  BY <2>2
    <3>2. u = <<r, u[2]>> /\ u[2] \in Slots  BY <1>1, <3>1
    <3>3. u[2] \in k .. (PerRegion - 1)  BY <2>2, <3>1, <3>2, SizeAssumption DEF Slots
    <3>4. PICK first, next, s : first = pFree'[r] /\ next = pbRemain' /\ s = u[2]  OBVIOUS
    <3>5. <<r, s>> \in Reached(first, next)  BY <2>1, <3>3, <3>4, NewList
    <3> QED  BY <3>2, <3>4, <3>5 DEF FreeList
  <2> QED  BY <2>2 DEF AllListed
<1> QED  BY <1>4, <1>6, <1>7, <1>8

(* Keeping a region that is refused, with all its trampolines free. *)
LEMMA RefusedFree ==
    ASSUME TypeInv, FreeInv, NEW r \in Regions, r \notin regions, KeepRefused(r),
           tramp' = tramp
    PROVE  FreeInv'
<1>1. \A q, u : FreeIn(q, u)' <=> FreeIn(q, u)  BY DEF FreeIn, InUse
<1>2. pFree'[r] = <<r, 2>>  BY DEF KeepRefused, FirstFree, TypeInv, TypeOK
<1>3. ASSUME NEW q \in regions
      PROVE  HeadRight(q)' /\ NextRight(q)' /\ NextDiffers(q)' /\ AllListed(q)'
  <2>1. pFree'[q] = pFree[q] /\ \A u \in Trampolines : u[1] = q => pbRemain'[u] = pbRemain[u]
    BY DEF KeepRefused, TypeInv, TypeOK
  <2> QED  BY <1>1, <2>1, OtherRegionFree
<1>4. HeadRight(r)' /\ NextRight(r)' /\ NextDiffers(r)' /\ AllListed(r)'
  <2>1. \A u \in Trampolines :
          u[1] = r => pbRemain'[u] = IF u[2] \in 2 .. (PerRegion - 2)
                                     THEN <<r, u[2] + 1>> ELSE None
    BY DEF KeepRefused, NextFree
  <2>2. ASSUME NEW u
        PROVE  FreeIn(r, u)' <=> /\ u \in Trampolines /\ u[1] = r
                                 /\ u[2] \in 0 .. 1 \/ u[2] >= 2
    <3>1. u \in Trampolines /\ u[1] = r => ~InUse(u)  BY DEF FreeInv
    <3>2. u \in Trampolines => u[2] \in Nat  BY DEF Trampolines, Slots
    <3>3. u \in Trampolines => u[2] \in 0 .. 1 \/ u[2] >= 2  BY <3>2
    <3> QED  BY <1>1, <3>1, <3>3 DEF FreeIn
  <2>3. 2 \in 2 .. 3 /\ 2 \in 2 .. (PerRegion - 1)  BY SizeAssumption
  <2>4. pFree'[r] = IF 2 \in 2 .. (PerRegion - 1) THEN <<r, 2>> ELSE None  BY <1>2, <2>3
  <2> QED  BY <2>1, <2>2, <2>3, <2>4, NewRegionFree
<1>5. /\ default' \in regions' \cup {None} /\ regions' = regions \cup {r}
      /\ \A t \in Trampolines : InUse(t)' => t[1] \in regions'
  BY DEF KeepRefused, FreeInv, InUse
<1> QED  BY <1>3, <1>4, <1>5 DEF FreeInv

(* Taking the first trampoline of a region, or of a new one. *)
LEMMA AttachFree ==
    ASSUME TypeInv, FreeInv, NEW c \in Callers, NEW h \in Hooks, Attach(c, h)
    PROVE  FreeInv'
<1>1. PICK r \in Regions, t \in Trampolines :
        /\ t = FirstFree(r) /\ ~InUse(t) /\ t[1] = r
        /\ r \in regions => pFree[r] # None
        /\ regions' = regions \cup {r} /\ default' = r /\ PopFree(r)
        /\ InUse(t)' /\ \A u \in Trampolines : u # t => (InUse(u)' <=> InUse(u))
  <2>1. PICK f : f = pointer[h]  OBVIOUS
  <2>2. PICK r \in Regions :
          /\ FoundRegion(r, f) \/ NewRegion(r, f)
          /\ regions' = regions \cup {r} /\ default' = r /\ PopFree(r)
          /\ tramp' = [tramp EXCEPT ![FirstFree(r)] =
                          [target |-> f, copied |-> patch[f], detour |-> h]]
    BY <2>1 DEF Attach
  <2>3. PICK t : t = FirstFree(r)  OBVIOUS
  <2>4. r \notin regions \/ pFree[r] # None  BY <2>2 DEF FoundRegion, NewRegion, Usable
  <2>5. t \in Trampolines /\ ~InUse(t) /\ t[1] = r  BY <2>3, <2>4, FirstFreeIsFree
  <2>6. f \in Functions  BY <2>1 DEF Attach, MayAttach
  <2>7. PICK d : d = [target |-> f, copied |-> patch[f], detour |-> h]  OBVIOUS
  <2>8. d \in Contents  BY <2>6, <2>7 DEF Contents, TypeInv, TypeOK
  <2>9. tramp' = [tramp EXCEPT ![t] = d]  BY <2>2, <2>3, <2>7
  <2>10. InUse(t)' /\ \A u \in Trampolines : u # t => (InUse(u)' <=> InUse(u))
    BY <2>5, <2>8, <2>9, ZeroedIsNoContents DEF InUse, TypeInv, TypeOK
  <2> QED  BY <2>2, <2>3, <2>4, <2>5, <2>10
<1>2. /\ pFree' = [pFree EXCEPT ![r] = NextFree(r, t)]
      /\ pbRemain' = [u \in Trampolines |-> IF u[1] = r THEN NextFree(r, u) ELSE pbRemain[u]]
  BY <1>1 DEF PopFree
<1>3. \A u \in Trampolines : InUse(u)' => u[1] \in regions'  BY <1>1 DEF FreeInv
<1>4. \A q, u : FreeIn(q, u)' <=> FreeIn(q, u) /\ u # t  BY <1>1 DEF FreeIn
<1>5. ASSUME NEW q \in regions, q # r
      PROVE  HeadRight(q)' /\ NextRight(q)' /\ NextDiffers(q)' /\ AllListed(q)'
  <2>1. pFree'[q] = pFree[q] /\ \A u \in Trampolines : u[1] = q => pbRemain'[u] = pbRemain[u]
    BY <1>2, <1>5 DEF TypeInv, TypeOK
  <2>2. \A u : FreeIn(q, u)' <=> FreeIn(q, u)  BY <1>1, <1>4, <1>5 DEF FreeIn
  <2> QED  BY <2>1, <2>2, OtherRegionFree
<1>6. CASE r \in regions
  <2>1. HeadRight(r) /\ NextRight(r) /\ NextDiffers(r) /\ AllListed(r)
    BY <1>6 DEF FreeInv
  <2>2. t = pFree[r] /\ t # None /\ FreeIn(r, t)
    BY <1>1, <1>6 DEF FirstFree, FreeIn
  <2>3. pbRemain' = pbRemain /\ pFree'[r] = pbRemain[t]
    BY <1>1, <1>2, <1>6 DEF NextFree, TypeInv, TypeOK
  <2>4. HeadRight(r)'
    <3>1. PICK v : v = pbRemain[t]  OBVIOUS
    <3>2. v = None \/ (FreeIn(r, v) /\ v # t)  BY <1>1, <2>1, <2>2, <3>1 DEF NextRight
    <3>3. v = None \/ FreeIn(r, v)'  BY <1>4, <3>2
    <3> QED  BY <2>3, <3>1, <3>3 DEF HeadRight, FreeIn, InUse
  <2>5. NextRight(r)'
    <3>1. ASSUME NEW u \in Trampolines, FreeIn(r, u)', pbRemain[u] # None
          PROVE  FreeIn(r, pbRemain[u])' /\ pbRemain[u] # pFree'[r]
      <4>1. PICK v : v = pbRemain[u]  OBVIOUS
      <4>2. FreeIn(r, u) /\ u # t  BY <1>4, <3>1
      <4>3. FreeIn(r, v) /\ v # t  BY <2>1, <2>2, <3>1, <4>1, <4>2 DEF NextRight
      <4>4. FreeIn(r, v)'  BY <1>4, <4>3
      <4>5. v # pbRemain[t]  BY <1>1, <2>1, <2>2, <3>1, <4>1, <4>2 DEF NextDiffers
      <4> QED  BY <2>3, <4>1, <4>4, <4>5 DEF FreeIn, InUse
    <3> QED  BY <2>3, <3>1 DEF NextRight
  <2>6. NextDiffers(r)'  BY <1>4, <2>1, <2>3 DEF NextDiffers
  <2>7. AllListed(r)'
    <3>1. ASSUME NEW u \in Trampolines, FreeIn(r, u)', u[2] > 1 PROVE u \in FreeList(r)'
      <4>1. u \in Reached(t, pbRemain) /\ u # t
        BY <1>4, <2>1, <2>2, <3>1 DEF AllListed, FreeList
      <4>2. u \in Reached(pbRemain[t], pbRemain)  BY <4>1, ReachedBehind
      <4> QED  BY <2>3, <4>2 DEF FreeList
    <3> QED  BY <3>1 DEF AllListed
  <2> QED  BY <1>1, <1>3, <1>5, <1>6, <2>4, <2>5, <2>6, <2>7 DEF FreeInv
<1>7. CASE r \notin regions
  <2>1. t = <<r, 2>> /\ t[2] = 2  BY <1>1, <1>7 DEF FirstFree
  <2>2. ASSUME NEW u \in Trampolines, u[1] = r
        PROVE  /\ u = <<r, u[2]>> /\ u[2] \in Nat
               /\ pbRemain'[u] = IF u[2] \in 2 .. (PerRegion - 2) THEN <<r, u[2] + 1>> ELSE None
    BY <1>2, <1>7, <2>2 DEF NextFree, Trampolines, Slots
  <2>3. pFree'[r] = IF 3 \in 2 .. (PerRegion - 1) THEN <<r, 3>> ELSE None
    <3>1. pFree'[r] = NextFree(r, t)  BY <1>2 DEF TypeInv, TypeOK
    <3>2. 3 \in 2 .. (PerRegion - 1) <=> 2 \in 2 .. (PerRegion - 2)  BY SizeAssumption
    <3> QED  BY <1>7, <2>1, <3>1, <3>2 DEF NextFree
  <2>4. ASSUME NEW u
        PROVE  FreeIn(r, u)' <=> /\ u \in Trampolines /\ u[1] = r
                                 /\ u[2] \in 0 .. 1 \/ u[2] >= 3
    <3>1. u \in Trampolines /\ u[1] = r => ~InUse(u)  BY <1>7 DEF FreeInv
    <3>2. ASSUME u \in Trampolines, u[1] = r
          PROVE  u # t <=> (u[2] \in 0 .. 1 \/ u[2] >= 3)
      <4>1. u = <<r, u[2]>> /\ u[2] \in Nat  BY <2>2, <3>2
      <4>2. u # t <=> u[2] # 2  BY <2>1, <4>1
      <4> QED  BY <4>1, <4>2
    <3> QED  BY <1>4, <3>1, <3>2 DEF FreeIn
  <2>5. HeadRight(r)' /\ NextRight(r)' /\ NextDiffers(r)' /\ AllListed(r)'
    <3>1. 3 \in 2 .. 3  OBVIOUS
    <3> QED  BY <2>2, <2>3, <2>4, <3>1, NewRegionFree
  <2> QED  BY <1>1, <1>3, <1>5, <2>5 DEF FreeInv
<1> QED  BY <1>6, <1>7

(* Putting a trampoline back. *)
LEMMA EndOperationFree ==
    ASSUME TypeInv, OpsInv, FreeInv, NEW c \in Callers,
           CommitOperation(c) \/ AbortOperation(c)
    PROVE  FreeInv'
<1>1. PICK ending, kind : EndOperation(c, ending, kind)
                          /\ ending \in {"restore", "abort"}
  BY DEF CommitOperation, AbortOperation
<1>2. PICK t : t = Head(ops).tramp  OBVIOUS
<1>3. ops # <<>> /\ regions' = regions /\ default' = default  BY <1>1 DEF EndOperation
<1>4. Head(ops) = ops[1] /\ 1 \in DOMAIN ops  BY <1>3, WithoutFirst DEF TypeInv, TypeOK
<1>5. t \in Trampolines /\ InUse(t)
  BY <1>2, <1>4, OperationTypes DEF OpsInv, OperationRight, TypeInv
<1>6. PICK r \in Regions : r = t[1]  BY <1>5 DEF Trampolines
<1>7. CASE UNCHANGED <<tramp, pFree, pbRemain>>
  BY <1>3, <1>7
     DEF FreeInv, HeadRight, NextRight, NextDiffers, AllListed, FreeList, FreeIn, InUse
<1>8. CASE FreeTrampoline(t)
  <2>1. /\ tramp' = [tramp EXCEPT ![t] = Zeroed]
        /\ pbRemain' = [pbRemain EXCEPT ![t] = pFree[r]]
        /\ pFree' = [pFree EXCEPT ![r] = t]
    BY <1>6, <1>8 DEF FreeTrampoline
  <2>2. \A u \in Trampolines : InUse(u)' <=> InUse(u) /\ u # t
    BY <1>5, <2>1 DEF InUse, TypeInv, TypeOK
  <2>3. \A q, u : FreeIn(q, u)' <=> FreeIn(q, u) \/ (u = t /\ q = r)
    BY <1>5, <1>6, <2>2 DEF FreeIn
  <2>4. /\ pbRemain'[t] = pFree[r] /\ pFree'[r] = t
        /\ \A u \in Trampolines : u # t => pbRemain'[u] = pbRemain[u]
        /\ \A q \in Regions : q # r => pFree'[q] = pFree[q]
    BY <1>5, <2>1 DEF TypeInv, TypeOK
  <2>5. \A q : ~FreeIn(q, t)  BY <1>5 DEF FreeIn
  <2>6. ASSUME NEW q \in regions
        PROVE  HeadRight(q)' /\ NextRight(q)' /\ NextDiffers(q)' /\ AllListed(q)'
    <3>1. HeadRight(q) /\ NextRight(q) /\ NextDiffers(q) /\ AllListed(q) /\ q \in Regions
      BY DEF FreeInv, TypeInv, TypeOK
    <3>2. PICK w : w = pFree'[q]  OBVIOUS
    <3>3. w = None \/ FreeIn(q, w)'
      BY <2>3, <2>4, <3>1, <3>2 DEF HeadRight
    <3>4. HeadRight(q)'  BY <3>2, <3>3 DEF HeadRight, FreeIn, InUse
    <3>5. ASSUME NEW u \in Trampolines, FreeIn(q, u)', pbRemain'[u] # None
          PROVE  /\ FreeIn(q, pbRemain[u])' /\ pbRemain'[u] # pFree'[q]
                 /\ u = t => q = r /\ pbRemain'[u] = pFree[q]
                 /\ u # t => FreeIn(q, u) /\ pbRemain'[u] = pbRemain[u]
                             /\ pbRemain[u] # pFree[q]
      <4>1. PICK v : v = pbRemain'[u]  OBVIOUS
      <4>2. CASE u = t
        <5>1. q = r  BY <2>3, <2>5, <3>5, <4>2
        <5>2. v = pFree[q] /\ FreeIn(q, v)
          BY <2>4, <3>1, <3>5, <4>1, <4>2, <5>1 DEF HeadRight
        <5>3. FreeIn(q, v)' /\ v # t  BY <2>3, <2>5, <5>2
        <5> QED  BY <2>4, <4>1, <4>2, <5>1, <5>2, <5>3 DEF FreeIn, InUse
      <4>3. CASE u # t
        <5>1. FreeIn(q, u) /\ v = pbRemain[u]  BY <2>3, <2>4, <3>5, <4>1, <4>3
        <5>2. FreeIn(q, v) /\ v # pFree[q]
          BY <3>1, <3>5, <4>1, <5>1 DEF NextRight
        <5>3. FreeIn(q, v)' /\ v # t  BY <2>3, <2>5, <5>2
        <5>4. v # pFree'[q]  BY <2>4, <3>1, <5>2, <5>3
        <5> QED  BY <4>1, <4>3, <5>1, <5>2, <5>3, <5>4 DEF FreeIn, InUse
      <4> QED  BY <4>2, <4>3
    <3>6. NextRight(q)'  BY <3>5 DEF NextRight
    <3>7. NextDiffers(q)'
      <4>1. ASSUME NEW u \in Trampolines, NEW v \in Trampolines,
                   FreeIn(q, u)', FreeIn(q, v)',
                   pbRemain'[u] = pbRemain'[v], pbRemain'[u] # None
            PROVE  u = v
        <5>1. u = t => v = t  BY <3>5, <4>1
        <5>2. v = t => u = t  BY <3>5, <4>1
        <5>3. u # t /\ v # t => u = v  BY <3>1, <3>5, <4>1 DEF NextDiffers
        <5> QED  BY <5>1, <5>2, <5>3
      <4> QED  BY <4>1 DEF NextDiffers
    <3>8. AllListed(q)'
      <4>1. PICK next : next = pbRemain'  OBVIOUS
      <4>2. ASSUME NEW u \in FreeList(q) PROVE u \in Reached(pFree[q], next)
        <5>1. \A v : FreeIn(q, v) => next[v] = pbRemain[v]
          BY <2>4, <2>5, <4>1 DEF FreeIn
        <5> QED  BY <3>1, <5>1, ListAlong
      <4>3. ASSUME NEW u \in Trampolines, FreeIn(q, u)', u[2] > 1 PROVE u \in FreeList(q)'
        <5>1. u # t => u \in Reached(pFree[q], next)
          BY <2>3, <3>1, <4>2, <4>3 DEF AllListed
        <5>2. CASE q = r
          <6>1. next[t] = pFree[q] /\ pFree'[q] = t  BY <2>4, <4>1, <5>2
          <6>2. u \in Reached(next[t], next) \cup {t}  BY <5>1, <6>1
          <6>3. u \in Reached(t, next)  BY <1>5, <6>2, ReachedInFront
          <6> QED  BY <4>1, <6>1, <6>3 DEF FreeList
        <5>3. CASE q # r
          <6>1. u # t /\ pFree'[q] = pFree[q]  BY <2>3, <2>4, <2>5, <3>1, <4>3, <5>3
          <6> QED  BY <4>1, <5>1, <6>1 DEF FreeList
        <5> QED  BY <5>2, <5>3
      <4> QED  BY <4>3 DEF AllListed
    <3> QED  BY <3>4, <3>6, <3>7, <3>8
  <2>7. \A u \in Trampolines : InUse(u)' => u[1] \in regions'
    BY <1>3, <2>2 DEF FreeInv
  <2> QED  BY <1>3, <2>6, <2>7 DEF FreeInv
<1> QED  BY <1>1, <1>2, <1>7, <1>8 DEF EndOperation

(* Releasing regions none of whose trampolines is in use. *)
LEMMA ReleaseFree ==
    ASSUME TypeInv, FreeInv, NEW S, S \subseteq Regions, \A r \in S : RegionEmpty(r),
           ReleaseRegions(S), tramp' = tramp
    PROVE  FreeInv'
<1>1. \A u : InUse(u)' <=> InUse(u)  BY DEF InUse
<1>2. ASSUME NEW u \in Trampolines, InUse(u) PROVE u[1] \in regions'
  <2>1. u[1] \notin S
    <3>1. ASSUME u[1] \in S PROVE FALSE
      <4>1. u = <<u[1], u[2]>> /\ u[2] \in Slots  BY DEF Trampolines
      <4>2. ~InUse(<<u[1], u[2]>>)  BY <3>1, <4>1 DEF RegionEmpty
      <4> QED  BY <1>2, <4>1, <4>2
    <3> QED  BY <3>1
  <2> QED  BY <1>2, <2>1 DEF FreeInv, ReleaseRegions
<1>3. ASSUME NEW q \in regions'
      PROVE  HeadRight(q)' /\ NextRight(q)' /\ NextDiffers(q)' /\ AllListed(q)'
  <2>1. q \in regions /\ q \notin S /\ q \in Regions
    BY DEF ReleaseRegions, TypeInv, TypeOK
  <2>2. HeadRight(q) /\ NextRight(q) /\ NextDiffers(q) /\ AllListed(q)
    BY <2>1 DEF FreeInv
  <2>3. pFree'[q] = pFree[q] /\ \A u \in Trampolines : u[1] = q => pbRemain'[u] = pbRemain[u]
    BY <2>1 DEF ReleaseRegions
  <2>4. \A u : FreeIn(q, u)' <=> FreeIn(q, u)  BY DEF FreeIn, InUse
  <2>5. HeadRight(q)'
    BY <2>2, <2>3 DEF HeadRight, FreeIn, InUse
  <2>6. NextRight(q)'
    <3>1. ASSUME NEW u \in Trampolines, FreeIn(q, u)', pbRemain'[u] # None
          PROVE  FreeIn(q, pbRemain[u])' /\ pbRemain'[u] # pFree'[q]
      <4>1. FreeIn(q, u) /\ pbRemain'[u] = pbRemain[u]  BY <2>3, <2>4, <3>1 DEF FreeIn
      <4> QED  BY <2>2, <2>3, <3>1, <4>1 DEF NextRight, FreeIn, InUse
    <3> QED  BY <3>1 DEF NextRight
  <2>7. NextDiffers(q)'
    <3>1. \A u \in Trampolines : FreeIn(q, u)' => FreeIn(q, u) /\ pbRemain'[u] = pbRemain[u]
      BY <2>3, <2>4 DEF FreeIn
    <3> QED  BY <2>2, <3>1 DEF NextDiffers
  <2>8. AllListed(q)'
    <3>1. ASSUME NEW u \in Trampolines, FreeIn(q, u)', u[2] > 1 PROVE u \in FreeList(q)'
      <4>1. PICK next : next = pbRemain'  OBVIOUS
      <4>2. u \in FreeList(q)  BY <2>2, <2>4, <3>1 DEF AllListed
      <4>3. \A v : FreeIn(q, v) => next[v] = pbRemain[v]  BY <2>3, <4>1 DEF FreeIn
      <4>4. u \in Reached(pFree[q], next)  BY <2>2, <4>2, <4>3, ListAlong
      <4> QED  BY <2>3, <4>1, <4>4 DEF FreeList
    <3> QED  BY <3>1 DEF AllListed
  <2> QED  BY <2>5, <2>6, <2>7, <2>8
<1>4. default' \in regions' \cup {None}  BY DEF FreeInv, ReleaseRegions
<1> QED  BY <1>1, <1>2, <1>3, <1>4 DEF FreeInv

(***************************************************************************)
(* The protections of pages.                                               *)
(***************************************************************************)

(* An operation makes its page writable and keeps what the page had. *)
LEMMA OpeningPages ==
    ASSUME TypeInv, PagesRight, NEW o \in Operations, ops' = <<o>> \o ops,
           o.perm = perm[PageOf[o.target]],
           perm' = [perm EXCEPT ![PageOf[o.target]] = "RWX"]
    PROVE  PagesRight'
<1>1. /\ DOMAIN ops' = 1 .. (Len(ops) + 1) /\ ops'[1] = o
      /\ \A k \in 2 .. (Len(ops) + 1) : ops'[k] = ops[k - 1] /\ k - 1 \in DOMAIN ops
  BY PutInFront DEF TypeInv, TypeOK
<1>2. \A k \in DOMAIN ops :
         k + 1 \in DOMAIN ops' /\ ops'[k + 1] = ops[k] /\ k + 1 > 1 /\ k \in Nat
  <2>1. TAKE k \in DOMAIN ops
  <2>2. k + 1 \in 2 .. (Len(ops) + 1) /\ (k + 1) - 1 = k /\ k \in Nat  BY DEF TypeInv, TypeOK
  <2> QED  BY <1>1, <2>2
<1>3. PICK q \in Pages : q = PageOf[o.target]  BY PlaceAssumption DEF Operations
<1>4. 1 \in DOMAIN ops'  BY <1>1 DEF TypeInv, TypeOK
<1>5. ASSUME NEW p \in Pages
      PROVE  perm'[p] = "RX" \/ \E k \in DOMAIN ops' : PageOf[ops'[k].target] = p
  <2>1. CASE p = q  BY <1>1, <1>3, <1>4, <2>1
  <2>2. CASE p # q
    <3>1. perm'[p] = perm[p]  BY <1>3, <2>2 DEF TypeInv, TypeOK
    <3>2. CASE \E k \in DOMAIN ops : PageOf[ops[k].target] = p  BY <1>2, <3>2
    <3> QED  BY <3>1, <3>2 DEF PagesRight
  <2> QED  BY <2>1, <2>2
<1>6. ASSUME NEW k \in DOMAIN ops'
      PROVE  ops'[k].perm = "RX"
             \/ \E j \in DOMAIN ops' : j > k /\ PageOf[ops'[j].target] = PageOf[ops'[k].target]
  <2>1. CASE k = 1
    <3>1. o.perm = "RX" \/ \E j \in DOMAIN ops : PageOf[ops[j].target] = q
      BY <1>3 DEF PagesRight
    <3>2. ops'[k].perm = o.perm /\ PageOf[ops'[k].target] = q  BY <1>1, <1>3, <2>1
    <3>3. CASE \E j \in DOMAIN ops : PageOf[ops[j].target] = q
      <4>1. PICK j \in DOMAIN ops : PageOf[ops[j].target] = q  BY <3>3
      <4>2. j + 1 \in DOMAIN ops' /\ ops'[j + 1] = ops[j] /\ j + 1 > k  BY <1>2, <2>1
      <4> QED  BY <3>2, <4>1, <4>2
    <3> QED  BY <3>1, <3>2, <3>3
  <2>2. CASE k # 1
    <3>1. ops'[k] = ops[k - 1] /\ k - 1 \in DOMAIN ops /\ k \in Nat  BY <1>1, <2>2
    <3>2. CASE \E j \in DOMAIN ops :
                  j > k - 1 /\ PageOf[ops[j].target] = PageOf[ops[k - 1].target]
      <4>1. PICK j \in DOMAIN ops :
               j > k - 1 /\ PageOf[ops[j].target] = PageOf[ops[k - 1].target]
        BY <3>2
      <4>2. j + 1 \in DOMAIN ops' /\ j + 1 > k /\ ops'[j + 1] = ops[j]  BY <1>2, <3>1, <4>1
      <4> QED  BY <3>1, <4>1, <4>2
    <3> QED  BY <3>1, <3>2 DEF PagesRight
  <2> QED  BY <2>1, <2>2
<1> QED  BY <1>5, <1>6 DEF PagesRight

(* Ending an operation gives its page what it had. *)
LEMMA EndingPages ==
    ASSUME TypeInv, OpsInv, PagesRight, NEW c \in Callers,
           CommitOperation(c) \/ AbortOperation(c)
    PROVE  PagesRight'
<1>1. ops # <<>> /\ ops' = Tail(ops) /\ RestorePerm(Head(ops))
  BY DEF CommitOperation, AbortOperation, EndOperation
<1>2. /\ ops[1] = Head(ops) /\ 1 \in DOMAIN ops
      /\ \A k \in DOMAIN ops' : k + 1 \in DOMAIN ops /\ ops'[k] = ops[k + 1] /\ k \in Nat
      /\ \A k \in DOMAIN ops : k \in Nat /\
            (k # 1 => k - 1 \in DOMAIN ops' /\ ops'[k - 1] = ops[k])
  BY <1>1, WithoutFirst DEF TypeInv, TypeOK
<1>3. PICK q \in Pages : q = PageOf[ops[1].target]
  BY <1>2, PlaceAssumption, OperationTypes DEF TypeInv
<1>4. perm' = [perm EXCEPT ![q] = ops[1].perm]
  BY <1>1, <1>2, <1>3 DEF OpsInv, OperationRight, RestorePerm
<1>5. /\ perm'[q] = ops[1].perm /\ \A p \in Pages : p # q => perm'[p] = perm[p]
  BY <1>3, <1>4 DEF TypeInv, TypeOK
<1>6. ASSUME NEW p \in Pages
      PROVE  perm'[p] = "RX" \/ \E k \in DOMAIN ops' : PageOf[ops'[k].target] = p
  <2>1. perm'[p] = "RX" \/ \E k \in DOMAIN ops : k # 1 /\ PageOf[ops[k].target] = p
    <3>1. CASE p = q
      <4>1. ops[1].perm = "RX" \/ \E j \in DOMAIN ops : j > 1 /\ PageOf[ops[j].target] = q
        BY <1>2, <1>3 DEF PagesRight
      <4> QED  BY <1>2, <1>5, <3>1, <4>1
    <3>2. CASE p # q  BY <1>3, <1>5, <3>2 DEF PagesRight
    <3> QED  BY <3>1, <3>2
  <2> QED  BY <1>2, <2>1
<1>7. ASSUME NEW k \in DOMAIN ops'
      PROVE  ops'[k].perm = "RX"
             \/ \E j \in DOMAIN ops' : j > k /\ PageOf[ops'[j].target] = PageOf[ops'[k].target]
  <2>1. k + 1 \in DOMAIN ops /\ ops'[k] = ops[k + 1] /\ k \in Nat  BY <1>2
  <2>2. CASE \E j \in DOMAIN ops : j > k + 1 /\ PageOf[ops[j].target] = PageOf[ops[k + 1].target]
    <3>1. PICK j \in DOMAIN ops : j > k + 1 /\ PageOf[ops[j].target] = PageOf[ops[k + 1].target]
      BY <2>2
    <3>2. j - 1 \in DOMAIN ops' /\ ops'[j - 1] = ops[j] /\ j - 1 > k  BY <1>2, <2>1, <3>1
    <3> QED  BY <2>1, <3>1, <3>2
  <2> QED  BY <2>1, <2>2 DEF PagesRight
<1> QED  BY <1>6, <1>7 DEF PagesRight

(* An operation that becomes another kind keeps its page. *)
LEMMA SamePages ==
    ASSUME TypeInv, PagesRight, perm' = perm, DOMAIN ops' = DOMAIN ops,
           \A k \in DOMAIN ops : ops'[k].target = ops[k].target /\ ops'[k].perm = ops[k].perm
    PROVE  PagesRight'
  BY DEF PagesRight

(***************************************************************************)
(* Every step.                                                             *)
(***************************************************************************)
LockInv == OwnerRight /\ RegionsProtected /\ EmptyOnlyAtEnd
DetoursInv == TypeInv /\ OpsInv /\ ChainInv /\ FreeInv /\ PagesRight /\ LockInv

(* The invariant holds at first. *)
LEMMA InitInv == Init => DetoursInv
<1> SUFFICES ASSUME Init PROVE DetoursInv  OBVIOUS
<1>1. TypeInv  BY InitTypes
<1>2. ops = <<>> /\ DOMAIN ops = {} /\ phase = "idle" /\ owner = None  BY DEF Init
<1>3. \A t \in Trampolines : ~InUse(t)  BY DEF Init, InUse
<1>4. OpsInv  BY <1>2 DEF OpsInv, PhaseRight, TargetsDiffer
<1>5. ChainInv
  BY <1>3 DEF Init, ChainInv, PatchRight, CopiedRight, OneAbove, NoneAboveTop,
              PointerRight, DetourRight, Linked, LiveFor, Live
<1>6. FreeInv  BY <1>3 DEF Init, FreeInv
<1>7. PagesRight  BY <1>2 DEF Init, PagesRight
<1>8. LockInv  BY <1>2 DEF Init, LockInv, OwnerRight, RegionsProtected, EmptyOnlyAtEnd
<1> QED  BY <1>1, <1>4, <1>5, <1>6, <1>7, <1>8 DEF DetoursInv

(* A step that leaves the operations, the code, the trampolines and the regions alone
   and that starts or ends no loop. *)
LEMMA QuietStep ==
    ASSUME DetoursInv, TypeInv', PhaseRight',
           UNCHANGED <<ops, tramp, patch, pointer, perm, memoryVars>>,
           \A k \in DOMAIN ops : Unapplied(k)' <=> Unapplied(k)
    PROVE  OpsInv' /\ ChainInv' /\ FreeInv' /\ PagesRight'
<1>1. OpsInv' /\ ChainInv'  BY ChainsUntouched DEF DetoursInv
<1>2. FreeInv'
  BY DEF DetoursInv, memoryVars, FreeInv, HeadRight, NextRight, NextDiffers, AllListed,
         FreeList, FreeIn, InUse
<1>3. PagesRight'  BY SamePages DEF DetoursInv
<1> QED  BY <1>1, <1>2, <1>3

(* What keeps the last part of the invariant while the regions stay as they are. *)
LEMMA QuietLock ==
    ASSUME DetoursInv, regions' \subseteq regions, regions' \cap refused \subseteq refused',
           \A t \in Trampolines : InUse(t)' <=> InUse(t)
    PROVE  /\ phase \notin {"restore", "abort"} => EmptyOnlyAtEnd'
           /\ UNCHANGED <<phase, freed>> => EmptyOnlyAtEnd'
<1>1. \A r \in regions : \A s \in Slots : <<r, s>> \in Trampolines
  BY DEF DetoursInv, TypeInv, TypeOK, Trampolines
<1>2. \A r \in regions : RegionEmpty(r)' <=> RegionEmpty(r)  BY <1>1 DEF RegionEmpty
<1> QED  BY <1>2 DEF DetoursInv, LockInv, EmptyOnlyAtEnd

(* Attach keeps all of the invariant. *)
LEMMA AttachInv ==
    ASSUME ~RepeatTarget, DetoursInv, TypeInv',
           NEW c \in Callers, NEW h \in Hooks, Attach(c, h)
    PROVE  DetoursInv'
<1>1. OpsInv' /\ ChainInv'  BY AttachChains DEF DetoursInv
<1>2. FreeInv'  BY AttachFree DEF DetoursInv
<1>3. /\ owner = c /\ owner' = owner /\ phase = "open" /\ phase' = phase
  BY DEF Attach, MayAttach
<1>4. PICK r, o :
        /\ r \in Regions /\ regions' = regions \cup {r} /\ refused' = refused \ {r}
        /\ ops' = <<o>> \o ops /\ o.tramp = FirstFree(r)
        /\ o.target = pointer[h] /\ o.perm = perm[PageOf[pointer[h]]]
        /\ pFree[r] # None \/ r \notin regions
        /\ \A u \in Trampolines : u # FirstFree(r) => tramp'[u] = tramp[u]
        /\ tramp'[FirstFree(r)] # Zeroed
  <2>1. PICK f : f = pointer[h]  OBVIOUS
  <2>2. PICK r \in Regions :
          /\ FoundRegion(r, f) \/ NewRegion(r, f)
          /\ regions' = regions \cup {r} /\ refused' = refused \ {r}
          /\ tramp' = [tramp EXCEPT ![FirstFree(r)] =
                          [target |-> f, copied |-> patch[f], detour |-> h]]
          /\ ops' = <<[kind |-> "add", hook |-> h, target |-> f,
                        tramp |-> FirstFree(r), perm |-> perm[PageOf[f]]]>> \o ops
    BY <2>1 DEF Attach
  <2>3. PICK o : o = [kind |-> "add", hook |-> h, target |-> f,
                      tramp |-> FirstFree(r), perm |-> perm[PageOf[f]]]
    OBVIOUS
  <2>4. o.tramp = FirstFree(r) /\ o.target = f /\ o.perm = perm[PageOf[f]]  BY <2>3
  <2>5. pFree[r] # None \/ r \notin regions  BY <2>2 DEF FoundRegion, NewRegion, Usable
  <2>6. f \in Functions  BY <2>1 DEF Attach, MayAttach
  <2>7. PICK d : d = [target |-> f, copied |-> patch[f], detour |-> h]  OBVIOUS
  <2>8. d \in Contents  BY <2>6, <2>7 DEF Contents, DetoursInv, TypeInv, TypeOK
  <2>9. tramp' = [tramp EXCEPT ![FirstFree(r)] = d]  BY <2>2, <2>7
  <2>10. FirstFree(r) \in Trampolines  BY <2>5, FirstFreeIsFree DEF DetoursInv
  <2>11. /\ \A u \in Trampolines : u # FirstFree(r) => tramp'[u] = tramp[u]
         /\ tramp'[FirstFree(r)] # Zeroed
    BY <2>8, <2>9, <2>10, ZeroedIsNoContents DEF DetoursInv, TypeInv, TypeOK
  <2> QED  BY <2>1, <2>2, <2>3, <2>4, <2>5, <2>11
<1>5. PagesRight'
  <2>1. 1 \in DOMAIN ops' /\ ops'[1] = o  BY <1>4 DEF DetoursInv, TypeInv, TypeOK
  <2>2. o \in Operations  BY <2>1, <1>4 DEF TypeInv, TypeOK
  <2>3. perm' = [perm EXCEPT ![PageOf[o.target]] = "RWX"]  BY <1>4 DEF Attach
  <2> QED  BY <1>4, <2>2, <2>3, OpeningPages DEF DetoursInv
<1>6. OwnerRight' /\ RegionsProtected'
  BY <1>3, DistinctAssumption DEF OwnerRight, RegionsProtected
<1>7. EmptyOnlyAtEnd'
  <2>1. PICK t : t = FirstFree(r)  OBVIOUS
  <2>2. t \in Trampolines /\ t[1] = r  BY <1>4, <2>1, FirstFreeIsFree DEF DetoursInv
  <2>3. ASSUME NEW q \in regions', RegionEmpty(q)' PROVE q \in refused'
    <3>1. q # r
      <4>1. t = <<r, t[2]>> /\ t[2] \in Slots  BY <2>2 DEF Trampolines
      <4>2. tramp'[<<r, t[2]>>] # Zeroed  BY <1>4, <2>1, <4>1
      <4> QED  BY <2>3, <4>1, <4>2 DEF RegionEmpty, InUse
    <3>2. q \in regions /\ q \in Regions  BY <1>4, <3>1 DEF DetoursInv, TypeInv, TypeOK
    <3>3. RegionEmpty(q)
      <4>1. ASSUME NEW s \in Slots PROVE ~InUse(<<q, s>>)
        <5>1. <<q, s>> \in Trampolines  BY <3>2 DEF Trampolines
        <5>2. <<q, s>> # t  BY <2>2, <3>1
        <5> QED  BY <1>4, <2>1, <2>3, <5>1, <5>2 DEF RegionEmpty, InUse
      <4> QED  BY <4>1 DEF RegionEmpty
    <3> QED  BY <1>3, <1>4, <3>1, <3>2, <3>3 DEF DetoursInv, LockInv, EmptyOnlyAtEnd
  <2> QED  BY <2>3 DEF EmptyOnlyAtEnd
<1> QED  BY <1>1, <1>2, <1>5, <1>6, <1>7 DEF DetoursInv, LockInv

(* So does an Attach that fails, *)
LEMMA AttachFailsInv ==
    ASSUME DetoursInv, TypeInv', NEW c \in Callers, NEW h \in Hooks, AttachFails(c, h)
    PROVE  DetoursInv'
<1>1. /\ owner = c /\ owner' = owner /\ phase = "open" /\ phase' = phase
      /\ UNCHANGED <<ops, tramp, patch, pointer, perm, cursor, freed>>
  BY DEF AttachFails, MayAttach, codeVars
<1>2. OpsInv' /\ ChainInv'
  <2>1. \A k \in DOMAIN ops : Unapplied(k)' <=> Unapplied(k)  BY <1>1 DEF Unapplied
  <2>2. PhaseRight'  BY <1>1 DEF PhaseRight
  <2> QED  BY <1>1, <2>1, <2>2, ChainsUntouched DEF DetoursInv
<1>3. \A t \in Trampolines : InUse(t)' <=> InUse(t)  BY <1>1 DEF InUse
<1>4. FreeInv' /\ EmptyOnlyAtEnd'
  <2>1. CASE \E r \in Regions : RegionEmpty(r) /\ ReleaseRegions({r})
    <3>1. PICK r \in Regions : RegionEmpty(r) /\ ReleaseRegions({r})  BY <2>1
    <3>2. FreeInv'  BY <1>1, <3>1, ReleaseFree DEF DetoursInv
    <3>3. regions' \subseteq regions /\ regions' \cap refused \subseteq refused'
      BY <3>1 DEF ReleaseRegions
    <3> QED  BY <1>1, <1>3, <3>2, <3>3, QuietLock
  <2>2. CASE default' \in regions \cup {None} /\ UNCHANGED <<regions, pFree, pbRemain, refused>>
    <3>1. FreeInv'
      BY <1>1, <2>2 DEF DetoursInv, FreeInv, HeadRight, NextRight, NextDiffers, AllListed,
                        FreeList, FreeIn, InUse
    <3> QED  BY <1>1, <1>3, <2>2, <3>1, QuietLock
  <2>3. CASE \E r \in Regions : r \notin regions /\ KeepRefused(r)
    <3>1. PICK r \in Regions : r \notin regions /\ KeepRefused(r)  BY <2>3
    <3>2. FreeInv'  BY <1>1, <3>1, RefusedFree DEF DetoursInv
    <3>3. regions' = regions \cup {r} /\ refused' = refused \cup {r}
      BY <3>1 DEF KeepRefused
    <3>4. ASSUME NEW q \in regions, RegionEmpty(q)' PROVE q \in refused
      <4>1. \A s \in Slots : <<q, s>> \in Trampolines
        BY DEF DetoursInv, TypeInv, TypeOK, Trampolines
      <4>2. RegionEmpty(q)  BY <1>3, <3>4, <4>1 DEF RegionEmpty
      <4> QED  BY <1>1, <4>2 DEF DetoursInv, LockInv, EmptyOnlyAtEnd
    <3>5. EmptyOnlyAtEnd'  BY <3>3, <3>4 DEF EmptyOnlyAtEnd
    <3> QED  BY <3>2, <3>5
  <2> QED  BY <2>1, <2>2, <2>3 DEF AttachFails, FoundRegion, NewRegion, Usable
<1>5. PagesRight'  BY <1>1, SamePages DEF DetoursInv
<1>6. OwnerRight' /\ RegionsProtected'
  BY <1>1, DistinctAssumption DEF OwnerRight, RegionsProtected
<1> QED  BY <1>2, <1>4, <1>5, <1>6 DEF DetoursInv, LockInv

(* a Detach, *)
LEMMA DetachInv ==
    ASSUME ~RepeatTarget, DetoursInv, TypeInv',
           NEW c \in Callers, NEW h \in Hooks, Detach(c, h)
    PROVE  DetoursInv'
<1>1. /\ owner = c /\ owner' = owner /\ phase = "open" /\ phase' = phase
      /\ UNCHANGED <<tramp, patch, pointer, freed, regionPerm, memoryVars>>
  BY DEF Detach, codeVars
<1>2. OpsInv' /\ ChainInv'  BY DetachChains DEF DetoursInv
<1>3. FreeInv'
  BY <1>1 DEF DetoursInv, memoryVars, FreeInv, HeadRight, NextRight, NextDiffers, AllListed,
              FreeList, FreeIn, InUse
<1>4. PagesRight'
  <2>1. PICK f, o : /\ f = tramp[pointer[h]].target
                    /\ o = [kind |-> "remove", hook |-> h, target |-> f,
                            tramp |-> pointer[h], perm |-> perm[PageOf[f]]]
    OBVIOUS
  <2>2. ops' = <<o>> \o ops /\ perm' = [perm EXCEPT ![PageOf[f]] = "RWX"]
    BY <2>1 DEF Detach
  <2>3. o.target = f /\ o.perm = perm[PageOf[f]]  BY <2>1
  <2>4. 1 \in DOMAIN ops' /\ ops'[1] = o  BY <2>2 DEF DetoursInv, TypeInv, TypeOK
  <2>5. o \in Operations  BY <2>4 DEF TypeInv, TypeOK
  <2> QED  BY <2>2, <2>3, <2>5, OpeningPages DEF DetoursInv
<1>5. OwnerRight' /\ RegionsProtected'
  BY <1>1, DistinctAssumption DEF OwnerRight, RegionsProtected
<1>6. EmptyOnlyAtEnd'
  <2>1. \A t \in Trampolines : InUse(t)' <=> InUse(t)  BY <1>1 DEF InUse
  <2> QED  BY <1>1, <2>1, QuietLock DEF memoryVars
<1> QED  BY <1>2, <1>3, <1>4, <1>5, <1>6 DEF DetoursInv, LockInv

(* an operation that Commit applies, *)
LEMMA ApplyInv ==
    ASSUME DetoursInv, TypeInv', NEW c \in Callers,
           ApplyAdd(c) \/ ApplyRemove(c) \/ ApplyBypass(c)
    PROVE  DetoursInv'
<1>1. /\ owner = c /\ owner' = owner /\ phase = "apply" /\ phase' = phase
      /\ UNCHANGED <<perm, freed, regionPerm, memoryVars>>
  BY DEF ApplyAdd, ApplyRemove, ApplyBypass, Applying
<1>2. OpsInv' /\ ChainInv'  BY AddChains, RemoveChains, BypassChains DEF DetoursInv
<1>3. /\ DOMAIN ops' = DOMAIN ops
      /\ \A k \in DOMAIN ops : ops'[k].target = ops[k].target /\ ops'[k].perm = ops[k].perm
      /\ \A u \in Trampolines : InUse(u)' <=> InUse(u)
  <2>1. CASE ops' = ops /\ tramp' = tramp  BY <2>1 DEF InUse
  <2>2. CASE ApplyBypass(c)
    <3>1. PICK n \in DOMAIN ops : n = cursor  BY <2>2 DEF ApplyBypass, Applying
    <3>2. PICK o, t, d : /\ o = [ops[n] EXCEPT !.kind = "bypass"] /\ t = ops[n].tramp
                         /\ d = [tramp[t] EXCEPT !.detour = Bypass]
      OBVIOUS
    <3>3. ops' = [ops EXCEPT ![n] = o] /\ tramp' = [tramp EXCEPT ![t] = d]
      BY <2>2, <3>1, <3>2 DEF ApplyBypass
    <3>4. ops[n] \in Operations /\ t \in Trampolines
      BY <3>2, OperationTypes DEF DetoursInv, TypeInv
    <3>5. o.target = ops[n].target /\ o.perm = ops[n].perm  BY <3>2, <3>4 DEF Operations
    <3>6. InUse(t)  BY <3>2 DEF DetoursInv, OpsInv, OperationRight
    <3>7. d \in Contents
      BY <3>2, <3>4, <3>6, InUseContents DEF DetoursInv, TypeInv, Contents
    <3>8. \A u \in Trampolines : InUse(u)' <=> InUse(u)
      BY <3>3, <3>4, <3>6, <3>7, ZeroedIsNoContents DEF InUse, DetoursInv, TypeInv, TypeOK
    <3>9. DOMAIN ops' = DOMAIN ops /\ ops'[n] = o
          /\ \A k \in DOMAIN ops : k # n => ops'[k] = ops[k]
      BY <3>3 DEF DetoursInv, TypeInv, TypeOK
    <3> QED  BY <3>5, <3>8, <3>9
  <2> QED  BY <2>1, <2>2 DEF ApplyAdd, ApplyRemove
<1>4. FreeInv'
  BY <1>1, <1>3 DEF DetoursInv, memoryVars, FreeInv, HeadRight, NextRight, NextDiffers,
                    AllListed, FreeList, FreeIn
<1>5. PagesRight'  BY <1>1, <1>3, SamePages DEF DetoursInv
<1>6. OwnerRight' /\ RegionsProtected'
  BY <1>1, DistinctAssumption DEF OwnerRight, RegionsProtected
<1>7. EmptyOnlyAtEnd'  BY <1>1, <1>3, QuietLock DEF memoryVars
<1> QED  BY <1>2, <1>4, <1>5, <1>6, <1>7 DEF DetoursInv, LockInv

(* the last loop of Commit and Abort, *)
LEMMA EndOperationInv ==
    ASSUME DetoursInv, TypeInv', NEW c \in Callers, CommitOperation(c) \/ AbortOperation(c)
    PROVE  DetoursInv'
<1>1. OpsInv' /\ ChainInv'  BY EndOperationChains DEF DetoursInv
<1>2. FreeInv'  BY EndOperationFree DEF DetoursInv
<1>3. PagesRight'  BY EndingPages DEF DetoursInv
<1>4. /\ owner = c /\ owner' = owner /\ phase' = phase /\ phase \in {"restore", "abort"}
      /\ regions' = regions /\ refused' = refused
      /\ freed' = TRUE \/ (freed' = freed /\ tramp' = tramp)
  BY DEF CommitOperation, AbortOperation, EndOperation, FreeTrampoline
<1>5. OwnerRight' /\ RegionsProtected'
  BY <1>4, DistinctAssumption DEF OwnerRight, RegionsProtected
<1>6. EmptyOnlyAtEnd'
  BY <1>4 DEF DetoursInv, LockInv, EmptyOnlyAtEnd, RegionEmpty, InUse
<1> QED  BY <1>1, <1>2, <1>3, <1>5, <1>6 DEF DetoursInv, LockInv

(* and the end of a transaction, which releases the regions left empty. *)
LEMMA EndTransactionInv ==
    ASSUME DetoursInv, TypeInv', NEW c \in Callers, EndTransaction(c)
    PROVE  DetoursInv'
<1>1. /\ phase \in {"restore", "abort"} /\ phase' = "idle" /\ owner' = None
      /\ ops = <<>> /\ DOMAIN ops = {} /\ \A r \in Regions : regionPerm'[r] = "RX"
      /\ UNCHANGED <<ops, tramp, patch, pointer, perm>>
  BY DEF EndTransaction, codeVars
<1>2. OpsInv' /\ ChainInv'
  <2>1. PhaseRight'  BY <1>1 DEF PhaseRight
  <2> QED  BY <1>1, <2>1, ChainsUntouched DEF DetoursInv
<1>3. PICK S : /\ S = {r \in regions : freed /\ RegionEmpty(r)}
               /\ ReleaseRegions(S)
  BY DEF EndTransaction
<1>4. S \subseteq Regions /\ \A r \in S : RegionEmpty(r)
  BY <1>3 DEF DetoursInv, TypeInv, TypeOK
<1>5. FreeInv'  BY <1>1, <1>3, <1>4, ReleaseFree DEF DetoursInv
<1>6. PagesRight'  BY <1>1, SamePages DEF DetoursInv
<1>7. OwnerRight' /\ RegionsProtected'  BY <1>1 DEF OwnerRight, RegionsProtected
<1>8. EmptyOnlyAtEnd'
  <2>1. ASSUME NEW r \in regions', RegionEmpty(r)' PROVE r \in refused'
    <3>1. r \in regions /\ r \notin S /\ refused' = refused \ S  BY <1>3 DEF ReleaseRegions
    <3>2. RegionEmpty(r)  BY <1>1, <2>1 DEF RegionEmpty, InUse
    <3> QED  BY <1>3, <3>1, <3>2 DEF DetoursInv, LockInv, EmptyOnlyAtEnd
  <2> QED  BY <2>1 DEF EmptyOnlyAtEnd
<1> QED  BY <1>2, <1>5, <1>6, <1>7, <1>8 DEF DetoursInv, LockInv

(* Beginning, starting the loops, and the threads that run. *)
LEMMA OtherInv ==
    ASSUME DetoursInv, TypeInv',
           \/ \E c \in Callers : Begin(c) \/ MakeWritable(c) \/ OpenTransaction(c)
                                 \/ Commit(c) \/ Abort(c) \/ UpdateThreads(c)
           \/ \E x \in Runners : Run(x)
           \/ UNCHANGED vars
    PROVE  DetoursInv'
<1> USE DEF codeVars, memoryVars
<1>1. UNCHANGED <<tramp, patch, pointer, perm, memoryVars>> /\ ops' = ops
  <2>1. CASE \E c \in Callers : OpenTransaction(c)
    <3>1. ops = <<>>  BY <2>1 DEF OpenTransaction, DetoursInv, OpsInv, PhaseRight
    <3> QED  BY <2>1, <3>1 DEF OpenTransaction
  <2> QED  BY <2>1 DEF Begin, MakeWritable, Commit, Abort, UpdateThreads, Run, vars
<1>2. PhaseRight' /\ \A k \in DOMAIN ops : Unapplied(k)' <=> Unapplied(k)
  <2>1. PhaseRight /\ DOMAIN ops = 1 .. Len(ops) /\ Len(ops) \in Nat
    BY DEF DetoursInv, OpsInv, TypeInv, TypeOK
  <2>2. ASSUME NEW c \in Callers, Begin(c) \/ MakeWritable(c) \/ OpenTransaction(c)
        PROVE  PhaseRight' /\ \A k \in DOMAIN ops : Unapplied(k)' <=> Unapplied(k)
    <3>1. /\ phase \in {"idle", "writable"} /\ phase' \in {"idle", "writable", "open"}
      <4>1. ASSUME Begin(c) PROVE phase = "idle" /\ phase' = "writable"
        BY <4>1 DEF Begin, DetoursInv, LockInv, OwnerRight
      <4> QED  BY <2>2, <4>1 DEF MakeWritable, OpenTransaction
    <3>2. ops = <<>> /\ DOMAIN ops = {}  BY <2>1, <3>1 DEF PhaseRight
    <3> QED  BY <1>1, <3>1, <3>2 DEF PhaseRight
  <2>3. ASSUME NEW c \in Callers, Commit(c) \/ Abort(c)
        PROVE  PhaseRight' /\ \A k \in DOMAIN ops : Unapplied(k)' <=> Unapplied(k)
    <3>1. phase = "open" /\ ((phase' = "apply" /\ cursor' = 1) \/ phase' = "abort")
      BY <2>3 DEF Commit, Abort
    <3> QED  BY <1>1, <2>1, <3>1 DEF PhaseRight, Unapplied
  <2>4. ASSUME NEW c \in Callers, UpdateThreads(c)
        PROVE  PhaseRight' /\ \A k \in DOMAIN ops : Unapplied(k)' <=> Unapplied(k)
    <3>1. phase = "apply" /\ phase' = "restore" /\ cursor = Len(ops) + 1
      BY <2>4 DEF UpdateThreads
    <3> QED  BY <1>1, <2>1, <3>1 DEF PhaseRight, Unapplied
  <2>5. ASSUME UNCHANGED <<phase, cursor>>
        PROVE  PhaseRight' /\ \A k \in DOMAIN ops : Unapplied(k)' <=> Unapplied(k)
    BY <1>1, <2>1, <2>5 DEF PhaseRight, Unapplied
  <2> QED  BY <2>2, <2>3, <2>4, <2>5 DEF Run, vars
<1>3. OpsInv' /\ ChainInv' /\ FreeInv' /\ PagesRight'  BY <1>1, <1>2, QuietStep
<1>4. OwnerRight /\ RegionsProtected /\ TypeOK  BY DEF DetoursInv, LockInv, TypeInv
<1>5. OwnerRight'
  BY <1>4, DistinctAssumption
     DEF OwnerRight, Begin, MakeWritable, OpenTransaction, Commit, Abort, UpdateThreads,
         Run, vars
<1>6. RegionsProtected'
  BY <1>4, DistinctAssumption
     DEF RegionsProtected, Begin, MakeWritable, OpenTransaction, Commit, Abort,
         UpdateThreads, Run, vars
<1>7. EmptyOnlyAtEnd'
  <2>1. \A t \in Trampolines : InUse(t)' <=> InUse(t)  BY <1>1 DEF InUse
  <2>2. phase \notin {"restore", "abort"} \/ UNCHANGED <<phase, freed>>
    BY <1>4 DEF Begin, MakeWritable, OpenTransaction, Commit, Abort, UpdateThreads, Run,
                vars, OwnerRight
  <2> QED  BY <1>1, <2>1, <2>2, QuietLock
<1> QED  BY <1>3, <1>5, <1>6, <1>7 DEF DetoursInv, LockInv

(* Every step keeps the invariant. *)
LEMMA InvStep == ~RepeatTarget /\ DetoursInv /\ [Next]_vars => DetoursInv'
<1> SUFFICES ASSUME ~RepeatTarget, DetoursInv, [Next]_vars PROVE DetoursInv'  OBVIOUS
<1>1. TypeInv'  BY TypeStep DEF DetoursInv
<1>2. ASSUME NEW c \in Callers, NEW h \in Hooks,
             Attach(c, h) \/ AttachFails(c, h) \/ Detach(c, h)
      PROVE  DetoursInv'
  BY <1>1, <1>2, AttachInv, AttachFailsInv, DetachInv
<1>3. ASSUME NEW c \in Callers, EndStep(c), ~UpdateThreads(c) PROVE DetoursInv'
  BY <1>1, <1>3, ApplyInv, EndOperationInv, EndTransactionInv DEF EndStep
<1>4. CASE \/ \E c \in Callers : Begin(c) \/ MakeWritable(c) \/ OpenTransaction(c)
                                 \/ Commit(c) \/ Abort(c) \/ UpdateThreads(c)
           \/ \E x \in Runners : Run(x)
           \/ UNCHANGED vars
  BY <1>1, <1>4, OtherInv
<1> QED  BY <1>2, <1>3, <1>4 DEF Next, CallerStep

(***************************************************************************)
(* Moving the threads.                                                     *)
(***************************************************************************)

(* The place of a thread says what it is in. *)
LEMMA PlacesDiffer ==
    /\ \A f, g : Entry(f) # Middle(g) /\ (Middle(f) = Middle(g) => f = g)
    /\ \A f, t : /\ Entry(f) \notin {In(t), Copy(t), Rest(t)}
                 /\ Middle(f) \notin {In(t), Copy(t), Rest(t)}
    /\ \A t, u : /\ In(t) \notin {Copy(u), Rest(u)} /\ Copy(t) # Rest(u)
                 /\ In(t) = In(u) => t = u
                 /\ Copy(t) = Copy(u) => t = u
                 /\ Rest(t) = Rest(u) => t = u
    /\ \A f, g : /\ Entry(f) # Lost(g) /\ Middle(f) # Lost(g)
                 /\ Lost(f) = Lost(g) => f = g
    /\ \A t, f : In(t) # Lost(f) /\ Copy(t) # Lost(f) /\ Rest(t) # Lost(f)
    /\ \A h : /\ \A f : InDetour(h) # Lost(f)
              /\ \A f : InDetour(h) # Middle(f)
              /\ \A t : InDetour(h) \notin {In(t), Copy(t), Rest(t)}
    /\ \A f : Out # Lost(f) /\ Out # Middle(f)
    /\ \A t : Out \notin {In(t), Copy(t), Rest(t)}
<1>1. \A f, g : Entry(f) # Middle(g) /\ (Middle(f) = Middle(g) => f = g)
  BY DEF Entry, Middle
<1>2. \A f, t : /\ Entry(f) \notin {In(t), Copy(t), Rest(t)}
                /\ Middle(f) \notin {In(t), Copy(t), Rest(t)}
  BY DEF Entry, Middle, In, Copy, Rest
<1>3. \A t, u : In(t) \notin {Copy(u), Rest(u)} /\ Copy(t) # Rest(u)
  BY DEF In, Copy, Rest
<1>4. \A t, u : In(t) = In(u) => t = u  BY DEF In
<1>5. \A t, u : Copy(t) = Copy(u) => t = u  BY DEF Copy
<1>6. \A t, u : Rest(t) = Rest(u) => t = u  BY DEF Rest
<1>7. \A f, g : /\ Entry(f) # Lost(g) /\ Middle(f) # Lost(g)
                /\ Lost(f) = Lost(g) => f = g
  BY DEF Entry, Middle, Lost
<1>8. \A t, f : In(t) # Lost(f) /\ Copy(t) # Lost(f) /\ Rest(t) # Lost(f)
  BY DEF In, Copy, Rest, Lost
<1>9. \A h, f : InDetour(h) # Lost(f)  BY DEF InDetour, Lost
<1>10. \A h, f : InDetour(h) # Middle(f)  BY DEF InDetour, Middle
<1>11. \A h, t : InDetour(h) \notin {In(t), Copy(t), Rest(t)}  BY DEF InDetour, In, Copy, Rest
<1>12. /\ \A f : Out # Lost(f) /\ Out # Middle(f)
       /\ \A t : Out \notin {In(t), Copy(t), Rest(t)}
  BY DEF Out, Lost, Middle, In, Copy, Rest
<1> QED
  BY <1>1, <1>2, <1>3, <1>4, <1>5, <1>6, <1>7, <1>8, <1>9, <1>10, <1>11, <1>12

(* A place at which nothing needs to be moved any more. *)
Settled(l) ==
    /\ \A f \in Functions \ LongPrologues : l # Lost(f)
    /\ \A f \in Functions : l = Middle(f) => patch[f] = Original
    /\ \A t \in Trampolines :
          /\ l \in {In(t), Copy(t), Rest(t)} => Live(t)
          /\ l = Rest(t) => tramp[t].copied = Original

(* With every operation applied, each thread is moved to where it can go on. *)
LEMMA MovedRight ==
    ASSUME DetoursInv, phase = "apply", \A k \in DOMAIN ops : ~Unapplied(k),
           NEW l, PlaceRight(l)
    PROVE  \A n \in Updated(l) : Settled(n)
<1> DEFINE moving == {k \in DOMAIN ops : MovedBy(ops[k], l) # {l}}
<1>1. ASSUME NEW k \in DOMAIN ops
      PROVE  /\ ops[k].target \in Functions /\ ops[k].tramp \in Trampolines
             /\ InUse(ops[k].tramp) /\ tramp[ops[k].tramp].target = ops[k].target
             /\ Unlinked(k) <=> ops[k].kind = "remove"
             /\ Unlinked(k) => tramp[ops[k].tramp].copied = patch[ops[k].target]
             /\ ops[k].kind = "add" => patch[ops[k].target] = ops[k].tramp
  BY OperationTypes DEF DetoursInv, TypeInv, OpsInv, OperationRight, Unlinked
<1>2. CASE moving = {}
  <2>1. Updated(l) = {l}  BY <1>2 DEF Updated
  <2>2. \A k \in DOMAIN ops : MovedBy(ops[k], l) = {l}  BY <1>2
  <2>3. ASSUME NEW f \in Functions, l = Middle(f), Covered(f) PROVE FALSE
    <3>1. PICK k \in DOMAIN ops : ops[k].kind = "add" /\ ops[k].target = f
      BY <2>3 DEF Covered
    <3>2. l # Entry(f)  BY <2>3, PlacesDiffer
    <3>3. MovedBy(ops[k], l) = {Rest(ops[k].tramp)}  BY <2>3, <3>1, <3>2 DEF MovedBy
    <3>4. Rest(ops[k].tramp) # Middle(f)  BY PlacesDiffer
    <3> QED  BY <2>2, <2>3, <3>3, <3>4
  <2>4. ASSUME NEW t \in Trampolines, l \in {In(t), Copy(t), Rest(t)}, Removed(t) PROVE FALSE
    <3>1. PICK k \in DOMAIN ops : ops[k].kind = "remove" /\ ops[k].tramp = t
      BY <2>4 DEF Removed
    <3>2. CASE l \in {In(t), Copy(t)}
      <4>0. l # Rest(t)  BY <3>2, PlacesDiffer
      <4>1. MovedBy(ops[k], l) = {Entry(ops[k].target)}  BY <3>1, <3>2, <4>0 DEF MovedBy
      <4>2. Entry(ops[k].target) \notin {In(t), Copy(t), Rest(t)}  BY PlacesDiffer
      <4> QED  BY <2>2, <2>4, <4>1, <4>2
    <3>3. CASE l = Rest(t)
      <4>1. l \notin {In(t), Copy(t)}  BY <3>3, PlacesDiffer
      <4>2. Middle(ops[k].target) \in MovedBy(ops[k], l)  BY <3>1, <3>3, <4>1 DEF MovedBy
      <4>3. Middle(ops[k].target) \notin {In(t), Copy(t), Rest(t)}  BY PlacesDiffer
      <4> QED  BY <2>2, <2>4, <4>2, <4>3
    <3> QED  BY <2>4, <3>2, <3>3
  <2> QED  BY <2>1, <2>3, <2>4 DEF Settled, PlaceRight, MayBeInside, MayHold
<1>3. CASE moving # {}
  <2> DEFINE first == CHOOSE k \in moving : \A j \in moving : k <= j
  <2>1. Updated(l) = MovedBy(ops[first], l)  BY <1>3 DEF Updated
  <2>2. first \in moving
    <3>1. moving \subseteq Nat  BY DEF DetoursInv, TypeInv, TypeOK
    <3> HIDE DEF moving
    <3>2. \E k \in moving : \A j \in moving : k <= j  BY <1>3, <3>1, LeastIn
    <3> QED  BY <3>2
  <2>3. PICK k \in DOMAIN ops : k = first /\ MovedBy(ops[k], l) # {l}  BY <2>2
  <2>4. PICK t, f : t = ops[k].tramp /\ f = ops[k].target  OBVIOUS
  <2>5. Updated(l) = MovedBy(ops[k], l)  BY <2>1, <2>3
  <2> HIDE DEF moving, first
  <2>6. t \in Trampolines /\ f \in Functions  BY <1>1, <2>4
  <2>7. CASE ops[k].kind = "remove" /\ l \in {In(t), Copy(t)}
    <3>1. l # Rest(t)  BY <2>7, PlacesDiffer
    <3>2. Updated(l) = {Entry(f)}  BY <2>4, <2>5, <2>7, <3>1 DEF MovedBy
    <3> QED  BY <3>2, PlacesDiffer DEF Settled
  <2>8. CASE ops[k].kind = "remove" /\ l = Rest(t)
    <3>1. l \notin {In(t), Copy(t)}  BY <2>8, PlacesDiffer
    <3>2. ASSUME NEW n \in Updated(l)
          PROVE  n \in {Middle(f), Entry(f)} \/ (n = Lost(f) /\ f \in LongPrologues)
      BY <2>4, <2>5, <2>8, <3>1 DEF MovedBy, LosesBits
    <3>3. patch[f] = Original  BY <1>1, <2>4, <2>6, <2>8 DEF PlaceRight
    <3>4. Settled(Middle(f)) /\ Settled(Entry(f))  BY <3>3, PlacesDiffer DEF Settled
    <3>5. f \in LongPrologues => Settled(Lost(f))  BY PlacesDiffer DEF Settled
    <3> QED  BY <3>2, <3>4, <3>5
  <2>9. ASSUME ops[k].kind = "add" PROVE Live(t)
    <3>1. ASSUME NEW j \in DOMAIN ops, Unlinked(j), ops[j].tramp = t PROVE FALSE
      <4>1. j = k  BY <2>4, <3>1, TrampolinesDiffer DEF DetoursInv
      <4> QED  BY <1>1, <2>9, <3>1, <4>1
    <3> QED  BY <1>1, <2>4, <2>6, <3>1 DEF Live, Loose
  <2>10. CASE ops[k].kind = "add" /\ l = Entry(f)
    <3>1. l # Middle(f)  BY <2>10, PlacesDiffer
    <3>2. ASSUME NEW n \in Updated(l)
          PROVE  n = Copy(t) \/ (n = Rest(t) /\ tramp[t].copied = Original)
      BY <2>4, <2>5, <2>10, <3>1 DEF MovedBy, LosesBits
    <3>3. Settled(Copy(t))  BY <2>9, <2>10, PlacesDiffer DEF Settled
    <3>4. tramp[t].copied = Original => Settled(Rest(t))
      BY <2>9, <2>10, PlacesDiffer DEF Settled
    <3> QED  BY <3>2, <3>3, <3>4
  <2>11. CASE ops[k].kind = "add" /\ l = Middle(f)
    <3>1. l # Entry(f)  BY <2>11, PlacesDiffer
    <3>2. Updated(l) = {Rest(t)}  BY <2>4, <2>5, <2>11, <3>1 DEF MovedBy
    <3>3. patch[f] # Original  BY <1>1, <2>4, <2>6, <2>11, DistinctAssumption
    <3>4. Covered(f)  BY <2>6, <2>11, <3>3 DEF PlaceRight, MayBeInside
    <3>5. tramp[t].copied = Original
      <4>1. PICK j \in DOMAIN ops :
              ops[j].target = f /\ tramp[ops[j].tramp].copied = Original
        BY <3>4 DEF Covered
      <4>2. j = k  BY <2>4, <4>1 DEF DetoursInv, OpsInv, TargetsDiffer
      <4> QED  BY <2>4, <4>1, <4>2
    <3> QED  BY <2>9, <2>11, <3>2, <3>5, PlacesDiffer DEF Settled
  <2> QED  BY <2>3, <2>4, <2>7, <2>8, <2>10, <2>11 DEF MovedBy
<1> QED  BY <1>2, <1>3

(* A step of a thread that nobody suspends leads to such a place. *)
LEMMA RunRight ==
    ASSUME DetoursInv, phase # "apply", ops = <<>>, NEW l, Settled(l), NEW n, Moves(l, n)
    PROVE  Settled(n)
<1>1. \A f : ~BeingPatched(f)  BY DEF BeingPatched
<1>2. \A f \in Functions : patch[f] = Original \/ (Live(patch[f]) /\ patch[f] \in Trampolines)
  BY DEF DetoursInv, ChainInv, PatchRight, LiveFor, Live
<1>3. CASE l = Out /\ \E f \in Functions : n = Entry(f)
  BY <1>3, PlacesDiffer DEF Settled
<1>4. CASE \E f \in Functions : l = Entry(f) /\ n = FromEntry(f)
  <2>1. PICK f \in Functions : n = FromEntry(f)  BY <1>4
  <2>2. CASE patch[f] = Original
    <3>1. n = Middle(f)  BY <2>1, <2>2 DEF FromEntry
    <3> QED  BY <2>2, <3>1, PlacesDiffer DEF Settled
  <2>3. CASE patch[f] # Original
    <3>1. n = In(patch[f]) /\ Live(patch[f])  BY <1>2, <2>1, <2>3 DEF FromEntry
    <3> QED  BY <3>1, PlacesDiffer DEF Settled
  <2> QED  BY <2>2, <2>3
<1>5. CASE \E f \in Functions :
             l = Middle(f) /\ n = IF patch[f] = Original THEN Out ELSE Lost(f)
  BY <1>5, PlacesDiffer DEF Settled
<1>6. CASE \E t \in Trampolines : l = In(t) /\ n = FromIn(t)
  <2>1. PICK t \in Trampolines : l = In(t) /\ n = FromIn(t)  BY <1>6
  <2>2. Live(t)  BY <2>1 DEF Settled
  <2> QED  BY <2>1, <2>2, PlacesDiffer DEF Settled, FromIn
<1>7. CASE \E t \in Trampolines : l = Copy(t) /\ n = FromCopy(t)
  <2>1. PICK t \in Trampolines : l = Copy(t) /\ n = FromCopy(t)  BY <1>7
  <2>2. Live(t) /\ InUse(t)  BY <2>1 DEF Settled, Live
  <2>3. CASE tramp[t].copied \in Trampolines
    <3>1. Live(tramp[t].copied)
      BY <2>2, <2>3, DistinctAssumption DEF DetoursInv, ChainInv, CopiedRight, LiveFor
    <3>2. n = In(tramp[t].copied)  BY <2>1, <2>3 DEF FromCopy
    <3> QED  BY <3>1, <3>2, PlacesDiffer DEF Settled
  <2>4. CASE tramp[t].copied \notin Trampolines
    <3>1. tramp[t].copied = Original
      BY <2>2, <2>4, InUseContents DEF DetoursInv, TypeInv, Contents
    <3>2. n = Rest(t)  BY <2>1, <2>4 DEF FromCopy
    <3> QED  BY <2>2, <3>1, <3>2, PlacesDiffer DEF Settled
  <2> QED  BY <2>3, <2>4
<1>8. CASE n = Out  BY <1>8, PlacesDiffer DEF Settled
<1>9. CASE \E h \in Hooks : n = Callee(pointer[h])
  <2>1. PICK h \in Hooks : n = Callee(pointer[h])  BY <1>9
  <2>2. CASE pointer[h] \in Functions
    BY <2>1, <2>2, PlacesDiffer DEF Callee, Settled
  <2>3. CASE pointer[h] \notin Functions
    <3>1. Live(pointer[h])
      BY <2>3, PlaceAssumption DEF DetoursInv, ChainInv, PointerRight, LiveFor
    <3>2. n = Copy(pointer[h])  BY <2>1, <2>3 DEF Callee
    <3> QED  BY <3>1, <3>2, PlacesDiffer DEF Settled
  <2> QED  BY <2>2, <2>3
<1> QED  BY <1>1, <1>3, <1>4, <1>5, <1>6, <1>7, <1>8, <1>9 DEF Moves

(* The steps of the API that leave the threads where they are keep their places good. *)
LEMMA StepKeepsPlaces ==
    ASSUME ~RepeatTarget, DetoursInv, DetoursInv', [Next]_vars,
           \A c \in Callers : ~UpdateThreads(c)
    PROVE  PlacesKept
<1> USE DEF codeVars, memoryVars
<1>1. CASE \E c \in Callers, h \in Hooks : Attach(c, h)
  BY <1>1, AttachChains DEF DetoursInv
<1>2. CASE \E c \in Callers, h \in Hooks : Detach(c, h)
  BY <1>2, DetachChains DEF DetoursInv
<1>3. CASE \E c \in Callers : ApplyAdd(c) \/ ApplyRemove(c) \/ ApplyBypass(c)
  BY <1>3, AddChains, RemoveChains, BypassChains DEF DetoursInv
<1>4. CASE \E c \in Callers : CommitOperation(c) \/ AbortOperation(c)
  BY <1>4, EndOperationChains DEF DetoursInv
<1>5. ASSUME UNCHANGED <<ops, tramp, patch>>,
             phase = "apply" => UNCHANGED <<phase, cursor>>,
             \A t : Live(t)' <=> Live(t)
      PROVE  PlacesKept
  BY <1>5 DEF PlacesKept, MayBeInside, MayHold, Covered, Removed, Unapplied
<1>6. ASSUME UNCHANGED <<ops, tramp, patch, pointer>>,
             phase = "apply" => UNCHANGED <<phase, cursor>>,
             \A k \in DOMAIN ops : Unapplied(k)' <=> Unapplied(k)
      PROVE  PlacesKept
  <2>1. \A t : Live(t)' <=> Live(t)  BY <1>6, ChainsUntouched DEF DetoursInv, OpsInv
  <2> QED  BY <1>5, <1>6, <2>1
<1>7. CASE \E c \in Callers : \/ Begin(c) \/ MakeWritable(c) \/ OpenTransaction(c)
                              \/ EndTransaction(c)
  <2>1. ops = <<>> /\ ops' = <<>> /\ phase # "apply" /\ UNCHANGED <<tramp, patch, pointer>>
    BY <1>7 DEF Begin, MakeWritable, OpenTransaction, EndTransaction, DetoursInv, OpsInv,
                PhaseRight, LockInv, OwnerRight
  <2> QED  BY <1>6, <2>1
<1>8. CASE \E c \in Callers : Commit(c) \/ Abort(c)
  <2>1. /\ phase = "open" /\ UNCHANGED <<ops, tramp, patch, pointer>>
        /\ (phase' = "apply" /\ cursor' = 1) \/ phase' = "abort"
    BY <1>8 DEF Commit, Abort
  <2>2. \A k \in DOMAIN ops : k \in Nat /\ k >= 1  BY DEF DetoursInv, TypeInv, TypeOK
  <2>3. \A k \in DOMAIN ops : Unapplied(k)' <=> Unapplied(k)  BY <2>1, <2>2 DEF Unapplied
  <2> QED  BY <1>6, <2>1, <2>3
<1>9. CASE (\E c \in Callers, h \in Hooks : AttachFails(c, h)) \/ (\E x \in Runners : Run(x))
           \/ UNCHANGED vars
  <2>1. UNCHANGED <<ops, tramp, patch, pointer, phase, cursor>>
    BY <1>9 DEF AttachFails, Run, vars
  <2>2. \A k \in DOMAIN ops : Unapplied(k)' <=> Unapplied(k)  BY <2>1 DEF Unapplied
  <2> QED  BY <1>6, <2>1, <2>2
<1> QED
  BY <1>1, <1>2, <1>3, <1>4, <1>7, <1>8, <1>9 DEF Next, CallerStep, EndStep

(* Every step keeps the threads where they can go on. *)
LEMMA ThreadsStep ==
    ASSUME ~RepeatTarget, SuspendOptions \subseteq {TRUE},
           DetoursInv, DetoursInv', ThreadsRight, [Next]_vars
    PROVE  ThreadsRight'
<1> USE DEF codeVars, memoryVars
<1>1. (phase \in {"open", "apply", "restore", "abort"} => suspended)'
  <2>1. CASE UNCHANGED <<phase, suspended>>  BY <2>1 DEF ThreadsRight
  <2>2. ASSUME NEW c \in Callers,
               \/ Begin(c) \/ MakeWritable(c) \/ OpenTransaction(c) \/ EndTransaction(c)
        PROVE  (phase \in {"open", "apply", "restore", "abort"} => suspended)'
    <3>1. phase' \in {"idle", "writable"} \/ suspended' = TRUE \/ UNCHANGED <<phase, suspended>>
      BY <2>2 DEF Begin, MakeWritable, OpenTransaction, EndTransaction
    <3> QED  BY <3>1 DEF ThreadsRight
  <2>3. ASSUME NEW c \in Callers, Commit(c) \/ Abort(c) \/ UpdateThreads(c)
        PROVE  suspended' = TRUE
    <3>1. suspended  BY <2>3 DEF ThreadsRight, Commit, Abort, UpdateThreads
    <3> QED  BY <2>3, <3>1 DEF Commit, Abort, UpdateThreads, DetoursInv, TypeInv, TypeOK
  <2>4. ASSUME NEW c \in Callers, NEW h \in Hooks,
               Attach(c, h) \/ AttachFails(c, h) \/ Detach(c, h)
        PROVE  UNCHANGED <<phase, suspended>>
    BY <2>4 DEF Attach, AttachFails, Detach
  <2>5. ASSUME NEW c \in Callers,
               \/ ApplyAdd(c) \/ ApplyRemove(c) \/ ApplyBypass(c)
               \/ CommitOperation(c) \/ AbortOperation(c)
        PROVE  UNCHANGED <<phase, suspended>>
    BY <2>5 DEF ApplyAdd, ApplyRemove, ApplyBypass, CommitOperation, AbortOperation,
                EndOperation
  <2>6. CASE (\E x \in Runners : Run(x)) \/ UNCHANGED vars
    BY <2>1, <2>6 DEF Run, vars
  <2> QED  BY <2>1, <2>2, <2>3, <2>4, <2>5, <2>6 DEF Next, CallerStep, EndStep
<1>2. CASE \E c \in Callers : UpdateThreads(c)
  <2>1. /\ phase = "apply" /\ cursor = Len(ops) + 1 /\ phase' = "restore"
        /\ UNCHANGED <<ops, tramp, patch, pointer, suspended>>
        /\ \A x \in Runners :
              location'[x] \in IF suspended THEN Updated(location[x]) ELSE {location[x]}
    BY <1>2 DEF UpdateThreads
  <2>2. suspended  BY <2>1 DEF ThreadsRight
  <2>3. \A k \in DOMAIN ops : ~Unapplied(k) /\ ~Unapplied(k)'
    BY <2>1 DEF Unapplied, DetoursInv, TypeInv, TypeOK
  <2>4. \A t : Live(t)' <=> Live(t)
    BY <2>1, <2>3, ChainsUntouched DEF DetoursInv, OpsInv
  <2>5. ASSUME NEW x \in Runners PROVE PlaceRight(location[x])'
    <3>1. PICK n : n = location'[x]  OBVIOUS
    <3>2. n \in Updated(location[x])  BY <2>1, <2>2, <3>1
    <3>3. Settled(n)  BY <2>1, <2>3, <3>2, MovedRight DEF ThreadsRight
    <3> QED  BY <2>1, <2>4, <3>1, <3>3 DEF Settled, PlaceRight, MayBeInside, MayHold
  <2> QED  BY <1>1, <2>5 DEF ThreadsRight
<1>3. CASE \A c \in Callers : ~UpdateThreads(c)
  <2>1. PlacesKept  BY <1>3, StepKeepsPlaces
  <2>2. ASSUME NEW l, PlaceRight(l)
        PROVE  /\ \A f \in Functions \ LongPrologues : l # Lost(f)
               /\ \A f \in Functions : l = Middle(f) => MayBeInside(f)'
               /\ \A t \in Trampolines :
                    /\ l \in {In(t), Copy(t), Rest(t)} => MayHold(t)'
                    /\ l = Rest(t) => tramp'[t].copied = Original
    BY <2>1, <2>2 DEF PlacesKept, PlaceRight
  <2>3. CASE UNCHANGED location
    <3>1. ASSUME NEW x \in Runners PROVE PlaceRight(location[x])'
      <4>1. PICK l : l = location[x] /\ PlaceRight(l)  BY DEF ThreadsRight
      <4> QED  BY <2>2, <2>3, <4>1 DEF PlaceRight
    <3> QED  BY <1>1, <3>1 DEF ThreadsRight
  <2>4. CASE \E x \in Runners : Run(x)
    <3>1. PICK y, n :
            /\ y \in Runners /\ ~suspended /\ Moves(location[y], n)
            /\ location' = [location EXCEPT ![y] = n]
            /\ UNCHANGED <<phase, ops, cursor, tramp, patch, pointer>>
      BY <2>4 DEF Run
    <3>2. phase \in {"idle", "writable"} /\ ops = <<>>
      BY <3>1 DEF ThreadsRight, DetoursInv, TypeInv, TypeOK, OpsInv, PhaseRight
    <3>3. Settled(location[y])
      BY <3>1, <3>2 DEF ThreadsRight, PlaceRight, Settled, MayBeInside, MayHold, Covered, Removed
    <3>4. PICK l : l = location[y]  OBVIOUS
    <3>5. Settled(n)  BY <3>1, <3>2, <3>3, <3>4, RunRight
    <3>6. PlaceRight(n)  BY <3>5 DEF Settled, PlaceRight, MayBeInside, MayHold
    <3>7. ASSUME NEW x \in Runners PROVE PlaceRight(location[x])'
      <4>1. PICK m : m = location'[x]  OBVIOUS
      <4>2. PlaceRight(m)
        BY <3>1, <3>6, <4>1 DEF ThreadsRight, DetoursInv, TypeInv, TypeOK
      <4> QED  BY <2>2, <4>1, <4>2 DEF PlaceRight
    <3> QED  BY <1>1, <3>7 DEF ThreadsRight
  <2>5. UNCHANGED location \/ \E x \in Runners : Run(x)
    <3>1. ASSUME NEW c \in Callers, CallerStep(c) PROVE UNCHANGED location
      BY <1>3, <3>1
         DEF CallerStep, EndStep, Begin, MakeWritable, OpenTransaction,
             Attach, AttachFails, Detach, Commit, Abort, ApplyAdd, ApplyRemove,
             ApplyBypass, CommitOperation, AbortOperation, EndOperation, EndTransaction
    <3> QED  BY <3>1 DEF Next, vars
  <2> QED  BY <2>3, <2>4, <2>5
<1> QED  BY <1>2, <1>3

(***************************************************************************)
(* What follows.                                                           *)
(***************************************************************************)

(* Every variable has its type, whatever callers do: a trampoline whose contents an
   operation will use is not zeroed before it is. *)
THEOREM TypeCorrect == Spec => []TypeOK
<1>1. TypeInv => TypeOK  BY DEF TypeInv
<1> QED  BY InitTypes, TypeStep, <1>1, PTL DEF Spec

(* The invariant from which the rest follows, if no transaction names a function
   twice. *)
LEMMA InvCorrect == ASSUME ~RepeatTarget PROVE Spec => []DetoursInv
<1>1. DetoursInv /\ [Next]_vars => DetoursInv'  BY InvStep
<1> QED  BY InitInv, <1>1, PTL DEF Spec

(* Whatever hooks come and go in whatever order, no jump and no variable of a caller
   leads to a trampoline that was freed: a removed hook that has another one on top
   is bypassed, not freed. *)
THEOREM JumpsCorrect == ASSUME ~RepeatTarget PROVE Spec => []NoDanglingJump
<1>1. \A t, f : LiveFor(t, f) => Serves(t, f)  BY DEF LiveFor, Live, Serves
<1>2. DetoursInv => NoDanglingJump
  BY <1>1 DEF DetoursInv, ChainInv, PatchRight, CopiedRight, PointerRight, NoDanglingJump
<1> QED  BY InvCorrect, <1>2, PTL

(* Outside a transaction a trampoline is in use only for an attached hook, or it was
   bypassed: neither a failed Attach nor an Abort loses one. *)
THEOREM TrampolinesKept == ASSUME ~RepeatTarget PROVE Spec => []NoTrampolineLeaked
<1>1. ASSUME DetoursInv, owner = None, NEW t \in Trampolines, InUse(t)
      PROVE  tramp[t].detour = Bypass \/ \E h \in Hooks : pointer[h] = t
  <2>1. phase = "idle" /\ ops = <<>>
    BY <1>1 DEF DetoursInv, LockInv, OwnerRight, OpsInv, PhaseRight
  <2>2. Loose = {}  BY <2>1 DEF Loose
  <2>3. Live(t)  BY <1>1, <2>2 DEF Live
  <2>4. tramp[t].detour \in Hooks \cup {Bypass}
    BY <1>1, InUseContents DEF DetoursInv, TypeInv, Contents
  <2> QED  BY <1>1, <2>3, <2>4 DEF DetoursInv, ChainInv, DetourRight
<1>2. DetoursInv => NoTrampolineLeaked  BY <1>1 DEF NoTrampolineLeaked
<1> QED  BY InvCorrect, <1>2, PTL

(* The trampoline that an attached hook's variable holds is met, and enters its detour. *)
LEMMA HeldIsCalled ==
    ASSUME DetoursInv, NEW h \in Hooks, pointer[h] \in Trampolines
    PROVE  pointer[h] \in Chain(Home[h]) /\ tramp[pointer[h]].detour = h
<1>1. Home[h] \in Functions /\ Home[h] \notin Trampolines
  BY PlaceAssumption, DistinctAssumption
<1>2. LiveFor(pointer[h], Home[h]) /\ tramp[pointer[h]].detour = h
  BY <1>1 DEF DetoursInv, ChainInv, PointerRight
<1> QED  BY <1>1, <1>2 DEF DetoursInv, ChainInv, Linked

(* A hook whose variable says that it is attached is called: its trampoline is met on
   the way that every call of its function takes, whatever hooks were put on top of it
   and taken away again, and it enters the hook's own detour. *)
THEOREM HooksCalled == ASSUME ~RepeatTarget PROVE Spec => []AttachedHooksRun
<1>1. DetoursInv => AttachedHooksRun  BY HeldIsCalled DEF AttachedHooksRun
<1> QED  BY InvCorrect, <1>1, PTL

(* The free list of a region ends: no two trampolines have the same one behind them and
   none has the first one, so if every one had one behind it there would be one more. *)
LEMMA ListEnds ==
    ASSUME NEW r \in regions, TypeInv, FreeInv, FreeList(r) # {}
    PROVE  \E t \in FreeList(r) : pbRemain[t] = None
<1>1. HeadRight(r) /\ NextRight(r) /\ NextDiffers(r) /\ r \in Regions
  BY DEF FreeInv, TypeInv, TypeOK
<1>2. PICK L : L = FreeList(r)  OBVIOUS
<1>3. Closed(L, pFree[r], pbRemain)  BY <1>2, ReachedClosed DEF FreeList
<1>4. \A t \in L : FreeIn(r, t) /\ t \in Trampolines  BY <1>1, <1>2, ListIsFree DEF FreeIn
<1>5. pFree[r] \in L
  <2>1. ASSUME pFree[r] \notin Trampolines PROVE FALSE
    <3>1. Closed({}, pFree[r], pbRemain)  BY <2>1 DEF Closed
    <3> QED  BY <1>2, <3>1, ReachedWithin DEF FreeList
  <2> QED  BY <1>3, <2>1 DEF Closed
<1>6. IsFiniteSet(L)
  <2>1. L \subseteq {r} \X Slots
    <3>1. ASSUME NEW t \in L PROVE t \in {r} \X Slots
      <4>1. t \in Trampolines /\ t[1] = r  BY <1>4 DEF FreeIn
      <4> QED  BY <4>1 DEF Trampolines
    <3> QED  BY <3>1
  <2>2. IsFiniteSet(Slots)  BY SizeAssumption, FS_Interval DEF Slots
  <2>3. IsFiniteSet({r})  BY FS_Singleton
  <2> QED  BY <2>1, <2>2, <2>3, FS_Product, FS_Subset
<1>7. ASSUME \A t \in L : pbRemain[t] # None PROVE FALSE
  <2>1. PICK M : M = L \ {pFree[r]}  OBVIOUS
  <2>2. /\ IsFiniteSet(M) /\ Cardinality(L) \in Nat /\ Cardinality(M) = Cardinality(L) - 1
    BY <1>5, <1>6, <2>1, FS_RemoveElement, FS_CardinalityType
  <2>3. ASSUME NEW t \in L PROVE pbRemain[t] \in M
    <3>1. FreeIn(r, pbRemain[t]) /\ pbRemain[t] # pFree[r]
      BY <1>1, <1>4, <1>7 DEF NextRight
    <3>2. pbRemain[t] \in L  BY <1>3, <3>1 DEF Closed, FreeIn
    <3> QED  BY <2>1, <3>1, <3>2
  <2>4. PICK g : g = [t \in L |-> pbRemain[t]]  OBVIOUS
  <2>5. g \in [L -> M]  BY <2>3, <2>4
  <2>6. Cardinality(M) < Cardinality(L)  BY <2>2
  <2>7. PICK t \in L, u \in L : t # u /\ g[t] = g[u]
    BY <1>6, <2>2, <2>5, <2>6, FS_PigeonHole
  <2> QED  BY <1>1, <1>4, <1>7, <2>4, <2>7 DEF NextDiffers
<1> QED  BY <1>2, <1>7

(* The regions account for every trampoline: one in use is in a region that is
   allocated, one that is not is on its region's free list and can be handed out again,
   once, and the lists end. *)
THEOREM RegionsAccount == ASSUME ~RepeatTarget PROVE Spec => []RegionsHoldTrampolines
<1>1. ASSUME TypeInv, FreeInv, NEW r \in regions
      PROVE  /\ \A t \in FreeList(r) : t[1] = r /\ ~InUse(t)
             /\ \A s \in Slots : s > 1 => InUse(<<r, s>>) \/ <<r, s>> \in FreeList(r)
  <2>1. HeadRight(r) /\ NextRight(r) /\ AllListed(r) /\ r \in Regions
    BY <1>1 DEF FreeInv, TypeInv, TypeOK
  <2>2. \A t \in FreeList(r) : t[1] = r /\ ~InUse(t)  BY <2>1, ListIsFree DEF FreeIn
  <2>3. ASSUME NEW s \in Slots, s > 1, ~InUse(<<r, s>>) PROVE <<r, s>> \in FreeList(r)
    <3>1. PICK t : t = <<r, s>>  OBVIOUS
    <3>2. t \in Trampolines /\ t[1] = r /\ t[2] = s  BY <2>1, <3>1 DEF Trampolines
    <3>3. FreeIn(r, t) /\ t[2] > 1  BY <2>3, <3>1, <3>2 DEF FreeIn
    <3> QED  BY <2>1, <3>1, <3>2, <3>3 DEF AllListed
  <2> QED  BY <2>2, <2>3
<1>2. ASSUME DetoursInv PROVE RegionsHoldTrampolines
  <2>1. TypeInv /\ FreeInv  BY <1>2 DEF DetoursInv
  <2>2. default \in regions \cup {None} /\ \A t \in Trampolines : InUse(t) => t[1] \in regions
    BY <2>1 DEF FreeInv
  <2> QED  BY <1>1, <2>1, <2>2, ListEnds DEF RegionsHoldTrampolines
<1> QED  BY InvCorrect, <1>2, PTL

(* A region none of whose trampolines is in use does not outlive the transaction that
   emptied it, be it by a failed Attach, an Abort or a Commit: the only regions kept empty
   are those that were refused to the function they were made for and never used since. *)
THEOREM RegionsReleased == ASSUME ~RepeatTarget PROVE Spec => []UnusedRegionsReleased
<1>1. DetoursInv => UnusedRegionsReleased
  BY DEF DetoursInv, LockInv, OwnerRight, EmptyOnlyAtEnd, UnusedRegionsReleased
<1> QED  BY InvCorrect, <1>1, PTL

(* Outside a transaction no page of code is writable, however many functions of a
   transaction share a page, and no region either, unless making one writable may fail. *)
THEOREM ProtectionsRestored ==
    ASSUME ~RepeatTarget PROVE Spec => []WritableOnlyInTransaction
<1>1. ASSUME DetoursInv, owner = None
      PROVE  /\ ProtectFails \/ \A r \in regions : regionPerm[r] = "RX"
             /\ \A p \in Pages : perm[p] = "RX"
  <2>1. phase = "idle" /\ ops = <<>>
    BY <1>1 DEF DetoursInv, LockInv, OwnerRight, OpsInv, PhaseRight
  <2>2. \A p \in Pages : perm[p] = "RX"  BY <1>1, <2>1 DEF DetoursInv, PagesRight
  <2>3. ProtectFails \/ \A r \in regions : r \in Regions /\ regionPerm[r] = "RX"
    BY <1>1 DEF DetoursInv, LockInv, RegionsProtected, TypeInv, TypeOK
  <2> QED  BY <2>2, <2>3
<1>2. DetoursInv => WritableOnlyInTransaction  BY <1>1 DEF WritableOnlyInTransaction
<1> QED  BY InvCorrect, <1>2, PTL

(* If the other threads are suspended, none is ever in a trampoline that was freed, and
   none at bytes that are no instruction of a function of which less than eight bytes are
   replaced: Commit moves each to where it can go on before it frees anything, by a table
   that keeps three bits of an offset. *)
THEOREM ThreadsSurvive ==
    ASSUME ~RepeatTarget, SuspendOptions \subseteq {TRUE} PROVE Spec => []NoLostThread
<1>1. Init => ThreadsRight
  <2>1. ASSUME Init, NEW x \in Runners PROVE PlaceRight(location[x])
    <3>1. location[x] = Out  BY <2>1 DEF Init, Out
    <3> QED  BY <3>1, PlacesDiffer DEF PlaceRight
  <2> QED  BY <2>1 DEF Init, ThreadsRight
<1>2. DetoursInv /\ DetoursInv' /\ ThreadsRight /\ [Next]_vars => ThreadsRight'
  BY ThreadsStep
<1>3. DetoursInv /\ ThreadsRight => NoLostThread
  <2>1. ASSUME DetoursInv, NEW t \in Trampolines, MayHold(t) PROVE InUse(t)
    <3>1. CASE Live(t)  BY <3>1 DEF Live
    <3>2. CASE Removed(t)
      <4>1. PICK k \in DOMAIN ops : ops[k].tramp = t  BY <3>2 DEF Removed
      <4>2. OperationRight(k)  BY <2>1 DEF DetoursInv, OpsInv
      <4> QED  BY <4>1, <4>2 DEF OperationRight
    <3> QED  BY <2>1, <3>1, <3>2 DEF MayHold
  <2> QED  BY <2>1 DEF ThreadsRight, PlaceRight, NoLostThread
<1> QED  BY InvCorrect, <1>1, <1>2, <1>3, PTL DEF Spec

(***************************************************************************)
(* Transactions as their callers see them.                                 *)
(***************************************************************************)

(* The hooks whose variable holds a trampoline. *)
Held == {h \in Hooks : pointer[h] \in Trampolines}

(* All that a call of a function meets is live. *)
LEMMA MetIsLive ==
    ASSUME ChainInv, NEW f \in Functions, NEW t \in Chain(f)
    PROVE  Live(t)
<1>1. PICK next, P : /\ next = [u \in Trampolines |-> tramp[u].copied]
                     /\ P = {u \in Trampolines : Live(u)}
  OBVIOUS
<1>2. patch[f] \in Trampolines => patch[f] \in P
  BY <1>1, DistinctAssumption DEF ChainInv, PatchRight, LiveFor
<1>3. ASSUME NEW u \in P, next[u] \in Trampolines PROVE next[u] \in P
  <2>1. u \in Trampolines /\ InUse(u) /\ next[u] = tramp[u].copied  BY <1>1, <1>3 DEF Live
  <2> QED  BY <1>1, <1>3, <2>1, DistinctAssumption DEF ChainInv, CopiedRight, LiveFor
<1>4. Closed(P, patch[f], next)  BY <1>2, <1>3 DEF Closed
<1>5. t \in Reached(patch[f], next)  BY <1>1 DEF Chain
<1>6. t \in P  BY <1>1, <1>4, <1>5, ReachedWithin
<1> QED  BY <1>1, <1>6

(* The hooks in force are those whose variables say so. *)
LEMMA InForceIsHeld == ASSUME DetoursInv PROVE InForce = Held
<1>1. ASSUME NEW h \in Held PROVE h \in InForce
  <2>1. h \in Hooks /\ pointer[h] \in Trampolines  BY <1>1 DEF Held
  <2>2. pointer[h] \in Chain(Home[h]) /\ tramp[pointer[h]].detour = h
    BY <2>1, HeldIsCalled
  <2>3. Home[h] \in Functions  BY <2>1, PlaceAssumption
  <2> QED  BY <2>1, <2>2, <2>3 DEF InForce
<1>2. ASSUME NEW h \in InForce PROVE h \in Held
  <2>1. PICK f \in Functions : \E t \in Chain(f) : h = tramp[t].detour /\ h \in Hooks
    BY <1>2 DEF InForce
  <2>2. PICK t \in Chain(f) : h = tramp[t].detour /\ h \in Hooks  BY <2>1
  <2>3. Live(t)  BY MetIsLive DEF DetoursInv
  <2>4. pointer[h] = t /\ t \in Trampolines
    BY <2>2, <2>3, DistinctAssumption DEF DetoursInv, ChainInv, DetourRight, Live
  <2> QED  BY <2>2, <2>4 DEF Held
<1> QED  BY <1>1, <1>2

(* What is asked of a transaction is what its operations say. *)
LEMMA RequestedMeans ==
    ASSUME NEW kind, NEW h
    PROVE  h \in Requested(kind) <=>
             \E k \in DOMAIN ops : /\ ops[k].kind = kind /\ ops[k].hook = h
                                   /\ phase = "apply" => cursor <= k
  BY DEF Requested

(* No two operations are about one hook. *)
LEMMA HooksDiffer ==
    ASSUME OpsInv, NEW j \in DOMAIN ops, NEW k \in DOMAIN ops, ops[j].hook = ops[k].hook
    PROVE  j = k
<1>1. ops[j].target = ops[k].target  BY DEF OpsInv, OperationRight
<1> QED  BY <1>1 DEF OpsInv, TargetsDiffer

(* An operation on a hook joins those that are asked for; the hook had none before. *)
LEMMA OneMoreAsked ==
    ASSUME ~RepeatTarget, DetoursInv, phase = "open", phase' = phase,
           NEW o \in Operations, ops' = <<o>> \o ops, MayOperateOn(Home[o.hook]),
           NEW CONSTANT kind
    PROVE  /\ o.hook \notin Requested(kind)
           /\ Requested(kind)' = Requested(kind) \cup (IF o.kind = kind THEN {o.hook} ELSE {})
<1>1. ops \in Seq(Operations) /\ DOMAIN ops = 1 .. Len(ops) /\ Len(ops) \in Nat
  BY DEF DetoursInv, TypeInv, TypeOK
<1>2. ASSUME o.hook \in Requested(kind) PROVE FALSE
  <2>1. PICK k \in DOMAIN ops : ops[k].hook = o.hook  BY <1>2, RequestedMeans
  <2>2. ops[k].target = Home[o.hook]  BY <2>1 DEF DetoursInv, OpsInv, OperationRight
  <2> QED  BY <2>1, <2>2 DEF MayOperateOn
<1>3. PICK s : s = <<o>> \o ops  OBVIOUS
<1>4. /\ DOMAIN s = 1 .. (Len(ops) + 1) /\ s[1] = o
      /\ \A k \in 2 .. (Len(ops) + 1) : s[k] = ops[k - 1] /\ k - 1 \in DOMAIN ops
  BY <1>1, <1>3, PutInFront
<1>5. Requested(kind)' = {s[i].hook : i \in {j \in DOMAIN s : s[j].kind = kind}}
  BY <1>3 DEF Requested
<1>6. ASSUME NEW h
      PROVE  h \in Requested(kind)' <=> h \in Requested(kind) \/ (o.kind = kind /\ h = o.hook)
  <2>1. h \in Requested(kind)' <=> \E k \in DOMAIN s : s[k].kind = kind /\ s[k].hook = h
    BY <1>5
  <2>2. h \in Requested(kind) <=> \E k \in DOMAIN ops : ops[k].kind = kind /\ ops[k].hook = h
    BY RequestedMeans
  <2>3. ASSUME NEW k \in DOMAIN s, s[k].kind = kind, s[k].hook = h
        PROVE  h \in Requested(kind) \/ (o.kind = kind /\ h = o.hook)
    <3>1. CASE k = 1  BY <1>4, <2>3, <3>1
    <3>2. CASE k # 1
      <4>1. k \in 2 .. (Len(ops) + 1)  BY <1>1, <1>4, <3>2
      <4> QED  BY <1>4, <2>2, <2>3, <4>1
    <3> QED  BY <3>1, <3>2
  <2>4. ASSUME NEW k \in DOMAIN ops, ops[k].kind = kind, ops[k].hook = h
        PROVE  \E j \in DOMAIN s : s[j].kind = kind /\ s[j].hook = h
    <3>1. k + 1 \in 2 .. (Len(ops) + 1) /\ k + 1 - 1 = k  BY <1>1
    <3>2. s[k + 1] = ops[k] /\ k + 1 \in DOMAIN s  BY <1>1, <1>4, <3>1
    <3> QED  BY <2>4, <3>2
  <2>5. ASSUME o.kind = kind, h = o.hook
        PROVE  \E j \in DOMAIN s : s[j].kind = kind /\ s[j].hook = h
    <3>1. 1 \in DOMAIN s  BY <1>1, <1>4
    <3> QED  BY <1>4, <2>5, <3>1
  <2> QED  BY <2>1, <2>2, <2>3, <2>4, <2>5
<1> QED  BY <1>2, <1>6

(* What the hooks of a transaction come to, in terms of their variables, *)
LEMMA AttachedMeans ==
    DetoursInv => Attached = IF phase = "apply"
                             THEN (Held \cup Requested("add")) \ Requested("remove")
                             ELSE Held
  BY InForceIsHeld DEF Attached

(* also after a step. *)
LEMMA AttachedMeansNext ==
    DetoursInv' => Attached' = IF phase' = "apply"
                               THEN (Held' \cup Requested("add")') \ Requested("remove")'
                               ELSE Held'
<1>1. (DetoursInv => Attached = IF phase = "apply"
                                THEN (Held \cup Requested("add")) \ Requested("remove")
                                ELSE Held)'
  BY AttachedMeans, PTL
<1> QED  BY <1>1

(* What a step of the mapped variables that changes none of them leaves alone. *)
SameService == UNCHANGED <<owner, Stage, Attached, Asked("add"), Asked("remove")>>

(* A step that leaves the operations and the variables of the callers alone, and that is
   outside Commit's loop, changes no hook. *)
LEMMA SameHooks ==
    ASSUME DetoursInv, DetoursInv', UNCHANGED pointer, phase # "apply", phase' # "apply"
    PROVE  Attached' = Attached
<1>1. Held' = Held  BY DEF Held
<1> QED  BY <1>1, AttachedMeans, AttachedMeansNext

(* Beginning a transaction, and what happens before it is open. *)
LEMMA BeginningService ==
    ASSUME DetoursInv, DetoursInv', NEW c \in Callers,
           Begin(c) \/ MakeWritable(c) \/ OpenTransaction(c)
    PROVE  Service!ServiceNext \/ SameService
<1>1. Asked("add") = {} /\ Asked("remove") = {}
  <2>1. phase = "writable" \/ phase = "idle"
    BY DEF Begin, MakeWritable, OpenTransaction, DetoursInv, LockInv, OwnerRight
  <2> QED  BY <2>1 DEF Asked
<1>2. Asked("add")' = {} /\ Asked("remove")' = {}
  <2>1. CASE phase' = "open"
    <3>1. ops' = <<>>  BY <2>1 DEF Begin, MakeWritable, OpenTransaction
    <3> QED  BY <3>1 DEF Asked, Requested
  <2> QED  BY <2>1 DEF Asked
<1>3. Attached' = Attached
  <2>1. pointer' = pointer /\ phase \in {"idle", "writable"} /\ phase' # "apply"
    BY DEF Begin, MakeWritable, OpenTransaction, codeVars, DetoursInv, LockInv, OwnerRight
  <2> QED  BY <2>1, SameHooks
<1>4. CASE Begin(c)
  <2>1. owner = None /\ owner' = c /\ phase = "idle" /\ phase' = "writable"
    BY <1>4 DEF Begin, DetoursInv, LockInv, OwnerRight
  <2>2. Stage = "idle" /\ Stage' = "opening"  BY <2>1 DEF Stage
  <2>3. Service!Take(c)  BY <1>1, <1>2, <1>3, <2>1, <2>2 DEF Service!Take
  <2> QED  BY <2>3 DEF Service!ServiceNext
<1>5. CASE MakeWritable(c) \/ OpenTransaction(c)
  <2>1. owner = c /\ phase = "writable" /\ Stage = "opening"
    BY <1>5 DEF MakeWritable, OpenTransaction, Stage
  <2>2. CASE UNCHANGED <<owner, phase>>
    <3>1. Stage' = Stage  BY <2>2 DEF Stage
    <3> QED  BY <1>1, <1>2, <1>3, <2>2, <3>1 DEF SameService
  <2>3. CASE owner' = None /\ phase' = "idle"
    <3>1. Stage' = "idle"  BY <2>3 DEF Stage
    <3>2. Service!Proceed(c, "opening", "idle")
      BY <1>1, <1>2, <1>3, <2>1, <2>3, <3>1 DEF Service!Proceed
    <3> QED  BY <3>2 DEF Service!ServiceNext
  <2>4. CASE owner' = owner /\ phase' = "open"
    <3>1. Stage' = "open"  BY <2>4 DEF Stage
    <3>2. Service!Proceed(c, "opening", "open")
      BY <1>1, <1>2, <1>3, <2>1, <2>4, <3>1 DEF Service!Proceed
    <3> QED  BY <3>2 DEF Service!ServiceNext
  <2> QED  BY <1>5, <2>2, <2>3, <2>4 DEF MakeWritable, OpenTransaction
<1> QED  BY <1>4, <1>5

(* The two calls that note an operation. *)
LEMMA NotingService ==
    ASSUME ~RepeatTarget, DetoursInv, DetoursInv', NEW c \in Callers, NEW h \in Hooks,
           Attach(c, h) \/ Detach(c, h)
    PROVE  Service!ServiceNext
<1>1. owner = c /\ owner' = owner /\ phase = "open" /\ phase' = phase /\ pointer' = pointer
  BY DEF Attach, MayAttach, Detach, codeVars
<1>2. Stage = "open" /\ Stage' = Stage /\ Attached' = Attached /\ Attached = Held
  <2>1. Attached' = Attached  BY <1>1, SameHooks
  <2> QED  BY <1>1, <2>1, AttachedMeans DEF Stage
<1>3. /\ Asked("add") = Requested("add") /\ Asked("add")' = Requested("add")'
      /\ Asked("remove") = Requested("remove") /\ Asked("remove")' = Requested("remove")'
  BY <1>1 DEF Asked
<1>4. PICK f : f = Home[h]  OBVIOUS
<1>5. f \in Functions /\ f \notin Trampolines
  BY <1>4, PlaceAssumption, DistinctAssumption
<1>6. pointer[h] = f \/ (pointer[h] \in Trampolines /\ tramp[pointer[h]].target = f)
  BY <1>4 DEF DetoursInv, ChainInv, PointerRight, LiveFor, Live
<1>7. CASE Attach(c, h)
  <2>1. pointer[h] \in Functions /\ MayOperateOn(pointer[h])  BY <1>7 DEF Attach, MayAttach
  <2>2. pointer[h] = f  BY <1>6, <2>1, DistinctAssumption
  <2>3. PICK o : o.kind = "add" /\ o.hook = h /\ ops' = <<o>> \o ops
    <3>1. PICK t : ops' = <<[kind |-> "add", hook |-> h, target |-> pointer[h],
                             tramp |-> t, perm |-> perm[PageOf[pointer[h]]]]>> \o ops
      BY <1>7 DEF Attach
    <3> QED  BY <3>1
  <2>4. o \in Operations
    <3>1. 1 \in DOMAIN ops' /\ ops'[1] = o  BY <2>3 DEF DetoursInv, TypeInv, TypeOK
    <3> QED  BY <3>1 DEF DetoursInv, TypeInv, TypeOK
  <2>5. MayOperateOn(Home[o.hook])  BY <1>4, <2>1, <2>2, <2>3
  <2>6. h \notin Requested("add") /\ Requested("add")' = Requested("add") \cup {h}
        /\ Requested("remove")' = Requested("remove")
    <3>1. /\ h \notin Requested("add")
          /\ Requested("add")' = Requested("add") \cup (IF o.kind = "add" THEN {h} ELSE {})
      BY <1>1, <2>3, <2>4, <2>5, OneMoreAsked
    <3>2. Requested("remove")' = Requested("remove") \cup (IF o.kind = "remove" THEN {h} ELSE {})
      BY <1>1, <2>3, <2>4, <2>5, OneMoreAsked
    <3> QED  BY <2>3, <3>1, <3>2
  <2>7. h \notin Held  BY <1>5, <2>2 DEF Held
  <2>8. Service!NoteAttach(c, h)
    BY <1>1, <1>2, <1>3, <2>6, <2>7 DEF Service!NoteAttach
  <2> QED  BY <2>8 DEF Service!ServiceNext
<1>8. CASE Detach(c, h)
  <2>1. pointer[h] \in Trampolines /\ MayOperateOn(tramp[pointer[h]].target)
    BY <1>8 DEF Detach
  <2>2. tramp[pointer[h]].target = f  BY <1>5, <1>6, <2>1
  <2>3. PICK o : o.kind = "remove" /\ o.hook = h /\ ops' = <<o>> \o ops
    <3>1. ops' = <<[kind |-> "remove", hook |-> h, target |-> tramp[pointer[h]].target,
                    tramp |-> pointer[h],
                    perm |-> perm[PageOf[tramp[pointer[h]].target]]]>> \o ops
      BY <1>8 DEF Detach
    <3> QED  BY <3>1
  <2>4. o \in Operations
    <3>1. 1 \in DOMAIN ops' /\ ops'[1] = o  BY <2>3 DEF DetoursInv, TypeInv, TypeOK
    <3> QED  BY <3>1 DEF DetoursInv, TypeInv, TypeOK
  <2>5. MayOperateOn(Home[o.hook])  BY <1>4, <2>1, <2>2, <2>3
  <2>6. h \notin Requested("remove") /\ Requested("remove")' = Requested("remove") \cup {h}
        /\ Requested("add")' = Requested("add")
    <3>1. /\ h \notin Requested("remove")
          /\ Requested("remove")' = Requested("remove") \cup (IF o.kind = "remove" THEN {h} ELSE {})
      BY <1>1, <2>3, <2>4, <2>5, OneMoreAsked
    <3>2. Requested("add")' = Requested("add") \cup (IF o.kind = "add" THEN {h} ELSE {})
      BY <1>1, <2>3, <2>4, <2>5, OneMoreAsked
    <3> QED  BY <2>3, <3>1, <3>2
  <2>7. h \in Held  BY <2>1 DEF Held
  <2>8. Service!NoteDetach(c, h)
    BY <1>1, <1>2, <1>3, <2>6, <2>7 DEF Service!NoteDetach
  <2> QED  BY <2>8 DEF Service!ServiceNext
<1> QED  BY <1>7, <1>8

(* The decision to commit, which is when everything takes effect, or to abort. *)
LEMMA DecidingService ==
    ASSUME DetoursInv, DetoursInv', NEW c \in Callers, Commit(c) \/ Abort(c)
    PROVE  Service!ServiceNext
<1>1. /\ owner = c /\ owner' = owner /\ phase = "open" /\ phase' \in {"apply", "abort"}
      /\ pointer' = pointer /\ ops' = ops
  BY DEF Commit, Abort, codeVars
<1>2. Stage = "open" /\ Stage' = "ending"  BY <1>1 DEF Stage
<1>3. /\ Asked("add") = Requested("add") /\ Asked("add")' = {}
      /\ Asked("remove") = Requested("remove") /\ Asked("remove")' = {}
  BY <1>1 DEF Asked
<1>4. Attached = Held /\ Held' = Held  BY <1>1, AttachedMeans DEF Held
<1>5. CASE Commit(c)
  <2>1. phase' = "apply" /\ cursor' = 1  BY <1>5 DEF Commit
  <2>2. \A j \in DOMAIN ops : cursor' <= j  BY <2>1 DEF DetoursInv, TypeInv, TypeOK
  <2>3. Requested("add")' = Requested("add") /\ Requested("remove")' = Requested("remove")
    BY <1>1, <2>2 DEF Requested
  <2>4. Attached' = (Attached \cup Requested("add")) \ Requested("remove")
    BY <1>4, <2>1, <2>3, AttachedMeansNext
  <2>5. Service!CommitAll(c)  BY <1>1, <1>2, <1>3, <2>4 DEF Service!CommitAll
  <2> QED  BY <2>5 DEF Service!ServiceNext
<1>6. CASE Abort(c)
  <2>1. phase' = "abort"  BY <1>6 DEF Abort
  <2>2. Attached' = Attached  BY <1>1, <2>1, SameHooks
  <2>3. Service!AbortAll(c)  BY <1>1, <1>2, <1>3, <2>2 DEF Service!AbortAll
  <2> QED  BY <2>3 DEF Service!ServiceNext
<1> QED  BY <1>5, <1>6

(* Commit's loop carries out what has already taken effect: what an operation makes of
   the variables is what it was asked for, and no other operation is about its hook. *)
LEMMA ApplyingService ==
    ASSUME DetoursInv, DetoursInv', NEW c \in Callers,
           ApplyAdd(c) \/ ApplyRemove(c) \/ ApplyBypass(c)
    PROVE  SameService
<1>1. PICK kind : kind \in {"add", "remove"} /\ Applying(c, kind)
  BY DEF ApplyAdd, ApplyRemove, ApplyBypass
<1>2. owner' = owner /\ phase = "apply" /\ phase' = phase
  BY <1>1 DEF ApplyAdd, ApplyRemove, ApplyBypass, Applying
<1>3. PICK n \in DOMAIN ops :
        /\ n = cursor /\ ops[n].kind = kind
        /\ ops[n].hook \in Hooks /\ ops[n].target \in Functions
        /\ ops[n].tramp \in Trampolines
  BY <1>1, <1>2, Applied DEF DetoursInv
<1>4. PICK h, f, t : h = ops[n].hook /\ f = ops[n].target /\ t = ops[n].tramp  OBVIOUS
<1>5. /\ DOMAIN ops' = DOMAIN ops /\ \A k \in DOMAIN ops : k # n => ops'[k] = ops[k]
      /\ n \in Nat /\ cursor' = n + 1 /\ \A k \in DOMAIN ops : k \in Nat
  BY <1>1, <1>3 DEF ApplyAdd, ApplyRemove, ApplyBypass, Applying,
                    DetoursInv, TypeInv, TypeOK
<1>6. ASSUME NEW CONSTANT q
      PROVE  /\ h \notin Requested(q)'
             /\ Requested(q) = Requested(q)' \cup (IF q = kind THEN {h} ELSE {})
  <2>1. ASSUME NEW g
        PROVE  g \in Requested(q)' <=>
                 \E k \in DOMAIN ops : ops[k].kind = q /\ ops[k].hook = g /\ n + 1 <= k
    <3>1. g \in Requested(q)' <=>
            \E k \in DOMAIN ops : ops'[k].kind = q /\ ops'[k].hook = g /\ n + 1 <= k
      BY <1>2, <1>5 DEF Requested
    <3>2. \A k \in DOMAIN ops : n + 1 <= k => ops'[k] = ops[k]  BY <1>5
    <3> QED  BY <3>1, <3>2
  <2>2. h \notin Requested(q)'
    <3>1. ASSUME NEW k \in DOMAIN ops, ops[k].hook = h, n + 1 <= k PROVE FALSE
      <4>1. k = n  BY <1>4, <3>1, HooksDiffer DEF DetoursInv
      <4> QED  BY <1>5, <3>1, <4>1
    <3> QED  BY <2>1, <3>1
  <2>3. ASSUME NEW g
        PROVE  g \in Requested(q) <=> g \in Requested(q)' \/ (q = kind /\ g = h)
    <3>1. g \in Requested(q) <=>
            \E k \in DOMAIN ops : ops[k].kind = q /\ ops[k].hook = g /\ n <= k
      BY <1>2, <1>3, RequestedMeans
    <3>2. \A k \in DOMAIN ops : n <= k <=> k = n \/ n + 1 <= k  BY <1>5
    <3> QED  BY <1>3, <1>4, <2>1, <3>1, <3>2
  <2> QED  BY <2>2, <2>3
<1>7. /\ h \notin Requested("add")' /\ h \notin Requested("remove")'
      /\ Requested("add") = Requested("add")' \cup (IF "add" = kind THEN {h} ELSE {})
      /\ Requested("remove") = Requested("remove")' \cup (IF "remove" = kind THEN {h} ELSE {})
  BY <1>6
<1>8. CASE kind = "add"
  <2>1. ApplyAdd(c)  BY <1>1, <1>3, <1>8 DEF ApplyAdd, ApplyRemove, ApplyBypass, Applying
  <2>2. pointer' = [pointer EXCEPT ![h] = t]  BY <1>3, <1>4, <2>1 DEF ApplyAdd
  <2>3. Held' = Held \cup {h}
    BY <1>3, <1>4, <2>2 DEF Held, DetoursInv, TypeInv, TypeOK
  <2>4. Attached' = Attached
    BY <1>2, <1>7, <1>8, <2>3, AttachedMeans, AttachedMeansNext
  <2> QED  BY <1>2, <2>4 DEF SameService, Stage, Asked
<1>9. CASE kind = "remove"
  <2>1. ApplyRemove(c) \/ ApplyBypass(c)
    BY <1>1, <1>3, <1>9 DEF ApplyAdd, ApplyRemove, ApplyBypass, Applying
  <2>2. pointer' = [pointer EXCEPT ![h] = f]
    BY <1>3, <1>4, <2>1 DEF ApplyRemove, ApplyBypass
  <2>3. f \notin Trampolines  BY <1>3, <1>4, DistinctAssumption
  <2>4. Held' = Held \ {h}
    BY <1>3, <1>4, <2>2, <2>3 DEF Held, DetoursInv, TypeInv, TypeOK
  <2>5. Attached' = Attached
    BY <1>2, <1>7, <1>9, <2>4, AttachedMeans, AttachedMeansNext
  <2> QED  BY <1>2, <2>5 DEF SameService, Stage, Asked
<1> QED  BY <1>1, <1>8, <1>9

(* After the loop the threads are moved, and trampolines are freed. *)
LEMMA EndingService ==
    ASSUME DetoursInv, DetoursInv', NEW c \in Callers,
           UpdateThreads(c) \/ CommitOperation(c) \/ AbortOperation(c) \/ EndTransaction(c)
    PROVE  Service!ServiceNext \/ SameService
<1>1. /\ owner = c /\ phase \in {"apply", "restore", "abort"} /\ phase' # "apply"
      /\ pointer' = pointer
  BY DEF UpdateThreads, CommitOperation, AbortOperation, EndOperation, EndTransaction,
         codeVars
<1>2. Stage = "ending"  BY <1>1 DEF Stage
<1>3. phase' # "open"
  BY DEF UpdateThreads, CommitOperation, AbortOperation, EndOperation, EndTransaction
<1>4. Asked("add") = {} /\ Asked("remove") = {} /\ Asked("add")' = {} /\ Asked("remove")' = {}
  BY <1>1, <1>3 DEF Asked
<1>5. Attached' = Attached
  <2>1. CASE phase = "apply"
    <3>1. cursor = Len(ops) + 1 /\ DOMAIN ops = 1 .. Len(ops) /\ Len(ops) \in Nat
      BY <2>1 DEF UpdateThreads, CommitOperation, AbortOperation, EndOperation,
                  EndTransaction, DetoursInv, TypeInv, TypeOK
    <3>2. ~(\E k \in DOMAIN ops : cursor <= k)  BY <3>1
    <3>3. Requested("add") = {} /\ Requested("remove") = {}
      BY <2>1, <3>2 DEF Requested
    <3>4. Attached = Held /\ Held' = Held  BY <1>1, <2>1, <3>3, AttachedMeans DEF Held
    <3> QED  BY <1>1, <3>4, AttachedMeansNext
  <2> QED  BY <1>1, <2>1, SameHooks
<1>6. CASE EndTransaction(c)
  <2>1. owner' = None /\ phase' = "idle"  BY <1>6 DEF EndTransaction
  <2>2. Stage' = "idle"  BY <2>1 DEF Stage
  <2>3. Service!Proceed(c, "ending", "idle")
    BY <1>1, <1>2, <1>4, <1>5, <2>1, <2>2 DEF Service!Proceed
  <2> QED  BY <2>3 DEF Service!ServiceNext
<1>7. CASE UpdateThreads(c) \/ CommitOperation(c) \/ AbortOperation(c)
  <2>1. owner' = owner /\ phase' \in {"restore", "abort"}
    BY <1>7 DEF UpdateThreads, CommitOperation, AbortOperation, EndOperation
  <2>2. Stage' = "ending"  BY <2>1 DEF Stage
  <2> QED  BY <1>2, <1>4, <1>5, <2>1, <2>2 DEF SameService
<1> QED  BY <1>6, <1>7

(* A failed Attach, and the threads that run, are nothing to the service. *)
LEMMA UnseenService ==
    ASSUME DetoursInv, DetoursInv',
           \/ \E c \in Callers, h \in Hooks : AttachFails(c, h)
           \/ \E x \in Runners : Run(x)
           \/ UNCHANGED vars
    PROVE  SameService
<1>1. UNCHANGED <<owner, phase, ops, cursor, pointer>>
  BY DEF AttachFails, Run, vars, codeVars
<1>2. Held' = Held  BY <1>1 DEF Held
<1>3. Requested("add")' = Requested("add") /\ Requested("remove")' = Requested("remove")
  BY <1>1 DEF Requested
<1>4. Attached' = Attached  BY <1>1, <1>2, <1>3, AttachedMeans, AttachedMeansNext
<1> QED  BY <1>1, <1>3, <1>4 DEF SameService, Stage, Asked

(* To their callers transactions are atomic: a hook comes into force or goes by a commit
   and nothing else, all that a transaction asks for at once, and its abort and every
   failure before it leave each hook as it was. *)
THEOREM TransactionsAreAtomic == ASSUME ~RepeatTarget PROVE Spec => ImplementsHookService
<1>1. Init => Service!ServiceInit
  <2>1. ASSUME Init PROVE Service!ServiceInit
    <3>1. phase = "idle" /\ owner = None /\ pointer = Home  BY <2>1 DEF Init
    <3>2. Attached = Held  BY <2>1, <3>1, InitInv, AttachedMeans
    <3>3. Held = {}  BY <3>1, PlaceAssumption, DistinctAssumption DEF Held
    <3> QED  BY <3>1, <3>2, <3>3 DEF Service!ServiceInit, Stage, Asked
  <2> QED  BY <2>1
<1>2. DetoursInv /\ DetoursInv' /\ [Next]_vars => [Service!ServiceNext]_(Service!serviceVars)
  <2>1. SUFFICES ASSUME DetoursInv, DetoursInv', [Next]_vars
                 PROVE  Service!ServiceNext \/ SameService
    BY DEF SameService, Service!serviceVars
  <2>2. ASSUME NEW c \in Callers, CallerStep(c)
        PROVE  Service!ServiceNext \/ SameService
    <3>1. CASE Begin(c) \/ MakeWritable(c) \/ OpenTransaction(c)
      BY <2>1, <3>1, BeginningService
    <3>2. CASE \E h \in Hooks : Attach(c, h) \/ Detach(c, h)
      BY <2>1, <3>2, NotingService
    <3>3. CASE Commit(c) \/ Abort(c)  BY <2>1, <3>3, DecidingService
    <3>4. CASE ApplyAdd(c) \/ ApplyRemove(c) \/ ApplyBypass(c)
      BY <2>1, <3>4, ApplyingService
    <3>5. CASE UpdateThreads(c) \/ CommitOperation(c) \/ AbortOperation(c)
               \/ EndTransaction(c)
      BY <2>1, <3>5, EndingService
    <3>6. CASE \E h \in Hooks : AttachFails(c, h)  BY <2>1, <3>6, UnseenService
    <3> QED  BY <2>2, <3>1, <3>2, <3>3, <3>4, <3>5, <3>6 DEF CallerStep, EndStep
  <2>3. CASE (\E x \in Runners : Run(x)) \/ UNCHANGED vars
    BY <2>1, <2>3, UnseenService
  <2> QED  BY <2>1, <2>2, <2>3 DEF Next
<1> QED
  BY <1>1, <1>2, InvCorrect, PTL DEF Spec, ImplementsHookService, Service!ServiceSpec

==============================================================================
