---------------------------- MODULE RegionSearch -----------------------------
(***************************************************************************)
(* Where SlimDetours puts its trampolines (detour_alloc_trampoline): a     *)
(* trampoline must lie within 2GB of the function it replaces, and of what *)
(* that function jumps to, outside of the range the system loads its DLLs  *)
(* at.  If no region has a free one, six searches go through the address   *)
(* space, up or down, while other threads allocate and free memory.        *)
(*                                                                         *)
(* Addresses are numbers below Space, all sizes are scaled down, and       *)
(* pointer arithmetic wraps around.  64-bit Windows is modelled.           *)
(***************************************************************************)
EXTENDS Integers, Sequences, FiniteSetsExt

CONSTANTS
    Space,        \* 2^64
    Minimum,      \* g_sbi.MinimumUserModeAddress
    Maximum,      \* g_sbi.MaximumUserModeAddress
    Giga,         \* 0x40000000
    Slack,        \* _512KB
    Region,       \* DETOUR_REGION_SIZE
    Skip,         \* 0x08000000
    SystemSize,   \* SYSTEM_RESERVED_REGION_SIZE
    PerRegion,    \* trampolines of a region
    Granularity,  \* the allocations of others start at its multiples
    Ntdlls,       \* addresses ntdll.dll may be loaded at
    Layouts,      \* sets of free addresses a process may start with
    Blocks,       \* sets of addresses others may allocate or free at once
    Functions,    \* functions to hook: [at |-> address, jump |-> where it jumps, or Nowhere]
    MaxCalls, MaxForeign,
    Nowhere

Span == 2 * Giga
Highest == Maximum                         \* SYSTEM_RESERVED_REGION_HIGHEST
Lowest == Highest - SystemSize + 1         \* SYSTEM_RESERVED_REGION_LOWEST

Addresses == 0 .. Maximum

ASSUME SizeAssumption ==
    /\ {Space, Minimum, Maximum, Giga, Slack, Region, Skip, SystemSize, Granularity}
           \subseteq Nat \ {0}
    /\ PerRegion \in 1 .. (Region - 1)
    /\ Region <= Slack /\ Slack < Giga /\ Giga <= SystemSize /\ SystemSize <= Maximum
    /\ Minimum + 2 * Slack < Maximum /\ Span < Maximum /\ Maximum + Skip + Span < Space
ASSUME AlignmentAssumption ==
    /\ Granularity % Region = 0
    /\ \A s \in {Space, Maximum + 1, Giga, Skip, SystemSize} \cup Ntdlls : s % Region = 0
ASSUME EnvironmentAssumption ==
    /\ Nowhere \notin Addresses /\ Ntdlls \subseteq Addresses
    /\ Layouts \cup Blocks \subseteq SUBSET Addresses
    /\ Functions \subseteq [at : Minimum .. Maximum, jump : (Minimum .. Maximum) \cup {Nowhere}]
    /\ MaxCalls \in Nat /\ MaxForeign \in Nat

VARIABLES
    ntdll,       \* what GetNtdllBase returns, Nowhere: NULL
    free,        \* the addresses with MEM_FREE
    regions,     \* s_pRegions, the newest one first
    default,     \* s_pRegion
    pFree,       \* the first free trampoline of each region, above PerRegion: none
    pc,          \* where detour_alloc_trampoline is
    function,    \* its argument
    search,      \* which of the six searches
    try,         \* pbTry
    result,      \* what it returned, Nowhere: NULL
    calls, foreign,  \* bounds
    disturbed    \* history: this call has met changes or failures of others

regionVars == <<regions, default, pFree>>
vars == <<ntdll, free, regionVars, pc, function, search, try, result,
          calls, foreign, disturbed>>

(***************************************************************************)
(* detour_memory_init: the range reserved for system DLLs.                 *)
(***************************************************************************)
WrongHighFrom(n) == n - Giga + SystemSize + Region

(* What wraps around below the lowest address of the system range *)
HighFrom(n) == n - Giga + SystemSize

NtdllKnown == ntdll # Nowhere /\ ~(ntdll < Lowest)
Wraps == NtdllKnown /\ ntdll - Giga < Lowest

LowUpper == IF NtdllKnown THEN ntdll - 1 ELSE Maximum
LowLower == IF Wraps THEN Lowest ELSE LowUpper - Giga + 1
HighLower == IF Wraps THEN HighFrom(ntdll) ELSE Space - 1

Reserved(a) == (LowLower <= a /\ a <= LowUpper) \/ (HighLower <= a /\ a <= Highest)

Init ==
    /\ ntdll \in Ntdlls \cup {Nowhere}
    /\ free \in Layouts
    /\ regions = <<>> /\ default = Nowhere /\ pFree = [r \in {} |-> 1]
    /\ pc = "idle" /\ function = [at |-> Minimum, jump |-> Nowhere]
    /\ search = 1 /\ try = 0 /\ result = Nowhere
    /\ calls = 0 /\ foreign = 0 /\ disturbed = FALSE

(***************************************************************************)
(* detour_memory_2gb_below, detour_memory_2gb_above, detour_find_jmp_bounds*)
(***************************************************************************)
Below(a) == IF a > Minimum + Span THEN a - (Span - Slack) ELSE Minimum + Slack
Above(a) == IF a <= Maximum - Span THEN a + (Span - Slack) ELSE Maximum - Slack

pLo(f) == IF f.jump # Nowhere /\ f.jump >= f.at THEN Below(f.jump) ELSE Below(f.at)
pHi(f) == IF f.jump # Nowhere /\ f.jump < f.at THEN Above(f.jump) ELSE Above(f.at)

RoundDown(a) == a - (a % Region)
RoundUp(a) == RoundDown(a + Region - 1) % Space

(***************************************************************************)
(* The six searches, around the function rounded down to a region.         *)
(***************************************************************************)
Down(lo, hi, on) == [down |-> TRUE, lo |-> lo, hi |-> hi, on |-> on]
Up(lo, hi, on) == [down |-> FALSE, lo |-> lo, hi |-> hi, on |-> on]

Plan(i, t, lo, hi) ==
    CASE i = 1 -> Down(lo, t - Giga, t > Giga)
      [] i = 2 -> Up(t + Giga, hi, t < Space - 3 * Giga)
      [] i = 3 -> Up(t - Giga, t, t > Giga)
      [] i = 4 -> Down(t, t + Giga, t < Space - 3 * Giga)
      [] i = 5 -> Down(lo, t, TRUE)
      [] i = 6 -> Up(t, hi, TRUE)

WrongSearchOf(f, i) ==                     \* the fifth one starts 1GB below, too
    LET t == RoundDown(f.at) IN Plan(i, IF i = 5 THEN t - Giga ELSE t, pLo(f), pHi(f))

SearchOf(f, i) == Plan(i, RoundDown(f.at), pLo(f), pHi(f))

Start(s) == IF s.down THEN RoundDown((s.hi - Region) % Space) ELSE RoundUp(s.lo)
Inside(s, a) == IF s.down THEN a > s.lo ELSE a < s.hi
Move(s, a, n) == (IF s.down THEN a - n ELSE a + n) % Space

Current == SearchOf(function, search)
Looking == pc = "scan" /\ Inside(Current, try)

(***************************************************************************)
(* A region with a free trampoline in reach: the default one, or the first.*)
(***************************************************************************)
Trampoline(r) == r + pFree[r]
InReach(a, f) == pLo(f) <= a /\ a <= pHi(f)
Usable(r, f) == pFree[r] <= PerRegion /\ InReach(Trampoline(r), f)

FirstTried == IF default = Nowhere /\ regions # <<>> THEN Head(regions) ELSE default

Found(f, i) ==
    IF FirstTried # Nowhere /\ Usable(FirstTried, f) THEN regions[i] = FirstTried
    ELSE Usable(regions[i], f) /\ \A j \in 1 .. (i - 1) : ~Usable(regions[j], f)

Take(r) == result' = Trampoline(r) /\ pFree' = [pFree EXCEPT ![r] = @ + 1]

Call ==
    /\ pc = "idle" /\ calls < MaxCalls
    /\ calls' = calls + 1 /\ disturbed' = FALSE
    /\ \E f \in Functions :
          /\ function' = f
          /\ \/ \E i \in DOMAIN regions :
                   /\ Found(f, i)
                   /\ default' = regions[i] /\ Take(regions[i])
                   /\ UNCHANGED <<pc, search, try>>
             \/ /\ \A r \in DOMAIN pFree : ~Usable(r, f)
                /\ pc' = "scan" /\ search' = 1 /\ try' = Start(SearchOf(f, 1))
                /\ default' = Nowhere /\ result' = Nowhere
                /\ UNCHANGED pFree
    /\ UNCHANGED <<ntdll, free, regions, foreign>>

(***************************************************************************)
(* detour_alloc_region_from_lo, detour_alloc_region_from_hi                *)
(***************************************************************************)
NextSearch ==
    IF search < 6
    THEN /\ search' = search + 1 /\ try' = Start(SearchOf(function, search + 1))
         /\ pc' = "scan"
    ELSE pc' = "idle" /\ UNCHANGED <<search, try>>

Unchanged == UNCHANGED <<ntdll, regionVars, function, result, calls>>

SearchOver ==
    /\ pc = "scan" /\ ~(Current.on /\ Inside(Current, try))
    /\ NextSearch
    /\ Unchanged /\ UNCHANGED <<free, foreign, disturbed>>

SkipReserved ==
    /\ Looking /\ Current.on /\ Reserved(try)
    /\ try' = Move(Current, try, Skip)
    /\ Unchanged /\ UNCHANGED <<free, pc, search, foreign, disturbed>>

(* What NtQueryVirtualMemory says of an address.  The end of a free block matters
   only if it comes before a region would fit. *)
Starts(a) == a % Granularity = 0 \/ a - 1 \in free \/ {a, a - Region} \cap DOMAIN pFree # {}
AllocationBase(a) == IF a \in free THEN 0 ELSE Max({b \in (a - Granularity) .. a : Starts(b)})
Ends(a, b) == (b \in free) # (a \in free) \/ (a \notin free /\ Starts(b))
End(a) == Min({b \in (a + 1) .. (a + Granularity) : Ends(a, b) \/ b = Maximum + 1})
Fits(a) == a .. (a + Region - 1) \subseteq free

WrongOnwards(a) ==                         \* comes back to the start of the block
    IF Current.down THEN RoundDown(AllocationBase(a)) ELSE RoundUp(End(a))

Onwards(a) ==
    IF Current.down THEN RoundDown((AllocationBase(a) - Region) % Space) ELSE RoundUp(End(a))

Query ==
    /\ Looking /\ Current.on /\ ~Reserved(try)
    /\ \/ try > Maximum /\ NextSearch
       \/ /\ Fits(try)
          /\ pc' = "allocate" /\ UNCHANGED <<search, try>>
       \/ /\ try <= Maximum /\ ~Fits(try)
          /\ try' = Onwards(try) /\ UNCHANGED <<pc, search>>
    /\ Unchanged /\ UNCHANGED <<free, foreign, disturbed>>

AllocateFails ==
    /\ pc = "allocate"
    /\ disturbed' = TRUE
    /\ pc' = "scan" /\ try' = Move(Current, try, Region) /\ UNCHANGED search
    /\ Unchanged /\ UNCHANGED <<free, foreign>>

(* STATUS_DYNAMIC_CODE_BLOCKED *)
AllocateBlocked ==
    /\ pc = "allocate"
    /\ disturbed' = TRUE
    /\ NextSearch
    /\ Unchanged /\ UNCHANGED <<free, foreign>>

(* A last check may still refuse the trampoline of a new region: the region stays. *)
WrongAccepted(a) == TRUE

Accepted(a) == InReach(a, function)

(* If others have not been faster.  The new region is the default one; its first
   trampoline is not used. *)
Allocate ==
    /\ pc = "allocate" /\ Fits(try)
    /\ free' = free \ (try .. (try + Region - 1))
    /\ regions' = <<try>> \o regions /\ default' = try
    /\ LET accepted == Accepted(try + 1) IN
          /\ result' = IF accepted THEN try + 1 ELSE Nowhere
          /\ pFree' = [r \in DOMAIN pFree \cup {try} |->
                          IF r # try THEN pFree[r] ELSE IF accepted THEN 2 ELSE 1]
    /\ pc' = "idle"
    /\ UNCHANGED <<ntdll, function, search, try, calls, foreign, disturbed>>

Search ==
    SearchOver \/ SkipReserved \/ Query \/ Allocate \/ AllocateFails \/ AllocateBlocked

(***************************************************************************)
(* Others allocate and free memory, meanwhile.                             *)
(***************************************************************************)
Others(a) ==
    /\ pc # "idle" /\ foreign < MaxForeign
    /\ foreign' = foreign + 1 /\ disturbed' = TRUE
    /\ \/ a \subseteq free /\ free' = free \ a
       \/ /\ a \subseteq Addresses \ free
          /\ \A r \in DOMAIN pFree : a \cap (r .. (r + Region - 1)) = {}
          /\ free' = free \cup a
    /\ UNCHANGED <<ntdll, regionVars, pc, function, search, try, result, calls>>

Next == Call \/ Search \/ \E a \in Blocks : Others(a)

Spec == Init /\ [][Next]_vars /\ WF_vars(Search)

-----------------------------------------------------------------------------
TypeOK ==
    /\ ntdll \in Ntdlls \cup {Nowhere}
    /\ free \subseteq Addresses
    /\ regions \in Seq(Addresses) /\ default \in Addresses \cup {Nowhere}
    /\ pFree \in [{regions[i] : i \in DOMAIN regions} -> 1 .. (PerRegion + 1)]
    /\ pc \in {"idle", "scan", "allocate"}
    /\ function \in [at : Minimum .. Maximum, jump : (Minimum .. Maximum) \cup {Nowhere}]
    /\ search \in 1 .. 6 /\ try \in 0 .. (Space - 1)
    /\ result \in Addresses \cup {Nowhere}
    /\ calls \in 0 .. MaxCalls /\ foreign \in 0 .. MaxForeign /\ disturbed \in BOOLEAN

Near(a, b) == a - b < Span /\ b - a < Span

(* Whatever region it is in, a trampoline can be reached by a relative jump from the
   function, and can itself reach where the function's first jump leads. *)
WithinReach ==
    result # Nowhere =>
        /\ Near(result, function.at)
        /\ function.jump # Nowhere => Near(result, function.jump)

(* The system loads DLLs downwards from ntdll.dll, and when it has reached the
   lowest address of its range goes on at the highest: no region is in the way of
   the next 1GB of them. *)
WhereDllsGo(a) ==
    a \in Lowest .. Highest /\ \E turn \in {0, SystemSize} : ntdll - a + turn \in 1 .. Giga
DllRangeLeftAlone ==
    NtdllKnown =>
        \A r \in DOMAIN pFree : \A a \in r .. (r + Region - 1) : ~WhereDllsGo(a)

(* Room for a region that the searches should not miss *)
WholeBlocks == \A a \in free : RoundDown(a) .. (RoundDown(a) + Region - 1) \subseteq free
Room(r) ==
    /\ r \in Addresses /\ r % Region = 0 /\ r .. (r + Region - 1) \subseteq free
    /\ pLo(function) < r /\ r < pHi(function)
    /\ \A n \in 0 .. Skip : ~Reserved(r + n) /\ ~Reserved(r - n)

(* The searches look between the bounds only, where a trampoline is accepted.  (The
   third to the sixth look farther for functions that jump far away, or that are
   within Slack of an end of the address space or of the point 1GB from it: what is
   allocated there is refused.  The fourth one may start above all memory.) *)
SearchesWithin(f) ==
    \A i \in 1 .. 6 :
        LET s == SearchOf(f, i) IN
        s.on => /\ pLo(f) <= s.lo
                /\ s.hi <= pHi(f) \/ (s.down /\ s.hi - Region > Maximum)

(* Such a function gets no trampoline only if there is no room for one: none of the
   six searches, nor all of them together, passes over free memory in reach, except
   next to the reserved range. *)
FindsRoom ==
    pc = "idle" /\ calls > 0 /\ result = Nowhere /\ ~disturbed
        /\ SearchesWithin(function) /\ WholeBlocks
    => ~\E r \in free : Room(r)

(* Each search ends, whatever memory looks like and whatever others do. *)
SearchEnds == pc # "idle" ~> pc = "idle"

=============================================================================
