------------------------- MODULE RegionSearchProofs -------------------------
(***************************************************************************)
(* A trampoline is within reach of its function, its region is outside of  *)
(* where the system loads DLLs, and room for it is found where there is    *)
(* some, for any sizes of the address space.                               *)
(***************************************************************************)
EXTENDS RegionSearch, TLAPS, WellFoundedInduction

(***************************************************************************)
(* Multiples.                                                              *)
(***************************************************************************)
Multiples(d) == {d * q : q \in Int}

(* Division with a remainder. *)
LEMMA ModInt ==
    ASSUME NEW a \in Int, NEW d \in Nat \ {0}
    PROVE  /\ a % d \in 0 .. (d - 1) /\ a \div d \in Int
           /\ a = d * (a \div d) + (a % d)
    OBVIOUS

(* The remainder is the only one. *)
LEMMA ModUnique ==
    ASSUME NEW d \in Nat \ {0}, NEW q \in Int, NEW r \in 0 .. (d - 1)
    PROVE  (d * q + r) % d = r
    OBVIOUS

(* A multiple leaves no remainder. *)
LEMMA MultipleMod ==
    ASSUME NEW d \in Nat \ {0}, NEW a \in Int
    PROVE  a % d = 0 <=> a \in Multiples(d)
<1>1. a % d = 0 => a \in Multiples(d)
  <2> SUFFICES ASSUME a % d = 0 PROVE a \in Multiples(d)  OBVIOUS
  <2>1. a = d * (a \div d) + 0 /\ a \div d \in Int  BY ModInt
  <2>2. d * (a \div d) \in Int  BY <2>1
  <2> QED  BY <2>1, <2>2 DEF Multiples
<1>2. a \in Multiples(d) => a % d = 0
  <2> SUFFICES ASSUME NEW q \in Int, a = d * q PROVE a % d = 0  BY DEF Multiples
  <2>1. (d * q + 0) % d = 0  BY ModUnique
  <2> QED  BY <2>1
<1> QED  BY <1>1, <1>2

(* Sums and differences of multiples are multiples. *)
LEMMA MultipleSum ==
    ASSUME NEW d \in Nat \ {0}, NEW a \in Multiples(d), NEW b \in Multiples(d)
    PROVE  a \in Int /\ a + b \in Multiples(d) /\ a - b \in Multiples(d)
<1> PICK p \in Int : a = d * p  BY DEF Multiples
<1> PICK q \in Int : b = d * q  BY DEF Multiples
<1>1. a + b = d * (p + q) /\ p + q \in Int  OBVIOUS
<1>2. a - b = d * (p - q) /\ p - q \in Int  OBVIOUS
<1>3. a + b \in Multiples(d)  BY <1>1 DEF Multiples
<1>4. a - b \in Multiples(d)  BY <1>2 DEF Multiples
<1> QED  BY <1>3, <1>4

(* So are multiples of them. *)
LEMMA MultipleTimes ==
    ASSUME NEW d \in Nat \ {0}, NEW a \in Multiples(d), NEW n \in Int
    PROVE  a * n \in Multiples(d)
<1> PICK p \in Int : a = d * p  BY DEF Multiples
<1>1. a * n = d * (p * n) /\ p * n \in Int  OBVIOUS
<1> QED  BY <1>1 DEF Multiples

(* A multiple that wraps around at a multiple is one. *)
LEMMA MultipleWrap ==
    ASSUME NEW d \in Nat \ {0}, NEW a \in Multiples(d), NEW s \in Multiples(d), s \in Nat \ {0}
    PROVE  a % s \in Multiples(d)
<1>1. a \in Int  BY DEF Multiples
<1>2. a \div s \in Int /\ a = s * (a \div s) + (a % s) /\ a % s \in 0 .. (s - 1)
  BY <1>1, ModInt
<1>3. s * (a \div s) \in Int  BY <1>2
<1>4. a % s = a - s * (a \div s)  BY <1>1, <1>2, <1>3
<1>5. s * (a \div s) \in Multiples(d)  BY <1>2, MultipleTimes
<1> QED  BY <1>4, <1>5, MultipleSum

(* Between two multiples there is room for one. *)
LEMMA MultipleGap ==
    ASSUME NEW d \in Nat \ {0}, NEW a \in Multiples(d), NEW b \in Multiples(d), a < b
    PROVE  a + d <= b
<1> PICK p \in Int : a = d * p  BY DEF Multiples
<1> PICK q \in Int : b = d * q  BY DEF Multiples
<1>1. p < q  OBVIOUS
<1>2. d * (p + 1) <= d * q  BY <1>1
<1> QED  BY <1>2

(***************************************************************************)
(* Regions.                                                                *)
(***************************************************************************)
Aligned == Multiples(Region)
Places == {a \in 0 .. (Space - 1) : a \in Aligned}

(* The sizes are multiples of a region. *)
LEMMA Sizes ==
    /\ Region \in Nat \ {0} /\ Granularity \in Nat \ {0} /\ Space \in Nat \ {0}
    /\ {Maximum, Minimum, Giga, Slack, Skip, SystemSize} \subseteq Nat
    /\ \A s \in {Region, Space, Maximum + 1, Giga, Skip, SystemSize} \cup Ntdlls :
          s \in Aligned
    /\ Ntdlls \subseteq Int
<1>1. /\ Region \in Nat \ {0} /\ Granularity \in Nat \ {0} /\ Space \in Nat \ {0}
      /\ {Maximum, Minimum, Giga, Slack, Skip, SystemSize} \subseteq Nat
  BY SizeAssumption
<1>2. Ntdlls \subseteq Int  BY EnvironmentAssumption, <1>1 DEF Addresses
<1>3. ASSUME NEW s \in {Space, Maximum + 1, Giga, Skip, SystemSize} \cup Ntdlls
      PROVE  s \in Aligned
  <2>1. s \in Int  BY <1>1, <1>2
  <2>2. s % Region = 0  BY AlignmentAssumption
  <2> QED  BY <2>1, <2>2, <1>1, MultipleMod DEF Aligned
<1>4. Region \in Aligned
  <2>1. Region = Region * 1  BY <1>1
  <2> QED  BY <2>1 DEF Aligned, Multiples
<1> QED  BY <1>1, <1>2, <1>3, <1>4

(* Sums and differences of aligned addresses are aligned, and wrapped around. *)
LEMMA AlignedSum ==
    ASSUME NEW a \in Aligned, NEW b \in Aligned
    PROVE  a \in Int /\ a + b \in Aligned /\ a - b \in Aligned
BY Sizes, MultipleSum DEF Aligned

(* An aligned number that wraps around is a place. *)
LEMMA AlignedWrap ==
    ASSUME NEW a \in Aligned
    PROVE  a % Space \in Places
<1>1. a \in Int  BY AlignedSum
<1>2. a % Space \in 0 .. (Space - 1)  BY <1>1, ModInt, Sizes
<1>3. a % Space \in Aligned  BY MultipleWrap, Sizes DEF Aligned
<1> QED  BY <1>2, <1>3 DEF Places

(* Between two aligned addresses there is room for a region. *)
LEMMA AlignedGap ==
    ASSUME NEW a \in Aligned, NEW b \in Aligned, a < b
    PROVE  a + Region <= b
BY Sizes, MultipleGap DEF Aligned

(* Rounding down and up gives aligned addresses. *)
LEMMA RoundDownAligned ==
    ASSUME NEW a \in Int
    PROVE  /\ RoundDown(a) \in Aligned /\ RoundDown(a) <= a
           /\ a >= 0 => RoundDown(a) >= 0
<1>1. /\ a % Region \in 0 .. (Region - 1) /\ a \div Region \in Int
      /\ a = Region * (a \div Region) + (a % Region)
  BY ModInt, Sizes
<1>2. Region * (a \div Region) \in Int  BY <1>1, Sizes
<1>3. RoundDown(a) = Region * (a \div Region)  BY <1>1, <1>2 DEF RoundDown
<1>4. RoundDown(a) \in Aligned  BY <1>1, <1>3 DEF Aligned, Multiples
<1>5. RoundDown(a) <= a  BY <1>1, Sizes DEF RoundDown
<1>6. a >= 0 => RoundDown(a) >= 0
  <2> SUFFICES ASSUME a >= 0 PROVE a \div Region >= 0
    BY <1>1, <1>3, Sizes
  <2> QED  BY Sizes
<1> QED  BY <1>4, <1>5, <1>6

(* Within the address space, it gives places. *)
LEMMA RoundPlaces ==
    /\ \A a \in 0 .. (Space - 1) : RoundDown(a) \in Places
    /\ \A a \in Int : RoundUp(a) \in Places
    /\ \A a \in Int : RoundDown(a % Space) \in Places
<1>1. ASSUME NEW a \in 0 .. (Space - 1) PROVE RoundDown(a) \in Places
  BY RoundDownAligned, Sizes, AlignedSum DEF Places
<1>2. ASSUME NEW a \in Int PROVE RoundUp(a) \in Places
  <2>1. RoundDown(a + Region - 1) \in Aligned  BY RoundDownAligned, Sizes
  <2> QED  BY <2>1, AlignedWrap DEF RoundUp
<1>3. ASSUME NEW a \in Int PROVE RoundDown(a % Space) \in Places
  BY <1>1, ModInt, Sizes
<1> QED  BY <1>1, <1>2, <1>3

(* What is aligned below an address is not above the address rounded down; an aligned
   address is not rounded. *)
LEMMA RoundDownNearest ==
    ASSUME NEW a \in Int, NEW r \in Aligned
    PROVE  (r <= a => r <= RoundDown(a)) /\ RoundDown(r) = r
<1>1. ASSUME NEW b \in Int, r <= b PROVE r <= RoundDown(b)
  <2>1. RoundDown(b) \in Aligned /\ RoundDown(b) \in Int /\ r \in Int
    BY RoundDownAligned, AlignedSum
  <2>2. b % Region \in 0 .. (Region - 1) /\ RoundDown(b) = b - (b % Region)
    BY ModInt, Sizes DEF RoundDown
  <2>3. RoundDown(b) < r => RoundDown(b) + Region <= r  BY <2>1, AlignedGap
  <2> QED  BY <1>1, <2>1, <2>2, <2>3, Sizes
<1>2. r \in Int /\ RoundDown(r) \in Int /\ RoundDown(r) <= r
  BY RoundDownAligned, AlignedSum
<1>3. r <= RoundDown(r)  BY <1>1, <1>2
<1> QED  BY <1>1, <1>2, <1>3

(* An address of the address space does not wrap around, one below it does. *)
LEMMA Wrapping ==
    /\ \A a \in 0 .. (Space - 1) : a % Space = a
    /\ \A a \in (-Space) .. (-1) : a % Space = a + Space
<1>1. Space \in Nat \ {0}  BY Sizes
<1>2. ASSUME NEW a \in 0 .. (Space - 1) PROVE a % Space = a
  <2>1. (Space * 0 + a) % Space = a  BY <1>1, ModUnique
  <2>2. Space * 0 + a = a  BY <1>1
  <2> QED  BY <2>1, <2>2
<1>3. ASSUME NEW a \in (-Space) .. (-1) PROVE a % Space = a + Space
  <2>1. a + Space \in 0 .. (Space - 1) /\ -1 \in Int  BY <1>1
  <2>2. (Space * (-1) + (a + Space)) % Space = a + Space  BY <1>1, <2>1, ModUnique
  <2>3. Space * (-1) + (a + Space) = a  BY <1>1
  <2> QED  BY <2>2, <2>3
<1> QED  BY <1>2, <1>3

(* Rounding up, far enough from the end of the address space. *)
LEMMA RoundUpNearest ==
    ASSUME NEW e \in Nat, e + Region - 1 < Space
    PROVE  RoundUp(e) >= e /\ \A r \in Aligned : e <= r => RoundUp(e) <= r
<1> DEFINE u == RoundDown(e + Region - 1)
<1>1. Region \in Nat \ {0} /\ e + Region - 1 \in Nat /\ Space \in Nat  BY Sizes
<1>2. u \in Aligned /\ u \in Int /\ 0 <= u /\ u <= e + Region - 1
  BY <1>1, RoundDownAligned, AlignedSum
<1>3. u >= e
  <2>1. \A x \in Int : x - RoundDown(x) \in 0 .. (Region - 1)
    <3> SUFFICES ASSUME NEW x \in Int PROVE x - RoundDown(x) \in 0 .. (Region - 1)
      OBVIOUS
    <3>1. x % Region \in 0 .. (Region - 1)  BY ModInt, Sizes
    <3> QED  BY <3>1, <1>1 DEF RoundDown
  <2> DEFINE w == e + Region - 1
  <2>2. w \in Int /\ u = RoundDown(w) /\ w = e + Region - 1  BY <1>1
  <2> HIDE DEF w, u
  <2>3. w - u \in 0 .. (Region - 1)  BY <2>1, <2>2
  <2> QED  BY <1>1, <1>2, <2>2, <2>3
<1>4. u \in 0 .. (Space - 1)  BY <1>1, <1>2
<1>5. RoundUp(e) = u  BY <1>4, Wrapping DEF RoundUp
<1>6. ASSUME NEW r \in Aligned, e <= r PROVE u <= r
  <2>1. r \in Int  BY AlignedSum
  <2>2. r < u => r + Region <= u  BY <1>2, AlignedGap
  <2> QED  BY <2>1, <2>2, <1>1, <1>2, <1>6
<1> QED  BY <1>3, <1>5, <1>6

(* A set of integers with a lower bound has a least element, one with an upper bound
   a greatest: what Min and Max return. *)
LEMMA MinIn ==
    ASSUME NEW S, NEW low \in Int, S # {}, \A x \in S : x \in Int /\ x >= low
    PROVE  Min(S) \in S /\ \A x \in S : Min(S) <= x
<1> DEFINE T == {n \in Nat : low + n \in S}
<1>1. T # {}
  <2> PICK x \in S : TRUE  OBVIOUS
  <2>1. x - low \in Nat /\ low + (x - low) = x  OBVIOUS
  <2>2. x - low \in T  BY <2>1
  <2> QED  BY <2>2
<1>2. PICK n \in T : \A m \in T : ~(<<m, n>> \in OpToRel(<, Nat))
  BY <1>1, WFMin, NatLessThanWellFounded
<1>3. ASSUME NEW m \in T PROVE n <= m
  <2>1. m \in Nat /\ n \in Nat  OBVIOUS
  <2>2. <<m, n>> \in OpToRel(<, Nat) <=> m < n  BY <2>1, Zenon DEF OpToRel
  <2>3. ~(m < n)  BY <1>2, <2>2, Zenon
  <2> QED  BY <2>1, <2>3
<1>4. ASSUME NEW y \in S PROVE low + n <= y
  <2>1. y - low \in Nat /\ low + (y - low) = y  OBVIOUS
  <2>2. y - low \in T  BY <2>1
  <2> QED  BY <1>3, <2>2
<1>5. low + n \in S  OBVIOUS
<1> QED  BY <1>4, <1>5 DEF Min

(* The same from above. *)
LEMMA MaxIn ==
    ASSUME NEW S, NEW high \in Int, S # {}, \A x \in S : x \in Int /\ x <= high
    PROVE  Max(S) \in S /\ \A x \in S : Max(S) >= x
<1> DEFINE T == {n \in Nat : high - n \in S}
<1>1. T # {}
  <2> PICK x \in S : TRUE  OBVIOUS
  <2>1. high - x \in Nat /\ high - (high - x) = x  OBVIOUS
  <2>2. high - x \in T  BY <2>1
  <2> QED  BY <2>2
<1>2. PICK n \in T : \A m \in T : ~(<<m, n>> \in OpToRel(<, Nat))
  BY <1>1, WFMin, NatLessThanWellFounded
<1>3. ASSUME NEW m \in T PROVE n <= m
  <2>1. m \in Nat /\ n \in Nat  OBVIOUS
  <2>2. <<m, n>> \in OpToRel(<, Nat) <=> m < n  BY <2>1, Zenon DEF OpToRel
  <2>3. ~(m < n)  BY <1>2, <2>2, Zenon
  <2> QED  BY <2>1, <2>3
<1>4. ASSUME NEW y \in S PROVE high - n >= y
  <2>1. high - y \in Nat /\ high - (high - y) = y  OBVIOUS
  <2>2. high - y \in T  BY <2>1
  <2> QED  BY <1>3, <2>2
<1>5. high - n \in S  OBVIOUS
<1> QED  BY <1>4, <1>5 DEF Max

(***************************************************************************)
(* The searches stay at aligned addresses.                                 *)
(***************************************************************************)
FunctionType == [at : Minimum .. Maximum, jump : (Minimum .. Maximum) \cup {Nowhere}]

(* The bounds of a function are addresses, and what is between them is within 2GB of
   the function and of what it jumps to. *)
LEMMA Bounds ==
    ASSUME NEW f \in FunctionType
    PROVE  /\ pLo(f) \in Nat /\ pHi(f) \in Nat /\ pHi(f) <= Maximum
           /\ \A a \in Int : InReach(a, f) =>
                 /\ a \in Addresses /\ Near(a, f.at)
                 /\ f.jump # Nowhere => Near(a, f.jump)
<1>1. /\ {Maximum, Minimum, Giga, Slack} \subseteq Nat
      /\ Slack > 0 /\ Slack < Giga /\ Minimum + 2 * Slack < Maximum
      /\ Span < Maximum /\ Span = 2 * Giga
  BY SizeAssumption DEF Span
<1>2. f.at \in Minimum .. Maximum /\ (f.jump # Nowhere => f.jump \in Minimum .. Maximum)
  BY DEF FunctionType
<1>3. ASSUME NEW a \in Minimum .. Maximum
      PROVE  /\ Below(a) \in Nat /\ Above(a) \in Nat /\ Above(a) <= Maximum
             /\ a - Below(a) < Span /\ Above(a) - a < Span
  BY <1>1 DEF Below, Above
<1>4. pLo(f) \in Nat /\ pHi(f) \in Nat /\ pHi(f) <= Maximum
  BY <1>2, <1>3 DEF pLo, pHi
<1>5. ASSUME NEW a \in Int, InReach(a, f)
      PROVE  /\ a \in Addresses /\ Near(a, f.at)
             /\ f.jump # Nowhere => Near(a, f.jump)
  <2>1. a \in Addresses  BY <1>1, <1>4, <1>5 DEF InReach, Addresses
  <2>2. CASE f.jump = Nowhere
    BY <2>1, <2>2, <1>1, <1>2, <1>3, <1>5 DEF InReach, Near, pLo, pHi
  <2>3. CASE f.jump # Nowhere /\ f.jump >= f.at
    <3>1. pLo(f) = Below(f.jump) /\ pHi(f) = Above(f.at)  BY <2>3, <1>2 DEF pLo, pHi
    <3> QED  BY <3>1, <2>1, <2>3, <1>1, <1>2, <1>3, <1>5 DEF InReach, Near
  <2>4. CASE f.jump # Nowhere /\ f.jump < f.at
    <3>1. pLo(f) = Below(f.at) /\ pHi(f) = Above(f.jump)  BY <2>4, <1>2 DEF pLo, pHi
    <3> QED  BY <3>1, <2>1, <2>4, <1>1, <1>2, <1>3, <1>5 DEF InReach, Near
  <2> QED  BY <2>2, <2>3, <2>4, <1>2
<1> QED  BY <1>4, <1>5

(* Every search starts at an aligned address. *)
LEMMA StartRight ==
    ASSUME NEW f \in FunctionType, NEW i \in 1 .. 6
    PROVE  Start(SearchOf(f, i)) \in Places
<1>1. pLo(f) \in Int /\ pHi(f) \in Int  BY Bounds
<1>2. RoundDown(f.at) \in Int
  <2>1. f.at \in Int  BY Sizes DEF FunctionType
  <2> QED  BY <2>1, RoundDownAligned, AlignedSum
<1> DEFINE t == RoundDown(f.at)
<1> DEFINE s == SearchOf(f, i)
<1>3. s.lo \in Int /\ s.hi \in Int /\ s.down \in BOOLEAN
  <2> HIDE DEF t
  <2>1. s = Plan(i, t, pLo(f), pHi(f))  BY DEF SearchOf, t
  <2>2. t \in Int /\ Giga \in Int /\ t - Giga \in Int /\ t + Giga \in Int
    BY <1>2, Sizes DEF t
  <2> HIDE DEF s
  <2>3. CASE i = 1
    <3>1. s = Down(pLo(f), t - Giga, t > Giga)  BY <2>1, <2>3 DEF Plan
    <3> QED  BY <3>1, <2>2, <1>1 DEF Down
  <2>4. CASE i = 2
    <3>1. s = Up(t + Giga, pHi(f), t < Space - 3 * Giga)  BY <2>1, <2>4 DEF Plan
    <3> QED  BY <3>1, <2>2, <1>1 DEF Up
  <2>5. CASE i = 3
    <3>1. s = Up(t - Giga, t, t > Giga)  BY <2>1, <2>5 DEF Plan
    <3> QED  BY <3>1, <2>2, <1>1 DEF Up
  <2>6. CASE i = 4
    <3>1. s = Down(t, t + Giga, t < Space - 3 * Giga)  BY <2>1, <2>6 DEF Plan
    <3> QED  BY <3>1, <2>2, <1>1 DEF Down
  <2>7. CASE i = 5
    <3>1. s = Down(pLo(f), t, TRUE)  BY <2>1, <2>7 DEF Plan
    <3> QED  BY <3>1, <2>2, <1>1 DEF Down
  <2>8. CASE i = 6
    <3>1. s = Up(t, pHi(f), TRUE)  BY <2>1, <2>8 DEF Plan
    <3> QED  BY <3>1, <2>2, <1>1 DEF Up
  <2> QED  BY <2>3, <2>4, <2>5, <2>6, <2>7, <2>8
<1> HIDE DEF s
<1>4. CASE s.down
  <2>1. Start(s) = RoundDown((s.hi - Region) % Space)  BY <1>4 DEF Start
  <2>2. s.hi - Region \in Int  BY <1>3, Sizes
  <2>3. Start(s) \in Places  BY <2>1, <2>2, RoundPlaces
  <2> QED  BY <2>3 DEF s
<1>5. CASE ~s.down
  <2>1. Start(s) = RoundUp(s.lo)  BY <1>5 DEF Start
  <2>2. Start(s) \in Places  BY <1>3, <2>1, RoundPlaces
  <2> QED  BY <2>2 DEF s
<1> QED  BY <1>4, <1>5

(* So does every move by a multiple of a region. *)
LEMMA MoveRight ==
    ASSUME NEW s, NEW a \in Places, NEW n \in Aligned
    PROVE  Move(s, a, n) \in Places
<1>1. a \in Aligned  BY DEF Places
<1>2. a + n \in Aligned /\ a - n \in Aligned  BY <1>1, AlignedSum
<1>3. (a + n) % Space \in Places /\ (a - n) % Space \in Places  BY <1>2, AlignedWrap
<1> QED  BY <1>3 DEF Move

(* The block an address is in: it starts at or below the address, and ends above it,
   before a region would fit behind the last address. *)
LEMMA Block ==
    ASSUME NEW a \in Addresses, ~Fits(a)
    PROVE  /\ AllocationBase(a) \in 0 .. a
           /\ a \notin free =>
                 \A b \in 0 .. a : Starts(b) => b <= AllocationBase(a)
           /\ End(a) \in (a + 1) .. (Maximum + Region)
           /\ \A b \in Int : b > a /\ Ends(a, b) => End(a) <= b
<1>1. /\ a \in Int /\ a >= 0 /\ a <= Maximum /\ Maximum \in Nat
      /\ Granularity \in Nat \ {0} /\ Region \in Nat \ {0}
  BY Sizes DEF Addresses
<1>2. /\ a % Granularity \in 0 .. (Granularity - 1) /\ a \div Granularity \in Int
      /\ a = Granularity * (a \div Granularity) + (a % Granularity)
  BY <1>1, ModInt
<1> DEFINE g == a - (a % Granularity)
<1>3. g \in Int /\ g % Granularity = 0 /\ (g + Granularity) % Granularity = 0
  <2>1. g = Granularity * (a \div Granularity)  BY <1>1, <1>2
  <2>2. g + Granularity = Granularity * ((a \div Granularity) + 1)  BY <2>1, <1>1, <1>2
  <2>3. g \in Multiples(Granularity)  BY <2>1, <1>2 DEF Multiples
  <2>4. g + Granularity \in Multiples(Granularity)  BY <2>2, <1>2 DEF Multiples
  <2>5. g \in Int /\ g + Granularity \in Int  BY <1>1, <1>2
  <2> QED  BY <2>3, <2>4, <2>5, <1>1, MultipleMod
<1>4. g >= 0
  <2>1. a \div Granularity >= 0  BY <1>1, <1>2
  <2>2. g = Granularity * (a \div Granularity)  BY <1>1, <1>2
  <2>3. Granularity * (a \div Granularity) >= 0  BY <2>1, <1>1, <1>2
  <2> QED  BY <2>2, <2>3
<1>5. /\ AllocationBase(a) \in 0 .. a
      /\ a \notin free => \A b \in 0 .. a : Starts(b) => b <= AllocationBase(a)
  <2>1. CASE a \in free  BY <2>1, <1>1 DEF AllocationBase
  <2>2. CASE a \notin free
    <3> DEFINE S == {b \in (a - Granularity) .. a : Starts(b)}
    <3>1. g \in S  BY <1>1, <1>2, <1>3 DEF Starts
    <3>2. Max(S) \in S /\ \A b \in S : Max(S) >= b  BY <3>1, <1>1, MaxIn
    <3>3. AllocationBase(a) = Max(S)  BY <2>2 DEF AllocationBase
    <3>4. Max(S) \in Int /\ Max(S) <= a /\ Max(S) >= g  BY <3>1, <3>2, <1>1
    <3>5. ASSUME NEW b \in 0 .. a, Starts(b) PROVE b <= Max(S)
      <4>1. CASE b \in (a - Granularity) .. a  BY <3>2, <3>4, <3>5, <4>1
      <4>2. CASE b \notin (a - Granularity) .. a  BY <3>4, <4>2, <1>1, <1>2
      <4> QED  BY <4>1, <4>2
    <3> HIDE DEF S
    <3> QED  BY <3>3, <3>4, <3>5, <1>1, <1>3, <1>4
  <2> QED  BY <2>1, <2>2
<1>6. /\ End(a) \in (a + 1) .. (Maximum + Region)
      /\ \A b \in Int : b > a /\ Ends(a, b) => End(a) <= b
  <2> DEFINE S == {b \in (a + 1) .. (a + Granularity) : Ends(a, b) \/ b = Maximum + 1}
  <2>1. \E b \in S : b <= Maximum + Region
    <3>1. CASE a \notin free
      <4>1. Starts(g + Granularity)  BY <1>3 DEF Starts
      <4>2. g + Granularity \in (a + 1) .. (a + Granularity)  BY <1>1, <1>2
      <4>3. g + Granularity \in S  BY <3>1, <4>1, <4>2 DEF Ends
      <4>4. Maximum + 1 < g + Granularity => Maximum + 1 \in S  BY <4>2, <1>1
      <4> QED  BY <4>2, <4>3, <4>4, <1>1
    <3>2. CASE a \in free
      <4>1. PICK b \in a .. (a + Region - 1) : b \notin free  BY DEF Fits
      <4>2. Region <= Granularity
        <5>1. 0 \in Aligned
          <6>1. 0 = Region * 0  BY <1>1
          <6> QED  BY <6>1 DEF Aligned, Multiples
        <5>2. Granularity \in Aligned
          BY <1>1, MultipleMod, AlignmentAssumption DEF Aligned
        <5>3. 0 + Region <= Granularity  BY <5>1, <5>2, <1>1, AlignedGap
        <5> QED  BY <5>3, <1>1
      <4>3. b \in (a + 1) .. (a + Granularity)  BY <4>1, <4>2, <3>2, <1>1
      <4>4. b \in S  BY <3>2, <4>1, <4>3 DEF Ends
      <4> QED  BY <4>1, <4>4, <1>1
    <3> QED  BY <3>1, <3>2
  <2>2. Min(S) \in S /\ \A b \in S : Min(S) <= b  BY <2>1, <1>1, MinIn
  <2>3. End(a) = Min(S)  BY DEF End
  <2>4. Min(S) \in (a + 1) .. (a + Granularity)  BY <2>2
  <2>5. Min(S) <= Maximum + Region
    <3> PICK b \in S : b <= Maximum + Region  BY <2>1
    <3>1. b \in Int /\ Min(S) <= b  BY <2>2, <1>1
    <3> HIDE DEF S
    <3> QED  BY <3>1, <2>4, <1>1
  <2>6. ASSUME NEW b \in Int, b > a, Ends(a, b) PROVE Min(S) <= b
    <3>1. CASE b \in (a + 1) .. (a + Granularity)  BY <2>2, <2>6, <3>1
    <3>2. CASE b \notin (a + 1) .. (a + Granularity)  BY <2>4, <2>6, <3>2, <1>1
    <3> QED  BY <3>1, <3>2
  <2> HIDE DEF S
  <2> QED  BY <2>3, <2>4, <2>5, <2>6, <1>1
<1> QED  BY <1>5, <1>6

(* Where a search goes on behind a block that has no room is aligned. *)
LEMMA OnwardsRight ==
    ASSUME NEW a \in Addresses, ~Fits(a)
    PROVE  Onwards(a) \in Places
<1>1. AllocationBase(a) \in Int /\ End(a) \in Int  BY Block, Sizes DEF Addresses
<1>2. AllocationBase(a) - Region \in Int  BY <1>1, Sizes
<1>3. RoundDown((AllocationBase(a) - Region) % Space) \in Places /\ RoundUp(End(a)) \in Places
  BY <1>1, <1>2, RoundPlaces
<1> QED  BY <1>3 DEF Onwards

(***************************************************************************)
(* The inductive invariant: all addresses tried, and all regions, are      *)
(* aligned; none of the regions, nor the one about to be allocated, starts *)
(* in the reserved range; what was returned is between the bounds.         *)
(***************************************************************************)
RegionsRight == \A r \in DOMAIN pFree : r \in Aligned /\ ~Reserved(r)
TryRight == try \in Places /\ (pc = "allocate" => ~Reserved(try))
ResultRight == result # Nowhere => InReach(result, function)

IInv == TypeOK /\ RegionsRight /\ TryRight /\ ResultRight

(* The three named parts survive what leaves their variables alone. *)
LEMMA Kept ==
    ASSUME RegionsRight, UNCHANGED <<ntdll, pFree>>
    PROVE  RegionsRight' /\ \A a : Reserved(a)' <=> Reserved(a)
BY DEF RegionsRight, Reserved, LowLower, LowUpper, HighLower, Wraps, NtdllKnown

(* Nothing has been allocated, tried or returned yet. *)
LEMMA InitRight == Init => IInv
<1> SUFFICES ASSUME Init PROVE IInv  OBVIOUS
<1>1. 0 \in Places
  <2>1. RoundDown(0) \in Places /\ RoundDown(0) <= 0  BY RoundPlaces, RoundDownAligned, Sizes
  <2> QED  BY <2>1 DEF Places
<1>2. TypeOK
  <2>1. /\ free \subseteq Addresses
        /\ pFree \in [{regions[i] : i \in DOMAIN regions} -> 1 .. (PerRegion + 1)]
    BY EnvironmentAssumption DEF Init
  <2>2. MaxCalls \in Nat /\ MaxForeign \in Nat  BY EnvironmentAssumption
  <2>3. function \in FunctionType  BY Sizes, SizeAssumption DEF Init, FunctionType
  <2>4. try \in 0 .. (Space - 1)  BY Sizes DEF Init
  <2>5. regions \in Seq(Addresses) /\ default \in Addresses \cup {Nowhere}  BY DEF Init
  <2>6. calls \in 0 .. MaxCalls /\ foreign \in 0 .. MaxForeign  BY <2>2 DEF Init
  <2>7. search \in 1 .. 6 /\ result \in Addresses \cup {Nowhere}
        /\ pc \in {"idle", "scan", "allocate"} /\ ntdll \in Ntdlls \cup {Nowhere}
    BY DEF Init
  <2>8. disturbed \in BOOLEAN  BY DEF Init
  <2> QED  BY <2>1, <2>3, <2>4, <2>5, <2>6, <2>7, <2>8 DEF TypeOK, FunctionType
<1> QED  BY <1>1, <1>2 DEF Init, IInv, RegionsRight, TryRight, ResultRight

(* A trampoline of a usable region is between the bounds. *)
LEMMA CallKeeps == IInv /\ Call => IInv'
<1> SUFFICES ASSUME IInv, Call PROVE IInv'  OBVIOUS
<1>1. PICK f \in Functions :
         /\ function' = f
         /\ \/ \E i \in DOMAIN regions :
                  /\ Found(f, i)
                  /\ default' = regions[i] /\ Take(regions[i])
                  /\ UNCHANGED <<pc, search, try>>
            \/ /\ \A r \in DOMAIN pFree : ~Usable(r, f)
               /\ pc' = "scan" /\ search' = 1 /\ try' = Start(SearchOf(f, 1))
               /\ default' = Nowhere /\ result' = Nowhere
               /\ UNCHANGED pFree
  BY DEF Call
<1>2. f \in FunctionType  BY EnvironmentAssumption DEF FunctionType
<1>3. /\ UNCHANGED <<ntdll, free, regions, foreign>> /\ disturbed' = FALSE
      /\ calls' \in 0 .. MaxCalls /\ pc = "idle"
  BY EnvironmentAssumption DEF Call, IInv, TypeOK
<1>4. CASE \E i \in DOMAIN regions :
              /\ Found(f, i)
              /\ default' = regions[i] /\ Take(regions[i])
              /\ UNCHANGED <<pc, search, try>>
  <2> PICK i \in DOMAIN regions :
              /\ Found(f, i)
              /\ default' = regions[i] /\ Take(regions[i])
              /\ UNCHANGED <<pc, search, try>>
    BY <1>4
  <2> DEFINE r == regions[i]
  <2>1. Usable(r, f)  BY DEF Found
  <2>2. r \in DOMAIN pFree /\ r \in Addresses /\ pFree[r] \in 1 .. (PerRegion + 1)
    BY DEF IInv, TypeOK
  <2>3. /\ r \in Int /\ PerRegion \in Nat /\ pFree[r] <= PerRegion
        /\ pFree[r] + 1 \in 1 .. (PerRegion + 1)
    BY <2>1, <2>2, SizeAssumption DEF Usable, Addresses
  <2>4. result' = r + pFree[r] /\ InReach(result', f)
    BY <2>1 DEF Take, Trampoline, Usable
  <2>5. result' \in Addresses  BY <2>3, <2>4, <1>2, Bounds
  <2>6. pFree' \in [{regions[j] : j \in DOMAIN regions} -> 1 .. (PerRegion + 1)]
        /\ DOMAIN pFree' = DOMAIN pFree
    BY <2>2, <2>3 DEF Take, IInv, TypeOK
  <2>7. TypeOK'
    <3>1. UNCHANGED <<ntdll, free, regions, foreign, pc, search, try>>  BY <1>3
    <3>2. default' \in Addresses /\ calls' \in 0 .. MaxCalls /\ disturbed' \in BOOLEAN
      BY <1>3, <2>2
    <3>3. function' \in FunctionType  BY <1>1, <1>2
    <3>4. pFree' \in [{regions'[j] : j \in DOMAIN regions'} -> 1 .. (PerRegion + 1)]
      BY <2>6, <3>1
    <3> HIDE DEF r
    <3> QED  BY <2>5, <3>1, <3>2, <3>3, <3>4 DEF IInv, TypeOK, FunctionType
  <2>8. RegionsRight' /\ TryRight'
    BY <1>3, <2>6 DEF IInv, RegionsRight, TryRight, Reserved, LowLower, LowUpper,
                      HighLower, Wraps, NtdllKnown
  <2>9. ResultRight'  BY <1>1, <2>4 DEF ResultRight, InReach, pLo, pHi
  <2> QED  BY <2>7, <2>8, <2>9 DEF IInv
<1>5. CASE /\ \A r \in DOMAIN pFree : ~Usable(r, f)
           /\ pc' = "scan" /\ search' = 1 /\ try' = Start(SearchOf(f, 1))
           /\ default' = Nowhere /\ result' = Nowhere
           /\ UNCHANGED pFree
  <2>1. try' \in Places  BY <1>2, <1>5, StartRight
  <2>2. TypeOK'
    <3>1. try' \in 0 .. (Space - 1) /\ search' \in 1 .. 6  BY <1>5, <2>1 DEF Places
    <3>2. function' \in FunctionType  BY <1>1, <1>2
    <3> QED  BY <1>3, <1>5, <3>1, <3>2 DEF IInv, TypeOK, FunctionType
  <2>3. RegionsRight'  BY <1>3, <1>5, Kept DEF IInv
  <2> QED  BY <1>5, <2>1, <2>2, <2>3 DEF IInv, TryRight, ResultRight
<1> QED  BY <1>1, <1>4, <1>5

(* The next search starts at an aligned address, or there is none. *)
LEMMA NextSearchRight ==
    ASSUME IInv, NextSearch
    PROVE  pc' \in {"idle", "scan"} /\ search' \in 1 .. 6 /\ try' \in Places
<1>1. function \in FunctionType /\ search \in 1 .. 6 /\ try \in Places
  BY DEF IInv, TypeOK, TryRight, FunctionType
<1>2. CASE search < 6
  <2>1. search + 1 \in 1 .. 6  BY <1>1, <1>2
  <2> QED  BY <1>1, <1>2, <2>1, StartRight DEF NextSearch
<1>3. CASE ~(search < 6)  BY <1>1, <1>3 DEF NextSearch
<1> QED  BY <1>2, <1>3

(* A step that only moves the search. *)
LEMMA MoveKeeps ==
    ASSUME IInv, Unchanged, free' \subseteq Addresses, try' \in Places,
           pc' \in {"idle", "scan", "allocate"}, search' \in 1 .. 6,
           foreign' \in 0 .. MaxForeign, disturbed' \in BOOLEAN,
           pc' = "allocate" => ~Reserved(try)' 
    PROVE  IInv'
<1>1. TypeOK'
  BY DEF IInv, TypeOK, Unchanged, regionVars, Places
<1>2. RegionsRight'  BY Kept DEF IInv, Unchanged, regionVars
<1>3. ResultRight'  BY DEF IInv, ResultRight, InReach, pLo, pHi, Unchanged
<1> QED  BY <1>1, <1>2, <1>3 DEF IInv, TryRight

(* The steps of the searches. *)
LEMMA SearchKeeps == IInv /\ (SearchOver \/ SkipReserved \/ Query \/ AllocateFails
                              \/ AllocateBlocked) => IInv'
<1> SUFFICES ASSUME IInv PROVE SearchOver \/ SkipReserved \/ Query \/ AllocateFails
                              \/ AllocateBlocked => IInv'
  OBVIOUS
<1>1. /\ free \subseteq Addresses /\ try \in Places /\ search \in 1 .. 6
      /\ foreign \in 0 .. MaxForeign /\ disturbed \in BOOLEAN
  BY DEF IInv, TypeOK, TryRight
<1>2. ASSUME SearchOver PROVE IInv'
  BY <1>1, <1>2, NextSearchRight, MoveKeeps DEF SearchOver
<1>3. ASSUME SkipReserved PROVE IInv'
  <2>1. try' \in Places  BY <1>1, <1>3, MoveRight, Sizes DEF SkipReserved
  <2>2. pc' = "scan"  BY <1>3 DEF SkipReserved, Looking
  <2> QED  BY <1>1, <1>3, <2>1, <2>2, MoveKeeps DEF SkipReserved
<1>4. ASSUME Query PROVE IInv'
  <2>1. /\ Unchanged /\ UNCHANGED <<free, foreign, disturbed>> /\ ~Reserved(try)
        /\ pc = "scan"
    BY <1>4 DEF Query, Looking
  <2>2. CASE NextSearch  BY <1>1, <2>1, <2>2, NextSearchRight, MoveKeeps
  <2>3. CASE pc' = "allocate" /\ UNCHANGED <<search, try>>
    <3>1. ~Reserved(try)'
      BY <2>1, <2>3 DEF Reserved, LowLower, LowUpper, HighLower, Wraps, NtdllKnown, Unchanged
    <3> QED  BY <1>1, <2>1, <2>3, <3>1, MoveKeeps
  <2>4. CASE /\ try <= Maximum /\ ~Fits(try)
             /\ try' = Onwards(try) /\ UNCHANGED <<pc, search>>
    <3>1. try \in Addresses  BY <1>1, <2>4 DEF Places, Addresses
    <3>2. try' \in Places  BY <2>4, <3>1, OnwardsRight
    <3> QED  BY <1>1, <2>1, <2>4, <3>2, MoveKeeps
  <2> QED  BY <1>4, <2>2, <2>3, <2>4 DEF Query
<1>5. ASSUME AllocateFails PROVE IInv'
  <2>1. try' \in Places  BY <1>1, <1>5, MoveRight, Sizes DEF AllocateFails
  <2> QED  BY <1>1, <1>5, <2>1, MoveKeeps DEF AllocateFails
<1>6. ASSUME AllocateBlocked PROVE IInv'
  BY <1>1, <1>6, NextSearchRight, MoveKeeps DEF AllocateBlocked
<1> QED  BY <1>2, <1>3, <1>4, <1>5, <1>6

(* The new region starts at the address that was tried. *)
LEMMA AllocateKeeps == IInv /\ Allocate => IInv'
<1> SUFFICES ASSUME IInv, Allocate PROVE IInv'  OBVIOUS
<1>1. try \in Addresses /\ free' \subseteq Addresses
  <2>1. try \in Int /\ Region \in Nat \ {0}  BY Sizes DEF IInv, TypeOK
  <2>2. try \in try .. (try + Region - 1)  BY <2>1
  <2> QED  BY <2>2 DEF Allocate, Fits, IInv, TypeOK
<1>2. try \in Aligned /\ ~Reserved(try)
  BY DEF IInv, TryRight, Places, Allocate
<1>3. regions \in Seq(Addresses) /\ regions' = <<try>> \o regions
  BY DEF IInv, TypeOK, Allocate
<1>4. /\ regions' \in Seq(Addresses)
      /\ {regions'[i] : i \in DOMAIN regions'} = {regions[i] : i \in DOMAIN regions} \cup {try}
  <2>1. regions' \in Seq(Addresses) /\ Len(regions') = Len(regions) + 1
    BY <1>1, <1>3
  <2>2. regions'[1] = try /\ \A i \in DOMAIN regions : regions'[i + 1] = regions[i]
    BY <1>1, <1>3
  <2>3. \A i \in DOMAIN regions' :
           i = 1 \/ (i - 1 \in DOMAIN regions /\ regions'[i] = regions[i - 1])
    BY <1>1, <1>3
  <2>4. \A i \in DOMAIN regions : i + 1 \in DOMAIN regions'  BY <1>3, <2>1
  <2>5. 1 \in DOMAIN regions'  BY <1>3, <2>1
  <2> QED  BY <2>1, <2>2, <2>3, <2>4, <2>5
<1>5. /\ DOMAIN pFree' = DOMAIN pFree \cup {try}
      /\ pFree' \in [DOMAIN pFree \cup {try} -> 1 .. (PerRegion + 1)]
  <2>1. pFree \in [DOMAIN pFree -> 1 .. (PerRegion + 1)]  BY DEF IInv, TypeOK
  <2>2. 1 \in 1 .. (PerRegion + 1) /\ 2 \in 1 .. (PerRegion + 1)
    BY Sizes, SizeAssumption
  <2>3. PICK n \in {1, 2} : pFree' = [r \in DOMAIN pFree \cup {try} |->
                                         IF r # try THEN pFree[r] ELSE n]
    BY DEF Allocate
  <2>4. \A r \in DOMAIN pFree \cup {try} :
           (IF r # try THEN pFree[r] ELSE n) \in 1 .. (PerRegion + 1)
    BY <2>1, <2>2
  <2> QED  BY <2>3, <2>4
<1>6. result' \in Addresses \cup {Nowhere} /\ ResultRight'
  <2>1. function \in FunctionType /\ UNCHANGED function
    BY DEF IInv, TypeOK, FunctionType, Allocate
  <2>2. result' = Nowhere \/ (result' = try + 1 /\ InReach(try + 1, function))
    BY DEF Allocate, Accepted
  <2>3. try + 1 \in Int  BY <1>1, Sizes DEF Addresses
  <2>4. InReach(try + 1, function) => try + 1 \in Addresses  BY <2>1, <2>3, Bounds
  <2>5. ResultRight'  BY <2>1, <2>2 DEF ResultRight, InReach, pLo, pHi
  <2> QED  BY <2>2, <2>4, <2>5
<1>7. TypeOK'
  BY <1>1, <1>4, <1>5, <1>6 DEF Allocate, IInv, TypeOK
<1>8. RegionsRight'
  <2>1. \A a : Reserved(a)' <=> Reserved(a)
    BY DEF Allocate, Reserved, LowLower, LowUpper, HighLower, Wraps, NtdllKnown
  <2>2. \A r \in DOMAIN pFree' : r \in Aligned /\ ~Reserved(r)
    BY <1>2, <1>5 DEF IInv, RegionsRight
  <2> QED  BY <2>2
        DEF Allocate, RegionsRight, Reserved, LowLower, LowUpper, HighLower, Wraps, NtdllKnown
<1>9. TryRight'  BY DEF IInv, TryRight, Allocate
<1> QED  BY <1>6, <1>7, <1>8, <1>9 DEF IInv

(* Others change free memory, and nothing of this. *)
LEMMA OthersKeep == \A a \in Blocks : IInv /\ Others(a) => IInv'
<1> SUFFICES ASSUME NEW a \in Blocks, IInv, Others(a) PROVE IInv'  OBVIOUS
<1>1. free' \subseteq Addresses  BY DEF Others, IInv, TypeOK
<1>2. foreign' \in 0 .. MaxForeign /\ disturbed' = TRUE
  BY EnvironmentAssumption DEF Others, IInv, TypeOK
<1>3. UNCHANGED <<ntdll, regionVars, pc, function, search, try, result, calls>>
  BY DEF Others
<1>4. ~Reserved(try) => ~Reserved(try)'
  BY <1>3 DEF Reserved, LowLower, LowUpper, HighLower, Wraps, NtdllKnown
<1>5. try \in Places /\ (pc = "allocate" => ~Reserved(try))  BY DEF IInv, TryRight
<1>6. pc \in {"idle", "scan", "allocate"} /\ search \in 1 .. 6  BY DEF IInv, TypeOK
<1> QED  BY <1>1, <1>2, <1>3, <1>4, <1>5, <1>6, MoveKeeps DEF Unchanged

(* Each step preserves the invariant. *)
LEMMA Invariance == Spec => []IInv
<1>1. ASSUME IInv, [Next]_vars PROVE IInv'
  <2>1. CASE Call  BY <1>1, <2>1, CallKeeps
  <2>2. CASE Search  BY <1>1, <2>2, SearchKeeps, AllocateKeeps DEF Search
  <2>3. CASE \E a \in Blocks : Others(a)  BY <1>1, <2>3, OthersKeep
  <2>4. CASE UNCHANGED vars
    BY <1>1, <2>4 DEF vars, regionVars, IInv, TypeOK, RegionsRight, TryRight, ResultRight,
                      Reserved, LowLower, LowUpper, HighLower, Wraps, NtdllKnown,
                      InReach, pLo, pHi
  <2> QED  BY <1>1, <2>1, <2>2, <2>3, <2>4 DEF Next
<1> QED  BY <1>1, InitRight, PTL DEF Spec

(***************************************************************************)
(* No room is passed over: a search upwards is never above the room it has *)
(* still to find, and one downwards never below it.                        *)
(***************************************************************************)
(* Where a search that takes place is: within its own range, or above all memory. *)
Bounded(s, a) ==
    IF s.down THEN a > Maximum \/ (a <= s.hi - Region /\ s.hi - Region <= Maximum)
    ELSE a >= s.lo

(* The sizes, as the following lemmas use them. *)
LEMMA Widths ==
    /\ {Space, Maximum, Giga, Skip, Region} \subseteq Nat /\ Region > 0
    /\ Region < Giga /\ Maximum + Skip + 2 * Giga < Space
BY SizeAssumption DEF Span

(* A search that takes place has aligned ends, below the end of the address space. *)
LEMMA SearchShape ==
    ASSUME NEW f \in FunctionType, NEW i \in 1 .. 6, SearchOf(f, i).on
    PROVE  /\ SearchOf(f, i).down \in BOOLEAN
           /\ SearchOf(f, i).lo \in Int /\ SearchOf(f, i).hi \in Int
           /\ IF SearchOf(f, i).down
              THEN SearchOf(f, i).hi \in Aligned /\ SearchOf(f, i).hi \in 0 .. (Maximum + Giga)
              ELSE SearchOf(f, i).lo \in Aligned /\ SearchOf(f, i).lo \in 0 .. (Maximum + Giga)
<1> DEFINE t == RoundDown(f.at)
<1> DEFINE s == SearchOf(f, i)
<1>1. pLo(f) \in Int /\ pHi(f) \in Int  BY Bounds
<1>2. t \in Aligned /\ t \in Int /\ 0 <= t /\ t <= Maximum
  <2>1. f.at \in Int /\ 0 <= f.at /\ f.at <= Maximum  BY Sizes DEF FunctionType
  <2>2. t \in Aligned /\ t <= f.at /\ 0 <= t  BY <2>1, RoundDownAligned
  <2> QED  BY <2>1, <2>2, AlignedSum, Widths
<1>3. t - Giga \in Aligned /\ t + Giga \in Aligned  BY <1>2, AlignedSum, Sizes
<1>4. s = Plan(i, t, pLo(f), pHi(f)) /\ s.on  BY DEF SearchOf
<1> HIDE DEF t, s
<1>5. CASE i = 1
  <2>1. s = Down(pLo(f), t - Giga, t > Giga)  BY <1>4, <1>5 DEF Plan
  <2>2. t > Giga
    <3>1. s.on = (t > Giga)  BY <2>1, Zenon DEF Down
    <3> QED  BY <3>1, <1>4, Zenon
  <2>3. t - Giga \in 0 .. (Maximum + Giga)  BY <2>2, <1>2, Widths
  <2> QED  BY <2>1, <2>3, <1>1, <1>2, <1>3, Widths DEF Down, s
<1>6. CASE i = 2
  <2>1. s = Up(t + Giga, pHi(f), t < Space - 3 * Giga)  BY <1>4, <1>6 DEF Plan
  <2> QED  BY <2>1, <1>1, <1>2, <1>3, <1>4, Widths DEF Up, s
<1>7. CASE i = 3
  <2>1. s = Up(t - Giga, t, t > Giga)  BY <1>4, <1>7 DEF Plan
  <2>2. t > Giga
    <3>1. s.on = (t > Giga)  BY <2>1, Zenon DEF Up
    <3> QED  BY <3>1, <1>4, Zenon
  <2>3. t - Giga \in 0 .. (Maximum + Giga)  BY <2>2, <1>2, Widths
  <2> QED  BY <2>1, <2>3, <1>1, <1>2, <1>3, Widths DEF Up, s
<1>8. CASE i = 4
  <2>1. s = Down(t, t + Giga, t < Space - 3 * Giga)  BY <1>4, <1>8 DEF Plan
  <2> QED  BY <2>1, <1>1, <1>2, <1>3, <1>4, Widths DEF Down, s
<1>9. CASE i = 5
  <2>1. s = Down(pLo(f), t, TRUE)  BY <1>4, <1>9 DEF Plan
  <2> QED  BY <2>1, <1>1, <1>2, <1>3, <1>4, Widths DEF Down, s
<1>10. CASE i = 6
  <2>1. s = Up(t, pHi(f), TRUE)  BY <1>4, <1>10 DEF Plan
  <2> QED  BY <2>1, <1>1, <1>2, <1>3, <1>4, Widths DEF Up, s
<1> QED  BY <1>5, <1>6, <1>7, <1>8, <1>9, <1>10

(* An aligned number within the address space neither wraps around nor is rounded; one
   below it, by at most a region, wraps around to above all memory. *)
LEMMA WrapsAbove ==
    ASSUME NEW h \in Aligned
    PROVE  /\ h \in 0 .. (Space - 1) => RoundDown(h % Space) = h
           /\ h \in (-Region) .. (-1) => RoundDown(h % Space) > Maximum
<1>1. h \in Int /\ RoundDown(h) = h  BY AlignedSum, RoundDownNearest
<1>2. h \in 0 .. (Space - 1) => RoundDown(h % Space) = h  BY <1>1, Wrapping
<1>3. ASSUME h \in (-Region) .. (-1) PROVE RoundDown(h % Space) > Maximum
  <2>1. h \in (-Space) .. (-1)  BY <1>1, <1>3, Widths
  <2>2. h % Space = h + Space  BY <2>1, Wrapping
  <2>3. h + Space \in Aligned  BY AlignedSum, Sizes
  <2>4. RoundDown(h + Space) = h + Space  BY <2>3, RoundDownNearest
  <2> QED  BY <1>1, <1>3, <2>2, <2>4, Widths
<1> QED  BY <1>2, <1>3

(* A search starts where it should. *)
LEMMA StartBounded ==
    ASSUME NEW f \in FunctionType, NEW i \in 1 .. 6, SearchOf(f, i).on
    PROVE  Bounded(SearchOf(f, i), Start(SearchOf(f, i)))
<1> DEFINE s == SearchOf(f, i)
<1>1. /\ s.down \in BOOLEAN /\ s.lo \in Int /\ s.hi \in Int
      /\ s.down => s.hi \in Aligned /\ s.hi \in 0 .. (Maximum + Giga)
      /\ ~s.down => s.lo \in Aligned /\ s.lo \in 0 .. (Maximum + Giga)
  BY SearchShape
<1> HIDE DEF s
<1> SUFFICES Bounded(s, Start(s))  BY DEF s
<1>2. CASE s.down
  <2>1. s.hi - Region \in Aligned /\ s.hi - Region \in Int
    BY <1>1, <1>2, AlignedSum, Sizes
  <2>2. CASE s.hi - Region >= 0
    <3>1. s.hi - Region \in 0 .. (Space - 1)  BY <1>1, <1>2, <2>1, <2>2, Widths
    <3>2. Start(s) = s.hi - Region  BY <1>2, <2>1, <3>1, WrapsAbove DEF Start
    <3> QED  BY <1>2, <2>1, <3>2, Widths DEF Bounded
  <2>3. CASE s.hi - Region < 0
    <3>1. s.hi - Region \in (-Region) .. (-1)  BY <1>1, <1>2, <2>1, <2>3, Widths
    <3>2. Start(s) > Maximum  BY <1>2, <2>1, <3>1, WrapsAbove DEF Start
    <3> QED  BY <1>2, <3>2 DEF Bounded
  <2> QED  BY <2>1, <2>2, <2>3
<1>3. CASE ~s.down
  <2>1. s.lo \in Nat /\ s.lo + Region - 1 < Space  BY <1>1, <1>3, Widths
  <2>2. RoundUp(s.lo) >= s.lo  BY <2>1, RoundUpNearest
  <2> QED  BY <1>3, <2>2 DEF Bounded, Start
<1> QED  BY <1>1, <1>2, <1>3

(* A search that skips a part of the reserved range goes on within its own. *)
LEMMA SkipBounded ==
    ASSUME NEW s, s.down \in BOOLEAN, s.lo \in Int, s.hi \in Int,
           NEW a \in Addresses, Bounded(s, a)
    PROVE  Bounded(s, Move(s, a, Skip))
<1>1. a \in Int /\ 0 <= a /\ a <= Maximum  BY Widths DEF Addresses
<1>2. CASE s.down
  <2>1. Move(s, a, Skip) = (a - Skip) % Space  BY <1>2 DEF Move
  <2>2. CASE a - Skip >= 0
    <3>1. a - Skip \in 0 .. (Space - 1)  BY <1>1, <2>2, Widths
    <3>2. Move(s, a, Skip) = a - Skip  BY <2>1, <3>1, Wrapping
    <3> QED  BY <1>1, <1>2, <3>2, Widths DEF Bounded
  <2>3. CASE a - Skip < 0
    <3>1. a - Skip \in (-Space) .. (-1)  BY <1>1, <2>3, Widths
    <3>2. Move(s, a, Skip) = a - Skip + Space  BY <2>1, <3>1, Wrapping
    <3> QED  BY <1>1, <1>2, <3>2, Widths DEF Bounded
  <2> QED  BY <1>1, <2>2, <2>3, Widths
<1>3. CASE ~s.down
  <2>1. a + Skip \in 0 .. (Space - 1)  BY <1>1, Widths
  <2>2. Move(s, a, Skip) = a + Skip  BY <1>3, <2>1, Wrapping DEF Move
  <2> QED  BY <1>1, <1>3, <2>2, Widths DEF Bounded
<1> QED  BY <1>2, <1>3

(* So does a search that goes on behind a block: downwards, it wraps around or goes on
   below the block, by a region; upwards, above its end. *)
LEMMA OnwardsBounded ==
    ASSUME NEW a \in Addresses, ~Fits(a)
    PROVE  IF Current.down THEN Onwards(a) > Maximum \/ Onwards(a) <= a - Region
           ELSE Onwards(a) > a
<1>1. a \in Int /\ 0 <= a /\ a <= Maximum  BY Widths DEF Addresses
<1>2. CASE Current.down
  <2> DEFINE b == AllocationBase(a)
  <2>1. b \in 0 .. a  BY Block
  <2>2. Onwards(a) = RoundDown((b - Region) % Space)  BY <1>2 DEF Onwards
  <2> HIDE DEF b
  <2>3. CASE b - Region >= 0
    <3>1. b - Region \in 0 .. (Space - 1)  BY <1>1, <2>1, <2>3, Widths
    <3>2. Onwards(a) = RoundDown(b - Region)  BY <2>2, <3>1, Wrapping
    <3>3. RoundDown(b - Region) <= b - Region /\ RoundDown(b - Region) \in Int
      BY <2>1, <3>1, RoundDownAligned, AlignedSum
    <3> QED  BY <1>1, <1>2, <2>1, <3>2, <3>3, Widths
  <2>4. CASE b - Region < 0
    <3>1. b - Region \in (-Space) .. (-1) /\ b - Region + Space \in Int
          /\ Space - Region <= b - Region + Space
      BY <1>1, <2>1, <2>4, Widths
    <3>2. (b - Region) % Space = b - Region + Space  BY <3>1, Wrapping
    <3>3. Space - Region \in Aligned  BY AlignedSum, Sizes
    <3>4. Space - Region <= RoundDown(b - Region + Space)
      BY <3>1, <3>3, RoundDownNearest
    <3>5. RoundDown(b - Region + Space) \in Int  BY <3>1, RoundDownAligned, AlignedSum
    <3> QED  BY <1>2, <2>2, <3>2, <3>4, <3>5, Widths
  <2> QED  BY <1>1, <2>1, <2>3, <2>4, Widths
<1>3. CASE ~Current.down
  <2>1. End(a) \in (a + 1) .. (Maximum + Region)  BY Block
  <2>2. End(a) \in Nat /\ End(a) + Region - 1 < Space /\ End(a) > a
    BY <1>1, <2>1, Widths
  <2>3. RoundUp(End(a)) >= End(a)  BY <2>2, RoundUpNearest
  <2>4. RoundUp(End(a)) \in Int  BY <2>2, RoundPlaces DEF Places
  <2> QED  BY <1>1, <1>3, <2>2, <2>3, <2>4 DEF Onwards
<1> QED  BY <1>2, <1>3

(* The invariant, as long as nothing disturbs the call: a search is within its range,
   and about to allocate only inside of it; the fifth search has not passed over room
   below the function, the sixth not over any; when all are over, there is none. *)
Target == RoundDown(function.at)
WithinRange == pc # "idle" /\ Current.on => Bounded(Current, try)
AllocatesInside == pc = "allocate" => Current.on /\ Inside(Current, try) /\ Fits(try)
BelowPassed ==
    pc # "idle" /\ search = 5 =>
        \A r \in free : Room(r) /\ r < Target => r <= try /\ try < Target
AbovePassed == pc # "idle" /\ search = 6 => \A r \in free : Room(r) => try <= r
AllPassed == pc = "idle" /\ calls > 0 /\ result = Nowhere => \A r \in free : ~Room(r)

RoomInv ==
    ~disturbed =>
        /\ WithinRange /\ AllocatesInside
        /\ SearchesWithin(function) /\ WholeBlocks => BelowPassed /\ AbovePassed /\ AllPassed

(* The searches of a function do not change, nor what is room for it, while memory does
   not change. *)
LEMMA SameSearches ==
    ASSUME UNCHANGED <<ntdll, free, function>>
    PROVE  /\ \A r : Room(r)' <=> Room(r)
           /\ WholeBlocks' <=> WholeBlocks
           /\ SearchesWithin(function)' <=> SearchesWithin(function)
           /\ Target' = Target
<1>1. \A r : Room(r)' <=> Room(r)
  BY DEF Room, Reserved, LowLower, LowUpper, HighLower, Wraps, NtdllKnown, pLo, pHi
<1>2. WholeBlocks' <=> WholeBlocks  BY DEF WholeBlocks
<1>3. SearchesWithin(function)' <=> SearchesWithin(function)
  BY DEF SearchesWithin, SearchOf, pLo, pHi
<1>4. Target' = Target  BY DEF Target
<1> QED  BY <1>1, <1>2, <1>3, <1>4

(* The current search is the one of the function and the number. *)
LEMMA SameCurrent ==
    ASSUME NEW f, NEW i, function' = f, search' = i
    PROVE  Current' = SearchOf(f, i)
BY DEF Current, SearchOf, pLo, pHi

(* The parts of a state that the next lemmas use. *)
LEMMA RoomTypes ==
    ASSUME IInv
    PROVE  /\ function \in FunctionType /\ search \in 1 .. 6
           /\ try \in Aligned /\ try \in 0 .. (Space - 1)
           /\ Target \in Aligned /\ Target \in 0 .. Maximum
           /\ pLo(function) \in Nat /\ pHi(function) \in Nat
           /\ free \subseteq Addresses /\ Addresses \subseteq Nat
           /\ \A r : Room(r) => r \in Aligned /\ r \in Addresses
<1>1. /\ function \in FunctionType /\ search \in 1 .. 6
      /\ try \in Places /\ free \subseteq Addresses
  BY DEF IInv, TypeOK, TryRight, FunctionType
<1>2. function.at \in Int /\ 0 <= function.at /\ function.at <= Maximum
  BY <1>1, Sizes DEF FunctionType
<1>3. Target \in Aligned /\ Target \in 0 .. Maximum
  <2>1. Target \in Aligned /\ Target <= function.at /\ 0 <= Target
    BY <1>2, RoundDownAligned DEF Target
  <2>2. Target \in Int  BY <2>1, AlignedSum
  <2> QED  BY <1>2, <2>1, <2>2, Widths
<1>4. ASSUME NEW r, Room(r) PROVE r \in Aligned /\ r \in Addresses
  <2>1. r \in Addresses /\ r % Region = 0  BY <1>4 DEF Room
  <2>2. r \in Int  BY <2>1, Widths DEF Addresses
  <2>3. r \in Aligned  BY <2>1, <2>2, MultipleMod, Sizes DEF Aligned
  <2> QED  BY <2>1, <2>3
<1>5. Addresses \subseteq Nat  BY Widths DEF Addresses
<1> QED  BY <1>1, <1>3, <1>4, <1>5, Bounds DEF Places

(* The last two searches. *)
LEMMA LastSearches ==
    /\ SearchOf(function, 5) = Down(pLo(function), Target, TRUE)
    /\ SearchOf(function, 6) = Up(Target, pHi(function), TRUE)
BY DEF SearchOf, Plan, Target

(* The fifth search ends when all below the function has been passed, the sixth when
   all above has. *)
LEMMA SearchLeavesNoRoom ==
    ASSUME IInv, pc = "scan", BelowPassed, AbovePassed,
           ~(Current.on /\ Inside(Current, try)) \/ try > Maximum
    PROVE  /\ search = 5 => \A r \in free : ~(Room(r) /\ r < Target)
           /\ search = 6 => \A r \in free : ~Room(r)
<1>1. ASSUME search = 5, NEW r \in free, Room(r), r < Target PROVE FALSE
  <2>1. r <= try /\ try < Target  BY <1>1 DEF BelowPassed
  <2>2. Current.on = TRUE /\ (Inside(Current, try) <=> try > pLo(function))
    BY <1>1, LastSearches DEF Current, Down, Inside
  <2>3. pLo(function) < r  BY <1>1 DEF Room
  <2> QED  BY <2>1, <2>2, <2>3, RoomTypes, Widths
<1>2. ASSUME search = 6, NEW r \in free, Room(r) PROVE FALSE
  <2>1. try <= r  BY <1>2 DEF AbovePassed
  <2>2. Current.on = TRUE /\ (Inside(Current, try) <=> try < pHi(function))
    BY <1>2, LastSearches DEF Current, Up, Inside
  <2>3. r < pHi(function)  BY <1>2 DEF Room
  <2>4. r <= Maximum  BY Widths, RoomTypes DEF Addresses
  <2> QED  BY <2>1, <2>2, <2>3, <2>4, RoomTypes, Widths
<1> QED  BY <1>1, <1>2

(* So the next search starts where no room has been passed over, or there is none. *)
LEMMA NextSearchRoom ==
    ASSUME IInv, NextSearch, Unchanged, UNCHANGED free,
           SearchesWithin(function) /\ WholeBlocks =>
               /\ search = 5 => \A r \in free : ~(Room(r) /\ r < Target)
               /\ search = 6 => \A r \in free : ~Room(r)
    PROVE  RoomInv'
<1>1. UNCHANGED <<ntdll, free, function>>  BY DEF Unchanged
<1> USE <1>1, SameSearches, RoomTypes
<1>2. CASE search < 6
  <2> PICK f \in FunctionType : f = function  OBVIOUS
  <2> PICK i \in 1 .. 6 : i = search + 1  BY <1>2
  <2>1. /\ search' = i /\ try' = Start(SearchOf(f, i)) /\ pc' = "scan" /\ function' = f
    BY <1>2 DEF NextSearch
  <2>2. Current' = SearchOf(f, i)  BY <2>1, SameCurrent
  <2>3. WithinRange'
    <3>1. SearchOf(f, i).on => Bounded(SearchOf(f, i), Start(SearchOf(f, i)))
      BY StartBounded
    <3> QED  BY <2>1, <2>2, <3>1 DEF WithinRange, Bounded
  <2>4. AllocatesInside'  BY <2>1 DEF AllocatesInside
  <2>5. BelowPassed'
    <3> SUFFICES ASSUME i = 5, NEW r \in free, Room(r), r < Target
                 PROVE  r <= try' /\ try' < Target
      BY <2>1 DEF BelowPassed
    <3>1. SearchOf(f, i) = Down(pLo(f), Target, TRUE)  BY LastSearches
    <3>2. try' = RoundDown((Target - Region) % Space)  BY <2>1, <3>1 DEF Start, Down
    <3>3. r + Region <= Target /\ r >= 0
      BY AlignedGap DEF Addresses
    <3>4. Target - Region \in Aligned  BY AlignedSum, Sizes
    <3>5. Target - Region \in 0 .. (Space - 1)  BY <3>3, Widths DEF Addresses
    <3>6. try' = Target - Region  BY <3>2, <3>4, <3>5, WrapsAbove
    <3> QED  BY <3>3, <3>6, Widths DEF Addresses
  <2>6. SearchesWithin(function) /\ WholeBlocks => AbovePassed'
    <3> SUFFICES ASSUME i = 6, SearchesWithin(function), WholeBlocks,
                        NEW r \in free, Room(r)
                 PROVE  try' <= r
      BY <2>1 DEF AbovePassed
    <3>1. SearchOf(f, i) = Up(Target, pHi(f), TRUE)  BY LastSearches
    <3>2. try' = RoundUp(Target)  BY <2>1, <3>1 DEF Start, Up
    <3>3. Target \in Nat /\ Target + Region - 1 < Space  BY Widths
    <3>4. try' <= Target  BY <3>2, <3>3, RoundUpNearest
    <3>5. ~(r < Target)  BY <1>2
    <3>6. try' \in Int  BY <3>2, <3>3, RoundPlaces DEF Places
    <3> QED  BY <3>4, <3>5, <3>6, Widths DEF Addresses
  <2>7. AllPassed'  BY <2>1 DEF AllPassed
  <2> QED  BY <2>3, <2>4, <2>5, <2>6, <2>7 DEF RoomInv
<1>3. CASE ~(search < 6)
  <2>1. pc' = "idle" /\ search = 6 /\ UNCHANGED search  BY <1>3 DEF NextSearch
  <2>2. WithinRange' /\ AllocatesInside' /\ BelowPassed' /\ AbovePassed'
    BY <2>1 DEF WithinRange, AllocatesInside, BelowPassed, AbovePassed
  <2>3. SearchesWithin(function) /\ WholeBlocks => AllPassed'  BY <2>1 DEF AllPassed
  <2> QED  BY <2>2, <2>3 DEF RoomInv
<1> QED  BY <1>2, <1>3

(* What a search skips at a reserved address is no room: what is that close to the
   reserved range is not. *)
LEMMA SkipRoom ==
    ASSUME IInv, RoomInv, SkipReserved, ~disturbed
    PROVE  RoomInv'
<1>1. /\ UNCHANGED <<ntdll, free, function>> /\ pc = "scan" /\ UNCHANGED <<pc, search>>
      /\ Reserved(try) /\ Current.on /\ try' = Move(Current, try, Skip)
  BY DEF SkipReserved, Unchanged, Looking
<1>2. try \in Addresses
  <2>1. LowUpper <= Maximum
    <3>1. NtdllKnown => ntdll \in Addresses
      BY EnvironmentAssumption DEF NtdllKnown, IInv, TypeOK
    <3>2. \A n \in Addresses : n - 1 <= Maximum  BY Widths DEF Addresses
    <3> QED  BY <3>1, <3>2, Widths DEF LowUpper
  <2>2. LowUpper \in Int /\ LowLower \in Int /\ Highest = Maximum
    BY EnvironmentAssumption, Sizes
    DEF LowUpper, LowLower, Lowest, Highest, NtdllKnown, IInv, TypeOK
  <2>3. try <= Maximum  BY <1>1, <2>1, <2>2, RoomTypes, Widths DEF Reserved
  <2> QED  BY <2>3, RoomTypes, Widths DEF Addresses
<1> PICK s : s = Current  OBVIOUS
<1>3. Current' = s
  <2> PICK f : f = function  OBVIOUS
  <2> PICK i : i = search  OBVIOUS
  <2>1. function' = f /\ search' = i  BY <1>1
  <2> QED  BY <2>1, SameCurrent DEF Current
<1>4. WithinRange'
  <2>1. s.down \in BOOLEAN /\ s.lo \in Int /\ s.hi \in Int
    BY <1>1, SearchShape, RoomTypes DEF Current
  <2>2. Bounded(s, try)  BY <1>1 DEF RoomInv, WithinRange
  <2>3. Bounded(s, try')  BY <1>1, <1>2, <2>1, <2>2, SkipBounded
  <2> QED  BY <1>3, <2>3 DEF WithinRange, Bounded
<1>5. AllocatesInside' /\ AllPassed'  BY <1>1 DEF AllocatesInside, AllPassed
<1>6. ASSUME NEW r, Room(r), NEW n \in 0 .. Skip, try = r + n \/ try = r - n
      PROVE  FALSE
  BY <1>1, <1>6 DEF Room
<1>7. ASSUME BelowPassed PROVE BelowPassed'
  <2> SUFFICES ASSUME search = 5, NEW r \in free, Room(r), r < Target
               PROVE  r <= try' /\ try' < Target
    BY <1>1, SameSearches DEF BelowPassed
  <2>1. r <= try /\ try < Target /\ r \in Nat
    BY <1>1, <1>7, RoomTypes DEF BelowPassed
  <2>2. ~(try - r \in 0 .. Skip)
    <3> SUFFICES ASSUME try - r \in 0 .. Skip PROVE FALSE  OBVIOUS
    <3>1. try = r + (try - r)  BY <2>1, RoomTypes
    <3> QED  BY <3>1, <1>6
  <2>3. r < try - Skip  BY <2>1, <2>2, RoomTypes, Widths
  <2>4. try' = (try - Skip) % Space  BY <1>1, LastSearches DEF Move, Down, Current
  <2>5. try - Skip \in 0 .. (Space - 1)  BY <2>1, <2>3, RoomTypes, Widths
  <2> QED  BY <2>1, <2>3, <2>4, <2>5, Wrapping, RoomTypes, Widths
<1>8. ASSUME AbovePassed PROVE AbovePassed'
  <2> SUFFICES ASSUME search = 6, NEW r \in free, Room(r) PROVE try' <= r
    BY <1>1, SameSearches DEF AbovePassed
  <2>1. try <= r /\ r \in Nat
    BY <1>1, <1>8, RoomTypes DEF AbovePassed
  <2>2. ~(r - try \in 0 .. Skip)
    <3> SUFFICES ASSUME r - try \in 0 .. Skip PROVE FALSE  OBVIOUS
    <3>1. try = r - (r - try)  BY <2>1, RoomTypes
    <3> QED  BY <3>1, <1>6
  <2>3. try + Skip < r  BY <2>1, <2>2, RoomTypes, Widths
  <2>4. try' = (try + Skip) % Space  BY <1>1, LastSearches DEF Move, Up, Current
  <2>5. try + Skip \in 0 .. (Space - 1)  BY <1>2, RoomTypes, Widths DEF Addresses
  <2> QED  BY <2>1, <2>3, <2>4, <2>5, Wrapping, RoomTypes, Widths
<1> QED  BY <1>1, <1>4, <1>5, <1>7, <1>8, SameSearches DEF RoomInv

(* Behind a block without room, the search goes on at the next one: where free memory
   comes in whole regions, an address that does not fit is in a block of others. *)
LEMMA OnwardsRoom ==
    ASSUME IInv, RoomInv, pc = "scan", Current.on, Unchanged,
           UNCHANGED <<free, disturbed, pc, search>>,
           try <= Maximum, ~Fits(try), try' = Onwards(try), ~disturbed
    PROVE  RoomInv'
<1>1. try \in Addresses  BY RoomTypes, Widths DEF Addresses
<1>2. UNCHANGED <<ntdll, free, function>>  BY DEF Unchanged
<1> PICK s : s = Current  OBVIOUS
<1>3. Current' = s
  <2> PICK f : f = function  OBVIOUS
  <2> PICK i : i = search  OBVIOUS
  <2>1. function' = f /\ search' = i  BY <1>2
  <2> QED  BY <2>1, SameCurrent DEF Current
<1>4. try' \in Places  BY <1>1, OnwardsRight
<1>5. try' \in Int  BY <1>4, Widths DEF Places
<1>6. WithinRange'
  <2>1. s.down \in BOOLEAN /\ s.lo \in Int /\ s.hi \in Int
    BY SearchShape, RoomTypes DEF Current
  <2>2. Bounded(s, try)  BY DEF RoomInv, WithinRange
  <2>3. IF s.down THEN try' > Maximum \/ try' <= try - Region ELSE try' > try
    BY <1>1, OnwardsBounded
  <2>4. Bounded(s, try')
    BY <1>1, <1>5, <2>1, <2>2, <2>3, RoomTypes, Widths DEF Bounded, Addresses
  <2> QED  BY <1>3, <2>4 DEF WithinRange, Bounded
<1>7. AllocatesInside' /\ AllPassed'  BY DEF AllocatesInside, AllPassed
<1>8. ASSUME WholeBlocks PROVE try \notin free
  <2>1. RoundDown(try) = try  BY RoundDownNearest, RoomTypes, AlignedSum
  <2> QED  BY <1>8, <2>1 DEF WholeBlocks, Fits
<1>9. ASSUME WholeBlocks, BelowPassed PROVE BelowPassed'
  <2> SUFFICES ASSUME search = 5, NEW r \in free, Room(r), r < Target
               PROVE  r <= try' /\ try' < Target
    BY <1>2, SameSearches DEF BelowPassed
  <2>1. r <= try /\ try < Target /\ r \in Nat /\ r \in Aligned
    BY <1>9, RoomTypes DEF BelowPassed
  <2>2. r < try  BY <1>8, <1>9, <2>1, RoomTypes
  <2>3. r + Region <= try  BY <2>1, <2>2, RoomTypes, AlignedGap
  <2>4. Starts(r + Region)
    <3>1. r + Region - 1 \in r .. (r + Region - 1)  BY <2>1, Widths
    <3>2. r + Region - 1 \in free  BY <3>1 DEF Room
    <3>3. (r + Region) - 1 = r + Region - 1  BY <2>1, Widths
    <3> QED  BY <3>2, <3>3, Zenon DEF Starts
  <2> DEFINE b == AllocationBase(try)
  <2>5. b \in 0 .. try /\ r + Region <= b
    <3>1. r + Region \in 0 .. try  BY <2>1, <2>3, RoomTypes, Widths
    <3> QED  BY <1>1, <1>8, <1>9, <2>4, <3>1, Block
  <2>6. try' = RoundDown((b - Region) % Space)
    BY LastSearches DEF Onwards, Current, Down
  <2> HIDE DEF b
  <2>7. b - Region \in 0 .. (Space - 1) /\ b - Region \in Int /\ r <= b - Region
    BY <2>1, <2>5, RoomTypes, Widths
  <2>8. try' = RoundDown(b - Region)  BY <2>6, <2>7, Wrapping
  <2>9. r <= try' /\ try' <= b - Region
    BY <2>1, <2>7, <2>8, RoundDownNearest, RoundDownAligned
  <2> QED  BY <1>5, <2>1, <2>5, <2>9, RoomTypes, Widths
<1>10. ASSUME WholeBlocks, AbovePassed PROVE AbovePassed'
  <2> SUFFICES ASSUME search = 6, NEW r \in free, Room(r) PROVE try' <= r
    BY <1>2, SameSearches DEF AbovePassed
  <2>1. try <= r /\ r \in Nat /\ r \in Aligned
    BY <1>10, RoomTypes DEF AbovePassed
  <2>2. try < r  BY <1>8, <1>10, <2>1, RoomTypes
  <2>3. Ends(try, r)  BY <1>8, <1>10 DEF Ends
  <2>4. End(try) <= r /\ End(try) \in (try + 1) .. (Maximum + Region)
    BY <1>1, <2>1, <2>2, <2>3, Block
  <2>5. End(try) \in Nat /\ End(try) + Region - 1 < Space
    BY <2>4, RoomTypes, Widths
  <2>6. try' = RoundUp(End(try))  BY LastSearches DEF Onwards, Current, Up
  <2> QED  BY <2>1, <2>4, <2>5, <2>6, RoundUpNearest
<1> QED  BY <1>2, <1>6, <1>7, <1>9, <1>10, SameSearches DEF RoomInv

(* A call that finds a trampoline returns it; another one starts the first search. *)
LEMMA CallRoom ==
    ASSUME IInv, Call
    PROVE  RoomInv'
<1>1. PICK f \in Functions :
         /\ function' = f
         /\ \/ \E i \in DOMAIN regions :
                  /\ Found(f, i)
                  /\ default' = regions[i] /\ Take(regions[i])
                  /\ UNCHANGED <<pc, search, try>>
            \/ /\ \A r \in DOMAIN pFree : ~Usable(r, f)
               /\ pc' = "scan" /\ search' = 1 /\ try' = Start(SearchOf(f, 1))
               /\ default' = Nowhere /\ result' = Nowhere
               /\ UNCHANGED pFree
  BY DEF Call
<1>2. f \in FunctionType  BY EnvironmentAssumption DEF FunctionType
<1>3. CASE \E i \in DOMAIN regions :
              /\ Found(f, i)
              /\ default' = regions[i] /\ Take(regions[i])
              /\ UNCHANGED <<pc, search, try>>
  <2> PICK i \in DOMAIN regions : Found(f, i) /\ Take(regions[i]) /\ UNCHANGED pc
    BY <1>3
  <2>1. regions[i] \in DOMAIN pFree /\ Usable(regions[i], f)
    BY DEF IInv, TypeOK, Found
  <2>2. result' = regions[i] + pFree[regions[i]] /\ InReach(result', f)
    BY <2>1 DEF Take, Trampoline, Usable
  <2>3. regions[i] \in Int /\ pFree[regions[i]] \in Int
    <3>1. regions[i] \in Addresses /\ pFree[regions[i]] \in 1 .. (PerRegion + 1)
      BY <2>1 DEF IInv, TypeOK
    <3> QED  BY <3>1, SizeAssumption DEF Addresses
  <2>4. result' # Nowhere  BY <1>2, <2>2, <2>3, Bounds, EnvironmentAssumption
  <2>5. pc' = "idle"  BY DEF Call
  <2> QED  BY <2>4, <2>5 DEF RoomInv, WithinRange, AllocatesInside, BelowPassed,
                             AbovePassed, AllPassed
<1>4. CASE pc' = "scan" /\ search' = 1 /\ try' = Start(SearchOf(f, 1))
  <2>1. Current' = SearchOf(f, 1)  BY <1>1, <1>4, SameCurrent
  <2>2. SearchOf(f, 1).on => Bounded(SearchOf(f, 1), Start(SearchOf(f, 1)))
    BY <1>2, StartBounded
  <2>3. WithinRange'  BY <1>4, <2>1, <2>2 DEF WithinRange, Bounded
  <2>4. AllocatesInside' /\ BelowPassed' /\ AbovePassed' /\ AllPassed'
    BY <1>4 DEF AllocatesInside, BelowPassed, AbovePassed, AllPassed
  <2> QED  BY <2>3, <2>4 DEF RoomInv
<1> QED  BY <1>1, <1>3, <1>4

(* Memory that fits is in the range of the search, and so between the bounds: the
   trampoline allocated there is accepted. *)
LEMMA AllocateRoom ==
    ASSUME IInv, RoomInv, Allocate
    PROVE  RoomInv'
<1> SUFFICES ASSUME ~disturbed, SearchesWithin(function) PROVE result' # Nowhere
  <2>1. /\ UNCHANGED <<function, disturbed>> /\ pc' = "idle"  BY DEF Allocate
  <2>2. SearchesWithin(function)' <=> SearchesWithin(function)
    BY <2>1 DEF SearchesWithin, SearchOf, pLo, pHi
  <2>3. WithinRange' /\ AllocatesInside' /\ BelowPassed' /\ AbovePassed'
    BY <2>1 DEF WithinRange, AllocatesInside, BelowPassed, AbovePassed
  <2> QED  BY <2>1, <2>2, <2>3 DEF RoomInv, AllPassed
<1>1. pc = "allocate" /\ Current.on /\ Inside(Current, try) /\ Bounded(Current, try)
  BY DEF Allocate, RoomInv, AllocatesInside, WithinRange
<1>2. try \in Int /\ 0 <= try /\ try <= Maximum
  <2>1. try \in try .. (try + Region - 1)  BY RoomTypes, Widths
  <2>2. try \in Addresses  BY <2>1, RoomTypes DEF Allocate, Fits
  <2> QED  BY <2>2, Widths DEF Addresses
<1> PICK s : s = Current  OBVIOUS
<1>3. s.down \in BOOLEAN /\ s.lo \in Int /\ s.hi \in Int
  BY <1>1, SearchShape, RoomTypes DEF Current
<1>4. /\ pLo(function) <= s.lo
      /\ s.hi <= pHi(function) \/ (s.down /\ s.hi - Region > Maximum)
  BY <1>1, RoomTypes DEF SearchesWithin, Current
<1>5. InReach(try + 1, function)
  <2>1. CASE s.down
    BY <1>1, <1>2, <1>3, <1>4, <2>1, RoomTypes, Widths DEF InReach, Bounded, Inside
  <2>2. CASE ~s.down
    BY <1>1, <1>2, <1>3, <1>4, <2>2, RoomTypes, Widths DEF InReach, Bounded, Inside
  <2> QED  BY <2>1, <2>2
<1>6. result' = try + 1  BY <1>5 DEF Allocate, Accepted
<1>7. try + 1 \in Addresses  BY <1>2, <1>5, RoomTypes, Bounds
<1> QED  BY <1>6, <1>7, EnvironmentAssumption

(* A search that is over, or that asks the system for an address. *)
LEMMA QueryRoom ==
    ASSUME IInv, RoomInv, SearchOver \/ Query, ~disturbed
    PROVE  RoomInv'
<1>1. pc = "scan" /\ Unchanged /\ UNCHANGED <<free, disturbed>>
  BY DEF SearchOver, Query, Looking
<1>2. CASE NextSearch /\ (~(Current.on /\ Inside(Current, try)) \/ try > Maximum)
  BY <1>1, <1>2, SearchLeavesNoRoom, NextSearchRoom DEF RoomInv
<1>3. CASE Query /\ Fits(try) /\ pc' = "allocate" /\ UNCHANGED <<search, try>>
  <2>1. UNCHANGED <<ntdll, free, function>>  BY <1>1 DEF Unchanged
  <2> PICK f : f = function  OBVIOUS
  <2> PICK i : i = search  OBVIOUS
  <2>2. Current' = Current
    <3>1. function' = f /\ search' = i  BY <1>3, <2>1
    <3> QED  BY <3>1, SameCurrent DEF Current
  <2>3. WithinRange'  BY <1>1, <1>3, <2>2 DEF RoomInv, WithinRange, Bounded
  <2>4. AllocatesInside'
    <3>1. Current.on /\ Inside(Current, try) /\ Fits(try)  BY <1>3 DEF Query, Looking
    <3> QED  BY <1>1, <1>3, <2>2, <3>1 DEF AllocatesInside, Inside, Fits
  <2>5. BelowPassed /\ AbovePassed => BelowPassed' /\ AbovePassed' /\ AllPassed'
    BY <1>1, <1>3, <2>1, SameSearches DEF BelowPassed, AbovePassed, AllPassed
  <2> QED  BY <2>1, <2>3, <2>4, <2>5, SameSearches DEF RoomInv
<1>4. CASE /\ Query /\ try <= Maximum /\ ~Fits(try)
           /\ try' = Onwards(try) /\ UNCHANGED <<pc, search>>
  BY <1>1, <1>4, OnwardsRoom DEF Query
<1> QED  BY <1>2, <1>3, <1>4 DEF SearchOver, Query

(* Each step preserves the invariant. *)
LEMMA RoomInvariance == Spec => []RoomInv
<1>1. Init => RoomInv
  BY DEF Init, RoomInv, WithinRange, AllocatesInside, BelowPassed, AbovePassed, AllPassed
<1>2. ASSUME IInv, RoomInv, [Next]_vars PROVE RoomInv'
  <2>1. CASE Call  BY <1>2, <2>1, CallRoom
  <2>2. ASSUME disturbed' = TRUE PROVE RoomInv'  BY <2>2 DEF RoomInv
  <2>3. CASE Search
    <3>1. CASE AllocateFails \/ AllocateBlocked
      BY <2>2, <3>1 DEF AllocateFails, AllocateBlocked
    <3>2. CASE Allocate  BY <1>2, <3>2, AllocateRoom
    <3>3. CASE SearchOver \/ SkipReserved \/ Query
      <4>1. UNCHANGED disturbed  BY <3>3 DEF SearchOver, SkipReserved, Query
      <4>2. CASE disturbed  BY <4>1, <4>2 DEF RoomInv
      <4>3. CASE ~disturbed  BY <1>2, <3>3, <4>3, SkipRoom, QueryRoom
      <4> QED  BY <4>2, <4>3
    <3> QED  BY <2>3, <3>1, <3>2, <3>3 DEF Search
  <2>4. CASE \E a \in Blocks : Others(a)  BY <2>2, <2>4 DEF Others
  <2>5. CASE UNCHANGED vars
    <3>1. UNCHANGED <<ntdll, free, function, pc, search, try, result, calls, disturbed>>
      BY <2>5 DEF vars
    <3> PICK f : f = function  OBVIOUS
    <3> PICK i : i = search  OBVIOUS
    <3>2. Current' = Current
      <4>1. function' = f /\ search' = i  BY <3>1
      <4> QED  BY <4>1, SameCurrent DEF Current
    <3>3. (WithinRange /\ AllocatesInside) => (WithinRange /\ AllocatesInside)'
      BY <3>1, <3>2 DEF WithinRange, AllocatesInside, Bounded, Inside, Fits
    <3>4. /\ BelowPassed => BelowPassed'
          /\ AbovePassed => AbovePassed'
          /\ AllPassed => AllPassed'
      BY <3>1, SameSearches DEF BelowPassed, AbovePassed, AllPassed
    <3> QED  BY <1>2, <3>1, <3>3, <3>4, SameSearches DEF RoomInv
  <2> QED  BY <1>2, <2>1, <2>3, <2>4, <2>5 DEF Next
<1> QED  BY <1>1, <1>2, Invariance, PTL DEF Spec

(***************************************************************************)
(* The theorems.                                                           *)
(***************************************************************************)
(* Every variable has its type; in particular the arithmetic of the searches, which
   wraps around, never leaves the address space. *)
THEOREM TypeCorrect == Spec => []TypeOK
<1>1. IInv => TypeOK  BY DEF IInv
<1> QED  BY <1>1, Invariance, PTL

(* A trampoline, from whatever region, is within 2GB of its function and of what the
   function's first jump leads to (TypeOK gives its parts their types). *)
THEOREM TrampolinesAreWithinReach == Spec => []WithinReach
<1>1. ASSUME IInv PROVE WithinReach
  <2>1. function \in FunctionType  BY <1>1 DEF IInv, TypeOK, FunctionType
  <2>2. result # Nowhere => result \in Int /\ InReach(result, function)
    BY <1>1, Sizes DEF IInv, TypeOK, ResultRight, Addresses
  <2> QED  BY <2>1, <2>2, Bounds DEF WithinReach
<1> QED  BY <1>1, Invariance, PTL

(* No region has an address among the next 1GB the system loads DLLs at: it starts
   outside of the reserved range, and all its limits are aligned like the region. *)
THEOREM RegionsLeaveDllRange == Spec => []DllRangeLeftAlone
<1>1. ASSUME IInv PROVE DllRangeLeftAlone
  <2> SUFFICES ASSUME NtdllKnown, NEW r \in DOMAIN pFree,
                      NEW a \in r .. (r + Region - 1), WhereDllsGo(a)
               PROVE  FALSE
    BY DEF DllRangeLeftAlone
  <2>1. r \in Aligned /\ r \in Int /\ ~Reserved(r)
    BY <1>1, AlignedSum DEF IInv, RegionsRight
  <2>2. ntdll \in Aligned /\ ntdll \in Int /\ ntdll >= Lowest
    <3>1. ntdll \in Ntdlls  BY <1>1 DEF IInv, TypeOK, NtdllKnown
    <3>2. ntdll \in Aligned /\ ntdll \in Int  BY <3>1, Sizes
    <3>3. Lowest \in Int  BY Sizes DEF Lowest, Highest
    <3>4. ~(ntdll < Lowest)  BY DEF NtdllKnown
    <3> QED  BY <3>2, <3>3, <3>4
  <2>3. /\ {Giga, SystemSize, Maximum, Region} \subseteq Int /\ Region > 0 /\ a \in Int
        /\ Giga \in Aligned /\ SystemSize \in Aligned /\ Maximum + 1 \in Aligned
        /\ Giga <= SystemSize
    BY <2>1, Sizes, SizeAssumption
  <2>4. Lowest \in Aligned /\ Lowest = Maximum + 1 - SystemSize
    <3>1. Lowest = (Maximum + 1) - SystemSize  BY <2>3 DEF Lowest, Highest
    <3> QED  BY <3>1, <2>3, AlignedSum
  <2>5. ntdll - Giga \in Aligned  BY <2>2, <2>3, AlignedSum
  <2>6. HighFrom(ntdll) \in Aligned /\ HighFrom(ntdll) = ntdll - Giga + SystemSize
    BY <2>3, <2>5, AlignedSum DEF HighFrom
  <2>7. \A b \in {Lowest, ntdll - Giga, HighFrom(ntdll)} : r < b => r + Region <= b
    BY <2>1, <2>4, <2>5, <2>6, AlignedGap
  <2>8. /\ a >= Lowest /\ a <= Maximum
        /\ ntdll - a \in 1 .. Giga \/ ntdll - a + SystemSize \in 1 .. Giga
    BY <2>2, <2>3 DEF WhereDllsGo, Highest
  <2>9. CASE Wraps
    <3>1. ~(Lowest <= r /\ r <= ntdll - 1) /\ ~(HighFrom(ntdll) <= r /\ r <= Maximum)
      BY <2>1, <2>9 DEF Reserved, LowLower, LowUpper, HighLower, Highest
    <3> QED  BY <3>1, <2>1, <2>2, <2>3, <2>4, <2>6, <2>7, <2>8
  <2>10. CASE ~Wraps
    <3>1. ~(ntdll - Giga <= r /\ r <= ntdll - 1)
      BY <2>1, <2>2, <2>3, <2>10 DEF Reserved, LowLower, LowUpper
    <3>2. ntdll - Giga >= Lowest  BY <2>2, <2>3, <2>4, <2>10 DEF Wraps
    <3> QED  BY <3>1, <3>2, <2>1, <2>2, <2>3, <2>4, <2>7, <2>8
  <2> QED  BY <2>9, <2>10
<1> QED  BY <1>1, Invariance, PTL

(* While nothing disturbs a call, it gets no trampoline only if there is no room for
   one: none of the searches, nor all of them together, passes over free memory in
   reach, whatever the sizes, and however the free blocks lie. *)
THEOREM RoomIsFound == Spec => []FindsRoom
<1>1. RoomInv => FindsRoom  BY DEF RoomInv, AllPassed, FindsRoom
<1> QED  BY <1>1, RoomInvariance, PTL
=============================================================================
