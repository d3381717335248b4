----------------------- MODULE AllocatorLayout_proofs -----------------------
(***************************************************************************)
(* What the rounding of allocator_internal.h guarantees, for every         *)
(* alignment, guard size and width of a size_t; and, at the end, what the  *)
(* proofs about the allocators need of numbers, sets and sums.             *)
(***************************************************************************)
EXTENDS AllocatorLayout, FiniteSets, Functions, FiniteSetTheorems,
        WellFoundedInduction, TLAPS

-----------------------------------------------------------------------------
(***************************************************************************)
(* Arithmetic                                                              *)
(***************************************************************************)

LEMMA TimesMonotone ==
  ASSUME NEW a \in Nat, NEW b \in Nat, NEW d \in Nat, a <= b
  PROVE  a * d <= b * d
<1>1. PICK k \in Nat : b = a + k
  <2>1. b = a + (b - a) /\ b - a \in Nat
    OBVIOUS
  <2> QED
    BY <2>1
<1>2. b * d = a * d + k * d
  BY <1>1
<1>3. k * d \in Nat /\ a * d \in Nat
  OBVIOUS
<1> QED
  BY <1>2, <1>3

LEMMA TimesBelow ==
  ASSUME NEW a \in Nat, NEW b \in Nat, NEW d \in Nat, a < b
  PROVE  a * d + d <= b * d
<1>1. (a + 1) * d <= b * d
  BY TimesMonotone
<1>2. (a + 1) * d = a * d + d
  OBVIOUS
<1> QED
  BY <1>1, <1>2

LEMMA Division ==
  ASSUME NEW a \in Nat, NEW d \in Nat \ {0}
  PROVE  /\ a \div d \in Nat
         /\ a % d \in 0 .. d - 1
         /\ a = (a \div d) * d + (a % d)
<1>1. a % d \in 0 .. d - 1
  OBVIOUS
<1>2. a \div d \in Int
  OBVIOUS
<1>3. a = d * (a \div d) + (a % d)
  OBVIOUS
<1>4. a \div d >= 0
  <2> DEFINE q == a \div d
             r == a % d
  <2>1. q \in Int /\ r \in 0 .. d - 1 /\ a = d * q + r
    BY <1>1, <1>2, <1>3
  <2> HIDE DEF q, r
  <2>2. SUFFICES ASSUME q < 0 PROVE FALSE
    BY <2>1 DEF q
  <2>3. PICK k \in Nat : q = - k - 1
    <3>1. q = - (- q - 1) - 1 /\ - q - 1 \in Nat
      BY <2>1, <2>2
    <3> QED
      BY <3>1
  <2>4. d * q = - (d * k) - d
    BY <2>1, <2>3
  <2>5. d * k \in Nat
    OBVIOUS
  <2> QED
    BY <2>1, <2>4, <2>5
<1> QED
  BY <1>1, <1>2, <1>3, <1>4

LEMMA DivisionUnique ==
  ASSUME NEW q \in Nat, NEW r \in Nat, NEW d \in Nat \ {0}, r < d
  PROVE  (q * d + r) \div d = q /\ (q * d + r) % d = r
<1> DEFINE a == q * d + r
           p == a \div d
           s == a % d
<1>1. a \in Nat
  OBVIOUS
<1>2. p \in Nat /\ s \in 0 .. d - 1 /\ a = p * d + s
  BY <1>1, Division
<1> HIDE DEF p, s
<1>3. ~(p < q)
  <2>1. SUFFICES ASSUME p < q PROVE FALSE
    OBVIOUS
  <2>2. p * d + d <= q * d
    BY <1>2, <2>1, TimesBelow
  <2>3. p * d \in Nat /\ q * d \in Nat
    BY <1>2
  <2> QED
    BY <1>2, <2>2, <2>3
<1>4. ~(q < p)
  <2>1. SUFFICES ASSUME q < p PROVE FALSE
    OBVIOUS
  <2>2. q * d + d <= p * d
    BY <1>2, <2>1, TimesBelow
  <2>3. p * d \in Nat /\ q * d \in Nat
    BY <1>2
  <2> QED
    BY <1>2, <2>2, <2>3
<1>5. p = q
  BY <1>2, <1>3, <1>4
<1>6. s = r
  BY <1>2, <1>5
<1> QED
  BY <1>5, <1>6 DEF p, s

LEMMA DivisionBelow ==
  ASSUME NEW a \in Nat, NEW d \in Nat \ {0}, NEW q \in Nat, a < q * d + d
  PROVE  a \div d <= q
<1> DEFINE p == a \div d
           r == a % d
<1>1. p \in Nat /\ r \in 0 .. d - 1 /\ a = p * d + r
  BY Division
<1> HIDE DEF p, r
<1>2. SUFFICES ASSUME q < p PROVE FALSE
  BY <1>1 DEF p
<1>3. q * d + d <= p * d
  BY <1>1, <1>2, TimesBelow
<1>4. p * d \in Nat /\ q * d \in Nat
  BY <1>1
<1> QED
  BY <1>1, <1>3, <1>4

LEMMA DivisionMonotone ==
  ASSUME NEW a \in Nat, NEW b \in Nat, NEW d \in Nat \ {0}, a <= b
  PROVE  a \div d <= b \div d
<1> DEFINE q == b \div d
           r == b % d
<1>1. q \in Nat /\ r \in 0 .. d - 1 /\ b = q * d + r
  BY Division
<1> HIDE DEF q, r
<1>2. q * d \in Nat
  BY <1>1
<1>3. a < q * d + d
  BY <1>1, <1>2
<1>4. a \div d <= q
  BY <1>1, <1>3, DivisionBelow
<1> QED
  BY <1>4 DEF q

\* A multiple of the alignment.
IsMultiple(x) == \E k \in Nat : x = k * Alignment

LEMMA MultipleAligned ==
  ASSUME NEW x \in Nat
  PROVE  IsMultiple(x) <=> x % Alignment = 0
<1> USE LayoutAssumption
<1>1. ASSUME NEW k \in Nat, x = k * Alignment PROVE x % Alignment = 0
  <2>1. (k * Alignment + 0) % Alignment = 0
    BY DivisionUnique
  <2>2. k * Alignment + 0 = k * Alignment
    OBVIOUS
  <2> QED
    BY <1>1, <2>1, <2>2
<1>2. ASSUME x % Alignment = 0 PROVE IsMultiple(x)
  <2>1. /\ x \div Alignment \in Nat
        /\ x = (x \div Alignment) * Alignment + (x % Alignment)
    BY Division
  <2>2. (x \div Alignment) * Alignment \in Nat
    BY <2>1
  <2>3. x = (x \div Alignment) * Alignment
    BY <1>2, <2>1, <2>2
  <2> QED
    BY <2>1, <2>3 DEF IsMultiple
<1> QED
  BY <1>1, <1>2 DEF IsMultiple

LEMMA SumMultiple ==
  ASSUME NEW x, NEW y, IsMultiple(x), IsMultiple(y)
  PROVE  IsMultiple(x + y)
<1>1. PICK k \in Nat : x = k * Alignment
  BY DEF IsMultiple
<1>2. PICK l \in Nat : y = l * Alignment
  BY DEF IsMultiple
<1>3. x + y = (k + l) * Alignment /\ k + l \in Nat
  BY <1>1, <1>2, LayoutAssumption
<1> QED
  BY <1>3 DEF IsMultiple

LEMMA DifferenceMultiple ==
  ASSUME NEW x, NEW y, IsMultiple(x), IsMultiple(y), x >= y
  PROVE  IsMultiple(x - y)
<1>1. PICK k \in Nat : x = k * Alignment
  BY DEF IsMultiple
<1>2. PICK l \in Nat : y = l * Alignment
  BY DEF IsMultiple
<1>3. CASE k < l
  <2>1. k * Alignment + Alignment <= l * Alignment
    BY <1>3, TimesBelow, LayoutAssumption
  <2>2. k * Alignment \in Nat /\ l * Alignment \in Nat
    BY LayoutAssumption
  <2> QED
    BY <1>1, <1>2, <2>1, <2>2, LayoutAssumption
<1>4. CASE l <= k
  <2>1. x - y = (k - l) * Alignment
    BY <1>1, <1>2, LayoutAssumption
  <2>2. k - l \in Nat
    BY <1>4
  <2> QED
    BY <2>1, <2>2 DEF IsMultiple
<1> QED
  BY <1>3, <1>4

LEMMA ProductMultiple ==
  ASSUME NEW x, NEW n \in Nat, IsMultiple(x)
  PROVE  IsMultiple(n * x)
<1>1. PICK k \in Nat : x = k * Alignment
  BY DEF IsMultiple
<1>2. n * x = (n * k) * Alignment /\ n * k \in Nat
  BY <1>1, LayoutAssumption
<1> QED
  BY <1>2 DEF IsMultiple

-----------------------------------------------------------------------------
(***************************************************************************)
(* Rounding                                                                *)
(***************************************************************************)

LEMMA RoundDownMultiple ==
  ASSUME NEW s \in Nat
  PROVE  IsMultiple(RoundDown(s))
<1>1. s \div Alignment \in Nat /\ s % Alignment \in Nat
      /\ s = (s \div Alignment) * Alignment + (s % Alignment)
  BY Division, LayoutAssumption
<1>2. (s \div Alignment) * Alignment \in Nat
  BY <1>1, LayoutAssumption
<1>3. s - (s % Alignment) = (s \div Alignment) * Alignment
  BY <1>1, <1>2
<1> QED
  BY <1>1, <1>3 DEF IsMultiple, RoundDown

\* A size that cannot wrap is rounded up by less than the alignment.
LEMMA RoundUpBounds ==
  ASSUME NEW size \in Nat, size + Alignment - 1 < SizeLimit
  PROVE  /\ RoundUp(size) \in Nat
         /\ RoundUp(size) >= size
         /\ RoundUp(size) <= size + Alignment - 1
<1> DEFINE s == size + Alignment - 1
<1>1. s \in Nat /\ s < SizeLimit
  BY LayoutAssumption
<1>2. s % SizeLimit = s
  BY <1>1, LayoutAssumption
<1>3. s % Alignment \in 0 .. Alignment - 1 /\ s % Alignment <= s
  BY <1>1, LayoutAssumption
<1>4. RoundUp(size) = s - (s % Alignment)
  BY <1>2 DEF RoundUp, RoundDown
<1> QED
  BY <1>1, <1>3, <1>4, LayoutAssumption

\* What is left of a block between its guards is no smaller than what the caller
\* asked for.
LEMMA BlockHoldsRequest ==
  ASSUME NEW size \in Nat, size + Alignment - 1 + GuardTotal < SizeLimit
  PROVE  /\ BlockSize(size) \in Nat
         /\ BlockSize(size) >= size + GuardTotal
         /\ UsableSize(BlockSize(size)) >= size
<1>1. GuardTotal \in Nat
  BY LayoutAssumption DEF GuardTotal
<1>2. /\ RoundUp(size) \in Nat /\ RoundUp(size) >= size
      /\ RoundUp(size) <= size + Alignment - 1
  BY <1>1, RoundUpBounds, LayoutAssumption
<1>3. (RoundUp(size) + GuardTotal) % SizeLimit = RoundUp(size) + GuardTotal
  BY <1>1, <1>2, LayoutAssumption
<1> QED
  BY <1>1, <1>2, <1>3 DEF BlockSize, UsableSize

\* With guards of an aligned size, so are blocks.
LEMMA BlockSizeMultiple ==
  ASSUME NEW size \in Nat, size + Alignment - 1 + GuardTotal < SizeLimit,
         GuardBytes % Alignment = 0
  PROVE  IsMultiple(BlockSize(size))
<1>1. GuardTotal \in Nat /\ GuardTotal = GuardBytes + GuardBytes
  BY LayoutAssumption DEF GuardTotal
<1>2. IsMultiple(GuardTotal)
  BY <1>1, LayoutAssumption, MultipleAligned, SumMultiple
<1>3. /\ RoundUp(size) \in Nat
      /\ RoundUp(size) <= size + Alignment - 1
  BY <1>1, RoundUpBounds, LayoutAssumption
<1>4. IsMultiple(RoundUp(size))
  <2>1. (size + Alignment - 1) % SizeLimit \in Nat
    BY LayoutAssumption
  <2> QED
    BY <2>1, RoundDownMultiple DEF RoundUp
<1>5. (RoundUp(size) + GuardTotal) % SizeLimit = RoundUp(size) + GuardTotal
  <2>1. RoundUp(size) + GuardTotal \in Nat
    BY <1>1, <1>3
  <2>2. RoundUp(size) + GuardTotal < SizeLimit
    BY <1>1, <1>3, LayoutAssumption
  <2> QED
    BY <2>1, <2>2, LayoutAssumption
<1> QED
  BY <1>2, <1>4, <1>5, SumMultiple DEF BlockSize

\* allocator_block_size and allocator_user_offset: a block serves the request it
\* was sized for.  Wherever an aligned block starts, the pointer the caller gets
\* is aligned, what was asked for lies between the guards, and the block behind
\* it is aligned again.
THEOREM BlockServesRequest ==
  ASSUME NEW size \in Nat, size + Alignment - 1 + GuardTotal < SizeLimit,
         GuardBytes % Alignment = 0,
         NEW start \in Nat, start % Alignment = 0
  PROVE  /\ (start + UserOffset) % Alignment = 0
         /\ start + UserOffset + size + GuardBytes <= start + BlockSize(size)
         /\ UsableSize(BlockSize(size)) >= size
         /\ (start + BlockSize(size)) % Alignment = 0
<1>1. PICK n : n = BlockSize(size)
  OBVIOUS
<1>2. n \in Nat /\ n >= size + GuardTotal /\ UsableSize(n) >= size
  BY <1>1, BlockHoldsRequest
<1>3. GuardBytes \in Nat /\ GuardTotal = GuardBytes + GuardBytes
  BY LayoutAssumption DEF GuardTotal
<1>4. IsMultiple(start) /\ IsMultiple(GuardBytes) /\ IsMultiple(n)
  BY <1>1, <1>3, MultipleAligned, BlockSizeMultiple
<1>5. IsMultiple(start + GuardBytes) /\ IsMultiple(start + n)
  BY <1>4, SumMultiple
<1>6. (start + GuardBytes) % Alignment = 0 /\ (start + n) % Alignment = 0
  BY <1>2, <1>3, <1>5, MultipleAligned
<1>7. start + GuardBytes + size + GuardBytes <= start + n
  BY <1>2, <1>3
<1> QED
  BY <1>1, <1>2, <1>6, <1>7 DEF UserOffset

-----------------------------------------------------------------------------
(***************************************************************************)
(* Induction                                                               *)
(***************************************************************************)

\* There is a least number in any set that has one.
LEMMA LeastOf ==
  ASSUME NEW T, T \subseteq Nat, T # {}
  PROVE  \E n \in T : \A m \in T : n <= m
<1>1. PICK t \in T : TRUE
  OBVIOUS
<1>2. PICK S : S = 0 .. t
  OBVIOUS
<1>3. PICK C : C = {D \in SUBSET S : \E n \in T : n <= t /\ D = 0 .. n}
  OBVIOUS
<1>4. IsFiniteSet(S)
  BY <1>1, <1>2, FS_Interval
<1>5. IsWellFoundedOn(StrictSubsetOrdering(S), FiniteSubsetsOf(S))
  BY FS_StrictSubsetOrderingWellFounded
<1>6. C \subseteq FiniteSubsetsOf(S)
  BY <1>3, <1>4, FS_FiniteSubsetsOfFinite
<1>7. C # {}
  <2>1. t \in T /\ t <= t /\ S = 0 .. t
    BY <1>1, <1>2
  <2>2. S \in C
    BY <2>1, <1>3
  <2> QED
    BY <2>2
<1>8. PICK D \in C : \A E \in C : ~ (<<E, D>> \in StrictSubsetOrdering(S))
  BY <1>5, <1>6, <1>7, WFMin
<1>9. PICK n \in T : n <= t /\ D = 0 .. n
  BY <1>3, <1>8
<1>10. ASSUME NEW m \in T, ~ (n <= m) PROVE FALSE
  <2>1. m \in Nat /\ n \in Nat /\ m < n /\ t \in Nat
    BY <1>10, <1>1
  <2>2. (0 .. m) \in C
    BY <2>1, <1>2, <1>3, <1>9
  <2>3. (0 .. m) \subseteq D /\ (0 .. m) # D
    <3>1. n \in D /\ n \notin 0 .. m
      BY <1>9, <2>1
    <3> QED
      BY <3>1, <1>9, <2>1
  <2>4. <<0 .. m, D>> \in StrictSubsetOrdering(S)
    BY <2>3, <1>8, <2>2, <1>3 DEF StrictSubsetOrdering
  <2> QED
    BY <2>4, <2>2, <1>8
<1> QED
  BY <1>10

\* Induction over numbers: a set with zero and every successor has them all.
LEMMA NatSets ==
  ASSUME NEW S, 0 \in S, \A n \in Nat : n \in S => n + 1 \in S
  PROVE  Nat \subseteq S
<1> SUFFICES ASSUME Nat \ S # {} PROVE FALSE
  OBVIOUS
<1>1. PICK n \in Nat \ S : \A m \in Nat \ S : n <= m
  BY LeastOf
<1> QED
  BY <1>1

\* Induction over the subsets of a finite set, smaller ones first.
LEMMA SubsetInduction ==
  ASSUME NEW S, IsFiniteSet(S), NEW G,
         \A T \in SUBSET S : (\A U \in SUBSET T : U # T => U \in G) => T \in G
  PROVE  \A T \in SUBSET S : T \in G
<1> SUFFICES ASSUME NEW R \in SUBSET S, R \notin G PROVE FALSE
  OBVIOUS
<1>1. IsWellFoundedOn(StrictSubsetOrdering(S), FiniteSubsetsOf(S))
  BY FS_StrictSubsetOrderingWellFounded
<1>2. PICK Bad : Bad = {T \in SUBSET S : T \notin G}
  OBVIOUS
<1>3. Bad \subseteq FiniteSubsetsOf(S)
  BY <1>2, FS_FiniteSubsetsOfFinite
<1>4. PICK T \in Bad : \A U \in Bad : ~ (<< U, T >> \in StrictSubsetOrdering(S))
  <2>1. Bad # {}
    BY <1>2
  <2> QED
    BY <1>1, <1>3, <2>1, WFMin
<1>5. T \in SUBSET S /\ T \notin G
  BY <1>2, <1>4
<1>6. \A U \in SUBSET T : U # T => U \in G
  <2> SUFFICES ASSUME NEW U \in SUBSET T, U # T, U \notin G PROVE FALSE
    OBVIOUS
  <2>1. U \in Bad
    BY <1>2, <1>5
  <2>2. << U, T >> \in StrictSubsetOrdering(S)
    BY <1>5 DEF StrictSubsetOrdering
  <2> QED
    BY <1>4, <2>1, <2>2
<1> QED
  BY <1>5, <1>6

-----------------------------------------------------------------------------
(***************************************************************************)
(* Sums.  The fold that SumFunctionOnSet stands for chooses a table with a *)
(* sum for each subset.  There is one, and it is the only one.             *)
(***************************************************************************)

\* The element that is added next.
Addend(s) == CHOOSE x \in s : TRUE

LEMMA AddendIn ==
  \A s : s # {} => Addend(s) \in s
BY DEF Addend

\* The table of the sums of f over the subsets of S.
IsTable(f, S, it) ==
  it = [s \in SUBSET S |->
          IF s = {} THEN 0 ELSE f[Addend(s)] + it[s \ {Addend(s)}]]

LEMMA SumDef ==
  ASSUME NEW f, NEW S
  PROVE  SumFunctionOnSet(f, S) = (CHOOSE it : IsTable(f, S, it))[S]
BY DEF SumFunctionOnSet, FoldFunctionOnSet, MapThenFoldSet, IsTable, Addend

LEMMA TableUnique ==
  ASSUME NEW f, NEW S, IsFiniteSet(S), NEW g, NEW h,
         IsTable(f, S, g), IsTable(f, S, h)
  PROVE  g = h
<1> DEFINE G == {T \in SUBSET S : g[T] = h[T]}
<1>1. ASSUME NEW T \in SUBSET S, \A U \in SUBSET T : U # T => U \in G
      PROVE  T \in G
  <2>1. CASE T = {}
    BY <2>1 DEF IsTable
  <2>2. CASE T # {}
    <3>1. Addend(T) \in T
      BY <2>2, AddendIn
    <3>2. g[T \ {Addend(T)}] = h[T \ {Addend(T)}]
      BY <1>1, <3>1
    <3>3. /\ g[T] = f[Addend(T)] + g[T \ {Addend(T)}]
          /\ h[T] = f[Addend(T)] + h[T \ {Addend(T)}]
      BY <2>2 DEF IsTable
    <3> QED
      BY <3>2, <3>3
  <2> QED
    BY <2>1, <2>2
<1>2. \A T \in SUBSET S : T \in G
  <2> HIDE DEF G
  <2> QED
    BY <1>1, SubsetInduction
<1>3. /\ g = [s \in SUBSET S |-> g[s]]
      /\ h = [s \in SUBSET S |-> h[s]]
  BY DEF IsTable
<1> QED
  BY <1>2, <1>3

LEMMA TableSum ==
  ASSUME NEW f, NEW S, IsFiniteSet(S), NEW g, IsTable(f, S, g)
  PROVE  SumFunctionOnSet(f, S) = g[S]
<1>1. PICK h : h = CHOOSE it : IsTable(f, S, it)
  OBVIOUS
<1>2. IsTable(f, S, h)
  BY <1>1
<1> QED
  BY <1>1, <1>2, SumDef, TableUnique

LEMMA TableRestrict ==
  ASSUME NEW f, NEW S, IsFiniteSet(S), NEW T \in SUBSET S,
         NEW g, IsTable(f, S, g)
  PROVE  SumFunctionOnSet(f, T) = g[T]
<1>1. PICK h : h = [s \in SUBSET T |-> g[s]]
  OBVIOUS
<1>2. ASSUME NEW s \in SUBSET T
      PROVE  h[s] = IF s = {} THEN 0 ELSE f[Addend(s)] + h[s \ {Addend(s)}]
  <2>1. h[s] = g[s] /\ h[s \ {Addend(s)}] = g[s \ {Addend(s)}] /\ s \in SUBSET S
    BY <1>1
  <2> QED
    BY <2>1 DEF IsTable
<1>3. IsTable(f, T, h)
  BY <1>1, <1>2 DEF IsTable
<1>4. IsFiniteSet(T)
  BY FS_Subset
<1> QED
  BY <1>1, <1>3, <1>4, TableSum

LEMMA TableExists ==
  ASSUME NEW f, NEW S, IsFiniteSet(S)
  PROVE  \E g : IsTable(f, S, g)
<1> DEFINE G == {T \in SUBSET S : \E g : IsTable(f, T, g)}
<1>1. ASSUME NEW T \in SUBSET S, \A U \in SUBSET T : U # T => U \in G
      PROVE  T \in G
  <2>1. PICK g : g = [s \in SUBSET T |-> IF s = {} THEN 0
            ELSE f[Addend(s)] + SumFunctionOnSet(f, s \ {Addend(s)})]
    OBVIOUS
  <2>2. ASSUME NEW s \in SUBSET T
        PROVE  g[s] = IF s = {} THEN 0 ELSE f[Addend(s)] + g[s \ {Addend(s)}]
    <3>1. CASE s = {}
      BY <2>1, <3>1
    <3>2. CASE s # {}
      <4>1. PICK u : u = s \ {Addend(s)}
        OBVIOUS
      <4>2. Addend(s) \in s /\ u \in SUBSET T /\ u # T
        BY <3>2, <4>1, AddendIn
      <4>3. PICK h : IsTable(f, u, h)
        BY <1>1, <4>2
      <4>4. IsFiniteSet(u)
        BY <4>2, FS_Subset
      <4>5. SumFunctionOnSet(f, u) = h[u]
        BY <4>3, <4>4, TableSum
      <4>6. CASE u = {}
        <5>1. h[u] = 0
          BY <4>3, <4>6 DEF IsTable
        <5> QED
          BY <2>1, <3>2, <4>1, <4>2, <4>5, <4>6, <5>1
      <4>7. CASE u # {}
        <5>1. h[u] = f[Addend(u)] + h[u \ {Addend(u)}]
          BY <4>3, <4>7 DEF IsTable
        <5>2. SumFunctionOnSet(f, u \ {Addend(u)}) = h[u \ {Addend(u)}]
          BY <4>3, <4>4, TableRestrict
        <5>3. g[u] = SumFunctionOnSet(f, u)
          BY <2>1, <4>2, <4>5, <4>7, <5>1, <5>2
        <5> QED
          BY <2>1, <3>2, <4>1, <5>3
      <4> QED
        BY <4>6, <4>7
    <3> QED
      BY <3>1, <3>2
  <2>3. IsTable(f, T, g)
    BY <2>1, <2>2 DEF IsTable
  <2> QED
    BY <2>3
<1>2. \A T \in SUBSET S : T \in G
  <2> HIDE DEF G
  <2> QED
    BY <1>1, SubsetInduction
<1> QED
  BY <1>2

LEMMA SumEmpty ==
  ASSUME NEW f
  PROVE  SumFunctionOnSet(f, {}) = 0
<1>1. PICK g : IsTable(f, {}, g)
  BY TableExists, FS_EmptySet
<1>2. g[{}] = 0
  BY <1>1 DEF IsTable
<1> QED
  BY <1>1, <1>2, TableSum, FS_EmptySet

LEMMA SumAddend ==
  ASSUME NEW f, NEW S, IsFiniteSet(S), S # {}
  PROVE  SumFunctionOnSet(f, S)
           = f[Addend(S)] + SumFunctionOnSet(f, S \ {Addend(S)})
<1>1. PICK g : IsTable(f, S, g)
  BY TableExists
<1>2. g[S] = f[Addend(S)] + g[S \ {Addend(S)}]
  BY <1>1 DEF IsTable
<1>3. S \in SUBSET S /\ S \ {Addend(S)} \in SUBSET S
  OBVIOUS
<1> QED
  BY <1>1, <1>2, <1>3, TableRestrict

LEMMA SumType ==
  ASSUME NEW f, NEW S, IsFiniteSet(S), \A x \in S : f[x] \in Nat
  PROVE  SumFunctionOnSet(f, S) \in Nat
<1> DEFINE G == {T \in SUBSET S : SumFunctionOnSet(f, T) \in Nat}
<1>1. ASSUME NEW T \in SUBSET S, \A U \in SUBSET T : U # T => U \in G
      PROVE  T \in G
  <2>1. IsFiniteSet(T)
    BY FS_Subset
  <2>2. CASE T = {}
    BY <2>2, SumEmpty
  <2>3. CASE T # {}
    <3>1. Addend(T) \in T
      BY <2>3, AddendIn
    <3>2. SumFunctionOnSet(f, T \ {Addend(T)}) \in Nat
      BY <1>1, <3>1
    <3> QED
      BY <2>1, <2>3, <3>1, <3>2, SumAddend
  <2> QED
    BY <2>2, <2>3
<1>2. \A T \in SUBSET S : T \in G
  <2> HIDE DEF G
  <2> QED
    BY <1>1, SubsetInduction
<1> QED
  BY <1>2

LEMMA SumTake ==
  ASSUME NEW f, NEW S, IsFiniteSet(S), \A x \in S : f[x] \in Nat,
         NEW x \in S
  PROVE  SumFunctionOnSet(f, S) = f[x] + SumFunctionOnSet(f, S \ {x})
<1> DEFINE G == {T \in SUBSET S : \A y \in T :
                   SumFunctionOnSet(f, T) = f[y] + SumFunctionOnSet(f, T \ {y})}
<1>1. ASSUME NEW T \in SUBSET S, \A U \in SUBSET T : U # T => U \in G
      PROVE  T \in G
  <2> SUFFICES ASSUME NEW y \in T
               PROVE  SumFunctionOnSet(f, T) = f[y] + SumFunctionOnSet(f, T \ {y})
    OBVIOUS
  <2>1. PICK c : c = Addend(T)
    OBVIOUS
  <2>2. IsFiniteSet(T) /\ c \in T
    BY <2>1, FS_Subset, AddendIn
  <2>3. SumFunctionOnSet(f, T) = f[c] + SumFunctionOnSet(f, T \ {c})
    BY <2>1, <2>2, SumAddend
  <2>4. CASE y # c
    <3>1. T \ {c} \in G /\ T \ {y} \in G
      BY <1>1, <2>2
    <3>2. SumFunctionOnSet(f, T \ {c})
            = f[y] + SumFunctionOnSet(f, (T \ {c}) \ {y})
      BY <2>4, <3>1
    <3>3. SumFunctionOnSet(f, T \ {y})
            = f[c] + SumFunctionOnSet(f, (T \ {y}) \ {c})
      BY <2>2, <2>4, <3>1
    <3>4. (T \ {c}) \ {y} = (T \ {y}) \ {c}
      OBVIOUS
    <3>5. SumFunctionOnSet(f, (T \ {c}) \ {y}) \in Nat
      <4>1. IsFiniteSet((T \ {c}) \ {y})
        BY <2>2, FS_Subset
      <4>2. \A z \in (T \ {c}) \ {y} : f[z] \in Nat
        OBVIOUS
      <4> QED
        BY <4>1, <4>2, SumType
    <3>6. f[y] \in Nat /\ f[c] \in Nat
      BY <2>2
    <3> QED
      BY <2>3, <3>2, <3>3, <3>4, <3>5, <3>6
  <2> QED
    BY <2>3, <2>4
<1>2. \A T \in SUBSET S : T \in G
  <2> HIDE DEF G
  <2> QED
    BY <1>1, SubsetInduction
<1> QED
  BY <1>2

LEMMA SumSame ==
  ASSUME NEW f, NEW g, NEW S, IsFiniteSet(S), \A x \in S : f[x] = g[x]
  PROVE  SumFunctionOnSet(f, S) = SumFunctionOnSet(g, S)
<1> DEFINE G == {T \in SUBSET S :
                   SumFunctionOnSet(f, T) = SumFunctionOnSet(g, T)}
<1>1. ASSUME NEW T \in SUBSET S, \A U \in SUBSET T : U # T => U \in G
      PROVE  T \in G
  <2>1. IsFiniteSet(T)
    BY FS_Subset
  <2>2. CASE T = {}
    BY <2>2, SumEmpty
  <2>3. CASE T # {}
    <3>1. Addend(T) \in T
      BY <2>3, AddendIn
    <3>2. T \ {Addend(T)} \in G
      BY <1>1, <3>1
    <3>3. f[Addend(T)] = g[Addend(T)]
      BY <3>1
    <3> QED
      BY <2>1, <2>3, <3>2, <3>3, SumAddend
  <2> QED
    BY <2>2, <2>3
<1>2. \A T \in SUBSET S : T \in G
  <2> HIDE DEF G
  <2> QED
    BY <1>1, SubsetInduction
<1> QED
  BY <1>2

\* One more is added.
LEMMA SumAdd ==
  ASSUME NEW f, NEW g, NEW S, IsFiniteSet(S), NEW x, x \notin S,
         \A y \in S : f[y] \in Nat /\ g[y] = f[y],
         g[x] \in Nat
  PROVE  SumFunctionOnSet(g, S \cup {x}) = SumFunctionOnSet(f, S) + g[x]
<1>1. IsFiniteSet(S \cup {x})
  BY FS_AddElement
<1>2. \A y \in S \cup {x} : g[y] \in Nat
  OBVIOUS
<1>3. (S \cup {x}) \ {x} = S
  OBVIOUS
<1>4. SumFunctionOnSet(g, S \cup {x}) = g[x] + SumFunctionOnSet(g, S)
  BY <1>1, <1>2, <1>3, SumTake
<1>5. SumFunctionOnSet(g, S) = SumFunctionOnSet(f, S)
  BY SumSame
<1>6. SumFunctionOnSet(f, S) \in Nat
  BY SumType
<1> QED
  BY <1>4, <1>5, <1>6

\* The summands are those of another sum, under other names.
LEMMA SumRenamed ==
  ASSUME NEW f, NEW g, NEW h, NEW S, IsFiniteSet(S),
         \A x \in S : f[x] \in Nat /\ g[h[x]] = f[x],
         \A x, y \in S : h[x] = h[y] => x = y
  PROVE  SumFunctionOnSet(g, {h[x] : x \in S}) = SumFunctionOnSet(f, S)
<1> DEFINE G == {T \in SUBSET S :
                   /\ IsFiniteSet({h[x] : x \in T})
                   /\ SumFunctionOnSet(g, {h[x] : x \in T})
                        = SumFunctionOnSet(f, T)}
<1>1. ASSUME NEW T \in SUBSET S, \A U \in SUBSET T : U # T => U \in G
      PROVE  T \in G
  <2>1. CASE T = {}
    <3>1. {h[x] : x \in T} = {}
      BY <2>1
    <3> QED
      BY <2>1, <3>1, SumEmpty, FS_EmptySet
  <2>2. CASE T # {}
    <3>1. PICK x \in T : TRUE
      BY <2>2
    <3>2. PICK R, up, down : /\ R = T \ {x}
                             /\ up = {h[y] : y \in T}
                             /\ down = {h[y] : y \in R}
      OBVIOUS
    <3>3. /\ IsFiniteSet(down)
          /\ SumFunctionOnSet(g, down) = SumFunctionOnSet(f, R)
      BY <1>1, <3>1, <3>2
    <3>4. /\ up = down \cup {h[x]} /\ up \ {h[x]} = down
          /\ h[x] \in up
      BY <3>1, <3>2
    <3>5. IsFiniteSet(up)
      BY <3>3, <3>4, FS_AddElement
    <3>6. IsFiniteSet(T) /\ \A y \in T : f[y] \in Nat
      BY FS_Subset
    <3>7. \A y \in up : g[y] \in Nat
      BY <3>2
    <3> HIDE DEF G
    <3>8. SumFunctionOnSet(f, T) = f[x] + SumFunctionOnSet(f, R)
      BY <3>1, <3>2, <3>6, SumTake
    <3>9. SumFunctionOnSet(g, up) = g[h[x]] + SumFunctionOnSet(g, down)
      BY <3>4, <3>5, <3>7, SumTake
    <3>10. SumFunctionOnSet(g, up) = SumFunctionOnSet(f, T)
      BY <3>3, <3>8, <3>9
    <3> QED
      BY <3>2, <3>5, <3>10 DEF G
  <2> QED
    BY <2>1, <2>2
<1>2. \A T \in SUBSET S : T \in G
  <2> HIDE DEF G
  <2> QED
    BY <1>1, SubsetInduction
<1> QED
  BY <1>2
=============================================================================
