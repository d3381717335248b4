----------------------- MODULE ArenaAllocator_proofs -----------------------
(***************************************************************************)
(* What the arena allocator keeps, for every size of chunks and headers,   *)
(* every set of requests and any number of calls.                          *)
(***************************************************************************)
EXTENDS ArenaAllocator, AllocatorLayout_proofs, SequenceTheorems

-----------------------------------------------------------------------------
(***************************************************************************)
(* Least elements, and sequences that grow and shrink                      *)
(***************************************************************************)

LEMMA MinIs ==
  ASSUME NEW S, S \subseteq Nat, S # {}
  PROVE  Min(S) \in S /\ \A x \in S : Min(S) <= x
<1>1. \E x \in S : \A y \in S : x =< y
  BY LeastOf
<1> QED
  BY <1>1 DEF Min

LEMMA InsertedAt ==
  ASSUME NEW list \in Seq(Nat), NEW x \in Nat, NEW i \in 1 .. Len(list) + 1
  PROVE  /\ InsertAt(list, i, x) \in Seq(Nat)
         /\ Len(InsertAt(list, i, x)) = Len(list) + 1
         /\ \A j \in 1 .. Len(list) + 1 :
              InsertAt(list, i, x)[j] =
                IF j < i THEN list[j] ELSE IF j = i THEN x ELSE list[j - 1]
<1>1. PICK a, b, m : /\ a = SubSeq(list, 1, i - 1) /\ m = << x >>
                     /\ b = SubSeq(list, i, Len(list))
  OBVIOUS
<1>2. PICK k \in Nat, n \in Nat, l \in Nat :
        k = i - 1 /\ n = Len(list) - k /\ l = Len(list)
  <2>1. i - 1 \in Nat /\ Len(list) - (i - 1) \in Nat /\ Len(list) \in Nat
    OBVIOUS
  <2> QED
    BY <2>1
<1>3. /\ a \in Seq(Nat) /\ Len(a) = k
      /\ \A j \in 1 .. k : a[j] = list[j]
  BY <1>1, <1>2, SubSeqProperties
<1>4. /\ b \in Seq(Nat) /\ Len(b) = n
      /\ \A j \in 1 .. n : b[j] = list[k + j]
  BY <1>1, <1>2, SubSeqProperties
<1>5. m \in Seq(Nat) /\ Len(m) = 1 /\ m[1] = x
  BY <1>1
<1>6. PICK c : c = a \o m
  OBVIOUS
<1>7. /\ c \in Seq(Nat) /\ Len(c) = k + 1
      /\ \A j \in 1 .. k : c[j] = a[j]
      /\ c[k + 1] = x
  <2>1. c \in Seq(Nat) /\ Len(c) = Len(a) + Len(m)
    BY <1>3, <1>5, <1>6, ConcatProperties
  <2>2. \A j \in 1 .. Len(a) + Len(m) :
          c[j] = IF j <= Len(a) THEN a[j] ELSE m[j - Len(a)]
    BY <1>3, <1>5, <1>6, ConcatProperties
  <2> QED
    BY <1>3, <1>5, <2>1, <2>2
<1>8. PICK d : d = c \o b
  OBVIOUS
<1>9. /\ d \in Seq(Nat) /\ Len(d) = k + 1 + n
      /\ \A j \in 1 .. k + 1 : d[j] = c[j]
      /\ \A j \in k + 2 .. k + 1 + n : d[j] = b[j - (k + 1)]
  <2>1. d \in Seq(Nat) /\ Len(d) = Len(c) + Len(b)
    BY <1>4, <1>7, <1>8, ConcatProperties
  <2>2. \A j \in 1 .. Len(c) + Len(b) :
          d[j] = IF j <= Len(c) THEN c[j] ELSE b[j - Len(c)]
    BY <1>4, <1>7, <1>8, ConcatProperties
  <2> QED
    BY <1>4, <1>7, <2>1, <2>2
<1>10. InsertAt(list, i, x) = d
  BY <1>1, <1>6, <1>8 DEF InsertAt
<1>11. ASSUME NEW j \in k + 2 .. k + 1 + n
       PROVE  d[j] = list[j - 1]
  <2>1. j - (k + 1) \in 1 .. n /\ k + (j - (k + 1)) = j - 1
    OBVIOUS
  <2> QED
    BY <1>4, <1>9, <2>1
<1>12. i = k + 1 /\ l = k + n /\ k \in Nat /\ n \in Nat
  BY <1>2
<1>13. ASSUME NEW j \in 1 .. Len(list) + 1
       PROVE  d[j] = IF j < i THEN list[j] ELSE IF j = i THEN x ELSE list[j - 1]
  <2>1. CASE j < i
    BY <1>3, <1>7, <1>9, <1>12, <2>1, SMTT(30)
  <2>2. CASE j = i
    BY <1>7, <1>9, <1>12, <2>2
  <2>3. CASE j > i
    BY <1>2, <1>11, <1>12, <2>3
  <2> QED
    BY <2>1, <2>2, <2>3
<1> QED
  BY <1>2, <1>9, <1>10, <1>12, <1>13

LEMMA RemovedAt ==
  ASSUME NEW list \in Seq(Nat), NEW i \in 1 .. Len(list)
  PROVE  /\ RemoveAt(list, i) \in Seq(Nat)
         /\ Len(RemoveAt(list, i)) = Len(list) - 1
         /\ \A j \in 1 .. Len(list) - 1 :
              RemoveAt(list, i)[j] =
                IF j < i THEN list[j] ELSE list[j + 1]
<1>1. PICK a, b : /\ a = SubSeq(list, 1, i - 1)
                  /\ b = SubSeq(list, i + 1, Len(list))
  OBVIOUS
<1>2. PICK k \in Nat, n \in Nat, l \in Nat :
        k = i - 1 /\ n = Len(list) - i /\ l = Len(list)
  <2>1. i - 1 \in Nat /\ Len(list) - i \in Nat /\ Len(list) \in Nat
    OBVIOUS
  <2> QED
    BY <2>1
<1>3. /\ a \in Seq(Nat) /\ Len(a) = k
      /\ \A j \in 1 .. k : a[j] = list[j]
  BY <1>1, <1>2, SubSeqProperties
<1>4. /\ b \in Seq(Nat) /\ Len(b) = n
      /\ \A j \in 1 .. n : b[j] = list[k + 1 + j]
  BY <1>1, <1>2, SubSeqProperties
<1>5. PICK d : d = a \o b
  OBVIOUS
<1>6. /\ d \in Seq(Nat) /\ Len(d) = k + n
      /\ \A j \in 1 .. k : d[j] = a[j]
      /\ \A j \in k + 1 .. k + n : d[j] = b[j - k]
  <2>1. d \in Seq(Nat) /\ Len(d) = Len(a) + Len(b)
    BY <1>3, <1>4, <1>5, ConcatProperties
  <2>2. \A j \in 1 .. Len(a) + Len(b) :
          d[j] = IF j <= Len(a) THEN a[j] ELSE b[j - Len(a)]
    BY <1>3, <1>4, <1>5, ConcatProperties
  <2>3. \A j \in 1 .. k + n : d[j] = IF j <= k THEN a[j] ELSE b[j - k]
    BY <1>3, <1>4, <2>2
  <2>4. \A j \in 1 .. k : j \in 1 .. k + n /\ j <= k
    OBVIOUS
  <2>5. \A j \in k + 1 .. k + n : j \in 1 .. k + n /\ ~(j <= k)
    OBVIOUS
  <2> QED
    BY <1>3, <1>4, <2>1, <2>3, <2>4, <2>5
<1>7. ASSUME NEW j \in k + 1 .. k + n
      PROVE  d[j] = list[j + 1]
  <2>1. j - k \in 1 .. n /\ k + 1 + (j - k) = j + 1
    OBVIOUS
  <2> QED
    BY <1>4, <1>6, <2>1
<1>8. RemoveAt(list, i) = d
  BY <1>1, <1>5 DEF RemoveAt
<1>9. i = k + 1 /\ l = k + 1 + n
  BY <1>2
<1>10. Len(d) = Len(list) - 1
  BY <1>2, <1>6, <1>9
<1>11. ASSUME NEW j \in 1 .. Len(list) - 1
       PROVE  d[j] = IF j < i THEN list[j] ELSE list[j + 1]
  <2>1. CASE j < i
    <3>1. j \in 1 .. k
      BY <1>9, <2>1
    <3> QED
      BY <1>3, <1>6, <2>1, <3>1
  <2>2. CASE ~ (j < i)
    <3>1. j \in k + 1 .. k + n
      BY <1>2, <1>9, <2>2
    <3> QED
      BY <1>7, <2>2, <3>1
  <2> QED
    BY <2>1, <2>2
<1> QED
  BY <1>6, <1>8, <1>10, <1>11

\* The numbers in the list grow from each place to every later one.
Sorted(list) ==
  \A i, j \in 1 .. Len(list) : i < j => list[i] < list[j]

LEMMA SortedInsert ==
  ASSUME NEW list \in Seq(Nat), Sorted(list), NEW x \in Nat,
         x \notin Range(list), NEW i \in 1 .. Len(list) + 1,
         \A j \in 1 .. Len(list) : list[j] < x <=> j < i
  PROVE  /\ Sorted(InsertAt(list, i, x))
         /\ Range(InsertAt(list, i, x)) = Range(list) \cup {x}
<1> DEFINE new == InsertAt(list, i, x)
<1>2. /\ new \in Seq(Nat) /\ Len(new) = Len(list) + 1
      /\ \A j \in 1 .. Len(list) + 1 :
           new[j] = IF j < i THEN list[j] ELSE IF j = i THEN x ELSE list[j - 1]
  BY InsertedAt
<1> HIDE DEF new
<1>3. \A j \in 1 .. Len(list) : list[j] \in Nat /\ list[j] # x
  BY DEF Range
<1>4. Sorted(new)
  <2>1. SUFFICES ASSUME NEW j \in 1 .. Len(list) + 1,
                        NEW k \in 1 .. Len(list) + 1, j < k
                 PROVE  new[j] < new[k]
    BY <1>2 DEF Sorted
  <2>2. CASE k < i
    <3>1. new[j] = list[j] /\ new[k] = list[k]
      BY <1>2, <2>1, <2>2
    <3> QED
      BY <2>1, <2>2, <3>1 DEF Sorted
  <2>3. CASE k = i
    <3>1. new[j] = list[j] /\ new[k] = x
      BY <1>2, <2>1, <2>3
    <3> QED
      BY <2>1, <2>3, <3>1
  <2>4. CASE k > i /\ j < i
    <3>1. new[j] = list[j] /\ new[k] = list[k - 1] /\ k - 1 \in 1 .. Len(list)
      BY <1>2, <2>1, <2>4, SMTT(30)
    <3> QED
      BY <1>3, <2>1, <2>4, <3>1, SMTT(30)
  <2>5. CASE k > i /\ j = i
    <3>1. new[j] = x /\ new[k] = list[k - 1] /\ k - 1 \in 1 .. Len(list)
      BY <1>2, <2>1, <2>5
    <3> QED
      BY <1>3, <2>1, <2>5, <3>1
  <2>6. CASE k > i /\ j > i
    <3>1. /\ new[j] = list[j - 1] /\ new[k] = list[k - 1]
          /\ j - 1 \in 1 .. Len(list) /\ k - 1 \in 1 .. Len(list)
      BY <1>2, <2>1, <2>6
    <3> QED
      BY <2>1, <3>1, SMTT(30) DEF Sorted
  <2> QED
    BY <2>1, <2>2, <2>3, <2>4, <2>5, <2>6
<1>5. Range(new) = Range(list) \cup {x}
  <2>1. DOMAIN new = 1 .. Len(list) + 1 /\ DOMAIN list = 1 .. Len(list)
    BY <1>2
  <2>2. ASSUME NEW j \in 1 .. Len(list) + 1
        PROVE  new[j] \in Range(list) \cup {x}
    <3>1. CASE j < i
      <4>1. new[j] = list[j] /\ j \in DOMAIN list
        BY <1>2, <2>1, <3>1
      <4> QED
        BY <4>1 DEF Range
    <3>2. CASE j = i
      BY <1>2, <3>2
    <3>3. CASE j > i
      <4>1. new[j] = list[j - 1] /\ j - 1 \in DOMAIN list
        BY <1>2, <2>1, <3>3
      <4> QED
        BY <4>1 DEF Range
    <3> QED
      BY <3>1, <3>2, <3>3
  <2>3. ASSUME NEW j \in 1 .. Len(list)
        PROVE  list[j] \in Range(new)
    <3>1. CASE j < i
      <4>1. new[j] = list[j] /\ j \in DOMAIN new
        BY <1>2, <2>1, <3>1
      <4> QED
        BY <4>1 DEF Range
    <3>2. CASE j >= i
      <4>1. new[j + 1] = list[j] /\ j + 1 \in DOMAIN new
        BY <1>2, <2>1, <3>2, SMTT(30)
      <4> QED
        BY <4>1 DEF Range
    <3> QED
      BY <3>1, <3>2
  <2>4. x \in Range(new)
    <3>1. new[i] = x /\ i \in DOMAIN new
      BY <1>2, <2>1
    <3> QED
      BY <3>1 DEF Range
  <2> QED
    BY <2>1, <2>2, <2>3, <2>4 DEF Range
<1> QED
  BY <1>4, <1>5 DEF new

LEMMA SortedRemove ==
  ASSUME NEW list \in Seq(Nat), Sorted(list), NEW i \in 1 .. Len(list)
  PROVE  /\ Sorted(RemoveAt(list, i))
         /\ Range(RemoveAt(list, i)) = Range(list) \ {list[i]}
<1> DEFINE new == RemoveAt(list, i)
<1>2. /\ new \in Seq(Nat) /\ Len(new) = Len(list) - 1
      /\ \A j \in 1 .. Len(list) - 1 :
           new[j] = IF j < i THEN list[j] ELSE list[j + 1]
  BY RemovedAt
<1> HIDE DEF new
<1>3. \A j \in 1 .. Len(list) : list[j] \in Nat
  OBVIOUS
<1>4. Sorted(new)
  <2>1. SUFFICES ASSUME NEW j \in 1 .. Len(list) - 1,
                        NEW k \in 1 .. Len(list) - 1, j < k
                 PROVE  new[j] < new[k]
    BY <1>2 DEF Sorted
  <2>2. PICK m \in 1 .. Len(list), n \in 1 .. Len(list) :
          m < n /\ new[j] = list[m] /\ new[k] = list[n]
    <3>1. CASE k < i
      <4>1. j \in 1 .. Len(list) /\ k \in 1 .. Len(list) /\ j < i
        BY <2>1, <3>1
      <4>2. new[j] = list[j] /\ new[k] = list[k]
        BY <1>2, <3>1, <4>1
      <4> QED
        BY <2>1, <4>1, <4>2
    <3>2. CASE k >= i /\ j < i
      <4>1. /\ new[j] = list[j] /\ new[k] = list[k + 1]
            /\ j \in 1 .. Len(list) /\ k + 1 \in 1 .. Len(list)
            /\ j < k + 1
        BY <1>2, <2>1, <3>2, SMTT(30)
      <4> QED
        BY <4>1
    <3>3. CASE k >= i /\ j >= i
      <4>1. /\ new[j] = list[j + 1] /\ new[k] = list[k + 1]
            /\ j + 1 \in 1 .. Len(list) /\ k + 1 \in 1 .. Len(list)
            /\ j + 1 < k + 1
        BY <1>2, <2>1, <3>3, SMTT(30)
      <4> QED
        BY <4>1
    <3> QED
      BY <2>1, <3>1, <3>2, <3>3, SMTT(30)
  <2> QED
    BY <2>2 DEF Sorted
<1>5. Range(new) = Range(list) \ {list[i]}
  <2>1. DOMAIN new = 1 .. Len(list) - 1 /\ DOMAIN list = 1 .. Len(list)
    BY <1>2
  <2>2. ASSUME NEW j \in 1 .. Len(list) - 1
        PROVE  new[j] \in Range(list) \ {list[i]}
    <3>1. CASE j < i
      <4>1. new[j] = list[j] /\ list[j] < list[i] /\ j \in DOMAIN list
        BY <1>2, <2>1, <3>1, SMTT(30) DEF Sorted
      <4> QED
        BY <1>3, <4>1 DEF Range
    <3>2. CASE j >= i
      <4>1. j + 1 \in 1 .. Len(list) /\ i < j + 1
        BY <3>2
      <4>3. new[j] = list[j + 1]
        BY <1>2, <3>2
      <4>2. list[i] < list[j + 1]
        BY <4>1 DEF Sorted
      <4>4. list[j + 1] \in Range(list)
        BY <2>1, <4>1 DEF Range
      <4>5. list[j + 1] # list[i]
        BY <1>3, <4>1, <4>2
      <4> QED
        BY <4>3, <4>4, <4>5
    <3> QED
      BY <3>1, <3>2
  <2>3. ASSUME NEW j \in 1 .. Len(list), list[j] # list[i]
        PROVE  list[j] \in Range(new)
    <3>1. CASE j < i
      <4>1. new[j] = list[j] /\ j \in DOMAIN new
        BY <1>2, <2>1, <3>1, SMTT(30)
      <4> QED
        BY <4>1 DEF Range
    <3>2. CASE j > i
      <4>1. new[j - 1] = list[j] /\ j - 1 \in DOMAIN new
        BY <1>2, <2>1, <3>2
      <4> QED
        BY <4>1 DEF Range
    <3>3. j # i
      BY <2>3
    <3> QED
      BY <3>1, <3>2, <3>3
  <2> QED
    BY <2>1, <2>2, <2>3 DEF Range
<1> QED
  BY <1>4, <1>5 DEF new

\* The numbers passed on the way to x are those in front of one place.
LEMMA PassedPrefix ==
  ASSUME NEW list \in Seq(Nat), Sorted(list), NEW x \in Nat
  PROVE  LET passed == {i \in DOMAIN list : \A j \in 1 .. i : list[j] < x}
             link   == Cardinality(passed) + 1
         IN /\ link \in 1 .. Len(list) + 1
            /\ \A j \in 1 .. Len(list) : list[j] < x <=> j < link
<1> DEFINE passed == {i \in DOMAIN list : \A j \in 1 .. i : list[j] < x}
           late == {i \in 1 .. Len(list) + 1 :
                      i = Len(list) + 1 \/ list[i] >= x}
<1>1. late \subseteq Nat /\ Len(list) + 1 \in late
  OBVIOUS
<1>2. PICK k \in late : \A m \in late : k <= m
  <2> HIDE DEF late
  <2> QED
    BY <1>1, LeastOf
<1>3. k \in 1 .. Len(list) + 1
  OBVIOUS
<1>4. \A j \in 1 .. Len(list) : j < k => list[j] < x
  BY <1>2
<1>5. \A j \in 1 .. Len(list) : j >= k => list[j] >= x
  <2>1. SUFFICES ASSUME NEW j \in 1 .. Len(list), j >= k
                 PROVE  list[j] >= x
    OBVIOUS
  <2>2. k \in 1 .. Len(list) /\ list[k] >= x
    BY <1>2, <1>3, <2>1
  <2>3. CASE j = k
    BY <2>2, <2>3
  <2>4. CASE j > k
    <3>1. list[k] < list[j]
      BY <2>2, <2>4 DEF Sorted
    <3> QED
      BY <2>2, <3>1
  <2> QED
    BY <1>3, <2>1, <2>3, <2>4
<1>6. passed = 1 .. k - 1
  <2>1. DOMAIN list = 1 .. Len(list)
    OBVIOUS
  <2>2. ASSUME NEW i \in passed PROVE i \in 1 .. k - 1
    <3>1. i \in 1 .. Len(list) /\ list[i] < x
      BY <2>1
    <3> QED
      BY <1>3, <1>5, <3>1
  <2>3. ASSUME NEW i \in 1 .. k - 1 PROVE i \in passed
    BY <1>3, <1>4, <2>1
  <2> QED
    BY <2>2, <2>3
<1>7. Cardinality(passed) = k - 1
  <2>1. Cardinality(1 .. k - 1) = k - 1
    BY <1>3, FS_Interval
  <2> QED
    BY <1>6, <2>1
<1>8. /\ Cardinality(passed) + 1 = k
  BY <1>3, <1>7
<1> HIDE DEF passed
<1>9. \A j \in 1 .. Len(list) : list[j] < x <=> j < k
  BY <1>3, <1>4, <1>5
<1> QED
  BY <1>3, <1>8, <1>9 DEF passed

-----------------------------------------------------------------------------
(***************************************************************************)
(* Sound arenas                                                            *)
(***************************************************************************)

ChunkRecords ==
  [base : Nat, capacity : 0 .. SizeLimit - 1, bump : Nat, free_list : Seq(Nat)]

HeaderRecords == [size : 0 .. SizeLimit - 1, magic : {"FREE", "USED"}]

Headers == UNION {[S -> HeaderRecords] : S \in SUBSET Nat}

Arenas == [chunks : Seq(ChunkRecords), header : Headers, used : Nat,
           capacity : Nat, largest_block : Nat]

\* Where the chunks lie, apart from each other, and how much of each was
\* handed out.
Laid(a) ==
  /\ Len(a.chunks) <= MaxChunks
  /\ \A c \in DOMAIN a.chunks :
       /\ IsMultiple(a.chunks[c].base)
       /\ Span <= a.chunks[c].base
       /\ a.chunks[c].base + Span <= (Len(a.chunks) + 1) * Span
       /\ a.chunks[c].bump <= a.chunks[c].capacity
       /\ IsMultiple(a.chunks[c].bump)
  /\ \A c, d \in DOMAIN a.chunks :
       c # d => \/ a.chunks[c].base + Span <= a.chunks[d].base
                \/ a.chunks[d].base + Span <= a.chunks[c].base

FreeIn(a, c) == Range(FreeList(a, c))
FreeOf(a) == UNION {Range(FreeList(a, c)) : c \in DOMAIN a.chunks}

\* The block can be told by its header.
IsBlock(a, b, magic) ==
  /\ b \in DOMAIN a.header
  /\ a.header[b].magic = magic
  /\ SizeOf(a, b) >= MinimumBlock
  /\ IsMultiple(b)
  /\ IsMultiple(SizeOf(a, b))

\* The block lies in what was handed out of the chunk.
Inside(a, c, b) ==
  /\ a.chunks[c].base <= b
  /\ EndOf(a, b) <= a.chunks[c].base + a.chunks[c].bump

Listed(a) ==
  \A c \in DOMAIN a.chunks :
    /\ Sorted(FreeList(a, c))
    /\ \A b \in FreeIn(a, c) : IsBlock(a, b, "FREE") /\ Inside(a, c, b)

\* U are the blocks in use.
Held(a, U) ==
  /\ IsFiniteSet(U)
  /\ \A b \in U : /\ IsBlock(a, b, "USED")
                  /\ \E c \in DOMAIN a.chunks : Inside(a, c, b)

Apart(a, B) ==
  \A b, d \in B : b # d => EndOf(a, b) <= d \/ EndOf(a, d) <= b

BytesOf(a, B) == SumFunctionOnSet([b \in B |-> SizeOf(a, b)], B)

Counted(a, U) ==
  /\ a.used = BytesOf(a, U)
  /\ a.capacity = SumFunctionOnSet([c \in DOMAIN a.chunks |->
                                      a.chunks[c].capacity],
                                   DOMAIN a.chunks)

Sound(a, U) ==
  /\ a \in Arenas
  /\ Laid(a)
  /\ Listed(a)
  /\ Held(a, U)
  /\ Apart(a, U \cup FreeOf(a))
  /\ Counted(a, U)

-----------------------------------------------------------------------------
(***************************************************************************)
(* Constants and records                                                   *)
(***************************************************************************)

LEMMA ConstantFacts ==
  /\ Alignment \in Nat \ {0} /\ SizeLimit \in Nat \ {0}
  /\ Header \in Nat \ {0} /\ IsMultiple(Header) /\ IsMultiple(Alignment)
  /\ IsMultiple(Span) /\ Span \in Nat /\ Span >= SizeLimit
  /\ MinimumBlock \in Nat /\ MinimumBlock = Header + Alignment
  /\ MinimumBlock <= SizeLimit
  /\ ChunkSize \in Nat /\ MaxChunks \in Nat
  /\ Sizes \subseteq Nat
<1>1. IsMultiple(Header) /\ IsMultiple(Span)
  BY ArenaAssumption, MultipleAligned
<1>2. IsMultiple(Alignment)
  <2>1. Alignment = 1 * Alignment /\ 1 \in Nat
    BY LayoutAssumption
  <2> QED
    BY <2>1 DEF IsMultiple
<1> QED
  BY <1>1, <1>2, ArenaAssumption, LayoutAssumption DEF MinimumBlock

LEMMA HeadersAre ==
  \A h : h \in Headers <=> /\ DOMAIN h \subseteq Nat
                           /\ h \in [DOMAIN h -> HeaderRecords]
BY DEF Headers

LEMMA ArenaFacts ==
  ASSUME NEW a \in Arenas
  PROVE  /\ a.chunks \in Seq(ChunkRecords)
         /\ Len(a.chunks) \in Nat
         /\ DOMAIN a.chunks = 1 .. Len(a.chunks)
         /\ a.header \in Headers /\ DOMAIN a.header \subseteq Nat
         /\ a.used \in Nat /\ a.capacity \in Nat /\ a.largest_block \in Nat
         /\ \A c \in DOMAIN a.chunks :
              /\ a.chunks[c] \in ChunkRecords
              /\ a.chunks[c].base \in Nat
              /\ a.chunks[c].capacity \in 0 .. SizeLimit - 1
              /\ a.chunks[c].bump \in Nat
              /\ FreeList(a, c) \in Seq(Nat)
         /\ \A b \in DOMAIN a.header :
              /\ b \in Nat
              /\ SizeOf(a, b) \in Nat /\ SizeOf(a, b) \in 0 .. SizeLimit - 1
              /\ a.header[b].magic \in {"FREE", "USED"}
              /\ a.header[b] = [size |-> SizeOf(a, b),
                                magic |-> a.header[b].magic]
<1>1. /\ a.chunks \in Seq(ChunkRecords) /\ a.header \in Headers
      /\ a.used \in Nat /\ a.capacity \in Nat /\ a.largest_block \in Nat
  BY DEF Arenas
<1>2. /\ DOMAIN a.header \subseteq Nat
      /\ a.header \in [DOMAIN a.header -> HeaderRecords]
  BY <1>1, HeadersAre
<1>3. \A c \in DOMAIN a.chunks : a.chunks[c] \in ChunkRecords
  BY <1>1
<1>4. ASSUME NEW b \in DOMAIN a.header
      PROVE  /\ b \in Nat
             /\ SizeOf(a, b) \in Nat /\ SizeOf(a, b) \in 0 .. SizeLimit - 1
             /\ a.header[b].magic \in {"FREE", "USED"}
             /\ a.header[b] = [size |-> SizeOf(a, b),
                               magic |-> a.header[b].magic]
  <2>1. a.header[b] \in HeaderRecords
    BY <1>2
  <2> QED
    BY <1>2, <2>1, LayoutAssumption DEF HeaderRecords, SizeOf
<1>5. /\ Len(a.chunks) \in Nat /\ DOMAIN a.chunks = 1 .. Len(a.chunks)
  BY <1>1
<1>6. ASSUME NEW c \in DOMAIN a.chunks
      PROVE  /\ a.chunks[c].base \in Nat
             /\ a.chunks[c].capacity \in 0 .. SizeLimit - 1
             /\ a.chunks[c].bump \in Nat
             /\ FreeList(a, c) \in Seq(Nat)
  BY <1>3 DEF ChunkRecords, FreeList
<1> QED
  BY <1>1, <1>2, <1>3, <1>4, <1>5, <1>6

\* The arena differs from another in one chunk, and in what it notes of all.
Changed(a, n, c, header, list, bump, used) ==
  /\ n \in Arenas
  /\ n.header = header
  /\ n.used = used
  /\ n.capacity = a.capacity
  /\ n.largest_block = a.largest_block
  /\ Len(n.chunks) = Len(a.chunks)
  /\ DOMAIN n.chunks = DOMAIN a.chunks
  /\ \A d \in DOMAIN a.chunks :
       /\ n.chunks[d].base = a.chunks[d].base
       /\ n.chunks[d].capacity = a.chunks[d].capacity
       /\ n.chunks[d].bump = IF d = c THEN bump ELSE a.chunks[d].bump
       /\ FreeList(n, d) = IF d = c THEN list ELSE FreeList(a, d)

LEMMA SetFreeListChanges ==
  ASSUME NEW a \in Arenas, NEW c \in DOMAIN a.chunks, NEW list \in Seq(Nat)
  PROVE  Changed(a, SetFreeList(a, c, list), c, a.header, list,
                 a.chunks[c].bump, a.used)
<1> DEFINE n == SetFreeList(a, c, list)
           chunk == [a.chunks[c] EXCEPT !.free_list = list]
<1>1. a.chunks \in Seq(ChunkRecords) /\ a.chunks[c] \in ChunkRecords
      /\ DOMAIN a.chunks = 1 .. Len(a.chunks)
  BY ArenaFacts
<1>2. /\ chunk \in ChunkRecords
      /\ chunk.base = a.chunks[c].base
      /\ chunk.capacity = a.chunks[c].capacity
      /\ chunk.bump = a.chunks[c].bump
      /\ chunk.free_list = list
  BY <1>1 DEF ChunkRecords
<1>3. n = [a EXCEPT !.chunks = [a.chunks EXCEPT ![c] = chunk]]
  BY DEF SetFreeList
<1> HIDE DEF chunk
<1> DEFINE chunks == [a.chunks EXCEPT ![c] = chunk]
<1>4. /\ chunks \in Seq(ChunkRecords) /\ Len(chunks) = Len(a.chunks)
      /\ \A d \in 1 .. Len(a.chunks) :
           chunks[d] = IF d = c THEN chunk ELSE a.chunks[d]
  BY <1>1, <1>2, ExceptSeq
<1> HIDE DEF chunks
<1>5. /\ n \in Arenas /\ n.chunks = chunks /\ n.header = a.header
      /\ n.used = a.used /\ n.capacity = a.capacity
      /\ n.largest_block = a.largest_block
  BY <1>3, <1>4 DEF Arenas, chunks
<1>6. DOMAIN chunks = DOMAIN a.chunks
  BY <1>1, <1>4
<1> QED
  BY <1>1, <1>2, <1>4, <1>5, <1>6 DEF Changed, FreeList

LEMMA WithHeader ==
  ASSUME NEW h \in Headers, NEW b \in Nat, NEW r \in HeaderRecords
  PROVE  /\ With(h, b, r) \in Headers
         /\ DOMAIN With(h, b, r) = DOMAIN h \cup {b}
         /\ With(h, b, r)[b] = r
         /\ \A d \in DOMAIN h : d # b => With(h, b, r)[d] = h[d]
<1> DEFINE n == With(h, b, r)
<1>1. DOMAIN h \subseteq Nat /\ h \in [DOMAIN h -> HeaderRecords]
  BY HeadersAre
<1>2. /\ DOMAIN n = DOMAIN h \cup {b} /\ n[b] = r
      /\ \A d \in DOMAIN h : d # b => n[d] = h[d]
  BY DEF With
<1>3. n \in [DOMAIN h \cup {b} -> HeaderRecords]
  BY <1>1 DEF With
<1>4. n \in Headers
  BY <1>1, <1>2, <1>3, HeadersAre
<1> QED
  BY <1>2, <1>4

LEMMA HeaderRecordIs ==
  ASSUME NEW size \in 0 .. SizeLimit - 1, NEW magic \in {"FREE", "USED"}
  PROVE  /\ [size |-> size, magic |-> magic] \in HeaderRecords
         /\ [size |-> size, magic |-> magic].size = size
         /\ [size |-> size, magic |-> magic].magic = magic
BY DEF HeaderRecords

\* The arena differs from another in one header, which is r.
Labelled(a, n, b, r) ==
  /\ n \in Arenas
  /\ n.chunks = a.chunks /\ n.used = a.used
  /\ n.capacity = a.capacity /\ n.largest_block = a.largest_block
  /\ n.header = With(a.header, b, r)
  /\ n.header \in Headers
  /\ DOMAIN n.header = DOMAIN a.header \cup {b}
  /\ n.header[b] = r
  /\ \A d \in DOMAIN a.header : d # b => n.header[d] = a.header[d]

LEMMA LabelChanges ==
  ASSUME NEW a \in Arenas, NEW b \in Nat, NEW size \in 0 .. SizeLimit - 1,
         NEW magic \in {"FREE", "USED"}
  PROVE  Labelled(a, Label(a, b, size, magic), b,
                  [size |-> size, magic |-> magic])
<1> DEFINE r == [size |-> size, magic |-> magic]
           h == With(a.header, b, r)
           n == Label(a, b, size, magic)
<1>1. a.header \in Headers /\ r \in HeaderRecords
  BY ArenaFacts, HeaderRecordIs
<1> HIDE DEF r
<1>2. /\ h \in Headers
      /\ DOMAIN h = DOMAIN a.header \cup {b}
      /\ h[b] = r
      /\ \A d \in DOMAIN a.header : d # b => h[d] = a.header[d]
  BY <1>1, WithHeader
<1>3. n = [a EXCEPT !.header = h]
  BY DEF Label, r
<1> HIDE DEF h
<1>4. /\ n \in Arenas
      /\ n.chunks = a.chunks /\ n.used = a.used
      /\ n.capacity = a.capacity /\ n.largest_block = a.largest_block
      /\ n.header = h
  BY <1>2, <1>3 DEF Arenas
<1> HIDE DEF n
<1>5. Labelled(a, n, b, r)
  BY <1>2, <1>4 DEF Labelled, h
<1> QED
  BY <1>5 DEF n, r

-----------------------------------------------------------------------------
(***************************************************************************)
(* The free list                                                           *)
(***************************************************************************)

\* A header written once more.
LEMMA LabelAgain ==
  ASSUME NEW a \in Arenas, NEW b \in DOMAIN a.header,
         NEW n, n = Label(a, b, SizeOf(a, b), a.header[b].magic)
  PROVE  /\ n \in Arenas
         /\ n.chunks = a.chunks /\ n.used = a.used
         /\ n.capacity = a.capacity /\ n.largest_block = a.largest_block
         /\ n.header = a.header
<1>1. /\ b \in Nat /\ SizeOf(a, b) \in 0 .. SizeLimit - 1
      /\ a.header[b].magic \in {"FREE", "USED"}
      /\ a.header[b] = [size |-> SizeOf(a, b), magic |-> a.header[b].magic]
      /\ a.header \in Headers
  BY ArenaFacts
<1>2. PICK size \in 0 .. SizeLimit - 1, magic \in {"FREE", "USED"} :
        size = SizeOf(a, b) /\ magic = a.header[b].magic
  BY <1>1
<1>3. Labelled(a, Label(a, b, size, magic), b,
               [size |-> size, magic |-> magic])
  BY <1>1, LabelChanges
<1>4. Labelled(a, n, b, a.header[b])
  BY <1>1, <1>2, <1>3
<1>5. /\ n \in Arenas
      /\ n.chunks = a.chunks /\ n.used = a.used
      /\ n.capacity = a.capacity /\ n.largest_block = a.largest_block
      /\ n.header = With(a.header, b, a.header[b])
  BY <1>4 DEF Labelled
<1>7. With(a.header, b, a.header[b]) = a.header
  <2>1. DOMAIN a.header \cup {b} = DOMAIN a.header
    OBVIOUS
  <2>2. a.header \in [DOMAIN a.header -> HeaderRecords]
    BY <1>1, HeadersAre
  <2> QED
    BY <2>1, <2>2 DEF With
<1> QED
  BY <1>5, <1>7

\* A block that is linked keeps its size: what free_list_insert takes for the
\* block in front is the one behind, and what it takes for the end of a block
\* lies a header further.  (NoTouchingFree is what is lost by this.)
LEMMA InsertChanges ==
  ASSUME NEW a \in Arenas, NEW c \in DOMAIN a.chunks,
         NEW b \in DOMAIN a.header, SizeOf(a, b) > 0,
         Sorted(FreeList(a, c)), b \notin FreeIn(a, c),
         \A d \in FreeIn(a, c) : /\ d \in DOMAIN a.header
                                 /\ SizeOf(a, d) > 0
                                 /\ EndOf(a, b) <= d \/ EndOf(a, d) <= b
  PROVE  \E list \in Seq(Nat) :
           /\ Sorted(list) /\ Range(list) = FreeIn(a, c) \cup {b}
           /\ Changed(a, FreeListInsert(a, c, b), c, a.header, list,
                      a.chunks[c].bump, a.used)
<1> DEFINE list     == FreeList(a, c)
           passed   == {i \in DOMAIN list : \A j \in 1 .. i : list[j] < b}
           link     == Cardinality(passed) + 1
           linked   == InsertAt(list, link, b)
           size     == SizeOf(a, b)
<1>1. /\ list \in Seq(Nat) /\ b \in Nat /\ size \in Nat
      /\ a.header[b] = [size |-> size, magic |-> a.header[b].magic]
      /\ a.header[b].magic \in {"FREE", "USED"}
      /\ a.header \in Headers
  BY ArenaFacts
<1>2. /\ link \in 1 .. Len(list) + 1
      /\ \A j \in 1 .. Len(list) : list[j] < b <=> j < link
  BY <1>1, PassedPrefix
<1>3. b \notin Range(list) /\ DOMAIN list = 1 .. Len(list)
  BY <1>1 DEF FreeIn
<1> HIDE DEF list, link
<1>4. /\ linked \in Seq(Nat) /\ Len(linked) = Len(list) + 1
      /\ \A j \in 1 .. Len(list) + 1 :
           linked[j] = IF j < link THEN list[j]
                       ELSE IF j = link THEN b ELSE list[j - 1]
  BY <1>1, <1>2, InsertedAt, ZenonT(40)
<1>5. Sorted(linked) /\ Range(linked) = Range(list) \cup {b}
  <2>1. Sorted(list)
    BY DEF list
  <2> HIDE DEF linked
  <2>2. linked = InsertAt(list, link, b)
    BY DEF linked
  <2> QED
    BY <1>1, <1>2, <1>3, <2>1, <2>2, SortedInsert
<1> HIDE DEF linked
<1>6. ASSUME link <= Len(list)
      PROVE  /\ list[link] \in Nat /\ list[link] > b
             /\ SizeOf(a, list[link]) \in Nat /\ SizeOf(a, list[link]) > 0
             /\ b + size <= list[link]
  <2>1. link \in 1 .. Len(list) /\ ~ (list[link] < b)
    BY <1>2, <1>6
  <2>2. list[link] \in Range(list) /\ list[link] \in Nat
    BY <1>1, <1>3, <2>1 DEF Range
  <2>3. /\ list[link] \in DOMAIN a.header /\ SizeOf(a, list[link]) > 0
        /\ EndOf(a, b) <= list[link] \/ EndOf(a, list[link]) <= b
    BY <2>2 DEF FreeIn, list
  <2>4. SizeOf(a, list[link]) \in Nat
    BY <2>3, ArenaFacts
  <2>5. list[link] # b
    BY <1>3, <2>2
  <2> QED
    BY <1>1, <2>1, <2>2, <2>3, <2>4, <2>5 DEF EndOf
<1>7. ~ (link <= Len(list) /\ EndOf(a, list[link]) = b)
  BY <1>1, <1>6 DEF EndOf
<1>8. ~ (link < Len(linked) /\ b + size = linked[link + 1] + Header)
  <2>1. SUFFICES ASSUME link < Len(linked)
                 PROVE  b + size # linked[link + 1] + Header
    OBVIOUS
  <2>2. link + 1 \in 1 .. Len(list) + 1 /\ link <= Len(list)
    BY <1>1, <1>2, <1>4, <2>1
  <2>3. linked[link + 1] = list[link]
    <3>1. (link + 1) - 1 = link /\ ~ (link + 1 < link) /\ link + 1 # link
      BY <1>2
    <3> QED
      BY <1>4, <2>2, <3>1
  <2> QED
    BY <1>1, <1>6, <2>2, <2>3, ConstantFacts
<1>9. FreeListInsert(a, c, b)
        = Label(SetFreeList(a, c, linked), b, size, a.header[b].magic)
  BY <1>7, <1>8 DEF FreeListInsert, list, passed, link, linked
<1> DEFINE s == SetFreeList(a, c, linked)
           n == Label(s, b, size, a.header[b].magic)
<1>10. Changed(a, s, c, a.header, linked, a.chunks[c].bump, a.used)
  BY <1>4, SetFreeListChanges
<1>11. s \in Arenas /\ s.header = a.header
  BY <1>10 DEF Changed
<1> HIDE DEF s
<1>12. /\ n \in Arenas
       /\ n.chunks = s.chunks /\ n.used = s.used
       /\ n.capacity = s.capacity /\ n.largest_block = s.largest_block
       /\ n.header = a.header
  <2>1. n = Label(s, b, SizeOf(s, b), s.header[b].magic)
    BY <1>11 DEF SizeOf
  <2> HIDE DEF n
  <2>2. b \in DOMAIN s.header
    BY <1>11
  <2> QED
    BY <1>11, <2>1, <2>2, LabelAgain
<1> HIDE DEF n
<1>13. Changed(a, n, c, a.header, linked, a.chunks[c].bump, a.used)
  BY <1>10, <1>12 DEF Changed, FreeList
<1> QED
  BY <1>4, <1>5, <1>9, <1>13 DEF FreeIn, list, n, s

LEMMA RemoveChanges ==
  ASSUME NEW a \in Arenas, NEW c \in DOMAIN a.chunks,
         Sorted(FreeList(a, c)), NEW b \in FreeIn(a, c)
  PROVE  \E list \in Seq(Nat) :
           /\ Sorted(list) /\ Range(list) = FreeIn(a, c) \ {b}
           /\ Changed(a, FreeListRemove(a, c, b), c, a.header, list,
                      a.chunks[c].bump, a.used)
<1> DEFINE list  == FreeList(a, c)
           found == {i \in DOMAIN list : list[i] = b}
           i     == Min(found)
<1>1. list \in Seq(Nat) /\ DOMAIN list = 1 .. Len(list)
  BY ArenaFacts
<1>2. i \in 1 .. Len(list) /\ list[i] = b
  <2>1. found \subseteq Nat /\ found # {}
    BY <1>1 DEF FreeIn, Range
  <2>2. i \in found
    <3> HIDE DEF found
    <3> QED
      BY <2>1, MinIs
  <2> QED
    BY <1>1, <2>2
<1>3. FreeListRemove(a, c, b) = SetFreeList(a, c, RemoveAt(list, i))
  BY DEF FreeListRemove
<1> HIDE DEF i, list
<1>4. /\ RemoveAt(list, i) \in Seq(Nat)
      /\ Sorted(RemoveAt(list, i))
      /\ Range(RemoveAt(list, i)) = Range(list) \ {b}
  BY <1>1, <1>2, RemovedAt, SortedRemove DEF list
<1>5. Changed(a, SetFreeList(a, c, RemoveAt(list, i)), c, a.header,
              RemoveAt(list, i), a.chunks[c].bump, a.used)
  BY <1>4, SetFreeListChanges
<1> QED
  BY <1>3, <1>4, <1>5 DEF FreeIn, list

\* One change after the other, in the same chunk.
LEMMA ChangedTwice ==
  ASSUME NEW a, NEW m, NEW n, NEW c,
         NEW h, NEW l, NEW x, NEW u, NEW h2, NEW l2, NEW x2, NEW u2,
         Changed(a, m, c, h, l, x, u), Changed(m, n, c, h2, l2, x2, u2)
  PROVE  Changed(a, n, c, h2, l2, x2, u2)
BY DEF Changed

-----------------------------------------------------------------------------
(***************************************************************************)
(* Sizes                                                                   *)
(***************************************************************************)

LEMMA RoundUpType ==
  ASSUME NEW size \in Nat
  PROVE  RoundUp(size) \in 0 .. SizeLimit - 1 /\ IsMultiple(RoundUp(size))
<1> DEFINE s == (size + Alignment - 1) % SizeLimit
<1>1. s \in 0 .. SizeLimit - 1
  BY LayoutAssumption
<1>2. RoundUp(size) = RoundDown(s)
  BY DEF RoundUp
<1> HIDE DEF s
<1>3. s % Alignment \in 0 .. Alignment - 1 /\ s % Alignment <= s
  BY <1>1, LayoutAssumption
<1>4. RoundDown(s) \in 0 .. SizeLimit - 1
  BY <1>1, <1>3, LayoutAssumption DEF RoundDown
<1>5. IsMultiple(RoundDown(s))
  BY <1>1, RoundDownMultiple
<1> QED
  BY <1>2, <1>4, <1>5

LEMMA PositiveMultiple ==
  ASSUME NEW x \in Nat, IsMultiple(x), x > 0
  PROVE  x >= Alignment
<1>1. PICK k \in Nat : x = k * Alignment
  BY DEF IsMultiple
<1>2. k # 0
  BY <1>1, LayoutAssumption
<1>3. 1 * Alignment <= k * Alignment
  BY <1>2, LayoutAssumption, TimesMonotone
<1> QED
  BY <1>1, <1>3, LayoutAssumption

LEMMA Wraps ==
  ASSUME NEW x \in Nat, x >= SizeLimit, x < 2 * SizeLimit
  PROVE  x % SizeLimit = x - SizeLimit
<1>1. x - SizeLimit \in Nat /\ x - SizeLimit < SizeLimit
  BY LayoutAssumption
<1>2. (1 * SizeLimit + (x - SizeLimit)) % SizeLimit = x - SizeLimit
  BY <1>1, LayoutAssumption, DivisionUnique
<1>3. 1 * SizeLimit + (x - SizeLimit) = x
  BY LayoutAssumption
<1> QED
  BY <1>2, <1>3

\* What is not refused did not wrap around, and is a block for the request.
LEMMA TotalServes ==
  ASSUME NEW size \in Sizes, ~ Refused(size)
  PROVE  /\ Total(size) \in Nat /\ IsMultiple(Total(size))
         /\ Total(size) < SizeLimit
         /\ Total(size) >= Header + size
         /\ Total(size) >= MinimumBlock
<1> DEFINE r == RoundUp(size)
<1>1. size \in Nat /\ size # 0 /\ size < SizeLimit
  BY ArenaAssumption, LayoutAssumption DEF Refused
<1>2. r \in 0 .. SizeLimit - 1 /\ IsMultiple(r)
  BY <1>1, RoundUpType
<1>3. /\ Alignment \in Nat \ {0} /\ SizeLimit \in Nat /\ Header \in Nat \ {0}
      /\ Header + Alignment <= SizeLimit
  BY ArenaAssumption, LayoutAssumption
<1>4. Total(size) = (Header + r) % SizeLimit /\ Total(size) >= size
  <2>1. Total(size) \in Nat
    BY <1>2, <1>3 DEF Total
  <2> QED
    BY <1>1, <2>1 DEF Total, Refused
<1>5. size + Alignment - 1 < SizeLimit
  <2>1. SUFFICES ASSUME size + Alignment - 1 >= SizeLimit PROVE FALSE
    BY <1>1, <1>3
  <2> DEFINE s == (size + Alignment - 1) % SizeLimit
  <2>2. s = size + Alignment - 1 - SizeLimit
    BY <1>1, <1>3, <2>1, Wraps
  <2>3. s \in Nat /\ s < Alignment
    BY <1>1, <1>3, <2>1, <2>2
  <2>4. r = s - (s % Alignment)
    BY DEF RoundUp, RoundDown
  <2> HIDE DEF s, r
  <2>5. s % Alignment = s
    BY <1>3, <2>3
  <2>6. r = 0
    BY <2>3, <2>4, <2>5
  <2>7. (Header + r) % SizeLimit = Header
    BY <1>3, <2>6
  <2> QED
    BY <1>1, <1>3, <1>4, <2>1, <2>7
<1>6. r >= size /\ r <= size + Alignment - 1
  BY <1>1, <1>5, RoundUpBounds
<1> HIDE DEF r
<1>7. Header + r < SizeLimit
  <2>1. SUFFICES ASSUME Header + r >= SizeLimit PROVE FALSE
    BY <1>2, <1>3
  <2>2. (Header + r) % SizeLimit = Header + r - SizeLimit
    BY <1>2, <1>3, <2>1, Wraps
  <2> QED
    BY <1>1, <1>2, <1>3, <1>4, <1>6, <2>2
<1>8. Total(size) = Header + r
  <2>1. (Header + r) % SizeLimit = Header + r
    BY <1>2, <1>3, <1>7
  <2> QED
    BY <1>4, <2>1
<1>9. r >= Alignment
  BY <1>1, <1>2, <1>6, PositiveMultiple
<1>10. IsMultiple(Header + r)
  BY <1>2, ConstantFacts, SumMultiple
<1> QED
  BY <1>1, <1>2, <1>3, <1>6, <1>7, <1>8, <1>9, <1>10 DEF MinimumBlock

LEMMA MaxOfThree ==
  ASSUME NEW x \in Nat, NEW y \in Nat, NEW z \in Nat
  PROVE  Max({x, y, z}) \in Nat /\ Max({x, y, z}) >= x
<1>1. \E m \in {x, y, z} : \A k \in {x, y, z} : m >= k
  <2>1. CASE x >= y /\ x >= z
    BY <2>1
  <2>2. CASE y >= x /\ y >= z
    BY <2>2
  <2>3. CASE z >= x /\ z >= y
    BY <2>3
  <2> QED
    BY <2>1, <2>2, <2>3
<1> DEFINE m == Max({x, y, z})
<1>2. m \in {x, y, z} /\ \A k \in {x, y, z} : m >= k
  BY <1>1 DEF Max
<1> HIDE DEF m
<1>3. m \in Nat /\ m >= x
  BY <1>2
<1> QED
  BY <1>3 DEF m

LEMMA MaxOfTwo ==
  ASSUME NEW x \in Nat, NEW y \in Nat
  PROVE  Max({x, y}) \in Nat
<1>1. {x, y} = {x, y, y}
  OBVIOUS
<1> QED
  BY <1>1, MaxOfThree

LEMMA MinOfTwo ==
  ASSUME NEW x \in Nat, NEW y \in Nat
  PROVE  Min({x, y}) = IF x <= y THEN x ELSE y
<1> DEFINE m == Min({x, y})
<1>1. m \in {x, y} /\ \A k \in {x, y} : m <= k
  BY MinIs
<1> HIDE DEF m
<1>2. m = IF x <= y THEN x ELSE y
  BY <1>1
<1> QED
  BY <1>2 DEF m

LEMMA GrownCapacityType ==
  ASSUME NEW a \in Arenas, NEW total \in Nat
  PROVE  /\ GrownCapacity(a, total) \in 0 .. SizeLimit - 1
         /\ IsMultiple(GrownCapacity(a, total))
<1>1. a.largest_block \in Nat /\ ChunkSize \in Nat
  BY ArenaFacts, ConstantFacts
<1>2. Max({total, a.largest_block, ChunkSize}) \in Nat
  BY <1>1, MaxOfThree
<1> QED
  BY <1>2, RoundUpType DEF GrownCapacity

-----------------------------------------------------------------------------
(***************************************************************************)
(* Where blocks lie                                                        *)
(***************************************************************************)

LEMMA BlockFacts ==
  ASSUME NEW a \in Arenas, NEW b, NEW m, IsBlock(a, b, m)
  PROVE  /\ b \in DOMAIN a.header /\ b \in Nat
         /\ SizeOf(a, b) \in Nat /\ SizeOf(a, b) >= MinimumBlock
         /\ SizeOf(a, b) > Header
         /\ EndOf(a, b) \in Nat /\ EndOf(a, b) = b + SizeOf(a, b)
         /\ a.header[b].magic = m
<1>1. /\ b \in DOMAIN a.header /\ a.header[b].magic = m
      /\ SizeOf(a, b) >= MinimumBlock
  BY DEF IsBlock
<1>2. b \in Nat /\ SizeOf(a, b) \in Nat
  BY <1>1, ArenaFacts
<1>3. SizeOf(a, b) > Header
  BY <1>1, <1>2, ConstantFacts
<1> QED
  BY <1>1, <1>2, <1>3 DEF EndOf

\* A block is at home in one chunk.
LEMMA HomeIs ==
  ASSUME NEW a \in Arenas, Laid(a), NEW c \in DOMAIN a.chunks,
         NEW b, NEW m, IsBlock(a, b, m), Inside(a, c, b)
  PROVE  Home(a, PointerTo(b)) = {c}
<1>1. /\ b \in Nat /\ SizeOf(a, b) \in Nat /\ SizeOf(a, b) > Header
      /\ EndOf(a, b) = b + SizeOf(a, b)
  BY BlockFacts
<1>2. \A d \in DOMAIN a.chunks : /\ a.chunks[d].base \in Nat
                                 /\ a.chunks[d].capacity \in 0 .. SizeLimit - 1
                                 /\ a.chunks[d].bump \in Nat
                                 /\ a.chunks[d].bump <= a.chunks[d].capacity
  BY ArenaFacts DEF Laid
<1>3. Header \in Nat /\ Span \in Nat /\ SizeLimit \in Nat /\ SizeLimit <= Span
  BY ConstantFacts
<1>4. /\ a.chunks[c].base <= b
      /\ b + SizeOf(a, b) <= a.chunks[c].base + a.chunks[c].bump
  BY <1>1 DEF Inside
<1>5. c \in Home(a, PointerTo(b))
  BY <1>1, <1>2, <1>3, <1>4 DEF Home, PointerTo
<1>6. ASSUME NEW d \in DOMAIN a.chunks, d # c
      PROVE  d \notin Home(a, PointerTo(b))
  <2>1. \/ a.chunks[c].base + Span <= a.chunks[d].base
        \/ a.chunks[d].base + Span <= a.chunks[c].base
    BY <1>6 DEF Laid
  <2> QED
    BY <1>1, <1>2, <1>3, <1>4, <2>1 DEF Home, PointerTo
<1> QED
  BY <1>5, <1>6 DEF Home

\* Two blocks in different chunks, at least one of them in the part handed
\* out, are apart.
LEMMA ChunksApart ==
  ASSUME NEW a \in Arenas, Laid(a),
         NEW c \in DOMAIN a.chunks, NEW d \in DOMAIN a.chunks, c # d,
         NEW x \in Nat, NEW y \in Nat, NEW v \in Nat, NEW w \in Nat,
         a.chunks[c].base <= x, x + v <= a.chunks[c].base + a.chunks[c].capacity,
         a.chunks[d].base <= y, y + w <= a.chunks[d].base + a.chunks[d].capacity
  PROVE  x + v <= y \/ y + w <= x
<1>1. /\ a.chunks[c].base \in Nat /\ a.chunks[d].base \in Nat
      /\ a.chunks[c].capacity \in 0 .. SizeLimit - 1
      /\ a.chunks[d].capacity \in 0 .. SizeLimit - 1
  BY ArenaFacts
<1>2. \/ a.chunks[c].base + Span <= a.chunks[d].base
      \/ a.chunks[d].base + Span <= a.chunks[c].base
  BY DEF Laid
<1> QED
  BY <1>1, <1>2, ConstantFacts

-----------------------------------------------------------------------------
(***************************************************************************)
(* Changes that leave an arena sound                                       *)
(***************************************************************************)

\* The free blocks of the other chunks.
FreeBeside(a, c) ==
  UNION {Range(FreeList(a, d)) : d \in DOMAIN a.chunks \ {c}}

LEMMA FreeOfChanged ==
  ASSUME NEW a, NEW n, NEW c \in DOMAIN a.chunks, NEW h, NEW list, NEW bump,
         NEW used, Changed(a, n, c, h, list, bump, used)
  PROVE  /\ FreeOf(n) = Range(list) \cup FreeBeside(a, c)
         /\ FreeOf(a) = FreeIn(a, c) \cup FreeBeside(a, c)
<1>1. DOMAIN n.chunks = DOMAIN a.chunks /\ FreeList(n, c) = list
  BY DEF Changed
<1>2. \A d \in DOMAIN a.chunks : d # c => FreeList(n, d) = FreeList(a, d)
  BY DEF Changed
<1>3. \A b : b \in FreeOf(n) <=> b \in Range(list) \cup FreeBeside(a, c)
  <2> TAKE b
  <2>1. ASSUME b \in FreeOf(n) PROVE b \in Range(list) \cup FreeBeside(a, c)
    <3>1. PICK d \in DOMAIN a.chunks : b \in Range(FreeList(n, d))
      BY <1>1, <2>1 DEF FreeOf
    <3>2. CASE d = c
      BY <1>1, <3>1, <3>2
    <3>3. CASE d # c
      BY <1>2, <3>1, <3>3 DEF FreeBeside
    <3> QED
      BY <3>2, <3>3
  <2>2. ASSUME b \in Range(list) PROVE b \in FreeOf(n)
    BY <1>1, <2>2 DEF FreeOf
  <2>3. ASSUME b \in FreeBeside(a, c) PROVE b \in FreeOf(n)
    <3>1. PICK d \in DOMAIN a.chunks \ {c} : b \in Range(FreeList(a, d))
      BY <2>3 DEF FreeBeside
    <3>2. FreeList(n, d) = FreeList(a, d)
      BY <1>2, <3>1
    <3> QED
      BY <1>1, <3>1, <3>2 DEF FreeOf
  <2> QED
    BY <2>1, <2>2, <2>3
<1>4. FreeOf(a) = FreeIn(a, c) \cup FreeBeside(a, c)
  BY DEF FreeOf, FreeIn, FreeBeside
<1> QED
  BY <1>3, <1>4

LEMMA StaysSound ==
  ASSUME NEW a, NEW U, Sound(a, U), NEW c \in DOMAIN a.chunks,
         NEW n, NEW h, NEW list \in Seq(Nat), NEW bump \in Nat, NEW used,
         NEW V,
         Changed(a, n, c, h, list, bump, used),
         a.chunks[c].bump <= bump, bump <= a.chunks[c].capacity,
         IsMultiple(bump), Sorted(list), IsFiniteSet(V),
         \A b \in Range(list) : IsBlock(n, b, "FREE") /\ Inside(n, c, b),
         \A b \in V : /\ IsBlock(n, b, "USED")
                      /\ \/ Inside(n, c, b)
                         \/ b \in U /\ n.header[b] = a.header[b],
         \A b \in FreeBeside(a, c) :
            b \in DOMAIN n.header /\ n.header[b] = a.header[b],
         Apart(n, V \cup Range(list) \cup FreeBeside(a, c)),
         used = BytesOf(n, V)
  PROVE  Sound(n, V)
<1>1. a \in Arenas /\ Laid(a) /\ Listed(a) /\ Held(a, U) /\ Counted(a, U)
  BY DEF Sound
<1>2. /\ n \in Arenas /\ n.header = h /\ n.used = used
      /\ n.capacity = a.capacity
      /\ Len(n.chunks) = Len(a.chunks) /\ DOMAIN n.chunks = DOMAIN a.chunks
  BY DEF Changed
<1>3. \A d \in DOMAIN a.chunks :
        /\ n.chunks[d].base = a.chunks[d].base
        /\ n.chunks[d].capacity = a.chunks[d].capacity
        /\ n.chunks[d].bump = IF d = c THEN bump ELSE a.chunks[d].bump
        /\ FreeList(n, d) = IF d = c THEN list ELSE FreeList(a, d)
  BY DEF Changed
<1>4. \A d \in DOMAIN a.chunks :
        a.chunks[d].base \in Nat /\ a.chunks[d].bump \in Nat
  BY <1>1, ArenaFacts
<1>5. Laid(n)
  <2>1. ASSUME NEW d \in DOMAIN a.chunks
        PROVE  /\ n.chunks[d].bump <= n.chunks[d].capacity
               /\ IsMultiple(n.chunks[d].bump)
    BY <1>1, <1>3 DEF Laid
  <2> QED
    BY <1>1, <1>2, <1>3, <2>1 DEF Laid
\* What lies inside a chunk stays inside.
<1>6. ASSUME NEW d \in DOMAIN a.chunks, NEW b, NEW m, IsBlock(a, b, m),
             Inside(a, d, b), b \in DOMAIN n.header,
             n.header[b] = a.header[b]
      PROVE  IsBlock(n, b, m) /\ Inside(n, d, b)
  <2>1. IsBlock(n, b, m) /\ EndOf(n, b) = EndOf(a, b)
    BY <1>6 DEF IsBlock, EndOf, SizeOf
  <2>2. EndOf(a, b) \in Nat
    BY <1>1, <1>6, BlockFacts
  <2>3. a.chunks[d].bump <= n.chunks[d].bump
    BY <1>3, <1>4
  <2>4. n.chunks[d].bump \in Nat
    BY <1>3, <1>4
  <2>5. /\ n.chunks[d].base = a.chunks[d].base
        /\ a.chunks[d].base \in Nat /\ a.chunks[d].bump \in Nat
    BY <1>3, <1>4
  <2>6. /\ a.chunks[d].base <= b
        /\ EndOf(a, b) <= a.chunks[d].base + a.chunks[d].bump
    BY <1>6 DEF Inside
  <2>7. EndOf(n, b) <= n.chunks[d].base + n.chunks[d].bump
    BY <2>1, <2>2, <2>3, <2>4, <2>5, <2>6
  <2> QED
    BY <2>1, <2>5, <2>6, <2>7 DEF Inside
<1>7. Listed(n)
  <2>1. SUFFICES ASSUME NEW d \in DOMAIN a.chunks
                 PROVE  /\ Sorted(FreeList(n, d))
                        /\ \A b \in FreeIn(n, d) :
                             IsBlock(n, b, "FREE") /\ Inside(n, d, b)
    BY <1>2 DEF Listed
  <2>2. CASE d = c
    BY <1>3, <2>2 DEF FreeIn
  <2>3. CASE d # c
    <3>1. FreeList(n, d) = FreeList(a, d) /\ Sorted(FreeList(a, d))
      BY <1>1, <1>3, <2>3 DEF Listed
    <3>2. SUFFICES ASSUME NEW b \in FreeIn(a, d)
                   PROVE  IsBlock(n, b, "FREE") /\ Inside(n, d, b)
      BY <3>1 DEF FreeIn
    <3>3. IsBlock(a, b, "FREE") /\ Inside(a, d, b)
      BY <1>1 DEF Listed
    <3>4. b \in DOMAIN n.header /\ n.header[b] = a.header[b]
      BY <2>3 DEF FreeBeside, FreeIn
    <3> QED
      BY <1>6, <3>3, <3>4
  <2> QED
    BY <2>2, <2>3
<1>8. Held(n, V)
  <2>1. SUFFICES ASSUME NEW b \in V
                 PROVE  \E d \in DOMAIN n.chunks : Inside(n, d, b)
    BY DEF Held
  <2>2. CASE Inside(n, c, b)
    BY <1>2, <2>2
  <2>3. CASE b \in U /\ n.header[b] = a.header[b]
    <3>1. PICK d \in DOMAIN a.chunks : Inside(a, d, b)
      BY <1>1, <2>3 DEF Held
    <3>2. IsBlock(a, b, "USED")
      BY <1>1, <2>3 DEF Held
    <3>3. b \in DOMAIN n.header
      BY DEF IsBlock
    <3> QED
      BY <1>2, <1>6, <2>3, <3>1, <3>2, <3>3
  <2> QED
    BY <2>2, <2>3
<1>9. Apart(n, V \cup FreeOf(n))
  <2>1. V \cup FreeOf(n) = V \cup Range(list) \cup FreeBeside(a, c)
    BY FreeOfChanged
  <2> QED
    BY <2>1
<1>10. Counted(n, V)
  <2>1. [d \in DOMAIN n.chunks |-> n.chunks[d].capacity]
          = [d \in DOMAIN a.chunks |-> a.chunks[d].capacity]
    BY <1>2, <1>3
  <2> QED
    BY <1>1, <1>2, <2>1 DEF Counted
<1> QED
  BY <1>2, <1>5, <1>7, <1>8, <1>9, <1>10 DEF Sound

\* Blocks that keep their headers stay apart, and so do they from a block
\* that is apart from each.
LEMMA ApartWith ==
  ASSUME NEW a, NEW n, NEW A, NEW B, Apart(a, A), B \subseteq A,
         \A b \in B : n.header[b] = a.header[b],
         NEW x,
         \A b \in B : b # x => EndOf(n, x) <= b \/ EndOf(n, b) <= x
  PROVE  Apart(n, B \cup {x})
<1>1. \A b \in B : EndOf(n, b) = EndOf(a, b)
  BY DEF EndOf, SizeOf
<1> QED
  BY <1>1 DEF Apart

\* Facts about the blocks of a sound arena.
LEMMA SoundFacts ==
  ASSUME NEW a, NEW U, Sound(a, U)
  PROVE  /\ a \in Arenas /\ Laid(a) /\ IsFiniteSet(U)
         /\ \A b \in U : IsBlock(a, b, "USED")
         /\ \A b \in FreeOf(a) : IsBlock(a, b, "FREE")
         /\ U \cap FreeOf(a) = {}
         /\ \A b \in U \cup FreeOf(a) :
              \E c \in DOMAIN a.chunks : Inside(a, c, b)
         /\ \A c \in DOMAIN a.chunks :
              /\ Sorted(FreeList(a, c)) /\ FreeIn(a, c) \subseteq FreeOf(a)
              /\ \A b \in FreeIn(a, c) : Inside(a, c, b)
         /\ \A b, d \in U \cup FreeOf(a) :
              b # d => \/ b + SizeOf(a, b) <= d
                       \/ d + SizeOf(a, d) <= b
<1>1. a \in Arenas /\ Laid(a) /\ Listed(a) /\ Held(a, U)
      /\ Apart(a, U \cup FreeOf(a))
  BY DEF Sound
<1>2. \A b \in FreeOf(a) : /\ IsBlock(a, b, "FREE")
                           /\ \E c \in DOMAIN a.chunks : Inside(a, c, b)
  BY <1>1 DEF FreeOf, Listed, FreeIn
<1>3. \A b \in U : IsBlock(a, b, "USED")
  BY <1>1 DEF Held
<1>4. U \cap FreeOf(a) = {}
  BY <1>2, <1>3 DEF IsBlock
<1>5. \A c \in DOMAIN a.chunks :
        /\ Sorted(FreeList(a, c)) /\ FreeIn(a, c) \subseteq FreeOf(a)
        /\ \A b \in FreeIn(a, c) : Inside(a, c, b)
  BY <1>1 DEF Listed, FreeOf, FreeIn
<1> QED
  BY <1>1, <1>2, <1>3, <1>4, <1>5 DEF Held, Apart, EndOf

-----------------------------------------------------------------------------
(***************************************************************************)
(* Handing out a block                                                     *)
(***************************************************************************)

\* What cutting the free block x leaves: the rest is a free block of the list,
\* if it is large enough for one.
Carved(a, n, c, x, total) ==
  LET rest == x + total
      left == SizeOf(a, x) - total
  IN \E list \in Seq(Nat), h \in Headers :
       /\ Changed(a, n, c, h, list, a.chunks[c].bump, a.used)
       /\ Sorted(list)
       /\ h[x] = [size |-> total, magic |-> "FREE"]
       /\ \A b \in DOMAIN a.header :
            b # x /\ b # rest => h[b] = a.header[b]
       /\ \/ /\ Range(list) = (FreeIn(a, c) \ {x}) \cup {rest}
             /\ DOMAIN h = DOMAIN a.header \cup {rest}
             /\ left >= MinimumBlock
             /\ h[rest] = [size |-> left, magic |-> "FREE"]
          \/ /\ Range(list) = FreeIn(a, c) \ {x}
             /\ DOMAIN h = DOMAIN a.header
             /\ rest \in DOMAIN a.header => h[rest] = a.header[rest]

LEMMA CarveTakes ==
  ASSUME NEW a, NEW U, Sound(a, U), NEW c \in DOMAIN a.chunks,
         NEW x \in FreeIn(a, c), NEW total \in Nat, IsMultiple(total),
         total >= MinimumBlock, SizeOf(a, x) >= total
  PROVE  Carved(a, Carve(FreeListRemove(a, c, x), c, x, total), c, x, total)
<1> DEFINE rest == x + total
           av   == SizeOf(a, x)
           left == av - total
           a1   == FreeListRemove(a, c, x)
           n    == Carve(a1, c, x, total)
<1>1. /\ a \in Arenas /\ Sorted(FreeList(a, c))
      /\ IsBlock(a, x, "FREE")
      /\ \A b \in FreeIn(a, c) : /\ IsBlock(a, b, "FREE")
                                 /\ b # x => \/ b + SizeOf(a, b) <= x
                                             \/ x + av <= b
  BY SoundFacts
<1>2. /\ x \in Nat /\ x \in DOMAIN a.header /\ av \in Nat
      /\ av \in 0 .. SizeLimit - 1
      /\ a.header[x] = [size |-> av, magic |-> "FREE"]
      /\ a.header \in Headers
  BY <1>1, ArenaFacts DEF IsBlock
<1>3. /\ rest \in Nat /\ left \in Nat /\ total > 0 /\ rest > x
      /\ MinimumBlock \in Nat /\ MinimumBlock > 0
  BY <1>2, ConstantFacts
<1>16. left \in 0 .. SizeLimit - 1 /\ total \in 0 .. SizeLimit - 1
  BY <1>2, LayoutAssumption
<1>4. PICK l1 \in Seq(Nat) :
        /\ Sorted(l1) /\ Range(l1) = FreeIn(a, c) \ {x}
        /\ Changed(a, a1, c, a.header, l1, a.chunks[c].bump, a.used)
  BY <1>1, RemoveChanges
<1>5. /\ a1 \in Arenas /\ a1.header = a.header /\ SizeOf(a1, x) = av
      /\ c \in DOMAIN a1.chunks /\ FreeList(a1, c) = l1
  BY <1>4 DEF Changed, SizeOf
<1> HIDE DEF a1, av
<1> DEFINE marked == Label(a1, rest, left, "FREE")
           listed == IF left >= MinimumBlock
                     THEN FreeListInsert(marked, c, rest) ELSE a1
<1>7. n = Label(listed, x, total, "FREE")
  <2>1. n = Label(listed, x, total, a1.header[x].magic)
    BY <1>5 DEF Carve
  <2> QED
    BY <1>2, <1>5, <2>1
\* The list and the headers before the block itself is labelled.
<1>8. PICK l2 \in Seq(Nat), g \in Headers :
        /\ Changed(a, listed, c, g, l2, a.chunks[c].bump, a.used)
        /\ Sorted(l2)
        /\ \A b \in DOMAIN a.header : b # rest => g[b] = a.header[b]
        /\ \/ /\ Range(l2) = (FreeIn(a, c) \ {x}) \cup {rest}
              /\ DOMAIN g = DOMAIN a.header \cup {rest}
              /\ left >= MinimumBlock
              /\ g[rest] = [size |-> left, magic |-> "FREE"]
           \/ /\ Range(l2) = FreeIn(a, c) \ {x}
              /\ g = a.header
  <2>1. CASE left >= MinimumBlock
    <3> DEFINE r == [size |-> left, magic |-> "FREE"]
               g == marked.header
    <3>1. /\ marked \in Arenas
          /\ marked.chunks = a1.chunks /\ marked.used = a1.used
          /\ marked.capacity = a1.capacity
          /\ marked.largest_block = a1.largest_block
          /\ g \in Headers /\ DOMAIN g = DOMAIN a.header \cup {rest}
          /\ g[rest] = r
          /\ \A b \in DOMAIN a.header : b # rest => g[b] = a.header[b]
      <4> HIDE DEF left, rest
      <4>1. Labelled(a1, marked, rest, r)
        BY <1>3, <1>5, <1>16, LabelChanges
      <4> HIDE DEF marked, r
      <4> QED
        BY <1>5, <4>1 DEF Labelled
    <3>2. g[rest].size = left
      BY <3>1
    <3> HIDE DEF marked
    <3>3. Changed(a, marked, c, g, l1, a.chunks[c].bump, a.used)
      BY <1>4, <3>1 DEF Changed, FreeList
    <3> HIDE DEF g
    <3>4. /\ FreeList(marked, c) = l1 /\ FreeIn(marked, c) = Range(l1)
          /\ c \in DOMAIN marked.chunks
          /\ marked.chunks[c].bump = a.chunks[c].bump
          /\ marked.used = a.used /\ marked.header = g
      BY <3>3 DEF Changed, FreeIn
    <3>5. /\ rest \in DOMAIN marked.header /\ SizeOf(marked, rest) = left
          /\ EndOf(marked, rest) = x + av
      BY <1>2, <1>3, <3>1, <3>2, <3>4 DEF SizeOf, EndOf
    <3>6. ASSUME NEW d \in FreeIn(marked, c)
          PROVE  /\ d \in DOMAIN marked.header /\ d # rest
                 /\ SizeOf(marked, d) > 0
                 /\ EndOf(marked, rest) <= d \/ EndOf(marked, d) <= rest
      <4>1. d \in FreeIn(a, c) /\ d # x
        BY <1>4, <3>4
      <4>2. /\ d \in DOMAIN a.header /\ d \in Nat
            /\ SizeOf(a, d) \in Nat /\ SizeOf(a, d) >= MinimumBlock
            /\ d + SizeOf(a, d) <= x \/ x + av <= d
        BY <1>1, <4>1, BlockFacts
      <4>3. d # rest
        BY <1>2, <1>3, <2>1, <4>2
      <4>4. SizeOf(marked, d) = SizeOf(a, d) /\ d \in DOMAIN marked.header
        BY <3>1, <3>4, <4>2, <4>3 DEF SizeOf
      <4>5. EndOf(marked, d) = d + SizeOf(a, d)
        BY <4>4 DEF EndOf
      <4> QED
        BY <1>2, <1>3, <3>5, <4>2, <4>3, <4>4, <4>5
    <3>7. SizeOf(marked, rest) > 0 /\ rest \notin FreeIn(marked, c)
      BY <1>3, <2>1, <3>5, <3>6
    <3>8. Sorted(FreeList(marked, c))
      BY <1>4, <3>4
    <3>9. PICK l \in Seq(Nat) :
            /\ Sorted(l) /\ Range(l) = FreeIn(marked, c) \cup {rest}
            /\ Changed(marked, FreeListInsert(marked, c, rest), c,
                       marked.header, l, marked.chunks[c].bump, marked.used)
      BY <3>1, <3>4, <3>5, <3>6, <3>7, <3>8, InsertChanges
    <3>10. listed = FreeListInsert(marked, c, rest)
      BY <2>1
    <3>11. Changed(a, listed, c, g, l, a.chunks[c].bump, a.used)
      BY <3>1, <3>3, <3>4, <3>9, <3>10, ChangedTwice
    <3>12. Range(l) = (FreeIn(a, c) \ {x}) \cup {rest}
      BY <1>4, <3>4, <3>9
    <3> HIDE DEF listed
    <3> QED
      BY <2>1, <3>1, <3>9, <3>11, <3>12
  <2>2. CASE ~ (left >= MinimumBlock)
    <3>1. listed = a1
      BY <2>2
    <3> HIDE DEF listed
    <3> QED
      BY <1>2, <1>4, <3>1
  <2> QED
    BY <2>1, <2>2
<1>9. listed \in Arenas /\ listed.header = g
  BY <1>8 DEF Changed
<1> HIDE DEF listed, n
<1> DEFINE h == n.header
           r == [size |-> total, magic |-> "FREE"]
<1>10. /\ n \in Arenas
       /\ n.chunks = listed.chunks /\ n.used = listed.used
       /\ n.capacity = listed.capacity
       /\ n.largest_block = listed.largest_block
       /\ h \in Headers /\ DOMAIN h = DOMAIN g \cup {x}
       /\ h[x] = r
       /\ \A b \in DOMAIN g : b # x => h[b] = g[b]
  <2>1. Labelled(listed, Label(listed, x, total, "FREE"), x, r)
    BY <1>2, <1>9, <1>16, LabelChanges
  <2>2. Labelled(listed, n, x, r)
    BY <1>7, <2>1
  <2> HIDE DEF r
  <2> QED
    BY <1>9, <2>2 DEF Labelled
<1>11. n.header = h
  OBVIOUS
<1> HIDE DEF h
<1>12. Changed(a, n, c, h, l2, a.chunks[c].bump, a.used)
  BY <1>8, <1>10, <1>11 DEF Changed, FreeList
<1>13. x \in DOMAIN g /\ rest # x
  BY <1>2, <1>3, <1>8
<1>14. \A b \in DOMAIN a.header : b # x /\ b # rest => h[b] = a.header[b]
  BY <1>8, <1>10
<1>15. \/ /\ Range(l2) = (FreeIn(a, c) \ {x}) \cup {rest}
          /\ DOMAIN h = DOMAIN a.header \cup {rest}
          /\ left >= MinimumBlock
          /\ h[rest] = [size |-> left, magic |-> "FREE"]
       \/ /\ Range(l2) = FreeIn(a, c) \ {x}
          /\ DOMAIN h = DOMAIN a.header
          /\ rest \in DOMAIN a.header => h[rest] = a.header[rest]
  <2>1. CASE g = a.header
    BY <1>8, <1>10, <1>13, <2>1
  <2>2. CASE g # a.header
    BY <1>8, <1>10, <1>13, <2>2
  <2> QED
    BY <2>1, <2>2
<1> QED
  BY <1>8, <1>10, <1>12, <1>14, <1>15 DEF n, a1, av, Carved

\* The memory in use grows by a block handed out, and shrinks by one given
\* back.
LEMMA UsedGrows ==
  ASSUME NEW a, NEW n, NEW U, IsFiniteSet(U), NEW x, x \notin U,
         \A b \in U : SizeOf(a, b) \in Nat /\ SizeOf(n, b) = SizeOf(a, b),
         SizeOf(n, x) \in Nat
  PROVE  BytesOf(n, U \cup {x}) = BytesOf(a, U) + SizeOf(n, x)
<1> DEFINE f == [b \in U |-> SizeOf(a, b)]
           g == [b \in U \cup {x} |-> SizeOf(n, b)]
<1>1. (\A y \in U : f[y] \in Nat /\ g[y] = f[y]) /\ g[x] = SizeOf(n, x)
  OBVIOUS
<1>2. g[x] \in Nat
  BY <1>1
<1> HIDE DEF f, g
<1>3. SumFunctionOnSet(g, U \cup {x}) = SumFunctionOnSet(f, U) + g[x]
  BY <1>1, <1>2, SumAdd
<1> QED
  BY <1>1, <1>3 DEF f, g, BytesOf

LEMMA BytesType ==
  ASSUME NEW a, NEW B, IsFiniteSet(B), \A b \in B : SizeOf(a, b) \in Nat
  PROVE  BytesOf(a, B) \in Nat
<1> DEFINE f == [b \in B |-> SizeOf(a, b)]
<1>1. \A b \in B : f[b] \in Nat
  OBVIOUS
<1> HIDE DEF f
<1>2. SumFunctionOnSet(f, B) \in Nat
  BY <1>1, SumType
<1> QED
  BY <1>2 DEF f, BytesOf

LEMMA UsedShrinks ==
  ASSUME NEW a, NEW n, NEW U, IsFiniteSet(U), NEW x \in U,
         \A b \in U : SizeOf(a, b) \in Nat,
         \A b \in U \ {x} : SizeOf(n, b) = SizeOf(a, b)
  PROVE  /\ BytesOf(n, U \ {x}) \in Nat
         /\ BytesOf(a, U) = BytesOf(n, U \ {x}) + SizeOf(a, x)
<1> DEFINE V == U \ {x}
           f == [b \in V |-> SizeOf(n, b)]
           g == [b \in U |-> SizeOf(a, b)]
<1>1. IsFiniteSet(V) /\ x \notin V
  BY FS_RemoveElement
<1>2. V \cup {x} = U
  OBVIOUS
<1>3. /\ \A b \in V : f[b] \in Nat /\ g[b] = f[b]
      /\ g[x] = SizeOf(a, x) /\ g[x] \in Nat
  OBVIOUS
<1> HIDE DEF V, f, g
<1>4. SumFunctionOnSet(f, V) \in Nat
  BY <1>1, <1>3, SumType
<1>5. SumFunctionOnSet(g, V \cup {x}) = SumFunctionOnSet(f, V) + g[x]
  BY <1>1, <1>3, SumAdd
<1> QED
  BY <1>2, <1>3, <1>4, <1>5 DEF V, f, g, BytesOf

\* What a block handed out is to the blocks in use until then.
HandedOut(a, U, n, x, total) ==
  /\ x \in Nat /\ x \notin U
  /\ Sound(n, U \cup {x})
  /\ SizeOf(n, x) = total
  /\ \A b \in U : n.header[b] = a.header[b]
  /\ \A b \in DOMAIN n.header :
       n.header[b].magic = "USED" /\ b # x
         => b \in DOMAIN a.header /\ a.header[b].magic = "USED"

\* Handing out a block of an arena where it lies apart from all others: what
\* arena_hand_out writes, and what the caller may overwrite.
InUse(taken, x, total) ==
  LET kept == {b \in DOMAIN taken.header : b <= x \/ b >= x + total}
  IN [taken EXCEPT !.header = With([b \in kept |-> taken.header[b]], x,
                                   [size |-> SizeOf(taken, x),
                                    magic |-> "USED"]),
                   !.used = @ + total]

\* The headers g that are left of h.
Covered(g, h, x, total) ==
  /\ DOMAIN g = {b \in DOMAIN h : b <= x \/ b >= x + total}
  /\ g[x] = [size |-> total, magic |-> "USED"]
  /\ \A b \in DOMAIN g : b # x => g[b] = h[b]

LEMMA InUseChanges ==
  ASSUME NEW a \in Arenas, NEW n \in Arenas, NEW c, NEW h, NEW list, NEW bump,
         Changed(a, n, c, h, list, bump, a.used),
         NEW x \in DOMAIN h, NEW total \in Nat, h[x].size = total
  PROVE  \E g \in Headers :
           /\ Changed(a, InUse(n, x, total), c, g, list, bump, a.used + total)
           /\ Covered(g, h, x, total)
<1>1. /\ n.header = h /\ n.used = a.used
  BY DEF Changed
<1>2. h \in Headers /\ DOMAIN h \subseteq Nat /\ h \in [DOMAIN h -> HeaderRecords]
  BY <1>1, ArenaFacts, HeadersAre
<1> DEFINE kept == {b \in DOMAIN h : b <= x \/ b >= x + total}
           cut  == [b \in kept |-> h[b]]
           r    == [size |-> total, magic |-> "USED"]
           g    == With(cut, x, r)
           m    == InUse(n, x, total)
<1>3. x \in Nat /\ x \in kept /\ kept \subseteq Nat
  BY <1>2
<1>4. /\ cut \in Headers /\ DOMAIN cut = kept
      /\ \A b \in kept : cut[b] = h[b]
  <2>1. cut \in [kept -> HeaderRecords]
    BY <1>2
  <2> QED
    BY <1>3, <2>1, HeadersAre
<1>5. r \in HeaderRecords
  <2>1. total \in 0 .. SizeLimit - 1
    BY <1>2 DEF HeaderRecords
  <2> QED
    BY <2>1, HeaderRecordIs
<1>6. m = [n EXCEPT !.header = g, !.used = n.used + total]
  BY <1>1 DEF InUse, SizeOf
<1> HIDE DEF kept, cut, r, m
<1>7. /\ g \in Headers /\ DOMAIN g = kept \cup {x} /\ g[x] = r
      /\ \A b \in kept : b # x => g[b] = h[b]
  BY <1>3, <1>4, <1>5, WithHeader, ZenonT(40)
<1> HIDE DEF g
<1>8. PICK u \in Nat : u = n.used + total
  BY ArenaFacts
<1>9. /\ m \in Arenas /\ m.header = g /\ m.used = n.used + total
      /\ m.chunks = n.chunks /\ m.capacity = n.capacity
      /\ m.largest_block = n.largest_block
  <2>1. m = [n EXCEPT !.header = g, !.used = u]
    BY <1>6, <1>8
  <2> QED
    BY <1>7, <1>8, <2>1 DEF Arenas
<1>10. Changed(a, m, c, g, list, bump, a.used + total)
  BY <1>1, <1>9 DEF Changed, FreeList
<1>11. kept \cup {x} = kept
  BY <1>3
<1>12. Covered(g, h, x, total)
  BY <1>7, <1>11 DEF kept, r, Covered
<1> QED
  BY <1>7, <1>10, <1>12 DEF m

LEMMA InUseSound ==
  ASSUME NEW a, NEW U, Sound(a, U), NEW c \in DOMAIN a.chunks,
         NEW n, NEW h, NEW list \in Seq(Nat), NEW bump \in Nat,
         Changed(a, n, c, h, list, bump, a.used),
         a.chunks[c].bump <= bump, bump <= a.chunks[c].capacity,
         IsMultiple(bump), Sorted(list),
         NEW x \in DOMAIN h, x \notin U \cup Range(list) \cup FreeBeside(a, c),
         NEW total \in Nat, IsMultiple(x), IsMultiple(total),
         total >= MinimumBlock, h[x].size = total, Inside(n, c, x),
         \A b \in Range(list) : IsBlock(n, b, "FREE") /\ Inside(n, c, b),
         \A b \in U \cup FreeBeside(a, c) :
            b \in DOMAIN h /\ h[b] = a.header[b],
         Apart(n, U \cup {x} \cup Range(list) \cup FreeBeside(a, c)),
         \A b \in DOMAIN h : h[b].magic = "USED" /\ b # x
            => b \in DOMAIN a.header /\ a.header[b].magic = "USED"
  PROVE  HandedOut(a, U, InUse(n, x, total), x, total)
<1> DEFINE m == InUse(n, x, total)
           B == U \cup Range(list) \cup FreeBeside(a, c)
<1>1. /\ a \in Arenas /\ IsFiniteSet(U) /\ Counted(a, U)
      /\ \A b \in U : IsBlock(a, b, "USED")
      /\ \A b \in FreeOf(a) : IsBlock(a, b, "FREE")
  BY SoundFacts DEF Sound
<1>2. n \in Arenas /\ n.header = h
  BY DEF Changed
<1>18. PICK g \in Headers :
         /\ Changed(a, m, c, g, list, bump, a.used + total)
         /\ Covered(g, h, x, total)
  BY <1>1, <1>2, InUseChanges
<1>3. /\ Changed(a, m, c, g, list, bump, a.used + total)
      /\ DOMAIN g = {b \in DOMAIN h : b <= x \/ b >= x + total}
      /\ g[x] = [size |-> total, magic |-> "USED"]
      /\ \A b \in DOMAIN g : b # x => g[b] = h[b]
  BY <1>18 DEF Covered
<1> HIDE DEF m
<1>4. /\ m \in Arenas /\ m.header = g
      /\ m.chunks[c].base = n.chunks[c].base
      /\ m.chunks[c].bump = n.chunks[c].bump
  BY <1>3 DEF Changed
<1>5. FreeBeside(a, c) \subseteq FreeOf(a)
  BY DEF FreeBeside, FreeOf
<1>6. x \in Nat /\ SizeOf(n, x) = total /\ EndOf(n, x) = x + total
  BY <1>2, ArenaFacts DEF SizeOf, EndOf
<1>7. x \in DOMAIN g /\ SizeOf(m, x) = total /\ EndOf(m, x) = EndOf(n, x)
      /\ g[x].magic = "USED"
  BY <1>3, <1>4, <1>6 DEF SizeOf, EndOf
\* The other blocks keep their headers.
<1>8. ASSUME NEW b \in B
      PROVE  /\ b \in DOMAIN g /\ g[b] = h[b]
             /\ b \in Nat /\ SizeOf(n, b) \in Nat
             /\ SizeOf(m, b) = SizeOf(n, b) /\ EndOf(m, b) = EndOf(n, b)
  <2>1. b \in DOMAIN h /\ b # x
    BY <1>2 DEF IsBlock
  <2>2. b \in Nat /\ SizeOf(n, b) \in Nat
    BY <1>2, <2>1, ArenaFacts
  <2>3. SizeOf(n, b) > 0
    <3>1. CASE b \in Range(list)
      BY <1>2, <3>1, BlockFacts, ConstantFacts
    <3>2. CASE b \in U \cup FreeBeside(a, c)
      <4>1. SizeOf(a, b) > 0
        BY <1>1, <1>5, <3>2, BlockFacts, ConstantFacts
      <4> QED
        BY <1>2, <3>2, <4>1 DEF SizeOf
    <3> QED
      BY <3>1, <3>2
  <2>4. b + SizeOf(n, b) <= x \/ x + total <= b
    BY <1>6, <2>1 DEF Apart, EndOf
  <2>5. b \in DOMAIN g /\ g[b] = h[b]
    BY <1>3, <1>6, <2>1, <2>2, <2>3, <2>4
  <2> QED
    BY <1>2, <1>4, <2>2, <2>5 DEF SizeOf, EndOf
<1>9. \A b \in Range(list) : IsBlock(m, b, "FREE") /\ Inside(m, c, b)
  BY <1>2, <1>4, <1>8 DEF IsBlock, Inside
<1>10. IsBlock(m, x, "USED") /\ Inside(m, c, x)
  BY <1>4, <1>7 DEF IsBlock, Inside
<1>11. \A b \in U \cup FreeBeside(a, c) :
         b \in DOMAIN m.header /\ m.header[b] = a.header[b]
  BY <1>4, <1>8
<1>12. \A b \in U : IsBlock(m, b, "USED")
  BY <1>1, <1>11 DEF IsBlock, SizeOf
<1>13. Apart(m, U \cup {x} \cup Range(list) \cup FreeBeside(a, c))
  BY <1>7, <1>8 DEF Apart
<1>14. a.used + total = BytesOf(m, U \cup {x})
  <2>1. \A b \in U : SizeOf(a, b) \in Nat /\ SizeOf(m, b) = SizeOf(a, b)
    BY <1>1, <1>11, BlockFacts DEF SizeOf
  <2>2. SizeOf(m, x) \in Nat /\ x \notin U
    BY <1>7
  <2>3. BytesOf(m, U \cup {x}) = BytesOf(a, U) + SizeOf(m, x)
    BY <1>1, <2>1, <2>2, UsedGrows
  <2> QED
    BY <1>1, <1>7, <2>3 DEF Counted
<1>15. IsFiniteSet(U \cup {x})
  BY <1>1, FS_AddElement
<1>16. Sound(m, U \cup {x})
  BY <1>3, <1>9, <1>10, <1>11, <1>12, <1>13, <1>14, <1>15, StaysSound
<1>17. ASSUME NEW b \in DOMAIN m.header, m.header[b].magic = "USED", b # x
       PROVE  b \in DOMAIN a.header /\ a.header[b].magic = "USED"
  <2>1. b \in DOMAIN h /\ h[b].magic = "USED"
    BY <1>3, <1>4, <1>17
  <2> QED
    BY <1>17, <2>1
<1> QED
  BY <1>6, <1>7, <1>11, <1>16, <1>17 DEF HandedOut, m

LEMMA ApartFewer ==
  ASSUME NEW a, NEW A, NEW B, Apart(a, A), B \subseteq A
  PROVE  Apart(a, B)
BY DEF Apart

LEMMA BumpChanges ==
  ASSUME NEW a \in Arenas, NEW c \in DOMAIN a.chunks, NEW total \in Nat
  PROVE  Changed(a, [a EXCEPT !.chunks[c].bump = @ + total], c, a.header,
                 FreeList(a, c), a.chunks[c].bump + total, a.used)
<1> DEFINE n == [a EXCEPT !.chunks[c].bump = @ + total]
           bump == a.chunks[c].bump + total
           chunk == [a.chunks[c] EXCEPT !.bump = bump]
<1>1. a.chunks \in Seq(ChunkRecords) /\ a.chunks[c] \in ChunkRecords
      /\ DOMAIN a.chunks = 1 .. Len(a.chunks)
  BY ArenaFacts
<1>2. bump \in Nat
  BY ArenaFacts
<1>3. n = [a EXCEPT !.chunks = [a.chunks EXCEPT ![c] = chunk]]
  OBVIOUS
<1> HIDE DEF bump
<1>4. /\ chunk \in ChunkRecords
      /\ chunk.base = a.chunks[c].base
      /\ chunk.capacity = a.chunks[c].capacity
      /\ chunk.bump = bump
      /\ chunk.free_list = a.chunks[c].free_list
  BY <1>1, <1>2 DEF ChunkRecords
<1> HIDE DEF chunk, n
<1> DEFINE chunks == [a.chunks EXCEPT ![c] = chunk]
<1>5. /\ chunks \in Seq(ChunkRecords) /\ Len(chunks) = Len(a.chunks)
      /\ \A d \in 1 .. Len(a.chunks) :
           chunks[d] = IF d = c THEN chunk ELSE a.chunks[d]
  BY <1>1, <1>4, ExceptSeq
<1> HIDE DEF chunks
<1>6. n = [a EXCEPT !.chunks = chunks]
  BY <1>3 DEF chunks
<1>7. /\ n \in Arenas /\ n.chunks = chunks /\ n.header = a.header
      /\ n.used = a.used /\ n.capacity = a.capacity
      /\ n.largest_block = a.largest_block
  BY <1>5, <1>6 DEF Arenas
<1>8. DOMAIN chunks = DOMAIN a.chunks
  BY <1>1, <1>5
<1>9. Changed(a, n, c, a.header, FreeList(a, c), bump, a.used)
  BY <1>1, <1>4, <1>5, <1>7, <1>8 DEF Changed, FreeList
<1> QED
  BY <1>9 DEF n, bump

\* What was never handed out of a chunk touches no block.
LEMMA RestApart ==
  ASSUME NEW a, NEW U, Sound(a, U), NEW c \in DOMAIN a.chunks,
         NEW total \in Nat, total > 0,
         a.chunks[c].bump + total <= a.chunks[c].capacity,
         NEW b \in U \cup FreeOf(a)
  PROVE  LET x == a.chunks[c].base + a.chunks[c].bump
         IN /\ b # x /\ b \in DOMAIN a.header
            /\ EndOf(a, b) <= x \/ x + total <= b
<1> DEFINE x == a.chunks[c].base + a.chunks[c].bump
<1>1. PICK d \in DOMAIN a.chunks : Inside(a, d, b)
  BY SoundFacts
<1>2. a \in Arenas /\ Laid(a)
  BY SoundFacts
<1>3. PICK m : IsBlock(a, b, m)
  BY SoundFacts
<1>4. /\ b \in DOMAIN a.header /\ b \in Nat
      /\ SizeOf(a, b) \in Nat /\ SizeOf(a, b) > 0
      /\ EndOf(a, b) = b + SizeOf(a, b)
  <2>1. SizeOf(a, b) > Header
    BY <1>2, <1>3, BlockFacts
  <2> QED
    BY <1>2, <1>3, <2>1, BlockFacts, ConstantFacts
<1>5. /\ a.chunks[d].base \in Nat /\ a.chunks[d].bump \in Nat
      /\ a.chunks[d].capacity \in Nat
      /\ a.chunks[d].bump <= a.chunks[d].capacity
      /\ a.chunks[c].base \in Nat /\ a.chunks[c].bump \in Nat
      /\ a.chunks[c].capacity \in Nat
  BY <1>2, ArenaFacts, ConstantFacts DEF Laid
<1>6. /\ a.chunks[d].base <= b
      /\ b + SizeOf(a, b) <= a.chunks[d].base + a.chunks[d].bump
  BY <1>1, <1>4 DEF Inside
<1>7. CASE d = c
  BY <1>4, <1>5, <1>6, <1>7
<1>8. CASE d # c
  <2>1. /\ a.chunks[c].base <= x /\ x \in Nat
        /\ x + total <= a.chunks[c].base + a.chunks[c].capacity
        /\ b + SizeOf(a, b) <= a.chunks[d].base + a.chunks[d].capacity
    BY <1>4, <1>5, <1>6
  <2> HIDE DEF x
  <2>2. b + SizeOf(a, b) <= x \/ x + total <= b
    BY <1>2, <1>4, <1>6, <1>8, <2>1, ChunksApart
  <2> QED
    BY <1>4, <2>1, <2>2 DEF x
<1> QED
  BY <1>7, <1>8

LEMMA HandOutFromRest ==
  ASSUME NEW a, NEW U, Sound(a, U), NEW c \in DOMAIN a.chunks,
         NEW total \in Nat, IsMultiple(total), total >= MinimumBlock,
         FreeFits(a, c, total) = {}, HasRoom(a, c, total)
  PROVE  /\ HandOut(a, c, total).status = "SUCCESS"
         /\ HandedOut(a, U, HandOut(a, c, total).arena,
                      HandOut(a, c, total).block, total)
<1> DEFINE x    == a.chunks[c].base + a.chunks[c].bump
           bump == a.chunks[c].bump + total
           list == FreeList(a, c)
           s    == [a EXCEPT !.chunks[c].bump = @ + total]
           n    == Label(s, x, total, "USED")
           r    == [size |-> total, magic |-> "USED"]
           h    == n.header
<1>1. /\ a \in Arenas /\ Laid(a) /\ Sorted(list)
      /\ \A b \in U : IsBlock(a, b, "USED")
      /\ \A b \in FreeOf(a) : IsBlock(a, b, "FREE")
      /\ FreeIn(a, c) \subseteq FreeOf(a)
      /\ \A b \in FreeIn(a, c) : Inside(a, c, b)
      /\ Apart(a, U \cup FreeOf(a))
  BY SoundFacts DEF Sound
<1>2. /\ a.chunks[c].base \in Nat /\ a.chunks[c].bump \in Nat
      /\ a.chunks[c].capacity \in Nat /\ list \in Seq(Nat)
      /\ a.header \in Headers
  BY <1>1, ArenaFacts, ConstantFacts
<1>3. bump <= a.chunks[c].capacity
  BY <1>2 DEF HasRoom
<1>4. total > 0 /\ x \in Nat /\ bump \in Nat /\ a.chunks[c].bump <= bump
  <2>1. total > 0
    BY ConstantFacts
  <2> QED
    BY <1>2, <2>1
<1>5. IsMultiple(bump) /\ IsMultiple(x)
  BY <1>1, SumMultiple DEF Laid
<1>6. HandOut(a, c, total)
        = [status |-> "SUCCESS", block |-> x, arena |-> InUse(n, x, total)]
  BY DEF HandOut, InUse
<1>7. Changed(a, s, c, a.header, list, bump, a.used)
  BY <1>1, BumpChanges
<1>8. s \in Arenas /\ s.header = a.header
  BY <1>7 DEF Changed
<1> HIDE DEF s, list
<1>9. Labelled(s, n, x, r)
  <2>1. total \in 0 .. SizeLimit - 1
    <3>1. a.chunks[c].capacity \in 0 .. SizeLimit - 1
      BY <1>1, ArenaFacts
    <3> QED
      BY <1>2, <1>3, <3>1, LayoutAssumption
  <2> QED
    BY <1>4, <1>8, <2>1, LabelChanges
<1>10. /\ DOMAIN h = DOMAIN a.header \cup {x} /\ h[x] = r
       /\ \A b \in DOMAIN a.header : b # x => h[b] = a.header[b]
  <2> HIDE DEF n, r
  <2> QED
    BY <1>8, <1>9 DEF Labelled
<1> HIDE DEF n
<1>11. Changed(a, n, c, h, list, bump, a.used)
  BY <1>7, <1>9 DEF Changed, Labelled, FreeList
<1>12. n.header = h
  OBVIOUS
<1>13. /\ n.chunks[c].base = a.chunks[c].base /\ n.chunks[c].bump = bump
  BY <1>11 DEF Changed
<1> HIDE DEF h
<1>14. ASSUME NEW b \in U \cup FreeOf(a)
       PROVE  /\ b # x /\ b \in DOMAIN h /\ h[b] = a.header[b]
              /\ EndOf(a, b) <= x \/ x + total <= b
              /\ EndOf(n, b) = EndOf(a, b)
  <2>1. /\ b # x /\ b \in DOMAIN a.header
        /\ EndOf(a, b) <= x \/ x + total <= b
    <3> HIDE DEF bump
    <3>1. a.chunks[c].bump + total <= a.chunks[c].capacity
      BY <1>3 DEF bump
    <3> QED
      BY <1>4, <3>1, RestApart
  <2>2. b \in DOMAIN h /\ h[b] = a.header[b]
    BY <1>10, <2>1
  <2> QED
    BY <1>12, <2>1, <2>2 DEF EndOf, SizeOf
<1>15. FreeOf(a) = Range(list) \cup FreeBeside(a, c) /\ Range(list) = FreeIn(a, c)
  BY <1>11, FreeOfChanged DEF FreeIn, list
<1>16. h[x].size = total /\ SizeOf(n, x) = total /\ EndOf(n, x) = x + total
  BY <1>10, <1>12 DEF SizeOf, EndOf
<1> HIDE DEF r
<1>17. Inside(n, c, x)
  <2>1. a.chunks[c].base <= x /\ x + total <= a.chunks[c].base + bump
    BY <1>2, <1>4, SMTT(30)
  <2> HIDE DEF x, bump
  <2> QED
    BY <1>13, <1>16, <2>1 DEF Inside
<1>18. ASSUME NEW b \in Range(list)
       PROVE  IsBlock(n, b, "FREE") /\ Inside(n, c, b)
  <2>1. IsBlock(a, b, "FREE") /\ Inside(a, c, b)
    BY <1>1, <1>15
  <2>2. EndOf(a, b) \in Nat
    BY <1>1, <2>1, BlockFacts
  <2>3. b \in DOMAIN h /\ h[b] = a.header[b] /\ EndOf(n, b) = EndOf(a, b)
    BY <1>14, <1>15
  <2>4. IsBlock(n, b, "FREE")
    BY <1>12, <2>1, <2>3 DEF IsBlock, SizeOf
  <2>5. Inside(n, c, b)
    <3> HIDE DEF x
    <3> QED
      BY <1>2, <1>4, <1>13, <2>1, <2>2, <2>3 DEF Inside
  <2> QED
    BY <2>4, <2>5
<1> HIDE DEF x, bump
<1>19. Apart(n, U \cup {x} \cup Range(list) \cup FreeBeside(a, c))
  <2> DEFINE A == U \cup FreeOf(a)
  <2>3. \A b \in A : /\ n.header[b] = a.header[b]
                     /\ EndOf(n, x) <= b \/ EndOf(n, b) <= x
    BY <1>12, <1>14, <1>16
  <2>4. Apart(a, A) /\ A \subseteq A
    BY <1>1
  <2> HIDE DEF A
  <2>5. Apart(n, A \cup {x})
    BY <2>3, <2>4, ApartWith
  <2>1. Apart(n, (U \cup FreeOf(a)) \cup {x})
    BY <2>5 DEF A
  <2>2. U \cup {x} \cup Range(list) \cup FreeBeside(a, c)
          \subseteq (U \cup FreeOf(a)) \cup {x}
    BY <1>15
  <2> QED
    BY <2>1, <2>2, ApartFewer
<1>20. \A b \in DOMAIN h : h[b].magic = "USED" /\ b # x
          => b \in DOMAIN a.header /\ a.header[b].magic = "USED"
  BY <1>10
<1>21. /\ x \in DOMAIN h
       /\ x \notin U \cup Range(list) \cup FreeBeside(a, c)
  BY <1>10, <1>14, <1>15
<1>22. \A b \in U \cup FreeBeside(a, c) : b \in DOMAIN h /\ h[b] = a.header[b]
  BY <1>14, <1>15
<1>23. list \in Seq(Nat) /\ Sorted(list) /\ bump \in Nat
       /\ a.chunks[c].bump <= bump
  BY <1>1, <1>2, <1>4
<1>24. HandedOut(a, U, InUse(n, x, total), x, total)
  BY <1>3, <1>5, <1>11, <1>16, <1>17, <1>18, <1>19, <1>20, <1>21, <1>22,
     <1>23, InUseSound
<1> QED
  BY <1>6, <1>24

LEMMA HandOutFromList ==
  ASSUME NEW a, NEW U, Sound(a, U), NEW c \in DOMAIN a.chunks,
         NEW total \in Nat, IsMultiple(total), total >= MinimumBlock,
         FreeFits(a, c, total) # {}
  PROVE  /\ HandOut(a, c, total).status = "SUCCESS"
         /\ HandedOut(a, U, HandOut(a, c, total).arena,
                      HandOut(a, c, total).block, total)
<1> DEFINE fits == FreeFits(a, c, total)
           x    == FreeList(a, c)[Min(fits)]
           n    == Carve(FreeListRemove(a, c, x), c, x, total)
           bump == a.chunks[c].bump
           rest == x + total
           left == SizeOf(a, x) - total
           A    == U \cup FreeOf(a)
<1>1. /\ a \in Arenas /\ Laid(a)
      /\ \A b \in U : IsBlock(a, b, "USED")
      /\ \A b \in FreeOf(a) : IsBlock(a, b, "FREE")
      /\ FreeIn(a, c) \subseteq FreeOf(a) /\ U \cap FreeOf(a) = {}
      /\ \A b \in FreeIn(a, c) : Inside(a, c, b)
      /\ Apart(a, A)
  BY SoundFacts DEF Sound
<1>2. /\ a.chunks[c].base \in Nat /\ bump \in Nat
      /\ bump <= a.chunks[c].capacity /\ IsMultiple(bump)
      /\ a.header \in Headers
  BY <1>1, ArenaFacts DEF Laid
<1>3. x \in FreeIn(a, c) /\ SizeOf(a, x) >= total
  <2>1. FreeList(a, c) \in Seq(Nat)
    BY <1>1, ArenaFacts
  <2>2. fits \subseteq Nat /\ fits # {}
    BY <2>1 DEF FreeFits
  <2>3. Min(fits) \in fits
    <3> HIDE DEF fits
    <3> QED
      BY <2>2, MinIs
  <2> QED
    BY <2>1, <2>3 DEF FreeFits, FreeIn, Range
<1>4. HandOut(a, c, total)
        = [status |-> "SUCCESS", block |-> x, arena |-> InUse(n, x, total)]
  BY DEF HandOut, InUse
<1> HIDE DEF x
<1>23. Carved(a, n, c, x, total)
  BY <1>3, CarveTakes
<1> HIDE DEF n
<1>5. PICK list \in Seq(Nat), h \in Headers :
        /\ Changed(a, n, c, h, list, bump, a.used)
        /\ Sorted(list)
        /\ h[x] = [size |-> total, magic |-> "FREE"]
        /\ \A b \in DOMAIN a.header : b # x /\ b # rest => h[b] = a.header[b]
        /\ \/ /\ Range(list) = (FreeIn(a, c) \ {x}) \cup {rest}
              /\ DOMAIN h = DOMAIN a.header \cup {rest}
              /\ left >= MinimumBlock
              /\ h[rest] = [size |-> left, magic |-> "FREE"]
           \/ /\ Range(list) = FreeIn(a, c) \ {x}
              /\ DOMAIN h = DOMAIN a.header
              /\ rest \in DOMAIN a.header => h[rest] = a.header[rest]
  BY <1>23 DEF Carved
<1>6. /\ x \in Nat /\ x \in DOMAIN a.header /\ SizeOf(a, x) \in Nat
      /\ IsMultiple(x) /\ IsMultiple(SizeOf(a, x))
      /\ a.header[x].magic = "FREE"
      /\ EndOf(a, x) = x + SizeOf(a, x)
      /\ Inside(a, c, x) /\ x \notin U /\ x \in A
  BY <1>1, <1>3, BlockFacts DEF IsBlock
<1>7. total > 0 /\ MinimumBlock \in Nat /\ MinimumBlock > 0
  BY ConstantFacts
<1>8. /\ n.header = h /\ n.chunks[c].base = a.chunks[c].base
      /\ n.chunks[c].bump = bump /\ n \in Arenas
  BY <1>5 DEF Changed
<1>9. /\ FreeOf(a) = FreeIn(a, c) \cup FreeBeside(a, c)
      /\ FreeOf(n) = Range(list) \cup FreeBeside(a, c)
  <2>1. Changed(a, n, c, h, list, bump, a.used)
    BY <1>5
  <2>2. c \in DOMAIN a.chunks
    OBVIOUS
  <2> QED
    BY ONLY <2>1, <2>2, FreeOfChanged
<1>10. h[x].size = total /\ SizeOf(n, x) = total /\ EndOf(n, x) = rest
  BY <1>5, <1>8 DEF SizeOf, EndOf
<1>11. /\ rest \in Nat /\ left \in Nat /\ rest > x
       /\ rest + left = x + SizeOf(a, x)
  BY <1>3, <1>6, <1>7
<1>12. IsMultiple(rest) /\ IsMultiple(left)
  BY <1>3, <1>6, SumMultiple, DifferenceMultiple
<1> HIDE DEF rest, left, bump, A
\* The other blocks keep their headers.
<1>13. ASSUME NEW b \in A \ {x}
       PROVE  /\ b \in Nat /\ SizeOf(a, b) \in Nat
              /\ EndOf(a, b) = b + SizeOf(a, b)
              /\ b + SizeOf(a, b) <= x \/ x + SizeOf(a, x) <= b
              /\ b \in DOMAIN h /\ h[b] = a.header[b]
              /\ EndOf(n, b) = EndOf(a, b)
  <2>1. PICK m : IsBlock(a, b, m)
    BY <1>1 DEF A
  <2>2. /\ b \in Nat /\ SizeOf(a, b) \in Nat /\ b \in DOMAIN a.header
        /\ EndOf(a, b) = b + SizeOf(a, b)
    BY <1>1, <2>1, BlockFacts
  <2>3. b + SizeOf(a, b) <= x \/ x + SizeOf(a, x) <= b
    BY <1>1, <1>6, <2>2 DEF Apart
  <2>4. left >= MinimumBlock => b # rest
    BY <1>6, <1>7, <1>11, <2>2, <2>3
  <2>5. b \in DOMAIN h /\ h[b] = a.header[b]
    BY <1>5, <2>2, <2>4
  <2> QED
    BY <1>8, <2>2, <2>3, <2>5 DEF EndOf, SizeOf
<1>14. Inside(n, c, x)
  BY <1>2, <1>3, <1>6, <1>8, <1>10, <1>11 DEF Inside, bump
<1>15. ASSUME left >= MinimumBlock, rest \in DOMAIN h,
              h[rest] = [size |-> left, magic |-> "FREE"]
       PROVE  /\ IsBlock(n, rest, "FREE") /\ Inside(n, c, rest)
              /\ SizeOf(n, rest) = left /\ EndOf(n, rest) = x + SizeOf(a, x)
  <2>1. SizeOf(n, rest) = left /\ n.header[rest].magic = "FREE"
    BY <1>8, <1>15 DEF SizeOf
  <2>2. EndOf(n, rest) = x + SizeOf(a, x)
    BY <1>11, <2>1 DEF EndOf
  <2>3. IsBlock(n, rest, "FREE")
    BY <1>8, <1>12, <1>15, <2>1 DEF IsBlock
  <2>4. Inside(n, c, rest)
    BY <1>2, <1>6, <1>8, <1>11, <2>2 DEF Inside, bump
  <2> QED
    BY <2>1, <2>2, <2>3, <2>4
<1>16. ASSUME NEW b \in Range(list)
       PROVE  IsBlock(n, b, "FREE") /\ Inside(n, c, b)
  <2>1. CASE b \in FreeIn(a, c) \ {x}
    <3>1. IsBlock(a, b, "FREE") /\ Inside(a, c, b) /\ b \in A \ {x}
      BY <1>1, <2>1 DEF A
    <3>2. b \in DOMAIN h /\ h[b] = a.header[b] /\ EndOf(n, b) = EndOf(a, b)
      BY <1>13, <3>1
    <3> QED
      BY <1>8, <3>1, <3>2 DEF IsBlock, Inside, SizeOf, bump
  <2>2. CASE b \notin FreeIn(a, c) \ {x}
    <3>1. /\ b = rest /\ left >= MinimumBlock /\ rest \in DOMAIN h
          /\ h[rest] = [size |-> left, magic |-> "FREE"]
      BY <1>5, <2>2
    <3> QED
      BY <1>15, <3>1
  <2> QED
    BY <2>1, <2>2
<1>17. Apart(n, A)
  <2>1. \A b \in A \ {x} :
          /\ n.header[b] = a.header[b]
          /\ EndOf(n, x) <= b \/ EndOf(n, b) <= x
    BY <1>3, <1>6, <1>8, <1>10, <1>11, <1>13
  <2> DEFINE B == A \ {x}
  <2>2. Apart(a, A) /\ B \subseteq A
    BY <1>1
  <2>3. A = B \cup {x}
    BY <1>6
  <2> HIDE DEF B
  <2>4. Apart(n, B \cup {x})
    BY <2>1, <2>2, ApartWith DEF B
  <2> QED
    BY <2>3, <2>4
<1>18. Apart(n, U \cup {x} \cup Range(list) \cup FreeBeside(a, c))
  <2>1. CASE Range(list) \subseteq FreeIn(a, c)
    <3>1. U \cup {x} \cup Range(list) \cup FreeBeside(a, c) \subseteq A
      BY <1>6, <1>9, <2>1 DEF A
    <3> QED
      BY <1>17, <3>1, ApartFewer
  <2>2. CASE ~ (Range(list) \subseteq FreeIn(a, c))
    <3>1. /\ left >= MinimumBlock /\ rest \in DOMAIN h
          /\ h[rest] = [size |-> left, magic |-> "FREE"]
          /\ Range(list) \subseteq FreeIn(a, c) \cup {rest}
      BY <1>5, <2>2
    <3>2. EndOf(n, rest) = x + SizeOf(a, x)
      BY <1>15, <3>1
    <3>3. \A b \in A : b # rest => EndOf(n, rest) <= b \/ EndOf(n, b) <= rest
      <4>1. SUFFICES ASSUME NEW b \in A, b # rest
                     PROVE  EndOf(n, rest) <= b \/ EndOf(n, b) <= rest
        OBVIOUS
      <4>2. CASE b = x
        BY <1>10, <1>11, <4>2
      <4>3. CASE b # x
        BY <1>6, <1>11, <1>13, <3>2, <4>1, <4>3
      <4> QED
        BY <4>2, <4>3
    <3>4. Apart(n, A \cup {rest})
      BY <1>17, <3>3, ApartWith
    <3>5. U \cup {x} \cup Range(list) \cup FreeBeside(a, c) \subseteq A \cup {rest}
      BY <1>6, <1>9, <3>1 DEF A
    <3> QED
      BY <3>4, <3>5, ApartFewer
  <2> QED
    BY <2>1, <2>2
<1>19. ASSUME NEW b \in DOMAIN h, h[b].magic = "USED", b # x
       PROVE  b \in DOMAIN a.header /\ a.header[b].magic = "USED"
  BY <1>5, <1>19
<1>20. x \in DOMAIN h /\ x \notin U \cup Range(list) \cup FreeBeside(a, c)
  <2>1. x \notin FreeBeside(a, c)
    <3>1. SUFFICES ASSUME NEW d \in DOMAIN a.chunks, d # c, x \in FreeIn(a, d)
                   PROVE  FALSE
      BY DEF FreeBeside, FreeIn
    <3>2. Inside(a, d, x) /\ Inside(a, c, x) /\ IsBlock(a, x, "FREE")
      BY <1>1, <1>3, <3>1, SoundFacts
    <3>3. Home(a, PointerTo(x)) = {c} /\ Home(a, PointerTo(x)) = {d}
      BY <1>1, <3>2, HomeIs
    <3> QED
      BY <3>1, <3>3
  <2>2. x \notin Range(list)
    BY <1>5, <1>6, <1>11
  <2> QED
    BY <1>5, <1>6, <2>1, <2>2
<1>21. ASSUME NEW b \in U \cup FreeBeside(a, c)
       PROVE  b \in DOMAIN h /\ h[b] = a.header[b]
  <2>1. b \in A \ {x}
    BY <1>9, <1>20 DEF A
  <2> QED
    BY <1>13, <2>1
<1>22. HandedOut(a, U, InUse(n, x, total), x, total)
  <2>1. bump \in Nat /\ a.chunks[c].bump <= bump
    BY <1>2 DEF bump
  <2> QED
    BY <1>2, <1>5, <1>6, <1>10, <1>14, <1>16, <1>18, <1>19, <1>20, <1>21,
       <2>1, InUseSound
<1> QED
  BY <1>4, <1>22

LEMMA HandOutSound ==
  ASSUME NEW a, NEW U, Sound(a, U), NEW c \in DOMAIN a.chunks,
         NEW total \in Nat, IsMultiple(total), total >= MinimumBlock,
         HasRoom(a, c, total)
  PROVE  /\ HandOut(a, c, total).status = "SUCCESS"
         /\ HandedOut(a, U, HandOut(a, c, total).arena,
                      HandOut(a, c, total).block, total)
<1>1. CASE FreeFits(a, c, total) = {}
  BY <1>1, HandOutFromRest
<1>2. CASE FreeFits(a, c, total) # {}
  BY <1>2, HandOutFromList
<1> QED
  BY <1>1, <1>2

-----------------------------------------------------------------------------
(***************************************************************************)
(* A new chunk                                                             *)
(***************************************************************************)

\* The chunks of n are a new one and those of a behind it.
Grown(a, n, cap) ==
  LET len == Len(a.chunks)
  IN /\ n \in Arenas
     /\ n.header = a.header /\ n.used = a.used
     /\ n.capacity = a.capacity + cap
     /\ Len(n.chunks) = len + 1 /\ DOMAIN n.chunks = 1 .. len + 1
     /\ n.chunks[1] = [base |-> (len + 1) * Span, capacity |-> cap,
                       bump |-> 0, free_list |-> << >>]
     /\ \A d \in 1 .. len : n.chunks[d + 1] = a.chunks[d]

LEMMA GrowChanges ==
  ASSUME NEW a \in Arenas, NEW total \in Nat
  PROVE  Grown(a, Grow(a, total), GrownCapacity(a, total))
<1> DEFINE n     == Grow(a, total)
           len   == Len(a.chunks)
           cap   == GrownCapacity(a, total)
           base  == (len + 1) * Span
           chunk == [base |-> base, capacity |-> cap, bump |-> 0,
                     free_list |-> << >>]
           largest == Max({total, a.largest_block})
           room  == a.capacity + cap
<1>1. /\ a.chunks \in Seq(ChunkRecords) /\ len \in Nat
      /\ a.capacity \in Nat /\ a.largest_block \in Nat
  BY ArenaFacts
<1>2. cap \in 0 .. SizeLimit - 1
  BY GrownCapacityType
<1>3. largest \in Nat
  BY <1>1, MaxOfTwo
<1>4. base \in Nat
  BY <1>1, ConstantFacts
<1>5. n = [a EXCEPT !.chunks = << chunk >> \o a.chunks,
                    !.capacity = a.capacity + cap,
                    !.largest_block = largest]
  BY DEF Grow
<1>6. room \in Nat
  BY <1>1, <1>2, LayoutAssumption
<1>7. n = [a EXCEPT !.chunks = << chunk >> \o a.chunks, !.capacity = room,
                    !.largest_block = largest]
  BY <1>5
<1>8. a \in [chunks : Seq(ChunkRecords), header : Headers, used : Nat,
             capacity : Nat, largest_block : Nat]
  BY DEF Arenas
<1> HIDE DEF cap, largest, n, base, room
<1>9. chunk \in ChunkRecords
  BY <1>2, <1>4 DEF ChunkRecords
<1> HIDE DEF chunk
<1> DEFINE first == << chunk >>
           chunks == first \o a.chunks
<1>10. first \in Seq(ChunkRecords) /\ Len(first) = 1 /\ first[1] = chunk
  BY <1>9
<1> HIDE DEF first
<1>11. /\ chunks \in Seq(ChunkRecords) /\ Len(chunks) = 1 + len
       /\ \A i \in 1 .. 1 + len :
            chunks[i] = IF i <= 1 THEN first[i] ELSE a.chunks[i - 1]
  <2>1. chunks \in Seq(ChunkRecords) /\ Len(chunks) = Len(first) + len
    BY <1>1, <1>10, ConcatProperties
  <2>2. \A i \in 1 .. Len(first) + len :
          chunks[i] = IF i <= Len(first) THEN first[i]
                      ELSE a.chunks[i - Len(first)]
    BY <1>1, <1>10, ConcatProperties
  <2> HIDE DEF chunks
  <2> QED
    BY <1>10, <2>1, <2>2
<1>12. chunks[1] = chunk
  BY <1>1, <1>10, <1>11
<1>13. ASSUME NEW d \in 1 .. len PROVE chunks[d + 1] = a.chunks[d]
  <2>1. d + 1 \in 1 .. 1 + len /\ ~ (d + 1 <= 1) /\ (d + 1) - 1 = d
    BY <1>1
  <2> QED
    BY <1>11, <2>1
<1>14. /\ Len(chunks) = len + 1 /\ DOMAIN chunks = 1 .. len + 1
  BY <1>1, <1>11
<1>15. n = [a EXCEPT !.chunks = chunks, !.capacity = room,
                     !.largest_block = largest]
  BY <1>7 DEF first
<1> HIDE DEF chunks
<1>16. /\ n \in Arenas /\ n.chunks = chunks /\ n.header = a.header
       /\ n.used = a.used /\ n.capacity = room
  BY <1>3, <1>6, <1>8, <1>11, <1>15 DEF Arenas
<1> QED
  BY <1>12, <1>13, <1>14, <1>16 DEF Grown, n, room, cap, chunk, base

LEMMA GrownSound ==
  ASSUME NEW a, NEW U, Sound(a, U), Len(a.chunks) # MaxChunks,
         NEW cap \in 0 .. SizeLimit - 1, NEW n, Grown(a, n, cap)
  PROVE  /\ Sound(n, U) /\ 1 \in DOMAIN n.chunks
         /\ \A total \in Nat : total <= cap => HasRoom(n, 1, total)
<1>1. /\ a \in Arenas /\ Laid(a) /\ Listed(a) /\ Held(a, U)
      /\ Apart(a, U \cup FreeOf(a)) /\ Counted(a, U)
  BY DEF Sound
<1>2. PICK len \in Nat : len = Len(a.chunks)
  BY <1>1, ArenaFacts
<1>3. PICK top \in Nat : top = (len + 1) * Span
  BY <1>2, ConstantFacts
<1>4. (len + 1 + 1) * Span = top + Span /\ len + 1 <= MaxChunks
  <2>1. len <= MaxChunks
    BY <1>1, <1>2 DEF Laid
  <2> QED
    BY <1>2, <1>3, <2>1, ConstantFacts
<1>5. /\ n \in Arenas
      /\ n.header = a.header /\ n.used = a.used
      /\ n.capacity = a.capacity + cap
      /\ Len(n.chunks) = len + 1 /\ DOMAIN n.chunks = 1 .. len + 1
  BY <1>2 DEF Grown
<1>6. n.chunks[1] = [base |-> top, capacity |-> cap, bump |-> 0,
                     free_list |-> << >>]
  BY <1>2, <1>3 DEF Grown
<1>7. \A d \in 1 .. len : n.chunks[d + 1] = a.chunks[d]
  BY <1>2 DEF Grown
<1>8. DOMAIN a.chunks = 1 .. len
  BY <1>1, <1>2, ArenaFacts
<1>9. /\ n.chunks[1].base = top /\ n.chunks[1].capacity = cap
      /\ n.chunks[1].bump = 0 /\ FreeList(n, 1) = << >>
  BY <1>6 DEF FreeList
<1>10. \A b : SizeOf(n, b) = SizeOf(a, b) /\ EndOf(n, b) = EndOf(a, b)
  BY <1>5 DEF SizeOf, EndOf
<1>11. \A b, m : IsBlock(n, b, m) <=> IsBlock(a, b, m)
  BY <1>5 DEF IsBlock, SizeOf
<1>12. ASSUME NEW d \in 1 .. len
       PROVE  /\ d + 1 \in 1 .. len + 1 /\ d + 1 \in DOMAIN n.chunks
              /\ n.chunks[d + 1] = a.chunks[d]
              /\ FreeList(n, d + 1) = FreeList(a, d)
              /\ FreeIn(n, d + 1) = FreeIn(a, d)
              /\ \A b : Inside(n, d + 1, b) <=> Inside(a, d, b)
  BY <1>5, <1>7, <1>10 DEF FreeList, FreeIn, Inside
<1>13. ASSUME NEW e \in DOMAIN n.chunks, e # 1
       PROVE  \E d \in 1 .. len : e = d + 1
  <2>1. e - 1 \in 1 .. len /\ e = (e - 1) + 1
    BY <1>2, <1>5, <1>13
  <2> QED
    BY <2>1
<1>14. ASSUME NEW d \in 1 .. len
       PROVE  /\ n.chunks[d + 1].base + Span <= top
              /\ n.chunks[d + 1].base \in Nat
  BY <1>1, <1>2, <1>3, <1>8, <1>12, ArenaFacts, ZenonT(40) DEF Laid
<1>15. Laid(n)
  <2>1. IsMultiple(top) /\ Span <= top /\ IsMultiple(0)
    <3>1. IsMultiple(top)
      <4>1. len + 1 \in Nat
        BY <1>2
      <4>2. IsMultiple((len + 1) * Span)
        BY <4>1, ProductMultiple, ConstantFacts
      <4> QED
        BY <1>3, <4>2
    <3>2. top = len * Span + Span
      BY <1>2, <1>3, ConstantFacts
    <3>3. len * Span \in Nat
      BY <1>2, ConstantFacts
    <3>4. 0 = 0 * Alignment /\ 0 \in Nat
      BY ConstantFacts
    <3>5. IsMultiple(0)
      BY <3>4 DEF IsMultiple
    <3>6. Span <= top
      BY <3>2, <3>3, ConstantFacts
    <3> QED
      BY <3>1, <3>5, <3>6
  <2>2. ASSUME NEW e \in DOMAIN n.chunks
        PROVE  /\ IsMultiple(n.chunks[e].base)
               /\ Span <= n.chunks[e].base
               /\ n.chunks[e].base + Span <= (Len(n.chunks) + 1) * Span
               /\ n.chunks[e].bump <= n.chunks[e].capacity
               /\ IsMultiple(n.chunks[e].bump)
    <3>1. CASE e = 1
      <4>1. (Len(n.chunks) + 1) * Span = top + Span
        BY <1>4, <1>5
      <4>2. top + Span <= top + Span /\ 0 <= cap
        BY <1>3, ConstantFacts
      <4> QED
        BY <1>9, <2>1, <3>1, <4>1, <4>2
    <3>2. CASE e # 1
      <4>1. PICK d \in 1 .. len : e = d + 1
        BY <1>13, <3>2
      <4>2. n.chunks[e].base + Span <= top + Span
        <5>1. PICK w : w = n.chunks[e].base
          OBVIOUS
        <5>2. w + Span <= top /\ w \in Nat
          BY <1>14, <4>1, <5>1
        <5>3. PICK u : u = Span /\ u \in Nat
          BY ConstantFacts
        <5>4. w + u <= top + u
          BY <1>3, <5>2, <5>3
        <5> QED
          BY <5>1, <5>3, <5>4
      <4> QED
        BY <1>1, <1>4, <1>5, <1>8, <1>12, <4>1, <4>2 DEF Laid
    <3> QED
      BY <3>1, <3>2
  <2>3. ASSUME NEW e \in DOMAIN n.chunks, NEW f \in DOMAIN n.chunks, e # f
        PROVE  \/ n.chunks[e].base + Span <= n.chunks[f].base
               \/ n.chunks[f].base + Span <= n.chunks[e].base
    <3>1. CASE e = 1
      BY <1>9, <1>13, <1>14, <2>3, <3>1
    <3>2. CASE f = 1
      BY <1>9, <1>13, <1>14, <2>3, <3>2
    <3>3. CASE e # 1 /\ f # 1
      <4>1. PICK c \in 1 .. len, d \in 1 .. len : e = c + 1 /\ f = d + 1
        BY <1>13, <3>3
      <4> QED
        BY <1>1, <1>8, <1>12, <2>3, <4>1 DEF Laid
    <3> QED
      BY <3>1, <3>2, <3>3
  <2> QED
    BY <1>4, <1>5, <2>2, <2>3 DEF Laid
<1>16. Listed(n)
  <2>1. SUFFICES ASSUME NEW e \in DOMAIN n.chunks
                 PROVE  /\ Sorted(FreeList(n, e))
                        /\ \A b \in FreeIn(n, e) :
                             IsBlock(n, b, "FREE") /\ Inside(n, e, b)
    BY DEF Listed
  <2>2. CASE e = 1
    <3>1. Sorted(<< >>) /\ Range(<< >>) = {}
      BY DEF Sorted, Range
    <3> QED
      BY <1>9, <2>2, <3>1 DEF FreeIn
  <2>3. CASE e # 1
    <3>1. PICK d \in 1 .. len : e = d + 1
      BY <1>13, <2>3
    <3>2. /\ Sorted(FreeList(a, d))
          /\ \A b \in FreeIn(a, d) : IsBlock(a, b, "FREE") /\ Inside(a, d, b)
      BY <1>1, <1>8 DEF Listed
    <3> QED
      BY <1>11, <1>12, <3>1, <3>2
  <2> QED
    BY <2>2, <2>3
<1>17. Held(n, U)
  <2>1. ASSUME NEW b \in U
        PROVE  \E e \in DOMAIN n.chunks : Inside(n, e, b)
    <3>1. PICK d \in 1 .. len : Inside(a, d, b)
      BY <1>1, <1>8 DEF Held
    <3> QED
      BY <1>12, <3>1
  <2> QED
    BY <1>1, <1>11, <2>1 DEF Held
<1>18. FreeOf(n) = FreeOf(a)
  <2>1. ASSUME NEW e \in DOMAIN n.chunks, NEW b \in FreeIn(n, e)
        PROVE  b \in FreeOf(a)
    <3>1. e # 1
      BY <1>9, <2>1 DEF FreeIn, Range
    <3>2. PICK d \in 1 .. len : e = d + 1
      BY <1>13, <3>1
    <3> QED
      BY <1>8, <1>12, <2>1, <3>2 DEF FreeOf, FreeIn
  <2>2. ASSUME NEW d \in 1 .. len, NEW b \in FreeIn(a, d)
        PROVE  b \in FreeOf(n)
    BY <1>12, <2>2 DEF FreeOf, FreeIn
  <2> QED
    BY <1>8, <2>1, <2>2 DEF FreeOf, FreeIn
<1>19. Apart(n, U \cup FreeOf(n))
  BY <1>1, <1>10, <1>18 DEF Apart
<1>20. Counted(n, U)
  <2> DEFINE f == [d \in DOMAIN a.chunks |-> a.chunks[d].capacity]
             g == [e \in DOMAIN n.chunks |-> n.chunks[e].capacity]
             h == [d \in 1 .. len |-> d + 1]
             S == 1 .. len
             T == 1 .. len + 1
  <2>1. IsFiniteSet(S) /\ IsFiniteSet(T)
    BY FS_Interval
  <2>2. \A d \in S : f[d] \in Nat
    <3>1. \A d \in S : a.chunks[d].capacity \in Nat
      BY <1>1, <1>8, ArenaFacts, ConstantFacts
    <3> QED
      BY <1>8, <3>1
  <2>3. \A e \in T : g[e] \in Nat
    <3>1. \A e \in T : n.chunks[e].capacity \in Nat
      BY <1>5, ArenaFacts, ConstantFacts
    <3> QED
      BY <1>5, <3>1
  <2>4. \A d \in S : g[h[d]] = f[d]
    BY <1>5, <1>8, <1>12
  <2>5. \A x, y \in S : h[x] = h[y] => x = y
    OBVIOUS
  <2>6. {h[x] : x \in S} = T \ {1} /\ 1 \in T
    <3>1. ASSUME NEW e \in T \ {1} PROVE \E x \in S : e = h[x]
      <4>1. e - 1 \in S /\ h[e - 1] = e
        OBVIOUS
      <4> QED
        BY <4>1
    <3> QED
      BY <3>1
  <2>7. g[1] = cap
    BY <1>5, <1>9
  <2> HIDE DEF f, g, h, S, T
  <2>8. SumFunctionOnSet(g, {h[x] : x \in S}) = SumFunctionOnSet(f, S)
    BY <2>1, <2>2, <2>4, <2>5, SumRenamed
  <2>9. SumFunctionOnSet(g, T) = g[1] + SumFunctionOnSet(g, T \ {1})
    BY <2>1, <2>3, <2>6, SumTake
  <2>10. SumFunctionOnSet(f, S) \in Nat
    BY <2>1, <2>2, SumType
  <2>11. a.capacity = SumFunctionOnSet(f, S)
    BY <1>1, <1>8 DEF Counted, f, S
  <2>14. SumFunctionOnSet(g, T \ {1}) = SumFunctionOnSet(f, S)
    BY <2>6, <2>8
  <2>12. n.capacity = SumFunctionOnSet(g, T)
    BY <1>5, <2>7, <2>9, <2>10, <2>11, <2>14
  <2>13. BytesOf(n, U) = BytesOf(a, U)
    BY <1>5 DEF BytesOf, SizeOf
  <2> QED
    BY <1>1, <1>5, <2>12, <2>13 DEF Counted, g, T
<1>21. Sound(n, U) /\ 1 \in DOMAIN n.chunks
  BY <1>5, <1>15, <1>16, <1>17, <1>19, <1>20 DEF Sound
<1>22. \A total \in Nat : total <= cap => HasRoom(n, 1, total)
  BY <1>9 DEF HasRoom
<1> QED
  BY <1>21, <1>22

-----------------------------------------------------------------------------
(***************************************************************************)
(* Giving back a block                                                     *)
(***************************************************************************)

GivenBack(a, U, n, x) ==
  /\ Sound(n, U \ {x})
  /\ DOMAIN n.header = DOMAIN a.header
  /\ \A b \in DOMAIN a.header : b # x => n.header[b] = a.header[b]
  /\ n.header[x].magic = "FREE"

\* The chunk of a block is found from the pointer to it.
LEMMA HomeFound ==
  ASSUME NEW a, NEW U, Sound(a, U), NEW x \in U
  PROVE  \E c \in DOMAIN a.chunks :
           /\ Inside(a, c, x)
           /\ Home(a, PointerTo(x)) = {c}
           /\ (CHOOSE d \in Home(a, PointerTo(x)) : TRUE) = c
           /\ PointerTo(x) - Header = x
<1>1. /\ a \in Arenas /\ Laid(a) /\ IsBlock(a, x, "USED")
  BY SoundFacts
<1>2. PICK c \in DOMAIN a.chunks : Inside(a, c, x)
  BY SoundFacts
<1>3. Home(a, PointerTo(x)) = {c}
  BY <1>1, <1>2, HomeIs
<1>4. x \in Nat
  BY <1>1, BlockFacts
<1>5. PointerTo(x) - Header = x
  BY <1>4, ConstantFacts DEF PointerTo
<1> QED
  BY <1>2, <1>3, <1>5

LEMMA GiveBackSound ==
  ASSUME NEW a, NEW U, Sound(a, U), NEW x \in U
  PROVE  GivenBack(a, U, GiveBack(a, PointerTo(x)), x)
<1>1. /\ a \in Arenas /\ Laid(a) /\ IsBlock(a, x, "USED") /\ IsFiniteSet(U)
      /\ \A b \in U : IsBlock(a, b, "USED")
      /\ \A b \in FreeOf(a) : IsBlock(a, b, "FREE")
      /\ U \cap FreeOf(a) = {}
      /\ Apart(a, U \cup FreeOf(a)) /\ Counted(a, U)
  BY SoundFacts DEF Sound
<1>2. PICK c \in DOMAIN a.chunks :
        /\ Inside(a, c, x)
        /\ (CHOOSE d \in Home(a, PointerTo(x)) : TRUE) = c
        /\ PointerTo(x) - Header = x
  BY HomeFound
<1>3. /\ FreeIn(a, c) \subseteq FreeOf(a) /\ Sorted(FreeList(a, c))
      /\ \A b \in FreeIn(a, c) : Inside(a, c, b)
  BY SoundFacts
<1> DEFINE size == SizeOf(a, x)
           list == FreeList(a, c)
           bump == a.chunks[c].bump
           m    == Label(a, x, size, "FREE")
           h    == m.header
           r    == [size |-> size, magic |-> "FREE"]
           f    == FreeListInsert(m, c, x)
           n    == [f EXCEPT !.used = f.used - SizeOf(f, x)]
<1>4. GiveBack(a, PointerTo(x)) = n
  BY <1>2 DEF GiveBack
<1>5. /\ x \in Nat /\ x \in DOMAIN a.header /\ size \in Nat /\ size > 0
      /\ EndOf(a, x) = x + size
  BY <1>1, BlockFacts, ConstantFacts
<1>6. /\ list \in Seq(Nat) /\ bump \in Nat /\ a.header \in Headers
      /\ bump <= a.chunks[c].capacity /\ IsMultiple(bump)
  BY <1>1, ArenaFacts DEF Laid
<1>7. Labelled(a, m, x, r)
  <2>1. size \in 0 .. SizeLimit - 1
    BY <1>1, <1>5, ArenaFacts
  <2> QED
    BY <1>1, <1>5, <2>1, LabelChanges
<1> HIDE DEF size, list, bump, m, f, n
<1>8. /\ m \in Arenas /\ h \in Headers /\ h[x] = r
      /\ DOMAIN h = DOMAIN a.header
      /\ \A b \in DOMAIN a.header : b # x => h[b] = a.header[b]
  <2> HIDE DEF r
  <2> QED
    BY <1>5, <1>7 DEF Labelled
<1>9. Changed(a, m, c, h, list, bump, a.used)
  BY <1>7 DEF Labelled, Changed, FreeList, list, bump
<1>10. /\ c \in DOMAIN m.chunks /\ FreeList(m, c) = list
       /\ FreeIn(m, c) = FreeIn(a, c) /\ m.header = h
       /\ m.chunks[c].bump = bump /\ m.used = a.used
  BY <1>9 DEF Changed, FreeIn, list
\* No block changes its size.
<1>11. \A b \in DOMAIN a.header :
         b \in DOMAIN h /\ h[b].size = SizeOf(a, b)
  BY <1>8 DEF SizeOf, size
<1>12. ASSUME NEW d \in FreeIn(m, c)
       PROVE  /\ d \in DOMAIN m.header /\ SizeOf(m, d) > 0
              /\ EndOf(m, x) <= d \/ EndOf(m, d) <= x
  <2>1. d \in FreeOf(a) /\ d # x
    BY <1>1, <1>3, <1>10
  <2>2. IsBlock(a, d, "FREE") /\ (EndOf(a, x) <= d \/ EndOf(a, d) <= x)
    BY <1>1, <2>1 DEF Apart
  <2>3. d \in DOMAIN a.header /\ SizeOf(a, d) > 0
    BY <1>1, <2>2, BlockFacts, ConstantFacts
  <2> QED
    BY <1>5, <1>10, <1>11, <2>2, <2>3 DEF SizeOf, EndOf
<1>13. /\ x \in DOMAIN m.header /\ SizeOf(m, x) > 0
       /\ x \notin FreeIn(m, c) /\ Sorted(FreeList(m, c))
  BY <1>1, <1>3, <1>5, <1>10, <1>11 DEF SizeOf, size, list
<1>14. PICK l \in Seq(Nat) :
         /\ Sorted(l) /\ Range(l) = FreeIn(m, c) \cup {x}
         /\ Changed(m, f, c, m.header, l, m.chunks[c].bump, m.used)
  BY <1>8, <1>10, <1>12, <1>13, InsertChanges DEF f
<1>15. Changed(a, f, c, h, l, bump, a.used)
  BY <1>9, <1>10, <1>14, ChangedTwice
<1>16. f \in Arenas /\ f.header = h /\ f.used = a.used
  BY <1>15 DEF Changed
<1>17. /\ BytesOf(f, U \ {x}) \in Nat
       /\ BytesOf(a, U) = BytesOf(f, U \ {x}) + size
  <2>1. \A b \in U : SizeOf(a, b) \in Nat
    BY <1>1, BlockFacts
  <2>2. \A b \in U \ {x} : SizeOf(f, b) = SizeOf(a, b)
    BY <1>1, <1>11, <1>16 DEF IsBlock, SizeOf
  <2> QED
    BY <1>1, <2>1, <2>2, UsedShrinks DEF size
<1>18. PICK u \in Nat : u = f.used - SizeOf(f, x) /\ u = BytesOf(f, U \ {x})
  BY <1>1, <1>5, <1>11, <1>16, <1>17 DEF Counted, SizeOf, size
<1>19. /\ n \in Arenas /\ n.header = h /\ n.used = u
       /\ n.chunks = f.chunks /\ n.capacity = f.capacity
       /\ n.largest_block = f.largest_block
  <2>1. n = [f EXCEPT !.used = u]
    BY <1>18 DEF n
  <2> QED
    BY <1>16, <2>1 DEF Arenas
<1>20. Changed(a, n, c, h, l, bump, u)
  BY <1>15, <1>19 DEF Changed, FreeList
<1>21. u = BytesOf(n, U \ {x})
  BY <1>16, <1>18, <1>19 DEF BytesOf, SizeOf
<1>22. \A b \in DOMAIN a.header : EndOf(n, b) = EndOf(a, b)
  BY <1>11, <1>19 DEF EndOf, SizeOf
<1>23. n.chunks[c].base = a.chunks[c].base /\ n.chunks[c].bump = bump
  BY <1>20 DEF Changed
<1> HIDE DEF h
<1>24. ASSUME NEW b \in Range(l)
       PROVE  IsBlock(n, b, "FREE") /\ Inside(n, c, b)
  <2>1. b \in DOMAIN a.header /\ h[b].magic = "FREE" /\ Inside(a, c, b)
        /\ SizeOf(a, b) >= MinimumBlock /\ IsMultiple(b)
        /\ IsMultiple(SizeOf(a, b))
    <3>1. CASE b = x
      BY <1>1, <1>2, <1>8, <3>1 DEF IsBlock
    <3>2. CASE b # x
      <4>1. b \in FreeIn(a, c) /\ IsBlock(a, b, "FREE")
        BY <1>1, <1>3, <1>10, <1>14, <3>2
      <4> QED
        BY <1>3, <1>8, <3>2, <4>1 DEF IsBlock
    <3> QED
      BY <3>1, <3>2
  <2>2. SizeOf(n, b) = SizeOf(a, b) /\ b \in DOMAIN n.header
    BY <1>11, <1>19, <2>1 DEF SizeOf
  <2> QED
    BY <1>19, <1>22, <1>23, <2>1, <2>2 DEF IsBlock, Inside, bump
<1>25. ASSUME NEW b \in U \ {x}
       PROVE  IsBlock(n, b, "USED") /\ n.header[b] = a.header[b]
  <2>1. IsBlock(a, b, "USED") /\ b \in DOMAIN a.header
    BY <1>1 DEF IsBlock
  <2>2. n.header[b] = a.header[b] /\ b \in DOMAIN n.header
    BY <1>8, <1>19, <2>1
  <2> QED
    BY <2>1, <2>2 DEF IsBlock, SizeOf
<1>26. FreeOf(a) = FreeIn(a, c) \cup FreeBeside(a, c)
  BY <1>20, FreeOfChanged
<1>27. ASSUME NEW b \in FreeBeside(a, c)
       PROVE  b \in DOMAIN n.header /\ n.header[b] = a.header[b]
  <2>1. b \in FreeOf(a) /\ b # x
    BY <1>1, <1>26
  <2>2. b \in DOMAIN a.header
    BY <1>1, <2>1 DEF IsBlock
  <2> QED
    BY <1>8, <1>19, <2>1, <2>2
<1>28. Apart(n, (U \ {x}) \cup Range(l) \cup FreeBeside(a, c))
  <2>1. (U \ {x}) \cup Range(l) \cup FreeBeside(a, c) = U \cup FreeOf(a)
    BY <1>10, <1>14, <1>26
  <2>2. \A b \in U \cup FreeOf(a) : b \in DOMAIN a.header
    BY <1>1 DEF IsBlock
  <2> QED
    BY <1>1, <1>22, <2>1, <2>2 DEF Apart
<1>29. IsFiniteSet(U \ {x}) /\ a.chunks[c].bump <= bump
  BY <1>1, <1>6, FS_RemoveElement DEF bump
<1>30. Sound(n, U \ {x})
  BY <1>6, <1>14, <1>20, <1>21, <1>24, <1>25, <1>27, <1>28, <1>29, StaysSound, SMTT(30)
<1> QED
  BY <1>4, <1>8, <1>19, <1>30 DEF GivenBack

-----------------------------------------------------------------------------
(***************************************************************************)
(* Growing a block in place                                                *)
(***************************************************************************)

\* What ReallocateInPlace makes of the arena, for the free block b behind x.
Extend(a, c, x, b) ==
  LET taken == FreeListRemove(a, c, b)
      grown == Label(taken, x, SizeOf(a, x) + SizeOf(a, b), "USED")
  IN [grown EXCEPT !.used = @ + SizeOf(a, b), !.header = Without(@, b)]

Extended(a, U, n, x, b) ==
  /\ Sound(n, U)
  /\ SizeOf(n, x) = SizeOf(a, x) + SizeOf(a, b)
  /\ DOMAIN n.header = DOMAIN a.header \ {b}
  /\ \A d \in DOMAIN n.header : d # x => n.header[d] = a.header[d]
  /\ n.header[x].magic = "USED"

LEMMA WithoutHeader ==
  ASSUME NEW h \in Headers, NEW b
  PROVE  /\ Without(h, b) \in Headers
         /\ DOMAIN Without(h, b) = DOMAIN h \ {b}
         /\ \A d \in DOMAIN h \ {b} : Without(h, b)[d] = h[d]
<1>1. DOMAIN h \subseteq Nat /\ h \in [DOMAIN h -> HeaderRecords]
  BY HeadersAre
<1> DEFINE n == Without(h, b)
<1>2. /\ DOMAIN n = DOMAIN h \ {b}
      /\ n \in [DOMAIN h \ {b} -> HeaderRecords]
      /\ \A d \in DOMAIN h \ {b} : n[d] = h[d]
  BY <1>1 DEF Without
<1>3. n \in Headers
  <2> HIDE DEF n
  <2> QED
    BY <1>1, <1>2, HeadersAre
<1> QED
  BY <1>2, <1>3

LEMMA BytesExtended ==
  ASSUME NEW a, NEW n, NEW U, IsFiniteSet(U), NEW x \in U, NEW k \in Nat,
         \A d \in U : SizeOf(a, d) \in Nat /\ SizeOf(n, d) \in Nat,
         \A d \in U \ {x} : SizeOf(n, d) = SizeOf(a, d),
         SizeOf(n, x) = SizeOf(a, x) + k
  PROVE  BytesOf(n, U) = BytesOf(a, U) + k
<1>1. PICK V : V = U \ {x}
  OBVIOUS
<1>2. x \notin V /\ V \cup {x} = U
  BY <1>1
<1>3. IsFiniteSet(V)
  BY <1>1, FS_RemoveElement
<1>4. \A d \in V : /\ SizeOf(n, d) \in Nat /\ SizeOf(n, d) = SizeOf(n, d)
                   /\ SizeOf(a, d) = SizeOf(n, d)
  BY <1>1
<1>5. SizeOf(a, x) \in Nat /\ SizeOf(n, x) \in Nat
  OBVIOUS
<1>6. BytesOf(n, V \cup {x}) = BytesOf(n, V) + SizeOf(n, x)
  BY <1>2, <1>3, <1>4, <1>5, UsedGrows
<1>7. BytesOf(a, V \cup {x}) = BytesOf(n, V) + SizeOf(a, x)
  BY <1>2, <1>3, <1>4, <1>5, UsedGrows
<1>8. BytesOf(n, V) \in Nat
  BY <1>3, <1>4, BytesType
<1>9. BytesOf(n, U) = BytesOf(n, V) + SizeOf(n, x)
  BY <1>2, <1>6
<1>10. BytesOf(a, U) = BytesOf(n, V) + SizeOf(a, x)
  BY <1>2, <1>7
<1> QED
  BY <1>5, <1>8, <1>9, <1>10

LEMMA ExtendSound ==
  ASSUME NEW a, NEW U, Sound(a, U), NEW x \in U, NEW c \in DOMAIN a.chunks,
         Inside(a, c, x), NEW b \in FreeIn(a, c), b = EndOf(a, x)
  PROVE  Extended(a, U, Extend(a, c, x, b), x, b)
<1>1. /\ a \in Arenas /\ Laid(a) /\ IsFiniteSet(U)
      /\ \A d \in U : IsBlock(a, d, "USED")
      /\ \A d \in FreeOf(a) : IsBlock(a, d, "FREE")
      /\ U \cap FreeOf(a) = {}
      /\ Apart(a, U \cup FreeOf(a)) /\ Counted(a, U)
      /\ FreeIn(a, c) \subseteq FreeOf(a) /\ Sorted(FreeList(a, c))
      /\ \A d \in FreeIn(a, c) : Inside(a, c, d)
  BY SoundFacts DEF Sound
<1> DEFINE size == SizeOf(a, x) + SizeOf(a, b)
           bump == a.chunks[c].bump
           t    == FreeListRemove(a, c, b)
           m    == Label(t, x, size, "USED")
           r    == [size |-> size, magic |-> "USED"]
           u    == a.used + SizeOf(a, b)
           g    == Without(m.header, b)
           n    == [m EXCEPT !.used = @ + SizeOf(a, b), !.header = g]
           A    == U \cup FreeOf(a)
\* In front of the block there is nothing, and behind it is the one added.
<1>2. /\ x \in Nat /\ SizeOf(a, x) \in Nat /\ SizeOf(a, x) > 0
      /\ SizeOf(a, x) >= MinimumBlock /\ MinimumBlock \in Nat
      /\ b \in Nat /\ SizeOf(a, b) \in Nat /\ SizeOf(a, b) > 0
      /\ EndOf(a, x) = x + SizeOf(a, x) /\ EndOf(a, b) = b + SizeOf(a, b)
      /\ x \in DOMAIN a.header /\ b \in DOMAIN a.header
      /\ IsMultiple(SizeOf(a, x)) /\ IsMultiple(SizeOf(a, b)) /\ IsMultiple(x)
  <2>1. IsBlock(a, x, "USED") /\ IsBlock(a, b, "FREE")
    BY <1>1
  <2>2. SizeOf(a, x) > Header /\ SizeOf(a, b) > Header
    BY <1>1, <2>1, BlockFacts
  <2>3. SizeOf(a, x) \in Nat /\ SizeOf(a, b) \in Nat
    BY <1>1, <2>1, BlockFacts
  <2>4. SizeOf(a, x) > 0 /\ SizeOf(a, b) > 0 /\ MinimumBlock \in Nat
    BY <2>2, <2>3, ConstantFacts
  <2> QED
    BY <1>1, <2>1, <2>3, <2>4, BlockFacts DEF IsBlock
<1>3. b = x + SizeOf(a, x) /\ b > x /\ EndOf(a, b) = x + size
      /\ size \in Nat /\ size >= MinimumBlock /\ IsMultiple(size)
  BY <1>2, SumMultiple
<1>4. /\ bump \in Nat /\ bump <= a.chunks[c].capacity /\ IsMultiple(bump)
      /\ a.header \in Headers /\ a.used \in Nat /\ a.chunks[c].base \in Nat
  BY <1>1, ArenaFacts DEF Laid
<1>5. u \in Nat
  BY <1>2, <1>4
<1>6. PICK l \in Seq(Nat) :
        /\ Sorted(l) /\ Range(l) = FreeIn(a, c) \ {b}
        /\ Changed(a, t, c, a.header, l, bump, a.used)
  BY <1>1, RemoveChanges
<1>7. t \in Arenas /\ t.header = a.header /\ t.used = a.used
  BY <1>6 DEF Changed
<1>8. Extend(a, c, x, b) = n
  BY DEF Extend
<1> HIDE DEF size, bump, t, A
<1>9. Labelled(t, m, x, r)
  <2>1. /\ a.chunks[c].base <= x /\ EndOf(a, b) <= a.chunks[c].base + bump
        /\ a.chunks[c].capacity \in 0 .. SizeLimit - 1
    BY <1>1, ArenaFacts DEF Inside, bump
  <2>3. x + size <= a.chunks[c].base + bump
    BY <1>3, <2>1
  <2>6. PICK base \in Nat : base = a.chunks[c].base
    BY <1>4
  <2>7. base <= x /\ x + size <= base + bump
    BY <2>1, <2>3, <2>6
  <2>8. x \in Nat /\ size \in Nat /\ bump \in Nat
    BY <1>2, <1>3, <1>4
  <2>4. size <= bump
    BY <2>7, <2>8
  <2>5. bump <= SizeLimit - 1
    BY <1>4, <2>1, LayoutAssumption
  <2>2. size \in 0 .. SizeLimit - 1
    BY <1>3, <1>4, <2>4, <2>5, LayoutAssumption
  <2> QED
    BY <1>2, <1>7, <2>2, LabelChanges
<1> HIDE DEF m
<1>10. /\ m \in Arenas /\ m.header \in Headers /\ m.header[x] = r
       /\ m.used = a.used
       /\ DOMAIN m.header = DOMAIN a.header
       /\ \A d \in DOMAIN a.header : d # x => m.header[d] = a.header[d]
  <2> HIDE DEF r
  <2> QED
    BY <1>2, <1>7, <1>9 DEF Labelled
<1>11. /\ g \in Headers /\ DOMAIN g = DOMAIN a.header \ {b} /\ g[x] = r
       /\ \A d \in DOMAIN g : d # x => g[d] = a.header[d]
  <2>1. /\ g \in Headers /\ DOMAIN g = DOMAIN m.header \ {b}
        /\ \A d \in DOMAIN m.header \ {b} : g[d] = m.header[d]
    BY <1>10, WithoutHeader, ZenonT(40)
  <2> HIDE DEF g, r
  <2> QED
    BY <1>2, <1>3, <1>10, <2>1
<1> HIDE DEF g
<1>12. /\ n \in Arenas /\ n.header = g /\ n.used = u
       /\ n.chunks = m.chunks /\ n.capacity = m.capacity
       /\ n.largest_block = m.largest_block
  <2>1. n = [m EXCEPT !.used = u, !.header = g]
    BY <1>10 DEF u
  <2> HIDE DEF n, u
  <2> QED
    BY <1>5, <1>10, <1>11, <2>1 DEF Arenas
<1> HIDE DEF n, u
<1>13. Changed(a, n, c, g, l, bump, u)
  BY <1>6, <1>9, <1>12 DEF Labelled, Changed, FreeList
<1>14. n.chunks[c].base = a.chunks[c].base /\ n.chunks[c].bump = bump
  BY <1>13 DEF Changed
<1>15. /\ g[x].size = size /\ SizeOf(n, x) = size /\ EndOf(n, x) = x + size
       /\ g[x].magic = "USED" /\ x \in DOMAIN g
  BY <1>2, <1>3, <1>11, <1>12 DEF SizeOf, EndOf
<1>16. \A d \in DOMAIN a.header : d # x /\ d # b
         => /\ d \in DOMAIN g /\ g[d] = a.header[d]
            /\ SizeOf(n, d) = SizeOf(a, d) /\ EndOf(n, d) = EndOf(a, d)
  BY <1>11, <1>12 DEF SizeOf, EndOf
<1>17. IsBlock(n, x, "USED") /\ Inside(n, c, x)
  <2>1. a.chunks[c].base <= x /\ EndOf(a, b) <= a.chunks[c].base + bump
    BY <1>1 DEF Inside, bump
  <2> QED
    BY <1>2, <1>3, <1>12, <1>14, <1>15, <2>1 DEF IsBlock, Inside
<1>18. \A d \in A : d \in DOMAIN a.header
  BY <1>1 DEF IsBlock, A
<1>19. ASSUME NEW d \in Range(l)
       PROVE  IsBlock(n, d, "FREE") /\ Inside(n, c, d)
  <2>1. /\ d \in FreeIn(a, c) /\ d \in FreeOf(a) /\ d # b /\ d # x
        /\ IsBlock(a, d, "FREE") /\ Inside(a, c, d)
    BY <1>1, <1>6
  <2>2. d \in DOMAIN a.header
    BY <2>1 DEF IsBlock
  <2> QED
    BY <1>12, <1>14, <1>16, <2>1, <2>2 DEF IsBlock, Inside, bump
<1>20. ASSUME NEW d \in U \ {x}
       PROVE  IsBlock(n, d, "USED") /\ n.header[d] = a.header[d]
  <2>1. IsBlock(a, d, "USED") /\ d # b
    BY <1>1
  <2>2. d \in DOMAIN a.header
    BY <2>1 DEF IsBlock
  <2> QED
    BY <1>12, <1>16, <2>1, <2>2 DEF IsBlock
<1>21. /\ FreeOf(a) = FreeIn(a, c) \cup FreeBeside(a, c)
       /\ FreeOf(n) = Range(l) \cup FreeBeside(a, c)
  BY <1>13, FreeOfChanged
<1>22. b \notin FreeBeside(a, c)
  <2>1. SUFFICES ASSUME NEW d \in DOMAIN a.chunks, d # c, b \in FreeIn(a, d)
                 PROVE  FALSE
    BY DEF FreeBeside, FreeIn
  <2>2. Inside(a, d, b) /\ Inside(a, c, b) /\ IsBlock(a, b, "FREE")
    BY <1>1, <2>1, SoundFacts
  <2>3. Home(a, PointerTo(b)) = {c} /\ Home(a, PointerTo(b)) = {d}
    BY <1>1, <2>2, HomeIs
  <2> QED
    BY <2>1, <2>3
<1>23. ASSUME NEW d \in FreeBeside(a, c)
       PROVE  d \in DOMAIN n.header /\ n.header[d] = a.header[d]
  <2>1. d \in FreeOf(a) /\ d # x /\ d # b
    BY <1>1, <1>21, <1>22
  <2> QED
    BY <1>12, <1>16, <1>18, <2>1 DEF A
<1>24. Apart(n, U \cup Range(l) \cup FreeBeside(a, c))
  <2> DEFINE B == A \ {x, b}
  <2>1. Apart(a, A) /\ B \subseteq A
    BY <1>1 DEF A
  <2>2. \A d \in B : n.header[d] = a.header[d]
    BY <1>12, <1>16, <1>18
  <2>3. ASSUME NEW d \in B
        PROVE  EndOf(n, x) <= d \/ EndOf(n, d) <= x
    <3>1. PICK k : IsBlock(a, d, k)
      BY <1>1 DEF A
    <3>2. /\ d \in Nat /\ SizeOf(a, d) \in Nat /\ SizeOf(a, d) > Header
          /\ EndOf(a, d) = d + SizeOf(a, d)
      BY <1>1, <3>1, BlockFacts
    <3>3. /\ EndOf(a, x) <= d \/ EndOf(a, d) <= x
          /\ EndOf(a, b) <= d \/ EndOf(a, d) <= b
      BY <1>1 DEF A, Apart
    <3>4. EndOf(n, d) = EndOf(a, d)
      BY <1>16, <1>18
    <3> QED
      BY <1>2, <1>3, <1>15, <3>2, <3>3, <3>4, ConstantFacts, SMTT(30)
  <2>4. U \cup Range(l) \cup FreeBeside(a, c) \subseteq B \cup {x}
    BY <1>1, <1>6, <1>21, <1>22 DEF A
  <2> HIDE DEF B
  <2>5. Apart(n, B \cup {x})
    BY <2>1, <2>2, <2>3, ApartWith
  <2> QED
    BY <2>4, <2>5, ApartFewer
<1>25. u = BytesOf(n, U)
  <2>1. \A d \in U : SizeOf(a, d) \in Nat /\ SizeOf(n, d) \in Nat
    <3>1. \A d \in U : IsBlock(n, d, "USED") /\ IsBlock(a, d, "USED")
      BY <1>1, <1>17, <1>20
    <3> QED
      BY <1>1, <1>12, <3>1, BlockFacts
  <2>2. \A d \in U \ {x} : SizeOf(n, d) = SizeOf(a, d)
    BY <1>20 DEF SizeOf
  <2>4. PICK k \in Nat : k = SizeOf(a, b)
    BY <1>2
  <2>6. SizeOf(n, x) = SizeOf(a, x) + k /\ IsFiniteSet(U)
    BY <1>1, <1>15, <2>4 DEF size
  <2>7. BytesOf(n, U) = BytesOf(a, U) + k
    BY <2>1, <2>2, <2>6, BytesExtended
  <2>3. BytesOf(n, U) = BytesOf(a, U) + SizeOf(a, b)
    BY <2>4, <2>7
  <2>5. a.used = BytesOf(a, U)
    BY <1>1 DEF Counted
  <2> QED
    BY <2>3, <2>5 DEF u
<1>26. a.chunks[c].bump <= bump
  BY <1>4 DEF bump
<1>27. \A d \in U : /\ IsBlock(n, d, "USED")
                    /\ \/ Inside(n, c, d)
                       \/ d \in U /\ n.header[d] = a.header[d]
  BY <1>17, <1>20
<1>28. Sound(n, U)
  BY <1>1, <1>4, <1>6, <1>13, <1>19, <1>23, <1>24, <1>25, <1>26, <1>27,
     StaysSound
<1> QED
  BY <1>8, <1>11, <1>12, <1>15, <1>28 DEF Extended, size

-----------------------------------------------------------------------------
(***************************************************************************)
(* Arenas without blocks                                                   *)
(***************************************************************************)

LEMMA EmptyArenaSound == Sound(EmptyArena, {})
<1>1. << >> \in Seq(ChunkRecords) /\ Len(<< >>) = 0 /\ DOMAIN << >> = {}
  BY EmptySeq
<1>2. << >> \in Headers
  <2>1. << >> \in [{} -> HeaderRecords]
    OBVIOUS
  <2> QED
    BY <2>1 DEF Headers
<1>3. /\ EmptyArena.chunks = << >> /\ EmptyArena.header = << >>
      /\ EmptyArena.used = 0 /\ EmptyArena.capacity = 0
  BY DEF EmptyArena
<1>4. EmptyArena \in Arenas
  BY <1>1, <1>2 DEF EmptyArena, Arenas
<1>5. Laid(EmptyArena) /\ Listed(EmptyArena)
  BY <1>1, <1>3, ConstantFacts DEF Laid, Listed
<1>6. Held(EmptyArena, {}) /\ FreeOf(EmptyArena) = {}
  BY <1>1, <1>3, FS_EmptySet DEF Held, FreeOf
<1>7. Apart(EmptyArena, {} \cup FreeOf(EmptyArena))
  BY <1>6 DEF Apart
<1>8. Counted(EmptyArena, {})
  <2>1. SumFunctionOnSet([c \in {} |-> EmptyArena.chunks[c].capacity], {}) = 0
    BY SumEmpty
  <2>2. SumFunctionOnSet([b \in {} |-> SizeOf(EmptyArena, b)], {}) = 0
    BY SumEmpty
  <2>3. DOMAIN EmptyArena.chunks = {}
    BY <1>1, <1>3
  <2> QED
    BY <1>3, <2>1, <2>2, <2>3 DEF Counted, BytesOf
<1> QED
  BY <1>4, <1>5, <1>6, <1>7, <1>8 DEF Sound

\* What cutl_allocator_arena_clear leaves of the arena.
Cleared(a) ==
  [a EXCEPT !.chunks = [c \in DOMAIN @ |->
                          [@[c] EXCEPT !.bump = 0, !.free_list = << >>]],
            !.used = 0]

LEMMA ClearedSound ==
  ASSUME NEW a, NEW U, Sound(a, U)
  PROVE  Sound(Cleared(a), {}) /\ Cleared(a).header = a.header
<1>1. a \in Arenas /\ Laid(a) /\ Counted(a, U)
  BY DEF Sound
<1> DEFINE len    == Len(a.chunks)
           chunks == [c \in DOMAIN a.chunks |->
                        [a.chunks[c] EXCEPT !.bump = 0, !.free_list = << >>]]
           n      == Cleared(a)
<1>2. /\ len \in Nat /\ DOMAIN a.chunks = 1 .. len
      /\ \A c \in DOMAIN a.chunks : a.chunks[c] \in ChunkRecords
  BY <1>1, ArenaFacts
<1>3. n = [a EXCEPT !.chunks = chunks, !.used = 0]
  BY DEF Cleared
<1>4. DOMAIN chunks = DOMAIN a.chunks
  OBVIOUS
<1>5. ASSUME NEW c \in DOMAIN a.chunks
      PROVE  /\ chunks[c] \in ChunkRecords
             /\ chunks[c].base = a.chunks[c].base
             /\ chunks[c].capacity = a.chunks[c].capacity
             /\ chunks[c].bump = 0 /\ chunks[c].free_list = << >>
  <2> DEFINE r == a.chunks[c]
             s == [r EXCEPT !.bump = 0, !.free_list = << >>]
  <2>1. r \in ChunkRecords
    BY <1>2
  <2>2. chunks[c] = s
    OBVIOUS
  <2> HIDE DEF r, chunks
  <2>3. << >> \in Seq(Nat)
    BY EmptySeq
  <2>4. /\ s \in ChunkRecords /\ s.base = r.base /\ s.capacity = r.capacity
        /\ s.bump = 0 /\ s.free_list = << >>
    BY <2>1, <2>3 DEF ChunkRecords
  <2> QED
    BY <2>2, <2>4 DEF r
<1> HIDE DEF chunks, n, len
<1>6. chunks \in Seq(ChunkRecords) /\ Len(chunks) = len
  <2>1. chunks \in [1 .. len -> ChunkRecords]
    <3>1. chunks = [c \in DOMAIN a.chunks |-> chunks[c]]
      BY DEF chunks
    <3> QED
      BY <1>2, <1>5, <3>1
  <2>2. chunks \in Seq(ChunkRecords)
    BY <1>2, <2>1, SeqDef
  <2> QED
    BY <1>2, <1>4, <2>2, LenProperties
<1>7. /\ n \in Arenas /\ n.chunks = chunks /\ n.header = a.header
      /\ n.used = 0 /\ n.capacity = a.capacity
  BY <1>1, <1>3, <1>6 DEF Arenas
<1>8. IsMultiple(0) /\ 0 \in Nat
  <2>1. 0 = 0 * Alignment
    BY ConstantFacts
  <2> QED
    BY <2>1 DEF IsMultiple
<1>9. \A c \in DOMAIN a.chunks : a.chunks[c].capacity \in Nat
  BY <1>1, ArenaFacts, ConstantFacts
<1>10. Laid(n)
  <2>1. ASSUME NEW c \in DOMAIN a.chunks
        PROVE  /\ n.chunks[c].base = a.chunks[c].base
               /\ n.chunks[c].bump <= n.chunks[c].capacity
               /\ IsMultiple(n.chunks[c].bump)
    BY <1>5, <1>7, <1>8, <1>9
  <2>2. DOMAIN n.chunks = DOMAIN a.chunks /\ Len(n.chunks) = Len(a.chunks)
    BY <1>4, <1>6, <1>7 DEF len
  <2> QED
    BY <1>1, <2>1, <2>2 DEF Laid
<1>11. \A c \in DOMAIN n.chunks : FreeList(n, c) = << >>
  BY <1>4, <1>5, <1>7 DEF FreeList
<1>12. Sorted(<< >>) /\ Range(<< >>) = {}
  BY DEF Sorted, Range
<1>13. Listed(n)
  BY <1>11, <1>12 DEF Listed, FreeIn
<1>14. FreeOf(n) = {}
  BY <1>11, <1>12 DEF FreeOf
<1>15. Held(n, {}) /\ Apart(n, {} \cup FreeOf(n))
  BY <1>14, FS_EmptySet DEF Held, Apart
<1>16. Counted(n, {})
  <2>1. BytesOf(n, {}) = 0
    BY SumEmpty DEF BytesOf
  <2>2. [c \in DOMAIN n.chunks |-> n.chunks[c].capacity]
          = [c \in DOMAIN a.chunks |-> a.chunks[c].capacity]
    BY <1>4, <1>5, <1>7
  <2>3. DOMAIN n.chunks = DOMAIN a.chunks
    BY <1>4, <1>7
  <2> QED
    BY <1>1, <1>7, <2>1, <2>2, <2>3 DEF Counted
<1> QED
  BY <1>7, <1>10, <1>13, <1>15, <1>16 DEF Sound, n

-----------------------------------------------------------------------------
(***************************************************************************)
(* Allocating                                                              *)
(***************************************************************************)

LEMMA OutcomesSound ==
  ASSUME NEW a, NEW U, Sound(a, U), NEW size \in Sizes,
         NEW out \in Outcomes(a, size)
  PROVE  /\ out.status \in {"SUCCESS", "OUT_OF_MEMORY", Undefined}
         /\ out.status # "SUCCESS" => out.arena = a
         /\ out.status = "SUCCESS" =>
              /\ ~ Refused(size)
              /\ HandedOut(a, U, out.arena, out.block, Total(size))
<1> DEFINE total  == Total(size)
           rooms  == {c \in DOMAIN a.chunks : HasRoom(a, c, total)}
           cap    == GrownCapacity(a, total)
           needed == ChunkHeader + cap
           asked  == needed % SizeLimit
           failed == [status |-> "OUT_OF_MEMORY", block |-> Null, arena |-> a]
           lost   == [failed EXCEPT !.status = Undefined]
<1>1. a \in Arenas
  BY SoundFacts
<1>2. ASSUME out = failed \/ out = lost
      PROVE  /\ out.status \in {"OUT_OF_MEMORY", Undefined}
             /\ out.status # "SUCCESS" /\ out.arena = a
  BY <1>2 DEF Undefined
<1>3. CASE Refused(size)
  BY <1>2, <1>3 DEF Outcomes
<1>4. CASE ~ Refused(size)
  <2>1. /\ total \in Nat /\ IsMultiple(total) /\ total >= MinimumBlock
    BY <1>4, TotalServes
  <2>2. CASE rooms # {}
    <3>1. rooms \subseteq Nat
      BY <1>1, ArenaFacts
    <3>2. Min(rooms) \in rooms
      <4> HIDE DEF rooms
      <4> QED
        BY <2>2, <3>1, MinIs
    <3>3. out = HandOut(a, Min(rooms), total)
      BY <1>4, <2>2 DEF Outcomes
    <3>4. Min(rooms) \in DOMAIN a.chunks /\ HasRoom(a, Min(rooms), total)
      BY <3>2
    <3> HIDE DEF rooms, total
    <3>5. /\ out.status = "SUCCESS"
          /\ HandedOut(a, U, out.arena, out.block, total)
      BY <2>1, <3>3, <3>4, HandOutSound
    <3> QED
      BY <1>4, <3>5 DEF total
  <2>3. CASE rooms = {}
    <3>1. CASE asked = 0 \/ Len(a.chunks) = MaxChunks
      <4>1. out = failed
        BY <1>4, <2>3, <3>1 DEF Outcomes
      <4> QED
        BY <1>2, <4>1
    <3>2. CASE /\ ~ (asked = 0 \/ Len(a.chunks) = MaxChunks)
               /\ asked < needed \/ cap < total
      <4>1. out = failed \/ out = lost
        BY <1>4, <2>3, <3>2 DEF Outcomes
      <4> QED
        BY <1>2, <4>1
    <3>3. CASE /\ ~ (asked = 0 \/ Len(a.chunks) = MaxChunks)
               /\ ~ (asked < needed \/ cap < total)
      <4>1. out = failed \/ out = HandOut(Grow(a, total), 1, total)
        BY <1>4, <2>3, <3>3 DEF Outcomes
      <4>2. CASE out = failed
        BY <1>2, <4>2
      <4>3. CASE out = HandOut(Grow(a, total), 1, total)
        <5> DEFINE g == Grow(a, total)
        <5>1. Grown(a, g, cap) /\ cap \in 0 .. SizeLimit - 1
          BY <1>1, <2>1, GrowChanges, GrownCapacityType
        <5>2. total <= cap /\ Len(a.chunks) # MaxChunks
          BY <2>1, <3>3, <5>1, LayoutAssumption
        <5> HIDE DEF g, total, cap
        <5>3. Sound(g, U) /\ 1 \in DOMAIN g.chunks /\ HasRoom(g, 1, total)
          BY <2>1, <5>1, <5>2, GrownSound
        <5>4. out = HandOut(g, 1, total)
          BY <4>3 DEF g
        <5>5. /\ out.status = "SUCCESS"
              /\ HandedOut(g, U, out.arena, out.block, total)
          BY <2>1, <5>3, <5>4, HandOutSound
        <5>6. g.header = a.header
          BY <5>1 DEF Grown
        <5>7. HandedOut(a, U, out.arena, out.block, total)
          BY <5>5, <5>6 DEF HandedOut
        <5> QED
          BY <1>4, <5>5, <5>7 DEF total
      <4> QED
        BY <4>1, <4>2, <4>3
    <3> QED
      BY <3>1, <3>2, <3>3
  <2> QED
    BY <2>2, <2>3
<1> QED
  BY <1>3, <1>4

-----------------------------------------------------------------------------
(***************************************************************************)
(* What callers hold                                                       *)
(***************************************************************************)

Blocks(pointers) == {p - Header : p \in pointers}

\* The allocations of the callers are the blocks in use, and fit into them.
Serves(a, held) ==
  /\ Sound(a, Blocks(DOMAIN held))
  /\ DOMAIN held \subseteq Nat
  /\ \A p \in DOMAIN held : /\ held[p] \in Sizes
                            /\ SizeOf(a, p - Header) >= Header + held[p]

LEMMA BlocksAdded ==
  ASSUME NEW D, D \subseteq Nat, NEW x \in Nat
  PROVE  Blocks(D \cup {PointerTo(x)}) = Blocks(D) \cup {x}
<1>1. PointerTo(x) - Header = x
  BY ConstantFacts DEF PointerTo
<1> QED
  BY <1>1 DEF Blocks

LEMMA BlocksTaken ==
  ASSUME NEW D, D \subseteq Nat, NEW p \in D
  PROVE  Blocks(D \ {p}) = Blocks(D) \ {p - Header}
<1>1. ASSUME NEW q \in D, q # p PROVE q - Header # p - Header
  BY <1>1, ConstantFacts
<1> QED
  BY <1>1 DEF Blocks

LEMMA HeldFacts ==
  ASSUME NEW a, NEW held, Serves(a, held), NEW p \in DOMAIN held
  PROVE  /\ p - Header \in Blocks(DOMAIN held) /\ p \in Nat
         /\ p - Header \in Nat /\ PointerTo(p - Header) = p
         /\ IsBlock(a, p - Header, "USED")
         /\ SizeOf(a, p - Header) \in Nat
         /\ held[p] \in Nat /\ held[p] \in Sizes
         /\ SizeOf(a, p - Header) >= Header + held[p]
         /\ EndOf(a, p - Header) = p - Header + SizeOf(a, p - Header)
         /\ a \in Arenas /\ Sound(a, Blocks(DOMAIN held))
<1>1. p - Header \in Blocks(DOMAIN held) /\ p \in Nat
  BY DEF Serves, Blocks
<1>2. /\ a \in Arenas /\ IsBlock(a, p - Header, "USED")
      /\ Sound(a, Blocks(DOMAIN held))
  BY <1>1, SoundFacts DEF Serves
<1>3. p - Header \in Nat /\ SizeOf(a, p - Header) \in Nat
      /\ EndOf(a, p - Header) = p - Header + SizeOf(a, p - Header)
  BY <1>2, BlockFacts
<1>4. PointerTo(p - Header) = p
  BY <1>1, ConstantFacts DEF PointerTo
<1> QED
  BY <1>1, <1>2, <1>3, <1>4, ConstantFacts DEF Serves

\* An allocation is added.
LEMMA HandedOutServes ==
  ASSUME NEW a, NEW held, Serves(a, held), NEW size \in Sizes,
         ~ Refused(size), NEW n, NEW x,
         HandedOut(a, Blocks(DOMAIN held), n, x, Total(size))
  PROVE  /\ Serves(n, With(held, PointerTo(x), size))
         /\ PointerTo(x) \in Nat /\ PointerTo(x) \notin DOMAIN held
         /\ PointerTo(x) - Header = x /\ x \notin Blocks(DOMAIN held)
         /\ \A p \in DOMAIN held : SizeOf(n, p - Header) = SizeOf(a, p - Header)
<1> DEFINE U == Blocks(DOMAIN held)
           p == PointerTo(x)
           new == With(held, p, size)
<1>1. /\ x \in Nat /\ x \notin U /\ Sound(n, U \cup {x})
      /\ SizeOf(n, x) = Total(size)
      /\ \A b \in U : n.header[b] = a.header[b]
  BY DEF HandedOut
<1>2. p \in Nat /\ p - Header = x
  BY <1>1, ConstantFacts DEF PointerTo
<1>3. DOMAIN held \subseteq Nat
  BY DEF Serves
<1>4. p \notin DOMAIN held
  BY <1>1, <1>2 DEF Blocks
<1> HIDE DEF p
<1>5. /\ DOMAIN new = DOMAIN held \cup {p} /\ new[p] = size
      /\ \A q \in DOMAIN held : new[q] = held[q]
  BY <1>4 DEF With
<1>6. Blocks(DOMAIN held \cup {p}) = U \cup {x}
  BY <1>1, <1>3, BlocksAdded DEF p
<1>7. ASSUME NEW q \in DOMAIN held
      PROVE  SizeOf(n, q - Header) = SizeOf(a, q - Header)
  <2>1. q - Header \in U
    BY DEF Blocks
  <2> QED
    BY <1>1, <2>1 DEF SizeOf
<1>8. Total(size) >= Header + size
  BY TotalServes
<1>9. ASSUME NEW q \in DOMAIN new
      PROVE  new[q] \in Sizes /\ SizeOf(n, q - Header) >= Header + new[q]
  <2>1. CASE q = p
    BY <1>1, <1>2, <1>5, <1>8, <2>1
  <2>2. CASE q \in DOMAIN held
    BY <1>5, <1>7, <2>2 DEF Serves
  <2> QED
    BY <1>5, <2>1, <2>2
<1> HIDE DEF new
<1>10. Sound(n, Blocks(DOMAIN new))
  BY <1>1, <1>5, <1>6
<1>11. Serves(n, new)
  BY <1>2, <1>3, <1>5, <1>9, <1>10 DEF Serves
<1> QED
  BY <1>1, <1>2, <1>4, <1>7, <1>11 DEF p, new

\* An allocation is given back.
LEMMA GivenBackServes ==
  ASSUME NEW a, NEW held, Serves(a, held), NEW p \in DOMAIN held
  PROVE  /\ Serves(GiveBack(a, p), Without(held, p))
         /\ GivenBack(a, Blocks(DOMAIN held), GiveBack(a, p), p - Header)
<1> DEFINE U   == Blocks(DOMAIN held)
           n   == GiveBack(a, p)
           b   == p - Header
           new == Without(held, p)
<1>1. b \in U /\ PointerTo(b) = p /\ Sound(a, U)
  BY HeldFacts
<1>2. GivenBack(a, U, n, b)
  <2>1. GivenBack(a, U, GiveBack(a, PointerTo(b)), b)
    <3> HIDE DEF b, U
    <3> QED
      BY <1>1, GiveBackSound
  <2> QED
    BY <1>1, <2>1
<1>3. DOMAIN held \subseteq Nat
  BY DEF Serves
<1>4. /\ DOMAIN new = DOMAIN held \ {p}
      /\ \A q \in DOMAIN new : new[q] = held[q]
  BY DEF Without
<1>5. Blocks(DOMAIN held \ {p}) = U \ {b}
  BY <1>3, BlocksTaken
<1> HIDE DEF n, new
<1>6. Sound(n, Blocks(DOMAIN new))
  <2>1. Sound(n, U \ {b})
    BY <1>2 DEF GivenBack
  <2> QED
    BY <1>4, <1>5, <2>1
<1>7. ASSUME NEW q \in DOMAIN new
      PROVE  new[q] \in Sizes /\ SizeOf(n, q - Header) >= Header + new[q]
  <2>1. q \in DOMAIN held /\ q # p
    BY <1>4
  <2>2. q - Header # b
    BY <1>3, <2>1, ConstantFacts
  <2>3. q - Header \in DOMAIN a.header
    BY <2>1, HeldFacts DEF IsBlock
  <2>4. SizeOf(n, q - Header) = SizeOf(a, q - Header)
    BY <1>2, <2>2, <2>3 DEF GivenBack, SizeOf
  <2> QED
    BY <1>4, <2>1, <2>4 DEF Serves
<1>8. Serves(n, new)
  BY <1>3, <1>4, <1>6, <1>7 DEF Serves
<1> QED
  BY <1>2, <1>8 DEF n, new

\* A block serves a smaller request as well.
LEMMA SameServes ==
  ASSUME NEW a, NEW held, Serves(a, held), NEW p \in DOMAIN held,
         NEW size \in Sizes, SizeOf(a, p - Header) >= Header + size
  PROVE  Serves(a, With(held, p, size))
<1> DEFINE new == With(held, p, size)
<1>1. /\ DOMAIN new = DOMAIN held /\ new[p] = size
      /\ \A q \in DOMAIN held : q # p => new[q] = held[q]
  BY DEF With
<1> HIDE DEF new
<1>2. Serves(a, new)
  BY <1>1 DEF Serves
<1> QED
  BY <1>2 DEF new

\* A block is grown.
LEMMA ExtendedServes ==
  ASSUME NEW a, NEW held, Serves(a, held), NEW p \in DOMAIN held,
         NEW size \in Sizes, NEW n, NEW b,
         Extended(a, Blocks(DOMAIN held), n, p - Header, b),
         SizeOf(n, p - Header) >= Header + size
  PROVE  Serves(n, With(held, p, size))
<1>1. ASSUME NEW q \in DOMAIN held, q # p
      PROVE  SizeOf(n, q - Header) >= Header + held[q]
  <2>1. q - Header # p - Header
    BY <1>1, ConstantFacts DEF Serves
  <2>2. q - Header \in Blocks(DOMAIN held) /\ Sound(n, Blocks(DOMAIN held))
    BY DEF Blocks, Extended
  <2>3. IsBlock(n, q - Header, "USED")
    BY <2>2, SoundFacts
  <2>4. n.header[q - Header] = a.header[q - Header]
    BY <2>1, <2>3 DEF Extended, IsBlock
  <2>5. SizeOf(a, q - Header) >= Header + held[q]
    BY DEF Serves
  <2> QED
    BY <2>4, <2>5 DEF SizeOf
<1> DEFINE new == With(held, p, size)
<1>2. /\ DOMAIN new = DOMAIN held /\ new[p] = size
      /\ \A q \in DOMAIN held : q # p => new[q] = held[q]
  BY DEF With
<1> HIDE DEF new
<1>3. Serves(n, new)
  BY <1>1, <1>2 DEF Serves, Extended
<1> QED
  BY <1>3 DEF new

-----------------------------------------------------------------------------
(***************************************************************************)
(* The calls                                                               *)
(***************************************************************************)

\* Pointers to no block in use.
NoneInUse(a, pointers) ==
  \A q \in pointers : q - Header \in DOMAIN a.header
                        => a.header[q - Header].magic = "FREE"

Answers == [op : Operations, arg : Nat, status : Statuses, result : Nat,
            bytes : Nat]

\* The inductive invariant: the arena is sound, what callers hold are the
\* blocks in use, and a pointer that was given back is none of them.
Inv ==
  /\ Serves(this, live)
  /\ returned \subseteq Nat \ DOMAIN live
  /\ NoneInUse(this, returned)
  /\ ret \in Answers

LEMMA AnswerType ==
  ASSUME NEW op \in Operations, NEW arg \in Nat, NEW status \in Statuses,
         NEW result \in Nat, NEW bytes \in Nat
  PROVE  Answer(op, arg, status, result, bytes) \in Answers
BY DEF Answer, Answers

LEMMA StatusTypes ==
  /\ {"SUCCESS", "OUT_OF_MEMORY", "MISMATCHED_ALLOCATOR",
      "DOUBLE_DEALLOCATION", Undefined} \subseteq Statuses
  /\ Undefined # "SUCCESS" /\ Undefined # "OUT_OF_MEMORY"
  /\ Null \in Nat
BY DEF Statuses, Undefined, Null

LEMMA InitInv ==
  ASSUME Init
  PROVE  Inv
<1>1. this = EmptyArena /\ live = << >> /\ returned = {}
      /\ ret = Answer("create", Null, "SUCCESS", Null, 0)
  BY DEF Init
<1>2. DOMAIN live = {}
  BY <1>1
<1>3. Blocks(DOMAIN live) = {}
  BY <1>2 DEF Blocks
<1>4. Serves(this, live)
  BY <1>1, <1>2, <1>3, EmptyArenaSound DEF Serves
<1>5. ret \in Answers
  BY <1>1, AnswerType, StatusTypes DEF Operations
<1> QED
  BY <1>1, <1>4, <1>5 DEF Inv, NoneInUse

\* A call that failed, or changed nothing but the answer.
LEMMA IdleInv ==
  ASSUME Inv, UNCHANGED << this, live, returned >>, ret' \in Answers
  PROVE  Inv'
BY DEF Inv, Serves, Blocks, NoneInUse

\* The pointers callers pass.
Arguments == DOMAIN live \cup returned \cup Strangers

LEMMA StrangerType ==
  ASSUME Inv
  PROVE  /\ Arguments \subseteq Nat
         /\ \A p \in Strangers : Home(this, p) = {}
<1>1. this \in Arenas /\ Laid(this) /\ DOMAIN live \subseteq Nat
      /\ returned \subseteq Nat
  BY SoundFacts DEF Inv, Serves
<1>2. /\ DOMAIN this.chunks = 1 .. Len(this.chunks)
      /\ \A c \in DOMAIN this.chunks :
           /\ this.chunks[c].base \in Nat /\ Span <= this.chunks[c].base
           /\ this.chunks[c].capacity \in 0 .. SizeLimit - 1
  BY <1>1, ArenaFacts DEF Laid
<1>3. ASSUME NEW p \in Strangers
      PROVE  p \in Nat /\ Home(this, p) = {}
  <2>1. CASE p = Alignment
    <3>1. ASSUME NEW d \in DOMAIN this.chunks
          PROVE  ~ (p - this.chunks[d].base >= Header)
      <4>1. MinimumBlock <= Span /\ Alignment < MinimumBlock
        BY ConstantFacts
      <4> QED
        BY <1>2, <2>1, <4>1, ConstantFacts
    <3> QED
      BY <2>1, <3>1, ConstantFacts DEF Home
  <2>2. CASE p # Alignment
    <3>1. PICK c \in DOMAIN this.chunks : p = this.chunks[c].base
      BY <2>2 DEF Strangers, Range
    <3>2. ASSUME NEW d \in DOMAIN this.chunks,
                 p - this.chunks[d].base >= Header,
                 p - this.chunks[d].base < this.chunks[d].capacity
          PROVE  FALSE
      <4>1. CASE c = d
        BY <1>2, <3>1, <3>2, <4>1, ConstantFacts
      <4>2. CASE c # d
        <5>1. \/ this.chunks[c].base + Span <= this.chunks[d].base
              \/ this.chunks[d].base + Span <= this.chunks[c].base
          BY <1>1, <4>2 DEF Laid
        <5>2. PICK v, w, k : /\ v = this.chunks[c].base
                             /\ w = this.chunks[d].base
                             /\ k = this.chunks[d].capacity
          OBVIOUS
        <5>3. v \in Nat /\ w \in Nat /\ k \in Nat /\ k < Span
          <6>1. k \in 0 .. SizeLimit - 1
            BY <1>2, <5>2
          <6> QED
            BY <1>2, <5>2, <6>1, ConstantFacts
        <5>4. /\ v + Span <= w \/ w + Span <= v
              /\ v - w >= Header /\ v - w < k
          BY <3>1, <3>2, <5>1, <5>2
        <5> QED
          BY <5>3, <5>4, ConstantFacts
      <4> QED
        BY <4>1, <4>2
    <3> QED
      BY <1>2, <3>1, <3>2 DEF Home
  <2> QED
    BY <2>1, <2>2
<1> QED
  BY <1>1, <1>3 DEF Arguments

\* What block_from_pointer finds is held by a caller.
LEMMA FoundIsHeld ==
  ASSUME Inv, NEW p \in Arguments, Found(p)
  PROVE  p \in DOMAIN live
<1>1. /\ Home(this, p) # {} /\ p - Header \in DOMAIN this.header
      /\ this.header[p - Header].magic # "FREE"
  BY StatusTypes DEF Found, LookUp
<1>2. p \notin returned
  BY <1>1 DEF Inv, NoneInUse
<1>3. p \notin Strangers
  BY <1>1, StrangerType
<1> QED
  BY <1>2, <1>3 DEF Arguments

LEMMA RememberType ==
  ASSUME Inv, NEW p \in Nat
  PROVE  /\ Remember(p) \subseteq returned \cup {p}
         /\ Remember(p) \subseteq Nat
BY DEF Remember, Inv

\* What arena_hand_out leaves of the pointers given back.
LEMMA HandedOutNone ==
  ASSUME NEW a, NEW U, NEW n, NEW x, NEW total, HandedOut(a, U, n, x, total),
         NEW R, R \subseteq Nat, NoneInUse(a, R)
  PROVE  NoneInUse(n, R \ {PointerTo(x)})
<1>1. /\ x \in Nat /\ n \in Arenas
      /\ \A b \in DOMAIN n.header : n.header[b].magic = "USED" /\ b # x
           => b \in DOMAIN a.header /\ a.header[b].magic = "USED"
  BY DEF HandedOut, Sound
<1>2. SUFFICES ASSUME NEW q \in R, q # PointerTo(x),
                      q - Header \in DOMAIN n.header
               PROVE  n.header[q - Header].magic = "FREE"
  BY DEF NoneInUse
<1>3. q - Header # x
  BY <1>1, <1>2, ConstantFacts DEF PointerTo
<1>4. n.header[q - Header].magic \in {"FREE", "USED"}
  BY <1>1, <1>2, ArenaFacts
<1>5. n.header[q - Header].magic # "USED"
  <2>1. SUFFICES ASSUME n.header[q - Header].magic = "USED" PROVE FALSE
    OBVIOUS
  <2>2. q - Header \in DOMAIN a.header /\ a.header[q - Header].magic = "USED"
    BY <1>1, <1>2, <1>3, <2>1
  <2> QED
    BY <2>2 DEF NoneInUse
<1> QED
  BY <1>4, <1>5

LEMMA GivenBackNone ==
  ASSUME NEW a, NEW U, NEW n, NEW b, GivenBack(a, U, n, b),
         NEW R, NoneInUse(a, R), NEW S, S \subseteq R \cup {PointerTo(b)},
         b \in Nat
  PROVE  NoneInUse(n, S)
<1>1. /\ DOMAIN n.header = DOMAIN a.header
      /\ \A d \in DOMAIN a.header : d # b => n.header[d] = a.header[d]
      /\ n.header[b].magic = "FREE"
  BY DEF GivenBack
<1>2. PointerTo(b) - Header = b
  BY ConstantFacts DEF PointerTo
<1> QED
  BY <1>1, <1>2 DEF NoneInUse

\* A call that fails and changes nothing.
Failing(op, arg) ==
  /\ UNCHANGED << this, live, returned >>
  /\ \E status \in {"OUT_OF_MEMORY", Undefined} :
       ret' = Answer(op, arg, status, Null, 0)

LEMMA AllocateStep ==
  ASSUME Inv, NEW size \in Sizes, Allocate(size)
  PROVE  \/ Failing("allocate", Null)
         \/ \E p \in Nat \ DOMAIN live :
              /\ live' = With(live, p, size)
              /\ Serves(this', live')
              /\ returned' = returned \ {p}
              /\ NoneInUse(this', returned')
              /\ ret' = Answer("allocate", Null, "SUCCESS", p, 0)
<1> DEFINE U == Blocks(DOMAIN live)
<1>1. Sound(this, U) /\ Serves(this, live)
  BY DEF Inv, Serves
<1>2. PICK out \in Outcomes(this, size) :
        LET p == PointerTo(out.block)
        IN IF out.status # "SUCCESS"
           THEN /\ this' = out.arena
                /\ ret' = Answer("allocate", Null, out.status, Null, 0)
                /\ UNCHANGED << live, returned >>
           ELSE /\ this' = out.arena
                /\ live' = With(live, p, size)
                /\ returned' = returned \ {p}
                /\ ret' = Answer("allocate", Null, "SUCCESS", p, 0)
  BY DEF Allocate
<1>3. /\ out.status \in {"SUCCESS", "OUT_OF_MEMORY", Undefined}
      /\ out.status # "SUCCESS" => out.arena = this
      /\ out.status = "SUCCESS" =>
           /\ ~ Refused(size)
           /\ HandedOut(this, U, out.arena, out.block, Total(size))
  BY <1>1, OutcomesSound
<1>4. CASE out.status # "SUCCESS"
  BY <1>2, <1>3, <1>4 DEF Failing
<1>5. CASE out.status = "SUCCESS"
  <2>1. PICK x, p : x = out.block /\ p = PointerTo(x)
    OBVIOUS
  <2>2. /\ this' = out.arena /\ live' = With(live, p, size)
        /\ returned' = returned \ {p}
        /\ ret' = Answer("allocate", Null, "SUCCESS", p, 0)
    BY <1>2, <1>5, <2>1
  <2>3. ~ Refused(size) /\ HandedOut(this, U, out.arena, x, Total(size))
    BY <1>3, <1>5, <2>1
  <2>4. /\ Serves(out.arena, With(live, p, size))
        /\ p \in Nat /\ p \notin DOMAIN live
    BY <1>1, <2>1, <2>3, HandedOutServes
  <2>5. NoneInUse(out.arena, returned \ {p})
    <3>1. returned \subseteq Nat /\ NoneInUse(this, returned)
      BY DEF Inv
    <3> QED
      BY <2>1, <2>3, <3>1, HandedOutNone
  <2> QED
    BY <2>2, <2>4, <2>5
<1> QED
  BY <1>4, <1>5

LEMMA DeallocateStep ==
  ASSUME Inv, NEW p \in Arguments, Deallocate(p)
  PROVE  /\ p \in DOMAIN live
         /\ live' = Without(live, p)
         /\ Serves(this', live')
         /\ returned' \subseteq Nat \ DOMAIN live'
         /\ NoneInUse(this', returned')
         /\ ret' = Answer("deallocate", p, "SUCCESS", Null, 0)
<1>1. /\ Found(p) /\ this' = GiveBack(this, p) /\ live' = Without(live, p)
      /\ returned' = Remember(p)
      /\ ret' = Answer("deallocate", p, "SUCCESS", Null, 0)
  BY DEF Deallocate
<1>2. p \in DOMAIN live
  BY <1>1, FoundIsHeld
<1>3. /\ p \in Nat /\ p - Header \in Nat /\ PointerTo(p - Header) = p
      /\ Serves(this, live)
  BY <1>2, HeldFacts DEF Inv
<1>4. /\ Serves(this', live')
      /\ GivenBack(this, Blocks(DOMAIN live), this', p - Header)
  BY <1>1, <1>2, <1>3, GivenBackServes
<1>5. /\ returned' \subseteq returned \cup {p} /\ returned' \subseteq Nat
  BY <1>1, <1>3, RememberType
<1>6. NoneInUse(this', returned')
  <2>1. NoneInUse(this, returned)
    BY DEF Inv
  <2>2. PICK b \in Nat : b = p - Header
    BY <1>3
  <2>3. returned' \subseteq returned \cup {PointerTo(b)}
    BY <1>3, <1>5, <2>2
  <2>4. GivenBack(this, Blocks(DOMAIN live), this', b)
    BY <1>4, <2>2
  <2> QED
    BY <2>1, <2>3, <2>4, GivenBackNone
<1>7. DOMAIN live' = DOMAIN live \ {p}
  BY <1>1 DEF Without
<1> QED
  BY <1>1, <1>2, <1>4, <1>5, <1>6, <1>7 DEF Inv

LEMMA ReallocateSameStep ==
  ASSUME Inv, NEW p \in Arguments, NEW size \in Sizes, ReallocateSame(p, size)
  PROVE  /\ p \in DOMAIN live
         /\ live' = With(live, p, size)
         /\ Serves(this', live')
         /\ returned' = returned /\ this' = this
         /\ ret' = Answer("reallocate", p, "SUCCESS", p, 0)
<1>1. /\ Found(p) /\ ~ Refused(size) /\ ~ Larger(p, size)
      /\ live' = With(live, p, size)
      /\ ret' = Answer("reallocate", p, "SUCCESS", p, 0)
      /\ this' = this /\ returned' = returned
  BY DEF ReallocateSame
<1>2. p \in DOMAIN live
  BY <1>1, FoundIsHeld
<1>3. SizeOf(this, p - Header) \in Nat /\ Serves(this, live)
  BY <1>2, HeldFacts DEF Inv
<1>4. Total(size) \in Nat /\ Total(size) >= Header + size
  BY <1>1, TotalServes
<1>5. SizeOf(this, p - Header) >= Header + size
  <2>1. ~ (Total(size) > SizeOf(this, p - Header))
    BY <1>1 DEF Larger
  <2>2. size \in Nat
    BY ConstantFacts
  <2> QED
    BY <1>3, <1>4, <2>1, <2>2, ConstantFacts
<1>6. Serves(this, With(live, p, size))
  BY <1>2, <1>3, <1>5, SameServes
<1> QED
  BY <1>1, <1>2, <1>6

LEMMA ReallocateInPlaceStep ==
  ASSUME Inv, NEW p \in Arguments, NEW size \in Sizes,
         ReallocateInPlace(p, size)
  PROVE  /\ p \in DOMAIN live
         /\ live' = With(live, p, size)
         /\ Serves(this', live')
         /\ returned' = returned /\ NoneInUse(this', returned')
         /\ ret' = Answer("reallocate", p, "SUCCESS", p, 0)
<1>1. /\ Found(p) /\ ~ Refused(size) /\ GrowsInPlace(p, size)
      /\ live' = With(live, p, size) /\ returned' = returned
      /\ ret' = Answer("reallocate", p, "SUCCESS", p, 0)
  BY DEF ReallocateInPlace
<1>2. p \in DOMAIN live
  BY <1>1, FoundIsHeld
<1> DEFINE U == Blocks(DOMAIN live)
<1>3. PICK x : x = p - Header
  OBVIOUS
<1>4. /\ x \in U /\ PointerTo(x) = p /\ Sound(this, U) /\ x \in Nat
      /\ SizeOf(this, x) \in Nat /\ Serves(this, live)
  BY <1>2, <1>3, HeldFacts DEF Inv
<1>5. PICK c \in DOMAIN this.chunks :
        /\ Inside(this, c, x)
        /\ (CHOOSE d \in Home(this, PointerTo(x)) : TRUE) = c
  <2> HIDE DEF U
  <2> QED
    BY <1>4, HomeFound
<1>6. (CHOOSE d \in Home(this, p) : TRUE) = c
  BY <1>4, <1>5
<1>7. Behind(p) = FreeIn(this, c) \cap {EndOf(this, x)}
  BY <1>3, <1>6 DEF Behind, FreeIn
<1>8. PICK b \in Behind(p) : this' = Extend(this, c, x, b)
  BY <1>3, <1>6 DEF ReallocateInPlace, Extend
<1>9. b \in FreeIn(this, c) /\ b = EndOf(this, x)
  BY <1>7
<1>10. SizeOf(this, x) + SizeOf(this, b) >= Total(size)
  <2>1. \A d \in Behind(p) : d = b
    BY <1>7, <1>9
  <2> QED
    BY <1>1, <1>3, <2>1 DEF GrowsInPlace
<1>11. Extended(this, U, this', x, b)
  <2>1. Extended(this, U, Extend(this, c, x, b), x, b)
    <3> HIDE DEF U
    <3> QED
      BY <1>4, <1>5, <1>9, ExtendSound
  <2> QED
    BY <1>8, <2>1
<1>12. SizeOf(this', x) >= Header + size
  <2>1. SizeOf(this', x) = SizeOf(this, x) + SizeOf(this, b)
    BY <1>11 DEF Extended
  <2>2. SizeOf(this, b) \in Nat
    <3>1. this \in Arenas /\ IsBlock(this, b, "FREE")
      BY <1>4, <1>9, SoundFacts
    <3> QED
      BY <3>1, BlockFacts
  <2>3. Total(size) \in Nat /\ Total(size) >= Header + size /\ size \in Nat
    BY <1>1, TotalServes, ConstantFacts
  <2> QED
    BY <1>4, <1>10, <2>1, <2>2, <2>3, ConstantFacts
<1>13. Serves(this', With(live, p, size))
  <2>1. /\ Extended(this, Blocks(DOMAIN live), this', p - Header, b)
        /\ SizeOf(this', p - Header) >= Header + size
    BY <1>3, <1>11, <1>12
  <2> QED
    BY <1>2, <1>4, <2>1, ExtendedServes
<1>14. NoneInUse(this', returned)
  <2>1. SUFFICES ASSUME NEW q \in returned, q - Header \in DOMAIN this'.header
                 PROVE  this'.header[q - Header].magic = "FREE"
    BY DEF NoneInUse
  <2>2. /\ q - Header \in DOMAIN this.header
        /\ q - Header # x => this'.header[q - Header] = this.header[q - Header]
    BY <1>11, <2>1 DEF Extended
  <2>3. this.header[q - Header].magic = "FREE"
    BY <2>2 DEF Inv, NoneInUse
  <2>4. q - Header # x
    <3>1. this.header[x].magic = "USED"
      BY <1>4, SoundFacts DEF IsBlock
    <3> QED
      BY <2>3, <3>1
  <2> QED
    BY <2>2, <2>3, <2>4
<1> QED
  BY <1>1, <1>2, <1>13, <1>14

LEMMA WithoutWith ==
  ASSUME NEW held, NEW p, NEW q, p # q, NEW size
  PROVE  Without(With(held, q, size), p) = With(Without(held, p), q, size)
<1>1. (DOMAIN held \cup {q}) \ {p} = (DOMAIN held \ {p}) \cup {q}
  OBVIOUS
<1> QED
  BY <1>1 DEF With, Without

LEMMA ReallocateMoveStep ==
  ASSUME Inv, NEW p \in Arguments, NEW size \in Sizes, ReallocateMove(p, size)
  PROVE  /\ p \in DOMAIN live
         /\ \/ Failing("reallocate", p)
            \/ \E q \in Nat \ DOMAIN live :
                 /\ ~ Refused(size)
                 /\ live' = With(Without(live, p), q, size)
                 /\ Serves(this', live')
                 /\ returned' = Remember(p) \ {q}
                 /\ NoneInUse(this', returned')
                 /\ ret' = Answer("reallocate", p, "SUCCESS", q,
                                  CopiedBytes(p, size))
<1>1. Found(p) /\ ~ Refused(size)
  BY DEF ReallocateMove
<1>2. p \in DOMAIN live
  BY <1>1, FoundIsHeld
<1> DEFINE U == Blocks(DOMAIN live)
<1>3. Sound(this, U) /\ Serves(this, live)
  BY DEF Inv, Serves
<1>4. PICK out \in Outcomes(this, size) :
        LET q == PointerTo(out.block)
        IN IF out.status # "SUCCESS"
           THEN /\ this' = out.arena
                /\ ret' = Answer("reallocate", p, out.status, Null, 0)
                /\ UNCHANGED << live, returned >>
           ELSE /\ this' = GiveBack(out.arena, p)
                /\ live' = With(Without(live, p), q, size)
                /\ returned' = Remember(p) \ {q}
                /\ ret' = Answer("reallocate", p, "SUCCESS", q,
                                 CopiedBytes(p, size))
  BY DEF ReallocateMove
<1>5. /\ out.status \in {"SUCCESS", "OUT_OF_MEMORY", Undefined}
      /\ out.status # "SUCCESS" => out.arena = this
      /\ out.status = "SUCCESS" =>
           HandedOut(this, U, out.arena, out.block, Total(size))
  BY <1>3, OutcomesSound
<1>6. CASE out.status # "SUCCESS"
  BY <1>2, <1>4, <1>5, <1>6 DEF Failing
<1>7. CASE out.status = "SUCCESS"
  <2>1. PICK m, x, q : m = out.arena /\ x = out.block /\ q = PointerTo(x)
    OBVIOUS
  <2>2. /\ this' = GiveBack(m, p)
        /\ live' = With(Without(live, p), q, size)
        /\ returned' = Remember(p) \ {q}
        /\ ret' = Answer("reallocate", p, "SUCCESS", q, CopiedBytes(p, size))
    BY <1>4, <1>7, <2>1
  <2>3. HandedOut(this, U, m, x, Total(size))
    BY <1>5, <1>7, <2>1
  <2> DEFINE held == With(live, q, size)
  <2>4. Serves(m, held) /\ q \in Nat /\ q \notin DOMAIN live
    BY <1>1, <1>3, <2>1, <2>3, HandedOutServes
  <2>5. p \in DOMAIN held /\ p # q
    BY <1>2, <2>4 DEF With
  <2>6. Without(held, p) = With(Without(live, p), q, size)
    BY <2>5, WithoutWith
  <2> HIDE DEF held
  <2>7. /\ Serves(GiveBack(m, p), Without(held, p))
        /\ GivenBack(m, Blocks(DOMAIN held), GiveBack(m, p), p - Header)
    BY <2>4, <2>5, GivenBackServes
  <2>8. Serves(this', live')
    BY <2>2, <2>6, <2>7
  <2>9. NoneInUse(this', returned')
    <3>1. NoneInUse(this, returned) /\ returned \subseteq Nat
      BY DEF Inv
    <3>2. NoneInUse(m, returned \ {q})
      BY <2>1, <2>3, <3>1, HandedOutNone
    <3>3. p \in Nat /\ p - Header \in Nat /\ PointerTo(p - Header) = p
      BY <2>4, <2>5, HeldFacts
    <3>4. Remember(p) \subseteq returned \cup {p}
      BY <3>3, RememberType
    <3>5. PICK b \in Nat : b = p - Header
      BY <3>3
    <3>6. /\ returned' \subseteq (returned \ {q}) \cup {PointerTo(b)}
          /\ GivenBack(m, Blocks(DOMAIN held), this', b)
      BY <2>2, <2>7, <3>3, <3>4, <3>5
    <3> QED
      BY <3>2, <3>6, GivenBackNone
  <2> QED
    BY <1>1, <1>2, <2>2, <2>4, <2>8, <2>9
<1> QED
  BY <1>6, <1>7

LEMMA ClearStep ==
  ASSUME Inv, Clear
  PROVE  /\ live' = << >> /\ Serves(this', live') /\ returned' = {}
         /\ ret' = Answer("clear", Null, "SUCCESS", Null, 0)
<1>1. /\ this' = Cleared(this) /\ live' = << >> /\ returned' = {}
      /\ ret' = Answer("clear", Null, "SUCCESS", Null, 0)
  BY DEF Clear, Cleared
<1>2. Sound(this', {})
  BY <1>1, ClearedSound DEF Inv, Serves
<1>3. DOMAIN live' = {} /\ Blocks({}) = {}
  BY <1>1 DEF Blocks
<1>4. Serves(this', live')
  BY <1>2, <1>3 DEF Serves
<1> QED
  BY <1>1, <1>4

LEMMA ReleaseStep ==
  ASSUME NEW op, Release(op)
  PROVE  /\ live' = << >> /\ Serves(this', live') /\ returned' = {}
         /\ ret' = Answer(op, Null, "SUCCESS", Null, 0)
<1>1. /\ this' = EmptyArena /\ live' = << >> /\ returned' = {}
      /\ ret' = Answer(op, Null, "SUCCESS", Null, 0)
  BY DEF Release
<1>2. Sound(this', {})
  BY <1>1, EmptyArenaSound
<1>3. DOMAIN live' = {} /\ Blocks({}) = {}
  BY <1>1 DEF Blocks
<1>4. Serves(this', live')
  BY <1>2, <1>3 DEF Serves
<1> QED
  BY <1>1, <1>4

LEMMA FailingInv ==
  ASSUME Inv, NEW op \in Operations, NEW arg \in Nat, Failing(op, arg)
  PROVE  Inv'
<1>1. ret' \in Answers
  BY AnswerType, StatusTypes DEF Failing
<1> QED
  BY <1>1, IdleInv DEF Failing

LEMMA RejectInv ==
  ASSUME Inv, NEW op \in Operations, NEW p \in Arguments, Reject(op, p)
  PROVE  Inv'
<1>1. LookUp(this, p) \in Statuses
  BY StatusTypes DEF LookUp
<1>2. p \in Nat
  BY StrangerType
<1>3. ret' \in Answers
  BY <1>1, <1>2, AnswerType, StatusTypes DEF Reject, Unchanged
<1> QED
  BY <1>3, IdleInv DEF Reject, Unchanged

LEMMA CopiedType ==
  ASSUME Inv, NEW p \in DOMAIN live, NEW size \in Sizes, ~ Refused(size)
  PROVE  /\ CopiedBytes(p, size) \in Nat
         /\ CopiedBytes(p, size) <= SizeOf(this, p - Header) - Header
         /\ CopiedBytes(p, size) >= live[p] \/ CopiedBytes(p, size) >= size
<1> DEFINE x == SizeOf(this, p - Header)
           y == Total(size)
           k == live[p]
<1>1. x \in Nat /\ k \in Nat /\ x >= Header + k
  BY HeldFacts DEF Inv
<1>2. y \in Nat /\ size \in Nat /\ y >= Header + size
  BY TotalServes, ConstantFacts
<1>3. CopiedBytes(p, size) = Min({x, y}) - Header
  BY DEF CopiedBytes
<1> HIDE DEF x, y, k
<1>4. Min({x, y}) = IF x <= y THEN x ELSE y
  BY <1>1, <1>2, MinOfTwo
<1>5. /\ Min({x, y}) - Header \in Nat
      /\ Min({x, y}) - Header <= x - Header
      /\ Min({x, y}) - Header >= k \/ Min({x, y}) - Header >= size
  BY <1>1, <1>2, <1>4, ConstantFacts
<1> QED
  BY <1>3, <1>5 DEF x, k

\* Every step leaves an arena that serves what callers hold.
LEMMA NextInv ==
  ASSUME Inv, Next
  PROVE  Inv'
<1>1. ASSUME NEW size \in Sizes, Allocate(size) PROVE Inv'
  <2>1. CASE Failing("allocate", Null)
    BY <2>1, FailingInv, StatusTypes DEF Operations
  <2>2. ASSUME NEW p \in Nat \ DOMAIN live,
               live' = With(live, p, size), Serves(this', live'),
               returned' = returned \ {p}, NoneInUse(this', returned'),
               ret' = Answer("allocate", Null, "SUCCESS", p, 0)
        PROVE  Inv'
    <3>1. ret' \in Answers
      BY <2>2, AnswerType, StatusTypes DEF Operations
    <3>2. DOMAIN live' = DOMAIN live \cup {p}
      BY <2>2 DEF With
    <3> QED
      BY <2>2, <3>1, <3>2 DEF Inv
  <2> QED
    BY <1>1, <2>1, <2>2, AllocateStep
<1>2. ASSUME NEW p \in Arguments, Deallocate(p) PROVE Inv'
  <2>1. /\ Serves(this', live') /\ returned' \subseteq Nat \ DOMAIN live'
        /\ NoneInUse(this', returned')
        /\ ret' = Answer("deallocate", p, "SUCCESS", Null, 0)
    BY <1>2, DeallocateStep
  <2>2. ret' \in Answers
    BY <2>1, StrangerType, AnswerType, StatusTypes DEF Operations
  <2> QED
    BY <2>1, <2>2 DEF Inv
<1>3. ASSUME NEW p \in Arguments, Reject("deallocate", p) PROVE Inv'
  BY <1>3, RejectInv DEF Operations
<1>4. ASSUME NEW p \in Arguments, Reject("reallocate", p) PROVE Inv'
  BY <1>4, RejectInv DEF Operations
<1>5. ASSUME NEW p \in Arguments, NEW size \in Sizes, ReallocateRefused(p, size)
      PROVE  Inv'
  <2>1. ret' \in Answers
    BY <1>5, StrangerType, AnswerType, StatusTypes
       DEF ReallocateRefused, Unchanged, Operations
  <2> QED
    BY <1>5, <2>1, IdleInv DEF ReallocateRefused, Unchanged
<1>6. ASSUME NEW p \in Arguments, NEW size \in Sizes, ReallocateSame(p, size)
      PROVE  Inv'
  <2>1. /\ p \in DOMAIN live /\ live' = With(live, p, size)
        /\ Serves(this', live') /\ returned' = returned /\ this' = this
        /\ ret' = Answer("reallocate", p, "SUCCESS", p, 0)
    BY <1>6, ReallocateSameStep
  <2>2. ret' \in Answers
    BY <2>1, StrangerType, AnswerType, StatusTypes DEF Operations
  <2>3. DOMAIN live' = DOMAIN live
    BY <2>1 DEF With
  <2> QED
    BY <2>1, <2>2, <2>3 DEF Inv
<1>7. ASSUME NEW p \in Arguments, NEW size \in Sizes, ReallocateInPlace(p, size)
      PROVE  Inv'
  <2>1. /\ p \in DOMAIN live /\ live' = With(live, p, size)
        /\ Serves(this', live') /\ returned' = returned
        /\ NoneInUse(this', returned')
        /\ ret' = Answer("reallocate", p, "SUCCESS", p, 0)
    BY <1>7, ReallocateInPlaceStep
  <2>2. ret' \in Answers
    BY <2>1, StrangerType, AnswerType, StatusTypes DEF Operations
  <2>3. DOMAIN live' = DOMAIN live
    BY <2>1 DEF With
  <2> QED
    BY <2>1, <2>2, <2>3 DEF Inv
<1>8. ASSUME NEW p \in Arguments, NEW size \in Sizes, ReallocateMove(p, size)
      PROVE  Inv'
  <2>1. p \in DOMAIN live /\ p \in Nat
    BY <1>8, ReallocateMoveStep, StrangerType
  <2>2. CASE Failing("reallocate", p)
    BY <2>1, <2>2, FailingInv DEF Operations
  <2>3. ASSUME NEW q \in Nat \ DOMAIN live, ~ Refused(size),
               live' = With(Without(live, p), q, size),
               Serves(this', live'), returned' = Remember(p) \ {q},
               NoneInUse(this', returned'),
               ret' = Answer("reallocate", p, "SUCCESS", q,
                             CopiedBytes(p, size))
        PROVE  Inv'
    <3>1. CopiedBytes(p, size) \in Nat
      BY <2>1, <2>3, CopiedType
    <3>2. ret' \in Answers
      BY <2>1, <2>3, <3>1, AnswerType, StatusTypes DEF Operations
    <3>3. DOMAIN live' = (DOMAIN live \ {p}) \cup {q}
      BY <2>3 DEF With, Without
    <3>4. /\ Remember(p) \subseteq returned \cup {p}
          /\ Remember(p) \subseteq Nat
      BY <2>1, RememberType
    <3>5. returned' \subseteq Nat \ DOMAIN live'
      BY <2>3, <3>3, <3>4 DEF Inv
    <3> QED
      BY <2>3, <3>2, <3>5 DEF Inv
  <2> QED
    BY <1>8, <2>2, <2>3, ReallocateMoveStep
<1>9. ASSUME Clear PROVE Inv'
  <2>1. /\ Serves(this', live') /\ returned' = {}
        /\ ret' = Answer("clear", Null, "SUCCESS", Null, 0)
    BY <1>9, ClearStep
  <2>2. ret' \in Answers
    BY <2>1, AnswerType, StatusTypes DEF Operations
  <2> QED
    BY <2>1, <2>2 DEF Inv, NoneInUse
<1>10. ASSUME NEW op \in {"release", "destroy"}, Release(op) PROVE Inv'
  <2>1. /\ Serves(this', live') /\ returned' = {}
        /\ ret' = Answer(op, Null, "SUCCESS", Null, 0)
    BY <1>10, ReleaseStep
  <2>2. ret' \in Answers
    BY <2>1, AnswerType, StatusTypes DEF Operations
  <2> QED
    BY <2>1, <2>2 DEF Inv, NoneInUse
<1> QED
  BY <1>1, <1>2, <1>3, <1>4, <1>5, <1>6, <1>7, <1>8, <1>9, <1>10
     DEF Next, Arguments

LEMMA SpecInv == Spec => []Inv
<1>1. Init => Inv
  BY InitInv
<1>2. Inv /\ [Next]_vars => Inv'
  <2>1. ASSUME Inv, UNCHANGED vars PROVE Inv'
    BY <2>1 DEF Inv, vars, Serves, Blocks, NoneInUse
  <2> QED
    BY <2>1, NextInv
<1> QED
  BY <1>1, <1>2, PTL DEF Spec

-----------------------------------------------------------------------------
(***************************************************************************)
(* The theorems                                                            *)
(***************************************************************************)

LEMMA InvFacts ==
  ASSUME Inv
  PROVE  /\ this \in Arenas /\ Laid(this) /\ Listed(this)
         /\ Held(this, UsedBlocks) /\ Apart(this, UsedBlocks \cup FreeBlocks)
         /\ Counted(this, UsedBlocks)
         /\ Sound(this, UsedBlocks) /\ FreeBlocks = FreeOf(this)
<1>1. UsedBlocks = Blocks(DOMAIN live)
  BY DEF UsedBlocks, Blocks
<1>2. FreeBlocks = FreeOf(this)
  BY DEF FreeBlocks, FreeOf, Chunks
<1> QED
  BY <1>1, <1>2 DEF Inv, Serves, Sound

\* No call leaves a chunk with more handed out than it holds, or a variable
\* without its type: the arena's counts and offsets never go below zero.
THEOREM ArenaTypeOK == Spec => []TypeOK
<1>1. ASSUME Inv PROVE TypeOK
  <2>1. this \in Arenas /\ Laid(this)
    BY <1>1, InvFacts
  <2>2. \A c \in Chunks :
          /\ this.chunks[c].base \in Nat
          /\ this.chunks[c].capacity \in 0 .. SizeLimit - 1
          /\ this.chunks[c].bump \in 0 .. this.chunks[c].capacity
          /\ FreeList(this, c) \in Seq(Nat)
    BY <2>1, ArenaFacts DEF Laid, Chunks
  <2>3. \A b \in DOMAIN this.header :
          this.header[b] \in [size : 0 .. SizeLimit - 1,
                              magic : {"FREE", "USED"}]
    <3>1. this.header \in [DOMAIN this.header -> HeaderRecords]
      BY <2>1, ArenaFacts, HeadersAre
    <3> QED
      BY <3>1 DEF HeaderRecords
  <2>4. this.used \in Nat /\ this.capacity \in Nat /\ this.largest_block \in Nat
    BY <2>1, ArenaFacts
  <2>5. DOMAIN live \subseteq Nat /\ \A p \in DOMAIN live : live[p] \in Sizes
    BY <1>1 DEF Inv, Serves
  <2>6. returned \subseteq Nat \ DOMAIN live
    BY <1>1 DEF Inv
  <2>7. ret \in [op : Operations, arg : Nat, status : Statuses,
                 result : Nat, bytes : Nat]
    BY <1>1 DEF Inv, Answers
  <2> QED
    BY <2>2, <2>3, <2>4, <2>5, <2>6, <2>7 DEF TypeOK
<1> QED
  BY <1>1, SpecInv, PTL

\* However blocks are carved, given back and taken again, the list of a chunk
\* stays ordered by address and holds free blocks of that chunk alone:
\* free_list_insert and free_list_find rely on it.
THEOREM ArenaFreeListSane == Spec => []FreeListSane
<1>1. ASSUME Inv PROVE FreeListSane
  <2>1. SUFFICES ASSUME NEW c \in Chunks
                 PROVE  /\ \A i \in 1 .. Len(FreeList(this, c)) - 1 :
                             FreeList(this, c)[i] < FreeList(this, c)[i + 1]
                        /\ \A b \in Range(FreeList(this, c)) :
                             /\ c \in Home(this, PointerTo(b))
                             /\ this.header[b].magic = "FREE"
                             /\ SizeOf(this, b) >= MinimumBlock
    BY DEF FreeListSane
  <2>2. this \in Arenas /\ Laid(this) /\ Listed(this) /\ c \in DOMAIN this.chunks
    BY <1>1, InvFacts DEF Chunks
  <2>3. Sorted(FreeList(this, c)) /\ FreeList(this, c) \in Seq(Nat)
    BY <2>2, ArenaFacts DEF Listed
  <2>4. \A i \in 1 .. Len(FreeList(this, c)) - 1 :
          FreeList(this, c)[i] < FreeList(this, c)[i + 1]
    BY <2>3 DEF Sorted
  <2>5. ASSUME NEW b \in Range(FreeList(this, c))
        PROVE  /\ c \in Home(this, PointerTo(b))
               /\ this.header[b].magic = "FREE"
               /\ SizeOf(this, b) >= MinimumBlock
    <3>1. IsBlock(this, b, "FREE") /\ Inside(this, c, b)
      BY <2>2 DEF Listed, FreeIn
    <3>2. Home(this, PointerTo(b)) = {c}
      BY <2>2, <3>1, HomeIs
    <3> QED
      BY <3>1, <3>2 DEF IsBlock
  <2> QED
    BY <2>4, <2>5
<1> QED
  BY <1>1, SpecInv, PTL

\* No byte belongs to two callers, or to a caller and the free list, and every
\* block that is held has its header intact and room for what was asked for.
THEOREM ArenaBlocksApart == Spec => []BlocksApart
<1>1. ASSUME Inv PROVE BlocksApart
  <2>1. ASSUME NEW p \in DOMAIN live
        PROVE  /\ this.header[p - Header].magic = "USED"
               /\ SizeOf(this, p - Header) >= Header + live[p]
    BY <1>1, HeldFacts DEF Inv, IsBlock
  <2>2. ASSUME NEW b \in UsedBlocks \cup FreeBlocks
        PROVE  \E c \in Chunks :
                 /\ b >= this.chunks[c].base
                 /\ EndOf(this, b) <= this.chunks[c].base + this.chunks[c].bump
    <3>1. /\ this \in Arenas /\ IsFiniteSet(UsedBlocks)
          /\ \E c \in DOMAIN this.chunks : Inside(this, c, b)
          /\ \E m \in {"FREE", "USED"} : IsBlock(this, b, m)
      BY <1>1, InvFacts, SoundFacts
    <3>2. PICK c \in Chunks : Inside(this, c, b)
      BY <3>1 DEF Chunks
    <3>3. b \in Nat
      BY <3>1, BlockFacts
    <3>4. this.chunks[c].base \in Nat
      BY <3>1, ArenaFacts DEF Chunks
    <3> QED
      BY <3>2, <3>3, <3>4 DEF Inside
  <2>3. Apart(this, UsedBlocks \cup FreeBlocks)
    BY <1>1, InvFacts
  <2> QED
    BY <2>1, <2>2, <2>3 DEF BlocksApart, Apart
<1> QED
  BY <1>1, SpecInv, PTL

\* The counts cutl_allocator_arena_get_used and _get_capacity report are those
\* of the blocks in use and of the chunks, after any sequence of calls.
THEOREM ArenaUsedExact == Spec => []UsedExact
<1>1. ASSUME Inv PROVE UsedExact
  <2>1. Counted(this, UsedBlocks)
    BY <1>1, InvFacts
  <2>2. SumFunction([b \in UsedBlocks |-> SizeOf(this, b)]) = this.used
    BY <2>1 DEF SumFunction, Counted, BytesOf
  <2>3. SumFunction([c \in Chunks |-> this.chunks[c].capacity]) = this.capacity
    BY <2>1 DEF SumFunction, Counted, Chunks
  <2> QED
    BY <2>2, <2>3 DEF UsedExact
<1> QED
  BY <1>1, SpecInv, PTL

\* A reallocation that moves a block copies what the caller wrote, as far as
\* the new block has room for it, and no byte that is not the old block's.
THEOREM ArenaReallocateKeepsContents == Spec => ReallocateKeepsContents
<1> DEFINE A == /\ ret'.op = "reallocate" /\ ret'.status = "SUCCESS"
                /\ ret'.result # ret'.arg
                => /\ ret'.bytes >= Min({live[ret'.arg], live'[ret'.result]})
                   /\ ret'.bytes <= SizeOf(this, ret'.arg - Header) - Header
<1>1. ASSUME Inv, Next PROVE A
  <2>1. ASSUME NEW op, op # "reallocate", ret'.op = op PROVE A
    BY <2>1
  <2>2. ASSUME NEW size \in Sizes, Allocate(size) PROVE A
    <3>1. ret'.op = "allocate"
      BY <1>1, <2>2, AllocateStep DEF Failing, Answer
    <3> QED
      BY <2>1, <3>1
  <2>3. ASSUME NEW p \in Arguments, Deallocate(p) PROVE A
    <3>1. ret'.op = "deallocate"
      BY <2>3 DEF Deallocate, Answer
    <3> QED
      BY <2>1, <3>1
  <2>4. ASSUME NEW op, NEW p, Reject(op, p) PROVE A
    BY <2>4 DEF Reject, Unchanged, Answer
  <2>5. ASSUME NEW p, NEW size, ReallocateRefused(p, size) PROVE A
    BY <2>5 DEF ReallocateRefused, Unchanged, Answer
  <2>6. ASSUME NEW p, NEW size,
               ReallocateSame(p, size) \/ ReallocateInPlace(p, size)
        PROVE  A
    <3>1. ret' = Answer("reallocate", p, "SUCCESS", p, 0)
      BY <2>6, Zenon DEF ReallocateSame, ReallocateInPlace
    <3> QED
      BY <3>1 DEF Answer
  <2>7. ASSUME NEW p \in Arguments, NEW size \in Sizes, ReallocateMove(p, size)
        PROVE  A
    <3>1. p \in DOMAIN live
      BY <1>1, <2>7, ReallocateMoveStep
    <3>2. CASE Failing("reallocate", p)
      BY <3>2, StatusTypes DEF Failing, Answer
    <3>3. ASSUME NEW q \in Nat \ DOMAIN live, ~ Refused(size),
                 live' = With(Without(live, p), q, size),
                 ret' = Answer("reallocate", p, "SUCCESS", q,
                               CopiedBytes(p, size))
          PROVE  A
      <4>1. /\ ret'.arg = p /\ ret'.result = q
            /\ ret'.bytes = CopiedBytes(p, size) /\ live'[q] = size
        BY <3>3 DEF Answer, With
      <4>2. live[p] \in Nat /\ size \in Nat
        BY <1>1, <3>1, HeldFacts, ConstantFacts DEF Inv
      <4>3. PICK k \in Nat :
              /\ k = CopiedBytes(p, size)
              /\ k <= SizeOf(this, p - Header) - Header
              /\ k >= live[p] \/ k >= size
        BY <1>1, <3>1, <3>3, CopiedType
      <4>4. Min({live[p], size}) = IF live[p] <= size THEN live[p] ELSE size
        BY <4>2, MinOfTwo
      <4>5. k >= Min({live[p], size})
        BY <4>2, <4>3, <4>4
      <4> QED
        BY <4>1, <4>3, <4>5
    <3> QED
      BY <1>1, <2>7, <3>2, <3>3, ReallocateMoveStep
  <2>8. CASE Clear
    BY <2>8 DEF Clear, Answer
  <2>9. ASSUME NEW op \in {"release", "destroy"}, Release(op) PROVE A
    BY <2>9 DEF Release, Answer
  <2> HIDE DEF A
  <2> QED
    BY <1>1, <2>2, <2>3, <2>4, <2>5, <2>6, <2>7, <2>8, <2>9
       DEF Next, Arguments
<1>2. Inv /\ [Next]_vars => [A]_vars
  <2> HIDE DEF A
  <2> QED
    BY <1>1
<1> QED
  BY <1>2, SpecInv, PTL DEF Spec, ReallocateKeepsContents

-----------------------------------------------------------------------------
(***************************************************************************)
(* The contract of all allocators                                          *)
(***************************************************************************)

\* Whatever is held lies aligned in the memory of the chunks.
LEMMA HeldPlaced ==
  ASSUME NEW a, NEW held, Serves(a, held), NEW p \in DOMAIN held
  PROVE  /\ p \in Nat /\ held[p] \in Nat
         /\ p % Alignment = 0
         /\ p + held[p] <= (MaxChunks + 1) * Span
<1>1. PICK b : b = p - Header
  OBVIOUS
<1>2. PICK s \in Nat : s = SizeOf(a, b)
  BY <1>1, HeldFacts
<1>3. /\ p \in Nat /\ b \in Nat /\ p = b + Header
      /\ held[p] \in Nat /\ s >= Header + held[p]
      /\ IsBlock(a, b, "USED") /\ b \in Blocks(DOMAIN held)
      /\ a \in Arenas /\ Sound(a, Blocks(DOMAIN held))
  BY <1>1, <1>2, HeldFacts, ConstantFacts DEF PointerTo
<1>4. p % Alignment = 0
  <2>1. IsMultiple(b) /\ IsMultiple(Header)
    BY <1>3, ConstantFacts DEF IsBlock
  <2> QED
    BY <1>3, <2>1, SumMultiple, MultipleAligned
<1>5. PICK c \in DOMAIN a.chunks : Inside(a, c, b)
  BY <1>3, SoundFacts
<1>6. PICK base \in Nat, bump \in Nat, capacity \in Nat :
        /\ base = a.chunks[c].base /\ bump = a.chunks[c].bump
        /\ capacity = a.chunks[c].capacity
        /\ bump <= capacity /\ capacity < Span
        /\ base + Span <= (Len(a.chunks) + 1) * Span
  <2>1. Laid(a)
    BY <1>3 DEF Sound
  <2>2. /\ a.chunks[c].base \in Nat /\ a.chunks[c].bump \in Nat
        /\ a.chunks[c].capacity \in Nat /\ a.chunks[c].capacity < Span
    <3>1. PICK k \in 0 .. SizeLimit - 1 : k = a.chunks[c].capacity
      BY <1>3, ArenaFacts
    <3>2. k \in Nat /\ k < Span
      BY ConstantFacts
    <3>3. a.chunks[c].base \in Nat /\ a.chunks[c].bump \in Nat
      BY <1>3, ArenaFacts
    <3> QED
      BY <3>1, <3>2, <3>3
  <2>3. /\ a.chunks[c].bump <= a.chunks[c].capacity
        /\ a.chunks[c].base + Span <= (Len(a.chunks) + 1) * Span
    BY <2>1 DEF Laid
  <2> QED
    BY <2>2, <2>3
<1>7. b + s <= base + bump
  BY <1>2, <1>5, <1>6 DEF Inside, EndOf
<1>8. /\ (Len(a.chunks) + 1) * Span <= (MaxChunks + 1) * Span
      /\ (Len(a.chunks) + 1) * Span \in Nat /\ (MaxChunks + 1) * Span \in Nat
  <2>1. Len(a.chunks) \in Nat /\ Len(a.chunks) <= MaxChunks
    BY <1>3, ArenaFacts DEF Sound, Laid
  <2>2. Len(a.chunks) + 1 \in Nat /\ MaxChunks + 1 \in Nat /\ Span \in Nat
        /\ Len(a.chunks) + 1 <= MaxChunks + 1
    BY <2>1, ConstantFacts
  <2> QED
    BY <2>2, TimesMonotone
<1>9. p + held[p] <= base + Span
  <2>1. Header \in Nat /\ Span \in Nat
    BY ConstantFacts
  <2>2. PICK k \in Nat : k = held[p]
    BY <1>3
  <2>3. p = b + Header /\ s >= Header + k /\ b \in Nat /\ p \in Nat
    BY <1>3, <2>2
  <2>4. bump < Span
    BY <1>6, <2>1
  <2>5. p + k <= b + s
    BY <2>1, <2>3
  <2>6. p + k <= base + Span
    BY <1>7, <2>1, <2>3, <2>4, <2>5
  <2> QED
    BY <2>2, <2>6
<1> QED
  <2>1. Span \in Nat
    BY ConstantFacts
  <2> QED
    BY <1>3, <1>4, <1>6, <1>8, <1>9, <2>1, SMTT(30)

\* Two allocations share no byte.
LEMMA HeldApart ==
  ASSUME NEW a, NEW held, Serves(a, held), NEW p \in DOMAIN held,
         NEW q \in DOMAIN held, p # q
  PROVE  p + held[p] <= q \/ q + held[q] <= p
<1>1. PICK b \in Nat, v \in Nat :
        /\ b = p - Header /\ v = SizeOf(a, b) /\ v >= Header + held[p]
        /\ b \in Blocks(DOMAIN held) /\ p = b + Header /\ held[p] \in Nat
  BY HeldFacts, ConstantFacts DEF PointerTo
<1>2. PICK d \in Nat, w \in Nat :
        /\ d = q - Header /\ w = SizeOf(a, d) /\ w >= Header + held[q]
        /\ d \in Blocks(DOMAIN held) /\ q = d + Header /\ held[q] \in Nat
  BY HeldFacts, ConstantFacts DEF PointerTo
<1>3. b # d
  BY <1>1, <1>2
<1>4. b + v <= d \/ d + w <= b
  <2>1. Apart(a, Blocks(DOMAIN held) \cup FreeOf(a))
    BY DEF Serves, Sound
  <2> QED
    BY <1>1, <1>2, <1>3, <2>1 DEF Apart, EndOf
<1>5. Header \in Nat
  BY ConstantFacts
<1> QED
  BY <1>1, <1>2, <1>4, <1>5

\* What is added to the allocations was free for them.
LEMMA AddedIsGranted ==
  ASSUME NEW old, NEW p, NEW size,
         live' = With(old, p, size), Serves(this', live'),
         ret'.result = p, p \notin DOMAIN old
  PROVE  Contract!Granted(old)
<1>1. /\ DOMAIN live' = DOMAIN old \cup {p}
      /\ live'[p] = size
      /\ \A q \in DOMAIN old : live'[q] = old[q]
  BY DEF With
<1>2. /\ p \in Nat /\ live'[p] \in Nat /\ p % Alignment = 0
      /\ p + live'[p] <= (MaxChunks + 1) * Span
  BY <1>1, HeldPlaced
<1>3. ASSUME NEW q \in DOMAIN old
      PROVE  p + live'[p] <= q \/ q + old[q] <= p
  <2>1. q \in DOMAIN live' /\ p \in DOMAIN live' /\ p # q /\ live'[q] = old[q]
    BY <1>1
  <2>2. p + live'[p] <= q \/ q + live'[q] <= p
    BY <2>1, HeldApart
  <2> QED
    BY <2>1, <2>2
<1>4. Contract!IsFree(p, live'[p], old)
  BY <1>2, <1>3 DEF Contract!IsFree
<1> QED
  BY <1>1, <1>4 DEF Contract!Granted

\* A call that fails leaves what is held alone.
LEMMA FailKeepsContract ==
  ASSUME NEW op \in {"allocate", "deallocate", "reallocate"},
         ret'.op = op, ret'.status # "SUCCESS", UNCHANGED live
  PROVE  Contract!Next
BY DEF Contract!Next, Contract!Allocate, Contract!Deallocate,
       Contract!Reallocate, Contract!Succeeded

\* A reallocation grants the block anew to those that hold the others.
LEMMA ReallocationKeepsContract ==
  ASSUME Inv, NEW p \in DOMAIN live, NEW q, NEW size,
         q \notin DOMAIN live \/ q = p,
         live' = With(Without(live, p), q, size), Serves(this', live'),
         ret'.op = "reallocate", ret'.status = "SUCCESS",
         ret'.arg = p, ret'.result = q
  PROVE  Contract!Next
<1>1. Contract!Without(live, p) = Without(live, p)
  BY DEF Contract!Without, Without
<1>2. q \notin DOMAIN Without(live, p)
  BY DEF Without
<1>3. Contract!Granted(Without(live, p))
  BY <1>2, AddedIsGranted
<1> QED
  BY <1>1, <1>3 DEF Contract!Next, Contract!Reallocate, Contract!Succeeded

LEMMA NextKeepsContract ==
  ASSUME Inv, Next
  PROVE  Contract!Next
<1>1. ASSUME NEW op \in {"allocate", "deallocate", "reallocate"}, NEW p,
             Failing(op, p)
      PROVE  Contract!Next
  <2>1. ret'.op = op /\ ret'.status # "SUCCESS" /\ UNCHANGED live
    BY <1>1, StatusTypes DEF Failing, Answer
  <2> QED
    BY <2>1, FailKeepsContract
<1>2. ASSUME NEW size \in Sizes, Allocate(size) PROVE Contract!Next
  <2>1. ASSUME NEW p \in Nat \ DOMAIN live, live' = With(live, p, size),
               Serves(this', live'),
               ret' = Answer("allocate", Null, "SUCCESS", p, 0)
        PROVE  Contract!Next
    <3>1. ret'.op = "allocate" /\ ret'.status = "SUCCESS" /\ ret'.result = p
      BY <2>1 DEF Answer
    <3>2. Contract!Granted(live)
      BY <2>1, <3>1, AddedIsGranted
    <3> QED
      BY <3>1, <3>2 DEF Contract!Next, Contract!Allocate, Contract!Succeeded
  <2> QED
    BY <1>1, <1>2, <2>1, AllocateStep
<1>3. ASSUME NEW p \in Arguments, Deallocate(p) PROVE Contract!Next
  <2>1. /\ p \in DOMAIN live /\ live' = Without(live, p)
        /\ ret'.op = "deallocate" /\ ret'.status = "SUCCESS" /\ ret'.arg = p
    BY <1>3, DeallocateStep DEF Answer
  <2>2. live' = Contract!Without(live, p)
    BY <2>1 DEF Without, Contract!Without
  <2> QED
    BY <2>1, <2>2 DEF Contract!Next, Contract!Deallocate, Contract!Succeeded
<1>4. ASSUME NEW op \in {"deallocate", "reallocate"}, NEW p, Reject(op, p)
      PROVE  Contract!Next
  <2>1. ret'.op = op /\ ret'.status # "SUCCESS" /\ UNCHANGED live
    BY <1>4 DEF Reject, Unchanged, Answer
  <2> QED
    BY <2>1, FailKeepsContract
<1>5. ASSUME NEW p, NEW size, ReallocateRefused(p, size) PROVE Contract!Next
  <2>1. ret'.op = "reallocate" /\ ret'.status # "SUCCESS" /\ UNCHANGED live
    BY <1>5 DEF ReallocateRefused, Unchanged, Answer
  <2> QED
    BY <2>1, FailKeepsContract
<1>6. ASSUME NEW p \in Arguments, NEW size \in Sizes,
             ReallocateSame(p, size) \/ ReallocateInPlace(p, size)
      PROVE  Contract!Next
  <2>1. /\ p \in DOMAIN live /\ live' = With(live, p, size)
        /\ Serves(this', live')
        /\ ret' = Answer("reallocate", p, "SUCCESS", p, 0)
    BY <1>6, ReallocateSameStep, ReallocateInPlaceStep
  <2>2. With(live, p, size) = With(Without(live, p), p, size)
    BY <2>1 DEF With, Without
  <2>3. /\ ret'.op = "reallocate" /\ ret'.status = "SUCCESS"
        /\ ret'.arg = p /\ ret'.result = p
    BY <2>1 DEF Answer
  <2> QED
    BY <2>1, <2>2, <2>3, ReallocationKeepsContract
<1>7. ASSUME NEW p \in Arguments, NEW size \in Sizes, ReallocateMove(p, size)
      PROVE  Contract!Next
  <2>1. p \in DOMAIN live
    BY <1>7, ReallocateMoveStep
  <2>2. ASSUME NEW q \in Nat \ DOMAIN live,
               live' = With(Without(live, p), q, size), Serves(this', live'),
               ret' = Answer("reallocate", p, "SUCCESS", q,
                             CopiedBytes(p, size))
        PROVE  Contract!Next
    <3>1. /\ ret'.op = "reallocate" /\ ret'.status = "SUCCESS"
          /\ ret'.arg = p /\ ret'.result = q
      BY <2>2 DEF Answer
    <3> QED
      BY <2>1, <2>2, <3>1, ReallocationKeepsContract
  <2> QED
    BY <1>1, <1>7, <2>2, ReallocateMoveStep
<1>8. ASSUME NEW op \in {"clear", "release", "destroy"},
             live' = << >>, ret'.op = op
      PROVE  Contract!Next
  BY <1>8 DEF Contract!Next, Contract!ReleaseMany, Contract!ManyOps
<1>9. CASE Clear
  <2>1. live' = << >> /\ ret'.op = "clear"
    BY <1>9 DEF Clear, Answer
  <2> QED
    BY <1>8, <2>1
<1>10. ASSUME NEW op \in {"release", "destroy"}, Release(op)
       PROVE  Contract!Next
  <2>1. live' = << >> /\ ret'.op = op
    BY <1>10 DEF Release, Answer
  <2> QED
    BY <1>8, <2>1
<1> QED
  BY <1>2, <1>3, <1>4, <1>5, <1>6, <1>7, <1>9, <1>10 DEF Next, Arguments

\* The arena allocator does what AllocatorContract promises: whatever is
\* carved, merged, grown or moved, what it hands out is aligned, inside its
\* chunks and apart from all that is held, and no call disturbs another's
\* allocation.
THEOREM ArenaKeepsContract == Spec => KeepsContract
<1>1. Init => Contract!Init
  BY DEF Init, Contract!Init
<1>2. Inv /\ [Next]_vars => [Contract!Next]_<< live, ret >>
  BY NextKeepsContract DEF vars
<1> QED
  BY <1>1, <1>2, SpecInv, PTL DEF Spec, KeepsContract, Contract!Spec
=============================================================================
