------------------------ MODULE DefragmentLoop_proofs ------------------------
(***************************************************************************)
(* Defragmentation, for arrays of every length, blocks of every size and   *)
(* in every order.                                                         *)
(*                                                                         *)
(* The inductive invariant says, loop by loop, what the entries that count *)
(* are, that they cover the memory passed and lie apart, how far they are  *)
(* sorted, and that only the last entry can be empty, which stays last     *)
(* because its block is the leftmost.                                      *)
(***************************************************************************)
EXTENDS DefragmentLoop, FiniteSetTheorems, SequenceTheorems, TLAPS

\* An entry of the array.
Cell == [offset : Nat, size : Nat, state : BlockState]

Indices(b) == 1 .. Len(b)

\* The entries that are not merged.
Unmerged(b) == {i \in Indices(b) : b[i].state # "MERGED"}

\* The entries that count while the kept ones move to the front: w - 1 have
\* moved, and those from r on have not been looked at.
Moving(b, w, r) == {i \in Unmerged(b) : i < w \/ i >= r}

\* The entries at the indices in S hold all that was passed, once.
Exact(b, S, in) ==
  /\ Apart(b, S)
  /\ Covered(b, S) = Covered(in, Indices(in))

\* Those below p are at their place.
Falling(b, S, p) ==
  \A i, j \in S : i < p /\ i < j => b[i].offset >= EndOf(b[j])

\* Only the last entry may be empty, and while it counts it is the leftmost.
FirstBlockLast(b) ==
  /\ \A i \in 1 .. Len(b) - 1 : b[i].size > 0
  /\ Len(b) \in Unmerged(b) =>
       \A i \in Unmerged(b) : b[Len(b)].offset <= b[i].offset

\* No entry is empty, and none lies to the left of all that count.
Lowest(b, S) ==
  /\ NonEmpty(b)
  /\ \E j \in S : \A i \in Indices(b) : b[j].offset <= b[i].offset

\* The array while the first loop has sorted the entries below p.
Sorting(b, p, merged, in) ==
  /\ Exact(b, Unmerged(b), in)
  /\ Falling(b, Unmerged(b), p)
  /\ FirstBlockLast(b)
  /\ merged = Len(in) - Cardinality(Unmerged(b))
  /\ NonEmpty(in) => Lowest(b, Unmerged(b))

Positioned(l, in) ==
  /\ l.count = Len(in)
  /\ l.pos \in 1 .. Len(in)
  /\ Sorting(l.blocks, l.pos, l.merged, in)

Scanned(l, in) ==
  /\ l.count = Len(in)
  /\ l.pos \in 1 .. Len(in) - 1
  /\ l.other \in l.pos + 1 .. Len(in) + 1
  /\ l.pos \in Unmerged(l.blocks)
  /\ Sorting(l.blocks, l.pos, l.merged, in)
  /\ \A j \in Unmerged(l.blocks) :
       l.pos < j /\ j < l.other =>
         l.blocks[l.pos].offset >= EndOf(l.blocks[j])

\* The array while the kept entries move to the front.
Compacting(b, w, r, merged, in) ==
  /\ \A i \in 1 .. w - 1 : b[i].state # "MERGED"
  /\ Exact(b, Moving(b, w, r), in)
  /\ Falling(b, Moving(b, w, r), Len(in))
  /\ merged = Len(in) - Cardinality(Moving(b, w, r))
  /\ NonEmpty(in) => Lowest(b, Moving(b, w, r))

Compacted(l, in) ==
  /\ l.count = Len(in)
  /\ l.merged > 0
  /\ l.pos \in 1 .. l.other
  /\ l.other \in 1 .. Len(in) + 1
  /\ Compacting(l.blocks, l.pos, l.other, l.merged, in)

\* The first k entries are what was passed, the leftmost of them the last.
ExactUpTo(b, k, in) ==
  /\ k \in 1 .. Len(in)
  /\ Exact(b, 1 .. k, in)
  /\ \A i \in 1 .. k : b[k].offset <= b[i].offset

Small(in) == Len(in) <= 3 /\ NonEmpty(in)

Merging(l, in) ==
  /\ l.count \in 1 .. Len(in) - 1
  /\ l.pos \in 0 .. l.count
  /\ Small(in) =>
       IF l.pos = 0
       THEN ExactUpTo(l.blocks, Len(in) - l.merged, in)
       ELSE /\ l.count <= 2
            /\ l.merged = Len(in) - l.count
            /\ ExactUpTo(l.blocks, l.count, in)
            /\ NonEmpty(l.blocks)
            /\ \A i \in Indices(in) :
                 l.blocks[l.count].offset <= l.blocks[i].offset

Finished(l, in) == Small(in) => ExactUpTo(l.blocks, Len(in) - l.merged, in)

\* What holds of the local variables, started on `in', in every phase.
Runs(l, in) ==
  /\ l \in Locals
  /\ l.blocks \in Seq(Cell)
  /\ Len(l.blocks) = Len(in)
  /\ l.phase = "position" => Positioned(l, in)
  /\ l.phase = "scan" => Scanned(l, in)
  /\ l.phase = "compact" => Compacted(l, in)
  /\ l.phase = "merge" => Merging(l, in)
  /\ l.phase = "done" => Finished(l, in)

\* What Init hands over.
Passed(in) ==
  /\ in \in Seq(Cell)
  /\ Len(in) >= 2
  /\ in[1].size > 0

Inv == Passed(input) /\ Runs(locals, input)

-----------------------------------------------------------------------------
(***************************************************************************)
(* Arrays                                                                  *)
(***************************************************************************)

LEMMA CellType ==
  ASSUME NEW b \in Seq(Cell)
  PROVE  /\ Len(b) \in Nat
         /\ \A i \in Indices(b) :
              /\ b[i] \in Cell
              /\ b[i].offset \in Nat /\ b[i].size \in Nat
              /\ EndOf(b[i]) \in Nat
              /\ EndOf(b[i]) = b[i].offset + b[i].size
<1>1. Len(b) \in Nat /\ \A i \in Indices(b) : b[i] \in Cell
  BY LenProperties, ElementOfSeq DEF Indices
<1> QED
  BY <1>1 DEF Cell, EndOf

\* An entry is written.
LEMMA EntrySet ==
  ASSUME NEW b \in Seq(Cell), NEW i \in Indices(b), NEW e \in Cell
  PROVE  /\ [b EXCEPT ![i] = e] \in Seq(Cell)
         /\ Len([b EXCEPT ![i] = e]) = Len(b)
         /\ \A k \in Indices(b) :
              [b EXCEPT ![i] = e][k] = IF k = i THEN e ELSE b[k]
  BY ExceptSeq DEF Indices

\* What an array covers, address by address.
LEMMA CoveredAddress ==
  ASSUME NEW b \in Seq(Cell), NEW S \in SUBSET Indices(b), NEW x
  PROVE  x \in Covered(b, S) <=>
           /\ x \in Int
           /\ \E i \in S : b[i].offset <= x /\ x < EndOf(b[i])
<1>1. x \in Covered(b, S) <=> \E i \in S : x \in Bytes(b[i])
  BY DEF Covered
<1>2. \A i \in S : /\ b[i].offset \in Int /\ EndOf(b[i]) \in Int
  BY CellType
<1>3. \A i \in S :
        x \in Bytes(b[i]) <=>
          x \in Int /\ b[i].offset <= x /\ x < EndOf(b[i])
  BY <1>2 DEF Bytes
<1> QED
  BY <1>1, <1>3

\* Entries apart share no address.
LEMMA ApartDisjoint ==
  ASSUME NEW b \in Seq(Cell), NEW S \in SUBSET Indices(b), Apart(b, S),
         NEW i \in S, NEW j \in S, i # j
  PROVE  Bytes(b[i]) \cap Bytes(b[j]) = {}
<1>1. /\ b[i].offset \in Int /\ EndOf(b[i]) \in Int
      /\ b[j].offset \in Int /\ EndOf(b[j]) \in Int
  BY CellType
<1>2. EndOf(b[i]) <= b[j].offset \/ EndOf(b[j]) <= b[i].offset
  BY DEF Apart
<1> QED
  BY <1>1, <1>2 DEF Bytes

\* An entry that holds memory and starts no lower than another one apart from
\* it starts where the other has ended.
LEMMA HigherIsBehind ==
  ASSUME NEW b \in Seq(Cell), NEW S \in SUBSET Indices(b), Apart(b, S),
         NEW i \in S, NEW j \in S, i # j,
         b[i].size > 0, b[j].offset <= b[i].offset
  PROVE  EndOf(b[j]) <= b[i].offset
<1>1. /\ b[i].offset \in Int /\ b[i].size \in Int
      /\ EndOf(b[i]) = b[i].offset + b[i].size
      /\ b[j].offset \in Int
  BY CellType
<1>2. EndOf(b[i]) <= b[j].offset \/ EndOf(b[j]) <= b[i].offset
  BY DEF Apart
<1> QED
  BY <1>1, <1>2

LEMMA UpToFinite ==
  ASSUME NEW n \in Nat
  PROVE  IsFiniteSet(1 .. n) /\ Cardinality(1 .. n) = n
<1>1. /\ IsFiniteSet(1 .. n)
      /\ Cardinality(1 .. n) = IF 1 > n THEN 0 ELSE n - 1 + 1
  BY FS_Interval
<1> QED
  BY <1>1

LEMMA UnmergedFinite ==
  ASSUME NEW b \in Seq(Cell)
  PROVE  /\ Unmerged(b) \subseteq Indices(b)
         /\ IsFiniteSet(Unmerged(b))
         /\ Cardinality(Unmerged(b)) \in 0 .. Len(b)
<1>1. IsFiniteSet(Indices(b)) /\ Cardinality(Indices(b)) = Len(b)
  BY LenProperties, UpToFinite DEF Indices
<1>2. Unmerged(b) \subseteq Indices(b)
  BY DEF Unmerged
<1> QED
  BY <1>1, <1>2, FS_Subset, FS_CardinalityType

-----------------------------------------------------------------------------
(***************************************************************************)
(* A swap                                                                  *)
(***************************************************************************)

LEMMA ExchangeSorting ==
  ASSUME NEW b \in Seq(Cell), NEW in, NEW merged,
         NEW i \in Unmerged(b), NEW j \in Unmerged(b), i < j,
         b[j].offset > b[i].offset,
         Sorting(b, i, merged, in)
  PROVE  /\ Exchange(b, i, j) \in Seq(Cell)
         /\ Len(Exchange(b, i, j)) = Len(b)
         /\ i \in Unmerged(Exchange(b, i, j))
         /\ Sorting(Exchange(b, i, j), i, merged, in)
<1> DEFINE U == Unmerged(b)
<1>1. U \subseteq Indices(b) /\ i \in Indices(b) /\ j \in Indices(b) /\ i # j
      /\ Len(b) \in Nat /\ Indices(b) = 1 .. Len(b)
  BY CellType DEF Unmerged, Indices
<1>2. PICK c : c = Exchange(b, i, j)
  OBVIOUS
<1>3. /\ c \in Seq(Cell) /\ Len(c) = Len(b) /\ Indices(c) = Indices(b)
      /\ c[i] = b[j] /\ c[j] = b[i]
      /\ \A k \in Indices(b) : k # i /\ k # j => c[k] = b[k]
  <2> DEFINE a == [b EXCEPT ![i] = b[j]]
  <2>1. /\ a \in Seq(Cell) /\ Len(a) = Len(b)
        /\ \A k \in Indices(b) : a[k] = IF k = i THEN b[j] ELSE b[k]
    BY <1>1, EntrySet, CellType
  <2>2. Indices(a) = Indices(b)
    BY <2>1 DEF Indices
  <2>3. /\ [a EXCEPT ![j] = b[i]] \in Seq(Cell)
        /\ Len([a EXCEPT ![j] = b[i]]) = Len(a)
        /\ \A k \in Indices(a) :
             [a EXCEPT ![j] = b[i]][k] = IF k = j THEN b[i] ELSE a[k]
    BY <1>1, <2>1, <2>2, EntrySet, CellType
  <2>4. c = [a EXCEPT ![j] = b[i]]
    BY <1>2 DEF Exchange
  <2> HIDE DEF a
  <2> QED
    BY <1>1, <2>1, <2>2, <2>3, <2>4 DEF Indices
<1>4. Unmerged(c) = U
  BY <1>1, <1>3 DEF Unmerged
<1>5. /\ Apart(b, U) /\ Covered(b, U) = Covered(in, Indices(in))
      /\ Falling(b, U, i) /\ FirstBlockLast(b)
      /\ merged = Len(in) - Cardinality(U)
      /\ NonEmpty(in) => Lowest(b, U)
  BY DEF Sorting, Exact
<1> HIDE DEF U
<1>6. Apart(c, U)
  <2> SUFFICES ASSUME NEW k \in U, NEW m \in U, k # m
               PROVE  \/ EndOf(c[k]) <= c[m].offset
                      \/ EndOf(c[m]) <= c[k].offset
    BY DEF Apart
  <2>1. PICK k2 \in U, m2 \in U : k2 # m2 /\ c[k] = b[k2] /\ c[m] = b[m2]
    <3>1. PICK k2 \in U :
            /\ c[k] = b[k2]
            /\ k2 = IF k = i THEN j ELSE IF k = j THEN i ELSE k
      BY <1>1, <1>3 DEF U
    <3>2. PICK m2 \in U :
            /\ c[m] = b[m2]
            /\ m2 = IF m = i THEN j ELSE IF m = j THEN i ELSE m
      BY <1>1, <1>3 DEF U
    <3> QED
      BY <3>1, <3>2
  <2> QED
    BY <1>5, <2>1 DEF Apart
<1>7. Covered(c, U) = Covered(b, U)
  <2>1. ASSUME NEW k \in U
        PROVE  /\ \E m \in U : c[k] = b[m]
               /\ \E m \in U : b[k] = c[m]
    BY <1>1, <1>3 DEF U
  <2> QED
    BY <2>1 DEF Covered
<1>8. Falling(c, U, i)
  <2> SUFFICES ASSUME NEW k \in U, NEW m \in U, k < i, k < m
               PROVE  c[k].offset >= EndOf(c[m])
    BY DEF Falling
  <2>1. c[k] = b[k] /\ k < j
    BY <1>1, <1>3
  <2>2. PICK m2 \in U : c[m] = b[m2] /\ k < m2
    BY <1>1, <1>3, <2>1 DEF U
  <2> QED
    BY <1>5, <2>1, <2>2 DEF Falling
<1>9. FirstBlockLast(c)
  <2>1. j # Len(b)
    <3>1. b[i].offset \in Int /\ b[j].offset \in Int
      BY <1>1, CellType
    <3> QED
      BY <1>5, <3>1 DEF FirstBlockLast, U
  <2>2. i \in 1 .. Len(b) - 1 /\ j \in 1 .. Len(b) - 1
    BY <1>1, <2>1
  <2>3. ASSUME NEW k \in 1 .. Len(b) - 1
        PROVE  c[k].size > 0
    <3>1. k \in Indices(b)
      BY <1>1
    <3> QED
      BY <1>3, <1>5, <2>2, <3>1 DEF FirstBlockLast
  <2>4. ASSUME Len(b) \in U, NEW k \in U
        PROVE  c[Len(b)].offset <= c[k].offset
    <3>1. c[Len(b)] = b[Len(b)]
      BY <1>1, <1>3, <2>2, <2>4
    <3>2. \E m \in U : c[k] = b[m]
      BY <1>1, <1>3 DEF U
    <3> QED
      BY <1>5, <2>4, <3>1, <3>2 DEF FirstBlockLast, U
  <2> QED
    BY <1>3, <1>4, <2>3, <2>4 DEF FirstBlockLast
<1>10. ASSUME NonEmpty(in)
       PROVE  Lowest(c, U)
  <2>1. NonEmpty(b) /\ \E m \in U : \A k \in Indices(b) :
                         b[m].offset <= b[k].offset
    BY <1>5, <1>10 DEF Lowest
  <2>2. ASSUME NEW k \in Indices(b)
        PROVE  \E m \in Indices(b) : c[k] = b[m]
    BY <1>1, <1>3
  <2>3. NonEmpty(c)
    BY <1>3, <2>1, <2>2 DEF NonEmpty, Indices
  <2>4. ASSUME NEW m \in U
        PROVE  \E k \in U : c[k] = b[m]
    BY <1>1, <1>3 DEF U
  <2>5. PICK m \in U : \A k \in Indices(b) : b[m].offset <= b[k].offset
    BY <2>1
  <2>6. PICK k \in U : c[k] = b[m]
    BY <2>4
  <2>7. \A k2 \in Indices(b) : c[k].offset <= c[k2].offset
    BY <2>2, <2>5, <2>6
  <2> QED
    BY <1>3, <2>3, <2>7 DEF Lowest
<1>11. Sorting(c, i, merged, in)
  BY <1>4, <1>5, <1>6, <1>7, <1>8, <1>9, <1>10 DEF Sorting, Exact
<1> QED
  BY <1>2, <1>3, <1>4, <1>11 DEF U

-----------------------------------------------------------------------------
(***************************************************************************)
(* A merge                                                                 *)
(***************************************************************************)

\* What Swallow writes.
LEMMA SwallowEntries ==
  ASSUME NEW b \in Seq(Cell),
         NEW i \in Indices(b), NEW j \in Indices(b), i # j,
         EndOf(b[j]) = b[i].offset
  PROVE  /\ Swallow(b, i, j) \in Seq(Cell)
         /\ Len(Swallow(b, i, j)) = Len(b)
         /\ Swallow(b, i, j)[i].offset = b[j].offset
         /\ Swallow(b, i, j)[i].size = b[i].size + b[j].size
         /\ Swallow(b, i, j)[i].state = b[i].state
         /\ EndOf(Swallow(b, i, j)[i]) = EndOf(b[i])
         /\ Swallow(b, i, j)[j].offset = b[j].offset
         /\ Swallow(b, i, j)[j].size = b[j].size
         /\ Swallow(b, i, j)[j].state = "MERGED"
         /\ \A k \in Indices(b) :
              k # i /\ k # j => Swallow(b, i, j)[k] = b[k]
<1> DEFINE e == [offset |-> b[j].offset, size |-> b[i].size + b[j].size,
                 state |-> b[i].state]
           f == [offset |-> b[j].offset, size |-> b[j].size,
                 state |-> "MERGED"]
           a == [b EXCEPT ![i] = e]
<1>1. b[i] \in Cell /\ b[j] \in Cell
  BY CellType
<1>2. e \in Cell /\ f \in Cell
  BY <1>1 DEF Cell, BlockState
<1>3. Swallow(b, i, j) = [a EXCEPT ![j] = f]
  <2> DEFINE g == Swallow(b, i, j)
  <2>1. DOMAIN b = Indices(b)
    BY LenProperties DEF Indices
  <2>2. /\ DOMAIN g = Indices(b)
        /\ \A k \in Indices(b) : k # i /\ k # j => g[k] = b[k]
    BY <2>1 DEF Swallow
  <2>3. g[i] = e
    <3>1. g[i] = [[b[i] EXCEPT !.offset = b[j].offset] EXCEPT
                    !.size = b[i].size + b[j].size]
      BY <2>1 DEF Swallow
    <3> HIDE DEF g
    <3> QED
      BY <1>1, <3>1 DEF Cell
  <2>4. g[j] = f
    <3>1. g[j] = [b[j] EXCEPT !.state = "MERGED"]
      BY <2>1 DEF Swallow
    <3> HIDE DEF g
    <3> QED
      BY <1>1, <3>1 DEF Cell
  <2>5. g = [k \in Indices(b) |-> IF k = j THEN f ELSE IF k = i THEN e ELSE b[k]]
    <3>1. g = [k \in Indices(b) |-> g[k]]
      BY <2>1 DEF Swallow
    <3> HIDE DEF g, e, f
    <3> QED
      BY <2>2, <2>3, <2>4, <3>1
  <2> HIDE DEF e, f, g
  <2>6. [a EXCEPT ![j] = f] =
          [k \in Indices(b) |-> IF k = j THEN f ELSE IF k = i THEN e ELSE b[k]]
    BY <2>1
  <2> QED
    BY <2>5, <2>6 DEF g
<1>4. EndOf(e) = EndOf(b[i])
  BY <1>1 DEF EndOf, Cell
<1> HIDE DEF e, f
<1>5. /\ a \in Seq(Cell) /\ Len(a) = Len(b)
      /\ \A k \in Indices(b) : a[k] = IF k = i THEN e ELSE b[k]
  BY <1>2, EntrySet
<1>6. j \in Indices(a) /\ Indices(a) = Indices(b)
  BY <1>5 DEF Indices
<1> HIDE DEF a
<1>7. /\ [a EXCEPT ![j] = f] \in Seq(Cell)
      /\ Len([a EXCEPT ![j] = f]) = Len(a)
      /\ \A k \in Indices(a) :
           [a EXCEPT ![j] = f][k] = IF k = j THEN f ELSE a[k]
  BY <1>2, <1>5, <1>6, EntrySet
<1>8. PICK c : c = [a EXCEPT ![j] = f]
  OBVIOUS
<1>9. /\ c \in Seq(Cell) /\ Len(c) = Len(b) /\ c[i] = e /\ c[j] = f
      /\ \A k \in Indices(b) : k # i /\ k # j => c[k] = b[k]
  BY <1>5, <1>6, <1>7, <1>8
<1> QED
  BY <1>3, <1>4, <1>8, <1>9 DEF e, f

LEMMA OneLeft ==
  ASSUME NEW n \in Nat, NEW k \in Int, k = n - 2
  PROVE  n - (k + 1) = 1
<1> DEFINE j == k + 1
<1>1. j \in Int /\ j = n - 1
  OBVIOUS
<1> HIDE DEF j
<1>2. n - j = 1
  BY <1>1
<1> QED
  BY <1>2 DEF j

LEMMA SumOrder ==
  ASSUME NEW x \in Nat, NEW y \in Nat, NEW z \in Nat
  PROVE  (y + z) + x = y + (x + z)
  OBVIOUS

LEMMA AddsMore ==
  ASSUME NEW x \in Nat, NEW y \in Nat, y > 0
  PROVE  ~(x + y <= x)
  OBVIOUS

LEMMA EndsBehind ==
  ASSUME NEW p \in Nat, NEW q \in Nat, NEW m \in Nat, NEW n \in Nat,
         p >= m + n, q > 0
  PROVE  ~(p + q <= m)
  OBVIOUS

LEMMA SwallowSorting ==
  ASSUME NEW b \in Seq(Cell), NEW in, NEW merged \in Nat, Len(in) \in Nat,
         NEW i \in Unmerged(b), NEW j \in Unmerged(b), i < j,
         EndOf(b[j]) = b[i].offset,
         Sorting(b, i, merged, in)
  PROVE  /\ Swallow(b, i, j) \in Seq(Cell)
         /\ Len(Swallow(b, i, j)) = Len(b)
         /\ i \in Unmerged(Swallow(b, i, j))
         /\ Sorting(Swallow(b, i, j), i, merged + 1, in)
         /\ Unmerged(Swallow(b, i, j)) = Unmerged(b) \ {j}
         /\ \A k \in Unmerged(b) \ {j} :
              i < k /\ b[i].offset >= EndOf(b[k]) =>
                Swallow(b, i, j)[i].offset >= EndOf(Swallow(b, i, j)[k])
<1> DEFINE U == Unmerged(b)
<1>1. U \subseteq Indices(b) /\ i \in Indices(b) /\ j \in Indices(b) /\ i # j
      /\ Len(b) \in Nat /\ Indices(b) = 1 .. Len(b)
      /\ i \in 1 .. Len(b) - 1
  BY CellType DEF Unmerged, Indices
<1>2. PICK c : c = Swallow(b, i, j)
  OBVIOUS
<1>3. /\ c \in Seq(Cell) /\ Len(c) = Len(b) /\ Indices(c) = Indices(b)
      /\ c[i].offset = b[j].offset
      /\ c[i].size = b[i].size + b[j].size
      /\ c[i].state = b[i].state
      /\ EndOf(c[i]) = EndOf(b[i])
      /\ c[j].offset = b[j].offset /\ c[j].size = b[j].size
      /\ c[j].state = "MERGED"
      /\ \A k \in Indices(b) : k # i /\ k # j => c[k] = b[k]
  BY <1>1, <1>2, SwallowEntries DEF Indices
<1>4. Unmerged(c) = U \ {j}
  BY <1>1, <1>3 DEF Unmerged
<1>5. /\ Apart(b, U) /\ Covered(b, U) = Covered(in, Indices(in))
      /\ Falling(b, U, i) /\ FirstBlockLast(b)
      /\ merged = Len(in) - Cardinality(U)
      /\ NonEmpty(in) => Lowest(b, U)
  BY DEF Sorting, Exact
<1>6. IsFiniteSet(U) /\ Cardinality(U) \in Nat
  BY UnmergedFinite, <1>1
<1>7. i \in U /\ j \in U /\ i \in U \ {j}
  BY <1>1
<1> HIDE DEF U
<1>8. Cardinality(U \ {j}) = Cardinality(U) - 1
  BY <1>6, <1>7, FS_RemoveElement
<1>9. /\ b[i].offset \in Nat /\ b[i].size \in Nat
      /\ b[j].offset \in Nat /\ b[j].size \in Nat
      /\ EndOf(b[i]) = b[i].offset + b[i].size
      /\ EndOf(b[j]) = b[j].offset + b[j].size
      /\ b[i].size > 0
  BY <1>1, <1>5, CellType DEF FirstBlockLast
<1>10. ASSUME NEW k \in U \ {i, j}
       PROVE  \/ EndOf(c[i]) <= c[k].offset
              \/ EndOf(c[k]) <= c[i].offset
  <2>1. /\ b[k].offset \in Nat /\ b[k].size \in Nat /\ c[k] = b[k]
        /\ EndOf(b[k]) = b[k].offset + b[k].size
    BY <1>1, <1>3, CellType
  <2>2. \/ EndOf(b[i]) <= b[k].offset
        \/ EndOf(b[k]) <= b[i].offset
    BY <1>5, <1>7 DEF Apart
  <2>3. \/ EndOf(b[j]) <= b[k].offset
        \/ EndOf(b[k]) <= b[j].offset
    BY <1>5, <1>7 DEF Apart
  <2>4. b[k].size = 0 => b[k].offset <= b[j].offset /\ b[j].size > 0
    <3>1. SUFFICES ASSUME b[k].size = 0
                   PROVE  b[k].offset <= b[j].offset /\ b[j].size > 0
      OBVIOUS
    <3>2. k \in Indices(b)
      BY <1>1
    <3>3. k = Len(b)
      BY <1>1, <1>5, <3>1, <3>2 DEF FirstBlockLast
    <3>4. j \in 1 .. Len(b) - 1
      BY <1>1, <3>3
    <3> QED
      BY <1>5, <1>7, <3>3, <3>4 DEF FirstBlockLast, U
  <2> QED
    BY <1>3, <1>9, <2>1, <2>2, <2>3, <2>4, SMTT(30)
<1>11. Apart(c, U \ {j})
  <2> SUFFICES ASSUME NEW k \in U \ {j}, NEW m \in U \ {j}, k # m
               PROVE  \/ EndOf(c[k]) <= c[m].offset
                      \/ EndOf(c[m]) <= c[k].offset
    BY DEF Apart
  <2>1. CASE k = i \/ m = i
    BY <1>10, <2>1
  <2>2. CASE k # i /\ m # i
    BY <1>1, <1>3, <1>5, <2>2 DEF Apart
  <2> QED
    BY <2>1, <2>2
<1>12. Covered(c, U \ {j}) = Covered(b, U)
  <2>1. ASSUME NEW x \in Int
        PROVE  (b[j].offset <= x /\ x < EndOf(b[i]))
                 <=> \/ b[i].offset <= x /\ x < EndOf(b[i])
                     \/ b[j].offset <= x /\ x < EndOf(b[j])
    <3>1. PICK p \in Nat, q \in Nat, r \in Nat :
            /\ p = b[j].offset /\ q = b[i].offset /\ r = EndOf(b[i])
            /\ p <= q /\ q <= r
      BY <1>9, SMTT(30)
    <3>2. EndOf(b[j]) = q
      BY <3>1
    <3> QED
      BY <3>1, <3>2
  <2>2. ASSUME NEW x
        PROVE  x \in Covered(c, U \ {j}) <=> x \in Covered(b, U)
    <3>1. /\ U \ {j} \in SUBSET Indices(c) /\ U \in SUBSET Indices(b)
      BY <1>1, <1>3
    <3>2. CASE x \in Int
      <4>1. (\E k \in U \ {j} : c[k].offset <= x /\ x < EndOf(c[k]))
              <=> \/ \E k \in U \ {i, j} : c[k].offset <= x /\ x < EndOf(c[k])
                  \/ c[i].offset <= x /\ x < EndOf(c[i])
        BY <1>7
      <4>2. (\E k \in U : b[k].offset <= x /\ x < EndOf(b[k]))
              <=> \/ \E k \in U \ {i, j} : b[k].offset <= x /\ x < EndOf(b[k])
                  \/ b[i].offset <= x /\ x < EndOf(b[i])
                  \/ b[j].offset <= x /\ x < EndOf(b[j])
        BY <1>7
      <4>3. \A k \in U \ {i, j} : c[k] = b[k]
        BY <1>1, <1>3
      <4> QED
        BY <1>3, <2>1, <3>1, <3>2, <4>1, <4>2, <4>3, CoveredAddress
    <3> QED
      BY <1>3, <3>1, <3>2, CoveredAddress
  <2> QED
    BY <2>2
<1>13. Falling(c, U \ {j}, i)
  <2> SUFFICES ASSUME NEW k \in U \ {j}, NEW m \in U \ {j}, k < i, k < m
               PROVE  c[k].offset >= EndOf(c[m])
    BY DEF Falling
  <2>1. c[k] = b[k] /\ EndOf(c[m]) = EndOf(b[m])
    BY <1>1, <1>3
  <2> QED
    BY <1>5, <2>1 DEF Falling
<1>14. FirstBlockLast(c)
  <2>1. ASSUME NEW k \in 1 .. Len(b) - 1
        PROVE  c[k].size > 0
    <3>1. k \in Indices(b) /\ b[k].size > 0
      BY <1>1, <1>5 DEF FirstBlockLast
    <3>2. CASE k = i
      BY <1>3, <1>9, <3>2, SMTT(30)
    <3>3. CASE k # i
      BY <1>3, <3>1, <3>3
    <3> QED
      BY <3>2, <3>3
  <2>2. ASSUME Len(b) \in U \ {j}, NEW k \in U \ {j}
        PROVE  c[Len(b)].offset <= c[k].offset
    <3>1. c[Len(b)] = b[Len(b)]
      BY <1>1, <1>3, <2>2
    <3>2. c[k].offset = b[k].offset \/ c[k].offset = b[j].offset
      BY <1>1, <1>3
    <3> QED
      BY <1>5, <1>7, <2>2, <3>1, <3>2 DEF FirstBlockLast, U
  <2> QED
    BY <1>3, <1>4, <2>1, <2>2 DEF FirstBlockLast
<1>15. ASSUME NonEmpty(in)
       PROVE  Lowest(c, U \ {j})
  <2>1. NonEmpty(b)
    BY <1>5, <1>15 DEF Lowest
  <2>2. NonEmpty(c)
    <3>1. ASSUME NEW k \in Indices(b)
          PROVE  c[k].size > 0
      BY <1>3, <1>9, <2>1, SMTT(30) DEF NonEmpty, Indices
    <3> QED
      BY <1>3, <3>1 DEF NonEmpty, Indices
  <2>3. PICK m \in U : \A k \in Indices(b) : b[m].offset <= b[k].offset
    BY <1>5, <1>15 DEF Lowest
  <2>4. PICK n \in U \ {j} : c[n].offset <= b[m].offset
    <3>1. CASE m = i \/ m = j
      <4>1. c[i].offset <= b[i].offset /\ c[i].offset <= b[j].offset
        BY <1>3, <1>9, SMTT(30)
      <4> QED
        BY <1>7, <3>1, <4>1
    <3>2. CASE m # i /\ m # j
      <4>1. c[m] = b[m] /\ b[m].offset \in Nat
        BY <1>1, <1>3, <3>2, CellType
      <4> QED
        BY <3>2, <4>1
    <3> QED
      BY <3>1, <3>2
  <2>5. \A k \in Indices(b) :
          c[k].offset = b[k].offset \/ c[k].offset = b[j].offset
    BY <1>3
  <2>6. /\ c[n].offset \in Nat /\ b[m].offset \in Nat
        /\ \A k \in Indices(b) : b[k].offset \in Nat
    BY <1>1, <1>3, CellType
  <2>7. ASSUME NEW k \in Indices(b)
        PROVE  c[n].offset <= c[k].offset
    <3>1. PICK k2 \in Indices(b) : c[k].offset = b[k2].offset
      BY <1>1, <2>5
    <3>2. b[m].offset <= b[k2].offset /\ b[k2].offset \in Nat
      BY <2>3, <2>6
    <3> QED
      BY <2>4, <2>6, <3>1, <3>2
  <2> QED
    BY <1>3, <2>2, <2>7 DEF Lowest
<1>16. Sorting(c, i, merged + 1, in)
  <2>1. merged + 1 = Len(in) - Cardinality(U \ {j})
    BY <1>5, <1>6, <1>8
  <2> QED
    BY <1>4, <1>5, <1>11, <1>12, <1>13, <1>14, <1>15, <2>1
      DEF Sorting, Exact
<1>17. ASSUME NEW k \in U \ {j}, i < k, b[i].offset >= EndOf(b[k])
       PROVE  c[i].offset >= EndOf(c[k])
  <2>1. k \in U \ {i, j} /\ c[k] = b[k]
    BY <1>1, <1>3, <1>17
  <2>2. /\ b[k].offset \in Nat /\ b[k].size \in Nat
        /\ EndOf(b[k]) = b[k].offset + b[k].size
    BY <1>1, CellType
  <2>3. EndOf(c[i]) <= c[k].offset \/ EndOf(c[k]) <= c[i].offset
    BY <1>10, <2>1
  <2>4. ~(EndOf(b[i]) <= b[k].offset)
    <3>1. PICK p \in Nat, q \in Nat, m \in Nat, n \in Nat :
            /\ p = b[i].offset /\ q = b[i].size /\ q > 0
            /\ m = b[k].offset /\ n = b[k].size
            /\ EndOf(b[i]) = p + q /\ EndOf(b[k]) = m + n
      BY <1>9, <2>2
    <3>2. p >= m + n
      BY <1>17, <3>1
    <3>3. ~(p + q <= m)
      BY <3>1, <3>2, EndsBehind
    <3> QED
      BY <3>1, <3>3
  <2>5. EndOf(c[k]) <= c[i].offset
    BY <1>3, <2>1, <2>3, <2>4
  <2>6. EndOf(c[k]) \in Nat /\ c[i].offset \in Nat
    BY <1>3, <1>9, <2>1, <2>2
  <2> QED
    BY <2>5, <2>6
<1> QED
  BY <1>2, <1>3, <1>4, <1>7, <1>16, <1>17 DEF U

-----------------------------------------------------------------------------
(***************************************************************************)
(* A move to the front                                                     *)
(***************************************************************************)

LEMMA MoveCompacting ==
  ASSUME NEW b \in Seq(Cell), NEW in, NEW merged, Len(in) = Len(b),
         NEW w \in Indices(b), NEW r \in Indices(b), w <= r,
         b[r].state # "MERGED",
         Compacting(b, w, r, merged, in),
         NEW c, c = Copy(b, w, r)
  PROVE  /\ c \in Seq(Cell) /\ Len(c) = Len(b)
         /\ Compacting(c, w + 1, r + 1, merged, in)
<1> DEFINE S == Moving(b, w, r)
           T == (S \ {r}) \cup {w}
           from(k) == IF k = w THEN r ELSE k
<1>1. c = [b EXCEPT ![w] = b[r]]
  BY DEF Copy
<1>2. /\ c \in Seq(Cell) /\ Len(c) = Len(b) /\ Indices(c) = Indices(b)
      /\ \A k \in Indices(b) : c[k] = IF k = w THEN b[r] ELSE b[k]
      /\ b[r] \in Cell
  BY <1>1, EntrySet, CellType DEF Indices
<1>3. /\ Indices(b) = 1 .. Len(b) /\ Len(b) \in Nat
      /\ w \in 1 .. Len(b) /\ r \in 1 .. Len(b)
  BY CellType DEF Indices
<1>4. S \subseteq Indices(b) /\ r \in S /\ T \subseteq Indices(b)
  BY <1>3 DEF Moving, Unmerged
<1>5. /\ \A i \in 1 .. w - 1 : b[i].state # "MERGED"
      /\ Apart(b, S) /\ Covered(b, S) = Covered(in, Indices(in))
      /\ Falling(b, S, Len(in))
      /\ merged = Len(in) - Cardinality(S)
      /\ NonEmpty(in) => Lowest(b, S)
  BY DEF Compacting, Exact
<1>6. Moving(c, w + 1, r + 1) = T
  BY <1>2, <1>3 DEF Moving, Unmerged
<1>7. \A k \in S : k < w \/ k >= r
  BY DEF Moving
<1> HIDE DEF S
<1>8. \A k \in T : from(k) \in S /\ c[k] = b[from(k)]
  BY <1>2, <1>3, <1>4
<1>9. \A k \in T, m \in T : k < m => from(k) < from(m)
  BY <1>3, <1>4, <1>7
<1>10. ASSUME NEW n \in S
       PROVE  \E k \in T : from(k) = n
  <2>1. CASE n = r
    BY <2>1
  <2>2. CASE n # r
    <3>1. n # w
      BY <1>3, <1>7, <2>2
    <3> QED
      BY <2>2, <3>1
  <2> QED
    BY <2>1, <2>2
<1>11. T \subseteq 1 .. Len(b)
  BY <1>3, <1>4
<1>12. Cardinality(T) = Cardinality(S)
  <2>1. IsFiniteSet(S)
    BY <1>4, UnmergedFinite, FS_Subset DEF S, Moving
  <2>2. CASE w = r
    BY <1>4, <2>2
  <2>3. CASE w # r
    <3>1. w \notin S \ {r}
      BY <1>3, <1>7, <2>3
    <3>2. /\ IsFiniteSet(S \ {r})
          /\ Cardinality(S \ {r}) = Cardinality(S) - 1
      BY <1>4, <2>1, FS_RemoveElement
    <3>3. Cardinality(T) = Cardinality(S \ {r}) + 1
      BY <3>1, <3>2, FS_AddElement
    <3>4. Cardinality(S) \in Nat
      BY <2>1, FS_CardinalityType
    <3> QED
      BY <3>2, <3>3, <3>4
  <2> QED
    BY <2>2, <2>3
<1> HIDE DEF T, from
<1>13. Apart(c, T)
  <2> SUFFICES ASSUME NEW k \in T, NEW m \in T, k # m
               PROVE  \/ EndOf(c[k]) <= c[m].offset
                      \/ EndOf(c[m]) <= c[k].offset
    BY DEF Apart
  <2>1. from(k) # from(m)
    <3>1. k < m \/ m < k
      BY <1>11
    <3>2. from(k) < from(m) \/ from(m) < from(k)
      BY <1>9, <3>1
    <3>3. from(k) \in Int /\ from(m) \in Int
      BY <1>3, <1>4, <1>8
    <3> QED
      BY <3>2, <3>3
  <2> QED
    BY <1>5, <1>8, <2>1 DEF Apart
<1>14. Covered(c, T) = Covered(b, S)
  <2>1. \A k \in T : \E m \in S : c[k] = b[m]
    BY <1>8
  <2>2. \A m \in S : \E k \in T : c[k] = b[m]
    BY <1>8, <1>10
  <2> QED
    BY <2>1, <2>2 DEF Covered
<1>15. Falling(c, T, Len(in))
  <2> SUFFICES ASSUME NEW k \in T, NEW m \in T, k < m
               PROVE  c[k].offset >= EndOf(c[m])
    BY DEF Falling
  <2>1. from(k) < from(m) /\ from(k) < Len(in)
    <3>1. from(k) < from(m)
      BY <1>9
    <3>2. from(k) \in 1 .. Len(b) /\ from(m) \in 1 .. Len(b)
      BY <1>3, <1>4, <1>8
    <3> QED
      BY <1>3, <3>1, <3>2
  <2> QED
    BY <1>5, <1>8, <2>1 DEF Falling
<1>16. ASSUME NonEmpty(in)
       PROVE  Lowest(c, T)
  <2>1. NonEmpty(b)
    BY <1>5, <1>16 DEF Lowest
  <2>2. \A k \in Indices(b) : \E m \in Indices(b) : c[k] = b[m]
    BY <1>2
  <2>3. NonEmpty(c)
    BY <1>2, <2>1, <2>2 DEF NonEmpty, Indices
  <2>4. PICK m \in S : \A k \in Indices(b) : b[m].offset <= b[k].offset
    BY <1>5, <1>16 DEF Lowest
  <2>5. PICK k \in T : c[k] = b[m]
    BY <1>8, <1>10
  <2>6. \A k2 \in Indices(b) : c[k].offset <= c[k2].offset
    BY <2>2, <2>4, <2>5
  <2> QED
    BY <1>2, <2>3, <2>6 DEF Lowest
<1>17. ASSUME NEW i \in 1 .. w + 1 - 1
       PROVE  c[i].state # "MERGED"
  BY <1>2, <1>3, <1>5
<1> QED
  BY <1>1, <1>2, <1>5, <1>6, <1>12, <1>13, <1>14, <1>15, <1>16, <1>17
    DEF Compacting, Exact

LEMMA SkipCompacting ==
  ASSUME NEW b \in Seq(Cell), NEW in, NEW merged,
         NEW w \in Nat, NEW r \in Indices(b), w <= r,
         b[r].state = "MERGED",
         Compacting(b, w, r, merged, in)
  PROVE  Compacting(b, w, r + 1, merged, in)
<1>1. \A i \in Indices(b) : i \in Nat
  BY CellType DEF Indices
<1>2. Moving(b, w, r + 1) = Moving(b, w, r)
  BY <1>1 DEF Moving, Unmerged
<1> QED
  BY <1>2 DEF Compacting

-----------------------------------------------------------------------------
(***************************************************************************)
(* The turns of the first loop                                             *)
(***************************************************************************)

LEMMA LocalsType ==
  ASSUME NEW in, Passed(in), NEW l, Runs(l, in)
  PROVE  /\ l \in Locals
         /\ l.blocks \in Seq(Cell) /\ l.blocks \in Seq(Block)
         /\ Len(l.blocks) = Len(in) /\ Len(in) \in Nat /\ Len(in) >= 2
         /\ l.count \in Int /\ l.pos \in Int /\ l.other \in Int
         /\ l.merged \in Int
         /\ Indices(l.blocks) = 1 .. Len(in)
  BY LenProperties DEF Passed, Runs, Locals, Indices

LEMMA MovedLocals ==
  ASSUME NEW l \in Locals, NEW phase \in Phase,
         NEW pos \in Int, NEW other \in Int
  PROVE  [l EXCEPT !.phase = phase, !.pos = pos, !.other = other] \in Locals
  BY DEF Locals

LEMMA SwallowedLocals ==
  ASSUME NEW l \in Locals, NEW blocks \in Seq(Block),
         NEW merged \in Int, NEW other \in Int
  PROVE  [l EXCEPT !.blocks = blocks, !.merged = merged, !.other = other]
           \in Locals
  BY DEF Locals

LEMMA CompactedLocals ==
  ASSUME NEW l \in Locals, NEW blocks \in Seq(Block),
         NEW pos \in Int, NEW other \in Int
  PROVE  [l EXCEPT !.blocks = blocks, !.pos = pos, !.other = other]
           \in Locals
  BY DEF Locals

LEMMA MergedLocals ==
  ASSUME NEW l \in Locals, NEW blocks \in Seq(Block),
         NEW merged \in Int, NEW pos \in Int
  PROVE  [l EXCEPT !.blocks = blocks, !.merged = merged, !.pos = pos]
           \in Locals
  BY DEF Locals

LEMMA CellsAreBlocks ==
  ASSUME NEW b \in Seq(Cell)
  PROVE  b \in Seq(Block)
<1>1. Cell \subseteq Block
  BY DEF Cell, Block
<1>2. Len(b) \in Nat /\ b \in [1 .. Len(b) -> Cell]
  BY LenProperties, ElementOfSeq
<1>3. b \in [1 .. Len(b) -> Block]
  BY <1>1, <1>2
<1> QED
  BY <1>2, <1>3, SeqDef

\* When every entry counts, none was merged.
LEMMA NoneMerged ==
  ASSUME NEW b \in Seq(Cell), Cardinality(Unmerged(b)) = Len(b)
  PROVE  Unmerged(b) = 1 .. Len(b)
<1>1. Len(b) \in Nat
  BY LenProperties
<1>2. IsFiniteSet(1 .. Len(b)) /\ Cardinality(1 .. Len(b)) = Len(b)
  BY <1>1, UpToFinite
<1>3. Unmerged(b) \subseteq 1 .. Len(b)
  BY UnmergedFinite DEF Indices
<1> QED
  BY <1>2, <1>3, FS_Subset

LEMMA LeaveScanStep ==
  ASSUME NEW in, Passed(in), NEW l, Runs(l, in), l.phase = "position",
         l.pos >= l.count
  PROVE  Runs(LeaveScan(l), in)
<1> DEFINE b == l.blocks
           U == Unmerged(b)
<1>1. /\ l \in Locals /\ b \in Seq(Cell) /\ Len(b) = Len(in)
      /\ Len(in) \in Nat /\ Len(in) >= 2 /\ Indices(b) = 1 .. Len(in)
  BY LocalsType
<1>2. /\ l.count = Len(in) /\ l.pos \in 1 .. Len(in)
      /\ Exact(b, U, in) /\ Falling(b, U, l.pos)
      /\ l.merged = Len(in) - Cardinality(U)
      /\ NonEmpty(in) => Lowest(b, U)
  BY DEF Runs, Positioned, Sorting
<1>3. l.pos = Len(in)
  BY <1>1, <1>2
<1>4. Cardinality(U) \in 0 .. Len(in)
  BY <1>1, UnmergedFinite
<1>5. CASE l.merged = 0
  <2> DEFINE m == [l EXCEPT !.phase = "done"]
  <2>1. /\ m \in Locals /\ m.blocks = b /\ m.merged = 0
        /\ m.phase = "done"
    BY <1>1, <1>5 DEF Locals, Phase
  <2>2. LeaveScan(l) = m
    BY <1>5 DEF LeaveScan
  <2>3. U = 1 .. Len(in)
    <3>1. Cardinality(U) = Len(b)
      BY <1>1, <1>2, <1>4, <1>5
    <3> QED
      BY <1>1, <3>1, NoneMerged
  <2>4. ASSUME NEW i \in 1 .. Len(in)
        PROVE  b[Len(in)].offset <= b[i].offset
    <3>1. /\ b[Len(in)].offset \in Nat /\ b[Len(in)].size \in Nat
          /\ EndOf(b[Len(in)]) = b[Len(in)].offset + b[Len(in)].size
          /\ b[i].offset \in Nat
      BY <1>1, CellType
    <3>2. CASE i = Len(in)
      BY <3>1, <3>2
    <3>3. CASE i # Len(in)
      <4>1. b[i].offset >= EndOf(b[Len(in)])
        BY <1>1, <1>2, <1>3, <2>3, <3>3 DEF Falling
      <4> QED
        BY <3>1, <4>1
    <3> QED
      BY <3>2, <3>3
  <2>5. ExactUpTo(b, Len(in), in)
    BY <1>1, <1>2, <2>3, <2>4 DEF ExactUpTo
  <2>6. Finished(m, in)
    BY <1>1, <2>1, <2>5 DEF Finished
  <2> HIDE DEF m
  <2> QED
    BY <1>1, <2>1, <2>2, <2>6 DEF Runs
<1>6. CASE l.merged # 0
  <2> DEFINE m == [l EXCEPT !.phase = "compact", !.pos = 1, !.other = 1]
  <2>1. /\ m \in Locals /\ m.blocks = b /\ m.merged = l.merged
        /\ m.phase = "compact" /\ m.pos = 1 /\ m.other = 1
        /\ m.count = l.count
    <3>1. l \in Locals /\ "compact" \in Phase /\ 1 \in Int
      BY <1>1 DEF Phase
    <3>2. m \in Locals
      BY <3>1, MovedLocals
    <3>3. /\ m.blocks = b /\ m.merged = l.merged
          /\ m.phase = "compact" /\ m.pos = 1 /\ m.other = 1
          /\ m.count = l.count
      BY <3>1 DEF Locals
    <3> QED
      BY <3>2, <3>3
  <2>2. LeaveScan(l) = m
    BY <1>6 DEF LeaveScan
  <2> HIDE DEF m
  <2>3. Moving(b, 1, 1) = U
    BY <1>1 DEF Moving, Unmerged
  <2>4. l.merged > 0
    BY <1>1, <1>2, <1>4, <1>6
  <2>5. Compacted(m, in)
    BY <1>1, <1>2, <1>3, <2>1, <2>3, <2>4 DEF Compacted, Compacting
  <2> QED
    BY <1>1, <2>1, <2>2, <2>5 DEF Runs
<1> QED
  BY <1>5, <1>6

LEMMA PositionStep ==
  ASSUME NEW in, Passed(in), NEW l, Runs(l, in), l.phase = "position"
  PROVE  Runs(EnterPosition(l), in)
<1> DEFINE b == l.blocks
           U == Unmerged(b)
<1>1. /\ l \in Locals /\ b \in Seq(Cell) /\ Len(b) = Len(in)
      /\ Len(in) \in Nat /\ Len(in) >= 2 /\ Indices(b) = 1 .. Len(in)
  BY LocalsType
<1>2. /\ l.count = Len(in) /\ l.pos \in 1 .. Len(in)
      /\ Sorting(b, l.pos, l.merged, in)
  BY DEF Runs, Positioned
<1>3. CASE l.pos >= l.count
  BY <1>3, LeaveScanStep DEF EnterPosition
<1>4. ASSUME ~(l.pos >= l.count)
      PROVE  l.pos \in 1 .. Len(in) - 1 /\ b[l.pos].size # 0
  <2>1. l.pos \in 1 .. Len(in) - 1
    BY <1>1, <1>2, <1>4
  <2>2. b[l.pos].size > 0
    BY <1>1, <1>2, <2>1 DEF Sorting, FirstBlockLast
  <2> QED
    BY <2>1, <2>2
<1>5. CASE ~(l.pos >= l.count) /\ b[l.pos].state = "MERGED"
  <2> DEFINE m == [l EXCEPT !.pos = @ + 1]
  <2>1. /\ m \in Locals /\ m.blocks = b /\ m.merged = l.merged
        /\ m.phase = "position" /\ m.pos = l.pos + 1 /\ m.count = l.count
    BY <1>1 DEF Locals
  <2>2. EnterPosition(l) = m
    BY <1>5 DEF EnterPosition
  <2> HIDE DEF m
  <2>3. l.pos \notin U
    BY <1>5 DEF Unmerged
  <2>4. Falling(b, U, l.pos + 1)
    <3>1. \A i \in U : i < l.pos + 1 => i < l.pos
      BY <1>1, <1>2, <2>3 DEF Unmerged
    <3> QED
      BY <1>2, <3>1 DEF Falling, Sorting
  <2>5. Positioned(m, in)
    BY <1>1, <1>2, <1>4, <1>5, <2>1, <2>4 DEF Positioned, Sorting
  <2> QED
    BY <1>1, <2>1, <2>2, <2>5 DEF Runs
<1>6. CASE ~(l.pos >= l.count) /\ b[l.pos].state # "MERGED"
  <2> DEFINE m == [l EXCEPT !.phase = "scan", !.other = l.pos + 1]
  <2>1. /\ m \in Locals /\ m.blocks = b /\ m.merged = l.merged
        /\ m.phase = "scan" /\ m.pos = l.pos /\ m.count = l.count
        /\ m.other = l.pos + 1
    <3>1. l \in Locals /\ l.pos + 1 \in Int
      BY <1>1, LocalsType
    <3>2. m \in Locals
      BY <3>1 DEF Locals, Phase
    <3>3. /\ m.blocks = b /\ m.merged = l.merged
          /\ m.phase = "scan" /\ m.pos = l.pos /\ m.count = l.count
          /\ m.other = l.pos + 1
      BY <3>1 DEF Locals
    <3> QED
      BY <3>2, <3>3
  <2>2. EnterPosition(l) = m
    BY <1>4, <1>6 DEF EnterPosition
  <2> HIDE DEF m
  <2>3. l.pos \in U
    BY <1>1, <1>2, <1>6 DEF Unmerged
  <2>4. \A j \in U : ~(l.pos < j /\ j < l.pos + 1)
    BY <1>1, <1>2 DEF Unmerged
  <2>5. Scanned(m, in)
    BY <1>1, <1>2, <1>4, <1>6, <2>1, <2>3, <2>4 DEF Scanned
  <2> QED
    BY <1>1, <2>1, <2>2, <2>5 DEF Runs
<1> QED
  BY <1>3, <1>5, <1>6

LEMMA ScanStep ==
  ASSUME NEW in, Passed(in), NEW l, Runs(l, in), l.phase = "scan"
  PROVE  Runs(ScanOther(l), in)
<1> DEFINE b == l.blocks
           U == Unmerged(b)
           i == l.pos
           j == l.other
<1>1. /\ l \in Locals /\ b \in Seq(Cell) /\ Len(b) = Len(in)
      /\ Len(in) \in Nat /\ Len(in) >= 2 /\ Indices(b) = 1 .. Len(in)
      /\ l.merged \in Int
  BY LocalsType
<1>2. /\ l.count = Len(in) /\ i \in 1 .. Len(in) - 1
      /\ j \in i + 1 .. Len(in) + 1
      /\ i \in U
      /\ Sorting(b, i, l.merged, in)
      /\ \A k \in U : i < k /\ k < j => b[i].offset >= EndOf(b[k])
  BY DEF Runs, Scanned
<1>3. U \subseteq 1 .. Len(in) /\ i + 1 \in Int /\ j + 1 \in Int
  BY <1>1, <1>2 DEF Unmerged
<1>4. l.merged \in Nat
  <2>1. Cardinality(U) \in 0 .. Len(in)
    BY <1>1, UnmergedFinite
  <2> QED
    BY <1>1, <1>2, <2>1 DEF Sorting
<1> HIDE DEF U
<1>5. CASE j > l.count
  <2> DEFINE m == [l EXCEPT !.phase = "position", !.pos = @ + 1]
  <2>1. m \in Locals
    BY <1>1, <1>3 DEF Locals, Phase
  <2>2. /\ m.blocks = b /\ m.merged = l.merged /\ m.phase = "position"
        /\ m.pos = i + 1 /\ m.count = l.count
    BY <1>1 DEF Locals
  <2>3. ScanOther(l) = m
    BY <1>5 DEF ScanOther
  <2> HIDE DEF m
  <2>4. Falling(b, U, i + 1)
    <3> SUFFICES ASSUME NEW k \in U, NEW n \in U, k < i + 1, k < n
                 PROVE  b[k].offset >= EndOf(b[n])
      BY DEF Falling
    <3>1. CASE k = i
      BY <1>1, <1>2, <1>3, <1>5, <3>1
    <3>2. CASE k # i
      <4>1. k < i
        BY <1>2, <1>3, <3>2
      <4> QED
        BY <1>2, <4>1 DEF Sorting, Falling, U
    <3> QED
      BY <3>1, <3>2
  <2>5. Positioned(m, in)
    BY <1>1, <1>2, <2>2, <2>4 DEF Positioned, Sorting, U
  <2> QED
    BY <1>1, <2>1, <2>2, <2>3, <2>5 DEF Runs
<1>6. CASE ~(j > l.count) /\ b[j].state = "MERGED"
  <2> DEFINE m == [l EXCEPT !.other = @ + 1]
  <2>1. m \in Locals
    BY <1>1, <1>3 DEF Locals
  <2>2. /\ m.blocks = b /\ m.merged = l.merged /\ m.phase = "scan"
        /\ m.pos = i /\ m.count = l.count /\ m.other = j + 1
    BY <1>1 DEF Locals
  <2>3. ScanOther(l) = m
    BY <1>6 DEF ScanOther
  <2> HIDE DEF m
  <2>4. \A k \in U : i < k /\ k < j + 1 => b[i].offset >= EndOf(b[k])
    <3>1. j \notin U
      BY <1>6 DEF Unmerged, U
    <3> QED
      BY <1>2, <1>3, <3>1
  <2>5. j + 1 \in i + 1 .. Len(in) + 1
    BY <1>1, <1>2, <1>6
  <2>6. Scanned(m, in)
    BY <1>2, <2>2, <2>4, <2>5 DEF Scanned, U
  <2> QED
    BY <1>1, <2>1, <2>2, <2>3, <2>6 DEF Runs
<1>7. ASSUME ~(j > l.count), b[j].state # "MERGED"
      PROVE  /\ j \in U /\ i < j /\ i \in Indices(b) /\ j \in Indices(b)
             /\ j + 1 \in i + 1 .. Len(in) + 1
  <2>1. /\ j \in 1 .. Len(in) /\ i \in 1 .. Len(in) /\ i < j
        /\ j + 1 \in i + 1 .. Len(in) + 1
    BY <1>1, <1>2, <1>7, SMTT(30)
  <2>2. j \in U
    BY <1>1, <1>7, <2>1 DEF Unmerged, U
  <2> QED
    BY <1>1, <2>1, <2>2
<1>8. CASE /\ ~(j > l.count) /\ b[j].state # "MERGED"
           /\ b[j].offset > b[i].offset
  <2> DEFINE c == Exchange(b, i, j)
             m == [l EXCEPT !.blocks = Exchange(@, i, j), !.other = i + 1]
  <2>1. /\ c \in Seq(Cell) /\ Len(c) = Len(b) /\ i \in Unmerged(c)
        /\ Sorting(c, i, l.merged, in)
    <3>1. /\ b \in Seq(Cell) /\ i \in Unmerged(b) /\ j \in Unmerged(b)
          /\ i < j /\ b[j].offset > b[i].offset
          /\ Sorting(b, i, l.merged, in)
      BY <1>1, <1>2, <1>7, <1>8 DEF U
    <3> QED
      BY <3>1, ExchangeSorting
  <2>2. c \in Seq(Block)
    BY <2>1, CellsAreBlocks
  <2>3. ScanOther(l) = m
    BY <1>8 DEF ScanOther
  <2>4. m = [l EXCEPT !.blocks = c, !.other = i + 1]
    OBVIOUS
  <2> HIDE DEF c, m
  <2>5. m \in Locals
    BY <1>1, <1>3, <2>2, <2>4 DEF Locals
  <2>6. /\ m.blocks = c /\ m.merged = l.merged /\ m.phase = "scan"
        /\ m.pos = i /\ m.count = l.count /\ m.other = i + 1
    BY <1>1, <2>4 DEF Locals
  <2>7. i + 1 \in i + 1 .. Len(in) + 1
    BY <1>1, <1>2
  <2>8. \A k \in Unmerged(c) : ~(i < k /\ k < i + 1)
    BY <1>1, <1>2, <2>1, CellType DEF Unmerged, Indices
  <2>9. Scanned(m, in)
    BY <1>2, <2>1, <2>6, <2>7, <2>8 DEF Scanned
  <2> QED
    BY <1>1, <2>1, <2>3, <2>5, <2>6, <2>9 DEF Runs
<1>9. CASE /\ ~(j > l.count) /\ b[j].state # "MERGED"
           /\ ~(b[j].offset > b[i].offset)
           /\ EndOf(b[j]) = b[i].offset
  <2> DEFINE c == Swallow(b, i, j)
             m == [l EXCEPT !.blocks = Swallow(@, i, j),
                            !.merged = @ + 1, !.other = @ + 1]
  <2>1. /\ c \in Seq(Cell) /\ Len(c) = Len(b) /\ i \in Unmerged(c)
        /\ Sorting(c, i, l.merged + 1, in)
        /\ Unmerged(c) = Unmerged(b) \ {j}
        /\ \A k \in Unmerged(b) \ {j} :
             i < k /\ b[i].offset >= EndOf(b[k]) =>
               c[i].offset >= EndOf(c[k])
    <3>1. /\ b \in Seq(Cell) /\ i \in Unmerged(b) /\ j \in Unmerged(b)
          /\ i < j /\ EndOf(b[j]) = b[i].offset
          /\ Sorting(b, i, l.merged, in)
          /\ l.merged \in Nat /\ Len(in) \in Nat
      BY <1>1, <1>2, <1>4, <1>7, <1>9 DEF U
    <3> HIDE DEF b, i, j
    <3> QED
      BY <3>1, SwallowSorting, SMTT(30)
  <2>2. c \in Seq(Block)
    BY <2>1, CellsAreBlocks
  <2>3. ScanOther(l) = m
    BY <1>9 DEF ScanOther
  <2>4. m = [l EXCEPT !.blocks = c, !.merged = l.merged + 1, !.other = j + 1]
    OBVIOUS
  <2> HIDE DEF c, m
  <2>5. m \in Locals
    <3>1. l \in Locals /\ l.merged + 1 \in Int /\ j + 1 \in Int
      BY <1>1, <1>3, <1>4
    <3> QED
      BY <2>2, <2>4, <3>1, SwallowedLocals
  <2>6. /\ m.blocks = c /\ m.merged = l.merged + 1 /\ m.phase = "scan"
        /\ m.pos = i /\ m.count = l.count /\ m.other = j + 1
    BY <1>1, <2>4 DEF Locals
  <2>7. ASSUME NEW k \in Unmerged(c), i < k, k < j + 1
        PROVE  c[i].offset >= EndOf(c[k])
    <3>1. k \in U /\ k # j /\ k \in Unmerged(b) \ {j}
      BY <2>1, <2>7 DEF U
    <3>2. k < j
      BY <1>2, <1>3, <2>7, <3>1
    <3> QED
      BY <1>2, <2>1, <2>7, <3>1, <3>2
  <2>8. Scanned(m, in)
    BY <1>2, <1>7, <1>9, <2>1, <2>6, <2>7 DEF Scanned
  <2> QED
    BY <1>1, <2>1, <2>3, <2>5, <2>6, <2>8 DEF Runs
<1>10. CASE /\ ~(j > l.count) /\ b[j].state # "MERGED"
            /\ ~(b[j].offset > b[i].offset)
            /\ EndOf(b[j]) # b[i].offset
  <2> DEFINE m == [l EXCEPT !.other = @ + 1]
  <2>1. m \in Locals
    BY <1>1, <1>3 DEF Locals
  <2>2. /\ m.blocks = b /\ m.merged = l.merged /\ m.phase = "scan"
        /\ m.pos = i /\ m.count = l.count /\ m.other = j + 1
    BY <1>1 DEF Locals
  <2>3. ScanOther(l) = m
    BY <1>10 DEF ScanOther
  <2> HIDE DEF m
  <2>4. b[i].offset >= EndOf(b[j])
    <3>1. /\ b[i].offset \in Nat /\ b[j].offset \in Nat /\ EndOf(b[j]) \in Nat
      BY <1>1, <1>7, <1>10, CellType
    <3>2. b[i].size > 0
      BY <1>1, <1>2 DEF Sorting, FirstBlockLast
    <3>3. Apart(b, U) /\ U \in SUBSET Indices(b)
      BY <1>1, <1>2, <1>3 DEF Sorting, Exact, U
    <3>4. EndOf(b[j]) <= b[i].offset
      <4>1. b[j].offset <= b[i].offset /\ i # j /\ j \in U
        BY <1>2, <1>7, <1>10, <3>1
      <4> QED
        BY <1>1, <1>2, <3>2, <3>3, <4>1, HigherIsBehind
    <3> QED
      BY <3>1, <3>4
  <2>5. \A k \in U : i < k /\ k < j + 1 => b[i].offset >= EndOf(b[k])
    BY <1>2, <1>3, <2>4
  <2>6. Scanned(m, in)
    BY <1>2, <1>7, <1>10, <2>2, <2>5 DEF Scanned, U
  <2> QED
    BY <1>1, <2>1, <2>2, <2>3, <2>6 DEF Runs
<1> QED
  BY <1>5, <1>6, <1>8, <1>9, <1>10

-----------------------------------------------------------------------------
(***************************************************************************)
(* The turns of the loops after it                                         *)
(***************************************************************************)

\* The first block passed holds memory, so entries that hold it all are some.
LEMMA SomeCount ==
  ASSUME NEW in, Passed(in), NEW b, NEW S, Exact(b, S, in)
  PROVE  S # {}
<1>1. in \in Seq(Cell) /\ Len(in) \in Nat /\ 1 \in Indices(in) /\ in[1].size > 0
  BY LenProperties DEF Passed, Indices
<1>2. /\ in[1].offset \in Nat /\ in[1].size \in Nat
      /\ EndOf(in[1]) = in[1].offset + in[1].size
  BY <1>1, CellType
<1>3. in[1].offset \in Int /\ in[1].offset < EndOf(in[1])
      /\ in[1].offset <= in[1].offset
  BY <1>1, <1>2
<1>4. in[1].offset \in Covered(in, Indices(in))
  BY <1>1, <1>3, CoveredAddress
<1> QED
  BY <1>4 DEF Exact, Covered

LEMMA EnterMergeStep ==
  ASSUME NEW in, Passed(in), NEW l, Runs(l, in), l.phase = "compact",
         l.other > l.count
  PROVE  Runs(EnterMerge(l), in)
<1> DEFINE b == l.blocks
           n == l.count - l.merged
           m == [l EXCEPT !.phase = "merge", !.count = @ - l.merged,
                          !.pos = l.count - l.merged]
<1>1. /\ l \in Locals /\ b \in Seq(Cell) /\ Len(b) = Len(in)
      /\ Len(in) \in Nat /\ Len(in) >= 2 /\ Indices(b) = 1 .. Len(in)
      /\ l.merged \in Int /\ l.count \in Int
  BY LocalsType
<1>2. /\ l.count = Len(in) /\ l.merged > 0
      /\ l.pos \in 1 .. l.other /\ l.other \in 1 .. Len(in) + 1
      /\ \A i \in 1 .. l.pos - 1 : b[i].state # "MERGED"
      /\ Exact(b, Moving(b, l.pos, l.other), in)
      /\ Falling(b, Moving(b, l.pos, l.other), Len(in))
      /\ l.merged = Len(in) - Cardinality(Moving(b, l.pos, l.other))
      /\ NonEmpty(in) => Lowest(b, Moving(b, l.pos, l.other))
  BY DEF Runs, Compacted, Compacting
<1>3. l.other = Len(in) + 1 /\ l.pos - 1 \in 0 .. Len(in)
  BY <1>1, <1>2
<1>4. Moving(b, l.pos, l.other) = 1 .. l.pos - 1
  BY <1>1, <1>2, <1>3 DEF Moving, Unmerged
<1>5. n = l.pos - 1
  <2>1. Cardinality(1 .. l.pos - 1) = l.pos - 1
    BY <1>3, UpToFinite
  <2> QED
    BY <1>1, <1>2, <1>3, <1>4, <2>1
<1>6. /\ Exact(b, 1 .. n, in) /\ Falling(b, 1 .. n, Len(in))
      /\ NonEmpty(in) => Lowest(b, 1 .. n)
  BY <1>2, <1>4, <1>5
<1>7. n \in 1 .. Len(in) - 1
  <2>1. 1 .. n # {}
    BY <1>6, SomeCount
  <2> QED
    BY <1>1, <1>2, <1>3, <1>5, <2>1
<1>8. EnterMerge(l) = m
  BY DEF EnterMerge
<1>9. m \in Locals
  <2>1. l \in Locals /\ n \in Int
    BY <1>1, <1>7
  <2>2. m = [l EXCEPT !.phase = "merge", !.count = n, !.pos = n]
    OBVIOUS
  <2> HIDE DEF m, n
  <2> QED
    BY <2>1, <2>2 DEF Locals, Phase
<1>10. /\ m.blocks = b /\ m.merged = l.merged /\ m.phase = "merge"
       /\ m.pos = n /\ m.count = n
  BY <1>1 DEF Locals
<1> HIDE DEF m
<1>11. l.merged = Len(in) - n
  BY <1>1, <1>2
<1> HIDE DEF n
<1>12. ASSUME NEW i \in 1 .. n
       PROVE  b[n].offset <= b[i].offset
  <2>1. /\ b[n].offset \in Nat /\ b[n].size \in Nat
        /\ EndOf(b[n]) = b[n].offset + b[n].size
        /\ b[i].offset \in Nat
    BY <1>1, <1>7, CellType, SMTT(30)
  <2>2. CASE i = n
    BY <2>1, <2>2
  <2>3. CASE i # n
    <3>1. i \in 1 .. n /\ n \in 1 .. n /\ i < Len(in) /\ i < n
      BY <1>1, <1>7, <2>3
    <3>2. b[i].offset >= EndOf(b[n])
      BY <1>6, <3>1 DEF Falling
    <3> QED
      BY <2>1, <3>2
  <2> QED
    BY <2>2, <2>3
<1>13. ExactUpTo(b, n, in)
  BY <1>1, <1>6, <1>7, <1>12 DEF ExactUpTo
<1>14. ASSUME Small(in)
       PROVE  /\ n <= 2 /\ NonEmpty(b)
              /\ \A i \in Indices(in) : b[n].offset <= b[i].offset
  <2>1. n <= 2
    BY <1>1, <1>7, <1>14 DEF Small
  <2>2. Lowest(b, 1 .. n)
    BY <1>6, <1>14 DEF Small
  <2>3. PICK j \in 1 .. n : \A i \in Indices(b) : b[j].offset <= b[i].offset
    BY <2>2 DEF Lowest
  <2>4. \A i \in Indices(b) : b[i].offset \in Nat
    BY CellType, <1>1
  <2>5. b[n].offset \in Nat /\ b[j].offset \in Nat
    BY <1>1, <1>7, <2>4, SMTT(30)
  <2>6. ASSUME NEW i \in Indices(in)
        PROVE  b[n].offset <= b[i].offset
    <3>1. i \in Indices(b) /\ b[i].offset \in Nat
      BY <1>1, <2>4 DEF Indices
    <3>2. b[n].offset <= b[j].offset /\ b[j].offset <= b[i].offset
      BY <1>12, <2>3, <3>1
    <3> QED
      BY <2>5, <3>1, <3>2
  <2> QED
    BY <2>1, <2>2, <2>6 DEF Lowest
<1>15. Merging(m, in)
  BY <1>7, <1>10, <1>11, <1>13, <1>14 DEF Merging
<1> QED
  BY <1>1, <1>8, <1>9, <1>10, <1>15 DEF Runs

LEMMA CompactStep ==
  ASSUME NEW in, Passed(in), NEW l, Runs(l, in), l.phase = "compact"
  PROVE  Runs(Compact(l), in)
<1> DEFINE b == l.blocks
           w == l.pos
           r == l.other
<1>1. /\ l \in Locals /\ b \in Seq(Cell) /\ Len(b) = Len(in)
      /\ Len(in) \in Nat /\ Len(in) >= 2 /\ Indices(b) = 1 .. Len(in)
  BY LocalsType
<1>2. /\ l.count = Len(in) /\ l.merged > 0
      /\ w \in 1 .. r /\ r \in 1 .. Len(in) + 1
      /\ Compacting(b, w, r, l.merged, in)
  BY DEF Runs, Compacted
<1>3. w + 1 \in Int /\ r + 1 \in Int
  BY <1>1, <1>2
<1>4. CASE r > l.count
  BY <1>4, EnterMergeStep DEF Compact
<1>5. ASSUME ~(r > l.count)
      PROVE  /\ w \in Indices(b) /\ r \in Indices(b) /\ w <= r /\ w \in Nat
             /\ w \in 1 .. r + 1 /\ w + 1 \in 1 .. r + 1
             /\ r + 1 \in 1 .. Len(in) + 1
  BY <1>1, <1>2, <1>5
<1>6. CASE ~(r > l.count) /\ b[r].state = "MERGED"
  <2> DEFINE m == [l EXCEPT !.other = @ + 1]
  <2>1. m \in Locals
    BY <1>1, <1>3 DEF Locals
  <2>2. /\ m.blocks = b /\ m.merged = l.merged /\ m.phase = "compact"
        /\ m.pos = w /\ m.count = l.count /\ m.other = r + 1
    BY <1>1 DEF Locals
  <2>3. Compact(l) = m
    BY <1>6 DEF Compact
  <2> HIDE DEF m
  <2>4. Compacting(b, w, r + 1, l.merged, in)
    <3>1. /\ b \in Seq(Cell) /\ w \in Nat /\ r \in Indices(b) /\ w <= r
          /\ b[r].state = "MERGED" /\ Compacting(b, w, r, l.merged, in)
      BY <1>1, <1>2, <1>5, <1>6
    <3> HIDE DEF b, w, r
    <3> QED
      BY <3>1, SkipCompacting
  <2>5. Compacted(m, in)
    BY <1>2, <1>5, <1>6, <2>2, <2>4 DEF Compacted
  <2> QED
    BY <1>1, <2>1, <2>2, <2>3, <2>5 DEF Runs
<1>7. CASE ~(r > l.count) /\ b[r].state # "MERGED"
  <2> DEFINE c == Copy(b, w, r)
             m == [l EXCEPT !.blocks = Copy(@, w, r),
                            !.pos = @ + 1, !.other = @ + 1]
  <2>1. /\ c \in Seq(Cell) /\ Len(c) = Len(b)
        /\ Compacting(c, w + 1, r + 1, l.merged, in)
    <3>1. /\ b \in Seq(Cell) /\ w \in Indices(b) /\ r \in Indices(b)
          /\ w <= r /\ b[r].state # "MERGED" /\ Len(in) = Len(b)
          /\ Compacting(b, w, r, l.merged, in)
      BY <1>1, <1>2, <1>5, <1>7
    <3>2. PICK d : d = c
      OBVIOUS
    <3>3. d = Copy(b, w, r)
      BY <3>2
    <3> HIDE DEF b, w, r, c, m
    <3>4. /\ d \in Seq(Cell) /\ Len(d) = Len(b)
          /\ Compacting(d, w + 1, r + 1, l.merged, in)
      BY <3>1, <3>3, MoveCompacting
    <3> QED
      BY <3>2, <3>4
  <2>2. c \in Seq(Block)
    BY <2>1, CellsAreBlocks
  <2>3. Compact(l) = m
    BY <1>7 DEF Compact
  <2>4. m = [l EXCEPT !.blocks = c, !.pos = w + 1, !.other = r + 1]
    OBVIOUS
  <2> HIDE DEF c, m
  <2>5. m \in Locals
    <3>1. l \in Locals /\ w + 1 \in Int /\ r + 1 \in Int
      BY <1>1, <1>3
    <3> QED
      BY <2>2, <2>4, <3>1, CompactedLocals
  <2>6. /\ m.blocks = c /\ m.merged = l.merged /\ m.phase = "compact"
        /\ m.pos = w + 1 /\ m.count = l.count /\ m.other = r + 1
    BY <1>1, <2>4 DEF Locals
  <2>7. Compacted(m, in)
    BY <1>2, <1>5, <1>7, <2>1, <2>6 DEF Compacted
  <2> QED
    BY <1>1, <2>1, <2>3, <2>5, <2>6, <2>7 DEF Runs
<1> QED
  BY <1>4, <1>6, <1>7

\* What MergeBack writes, and that the first of two entries then holds both.
LEMMA MergeEntries ==
  ASSUME NEW b \in Seq(Cell), NEW p \in Indices(b), p + 1 \in Indices(b),
         NEW c, c = TakeNext(b, p), b[p].offset = EndOf(b[p + 1])
  PROVE  /\ c \in Seq(Cell) /\ Len(c) = Len(b)
         /\ p = 1 => Covered(c, 1 .. 1) = Covered(b, 1 .. 2)
<1> DEFINE e == [offset |-> b[p + 1].offset,
                 size |-> b[p].size + b[p + 1].size,
                 state |-> b[p].state]
<1>1. b[p] \in Cell /\ b[p + 1] \in Cell
  BY CellType
<1>2. e \in Cell /\ EndOf(e) = EndOf(b[p])
  <2>1. PICK x \in Nat, y \in Nat, z \in Nat :
          x = b[p].size /\ y = b[p + 1].offset /\ z = b[p + 1].size
    BY <1>1 DEF Cell
  <2>2. EndOf(b[p]) = (y + z) + x
    BY <2>1, SMTT(30) DEF EndOf
  <2>3. EndOf(e) = y + (x + z)
    BY <2>1, SMTT(30) DEF EndOf
  <2>4. e \in Cell
    BY <1>1, <2>1, SMTT(30) DEF Cell
  <2> HIDE DEF e
  <2> QED
    BY <2>2, <2>3, <2>4, SumOrder
<1>3. c = [b EXCEPT ![p] = e]
  <2>1. DOMAIN b = Indices(b)
    BY LenProperties DEF Indices
  <2>2. c[p] = e
    <3>1. c[p] = [[b[p] EXCEPT !.offset = b[p + 1].offset] EXCEPT
                    !.size = b[p].size + b[p + 1].size]
      BY <2>1 DEF TakeNext
    <3> QED
      BY <1>1, <3>1 DEF Cell
  <2>3. /\ DOMAIN c = Indices(b)
        /\ \A k \in Indices(b) : k # p => c[k] = b[k]
    BY <2>1 DEF TakeNext
  <2>4. c = [k \in Indices(b) |-> IF k = p THEN e ELSE b[k]]
    <3>1. c = [k \in Indices(b) |-> c[k]]
      BY <2>1 DEF TakeNext
    <3> HIDE DEF e
    <3> QED
      BY <2>2, <2>3, <3>1
  <2>5. [b EXCEPT ![p] = e] =
          [k \in Indices(b) |-> IF k = p THEN e ELSE b[k]]
    BY <2>1
  <2> QED
    BY <2>4, <2>5
<1>4. e.offset = b[p + 1].offset
  OBVIOUS
<1> HIDE DEF e
<1>5. /\ c \in Seq(Cell) /\ Len(c) = Len(b)
      /\ \A k \in Indices(b) : c[k] = IF k = p THEN e ELSE b[k]
  <2>1. e \in Cell
    BY <1>2
  <2>2. /\ [b EXCEPT ![p] = e] \in Seq(Cell)
        /\ Len([b EXCEPT ![p] = e]) = Len(b)
        /\ \A k \in Indices(b) :
             [b EXCEPT ![p] = e][k] = IF k = p THEN e ELSE b[k]
    BY <2>1, EntrySet
  <2> QED
    BY <1>3, <2>2
<1>6. ASSUME p = 1
      PROVE  Covered(c, 1 .. 1) = Covered(b, 1 .. 2)
  <2>1. /\ c[1].offset = b[2].offset /\ EndOf(c[1]) = EndOf(b[1])
        /\ b[1].offset = EndOf(b[2])
    BY <1>2, <1>4, <1>5, <1>6
  <2>2. PICK x \in Nat, y \in Nat, z \in Nat :
          /\ x = b[2].offset /\ y = b[1].offset /\ z = EndOf(b[1])
          /\ x <= y /\ y <= z
    <3>1. 1 \in Indices(b) /\ 2 \in Indices(b)
      BY <1>6
    <3>2. /\ b[1].offset \in Nat /\ b[1].size \in Nat
          /\ b[2].offset \in Nat /\ b[2].size \in Nat
          /\ EndOf(b[1]) = b[1].offset + b[1].size
          /\ EndOf(b[2]) = b[2].offset + b[2].size
      BY <3>1, CellType
    <3>3. PICK x \in Nat, s \in Nat, t \in Nat :
            /\ x = b[2].offset /\ s = b[2].size /\ t = b[1].size
            /\ b[1].offset = x + s /\ EndOf(b[1]) = (x + s) + t
      BY <2>1, <3>2
    <3>4. x + s \in Nat /\ (x + s) + t \in Nat /\ x <= x + s
          /\ x + s <= (x + s) + t
      OBVIOUS
    <3> QED
      BY <3>3, <3>4
  <2>3. /\ 1 .. 1 \in SUBSET Indices(c) /\ 1 .. 2 \in SUBSET Indices(b)
    <3>1. /\ 1 \in Indices(b) /\ 2 \in Indices(b) /\ Indices(c) = Indices(b)
      BY <1>5, <1>6 DEF Indices
    <3> QED
      BY <3>1
  <2>4. ASSUME NEW a
        PROVE  a \in Covered(c, 1 .. 1) <=> a \in Int /\ x <= a /\ a < z
    <3>1. a \in Covered(c, 1 .. 1) <=>
            a \in Int /\ \E k \in 1 .. 1 : c[k].offset <= a /\ a < EndOf(c[k])
      BY <1>5, <2>3, CoveredAddress
    <3> QED
      BY <2>1, <2>2, <3>1
  <2>5. ASSUME NEW a
        PROVE  a \in Covered(b, 1 .. 2) <=>
                 /\ a \in Int
                 /\ \/ y <= a /\ a < z
                    \/ x <= a /\ a < y
    <3>1. a \in Covered(b, 1 .. 2) <=>
            a \in Int /\ \E k \in 1 .. 2 : b[k].offset <= a /\ a < EndOf(b[k])
      BY <2>3, CoveredAddress
    <3>2. (\E k \in 1 .. 2 : b[k].offset <= a /\ a < EndOf(b[k]))
            <=> \/ b[1].offset <= a /\ a < EndOf(b[1])
                \/ b[2].offset <= a /\ a < EndOf(b[2])
      OBVIOUS
    <3> QED
      BY <2>1, <2>2, <3>1, <3>2
  <2>6. ASSUME NEW a \in Int
        PROVE  (x <= a /\ a < z) <=> (y <= a /\ a < z) \/ (x <= a /\ a < y)
    BY <2>2
  <2> QED
    BY <2>4, <2>5, <2>6
<1> QED
  BY <1>5, <1>6

LEMMA MergeStep ==
  ASSUME NEW in, Passed(in), NEW l, Runs(l, in), l.phase = "merge"
  PROVE  Runs(MergeBack(l), in)
<1> DEFINE b == l.blocks
           p == l.pos
<1>1. /\ l \in Locals /\ b \in Seq(Cell) /\ Len(b) = Len(in)
      /\ Len(in) \in Nat /\ Len(in) >= 2 /\ Indices(b) = 1 .. Len(in)
      /\ l.merged \in Int /\ l.count \in Int
  BY LocalsType
<1>2. /\ l.count \in 1 .. Len(in) - 1 /\ p \in 0 .. l.count
      /\ Small(in) =>
           IF p = 0
           THEN ExactUpTo(b, Len(in) - l.merged, in)
           ELSE /\ l.count <= 2
                /\ l.merged = Len(in) - l.count
                /\ ExactUpTo(b, l.count, in)
                /\ NonEmpty(b)
                /\ \A i \in Indices(in) : b[l.count].offset <= b[i].offset
  BY DEF Runs, Merging
<1>3. CASE p = 0
  <2> DEFINE m == [l EXCEPT !.phase = "done"]
  <2>1. m \in Locals
    BY <1>1 DEF Locals, Phase
  <2>2. m.blocks = b /\ m.merged = l.merged /\ m.phase = "done"
    BY <1>1 DEF Locals
  <2>3. MergeBack(l) = m
    BY <1>3 DEF MergeBack
  <2> HIDE DEF m
  <2>4. Finished(m, in)
    BY <1>2, <1>3, <2>2 DEF Finished
  <2> QED
    BY <1>1, <2>1, <2>2, <2>3, <2>4 DEF Runs
<1>4. ASSUME p # 0
      PROVE  /\ p \in Indices(b) /\ p + 1 \in Indices(b)
             /\ p - 1 \in 0 .. l.count /\ p - 1 \in Int
             /\ p \in 1 .. Len(in) /\ p + 1 \in 1 .. Len(in)
  BY <1>1, <1>2, <1>4
<1>5. CASE p # 0 /\ b[p].offset # EndOf(b[p + 1])
  <2> DEFINE m == [l EXCEPT !.pos = @ - 1]
  <2>1. m \in Locals
    BY <1>1, <1>4, <1>5 DEF Locals
  <2>2. /\ m.blocks = b /\ m.merged = l.merged /\ m.phase = "merge"
        /\ m.pos = p - 1 /\ m.count = l.count
    BY <1>1 DEF Locals
  <2>3. MergeBack(l) = m
    BY <1>5 DEF MergeBack
  <2> HIDE DEF m
  <2>4. ASSUME Small(in)
        PROVE  ExactUpTo(b, Len(in) - l.merged, in)
    <3>1. Len(in) - l.merged = l.count
      BY <1>1, <1>2, <1>5, <2>4
    <3> QED
      BY <1>2, <1>5, <2>4, <3>1
  <2>5. Merging(m, in)
    BY <1>2, <1>4, <1>5, <2>2, <2>4 DEF Merging
  <2> QED
    BY <1>1, <2>1, <2>2, <2>3, <2>5 DEF Runs
<1>6. CASE p # 0 /\ b[p].offset = EndOf(b[p + 1])
  <2> DEFINE c == TakeNext(b, p)
             m == [l EXCEPT !.blocks = TakeNext(@, p),
                            !.merged = @ + 1, !.pos = @ - 1]
  <2>1. /\ c \in Seq(Cell) /\ Len(c) = Len(b)
        /\ p = 1 => Covered(c, 1 .. 1) = Covered(b, 1 .. 2)
    <3>1. PICK d : d = c
      OBVIOUS
    <3>2. /\ b \in Seq(Cell) /\ p \in Indices(b) /\ p + 1 \in Indices(b)
          /\ b[p].offset = EndOf(b[p + 1])
          /\ d = TakeNext(b, p)
      BY <1>1, <1>4, <1>6, <3>1
    <3> HIDE DEF b, p, c
    <3>3. /\ d \in Seq(Cell) /\ Len(d) = Len(b)
          /\ p = 1 => Covered(d, 1 .. 1) = Covered(b, 1 .. 2)
      BY <3>2, MergeEntries
    <3> QED
      BY <3>1, <3>3
  <2>2. c \in Seq(Block)
    BY <2>1, CellsAreBlocks
  <2>3. MergeBack(l) = m
    BY <1>6 DEF MergeBack
  <2>4. m = [l EXCEPT !.blocks = c, !.merged = l.merged + 1, !.pos = p - 1]
    OBVIOUS
  <2> HIDE DEF c, m
  <2>5. m \in Locals
    <3>1. l \in Locals /\ l.merged + 1 \in Int /\ p - 1 \in Int
      BY <1>1, <1>4, <1>6
    <3> QED
      BY <2>2, <2>4, <3>1, MergedLocals
  <2>6. /\ m.blocks = c /\ m.merged = l.merged + 1 /\ m.phase = "merge"
        /\ m.pos = p - 1 /\ m.count = l.count
    BY <1>1, <2>4 DEF Locals
  <2>7. ASSUME Small(in)
        PROVE  p = 1 /\ ExactUpTo(c, Len(in) - (l.merged + 1), in)
    <3>1. /\ l.count <= 2 /\ l.merged = Len(in) - l.count
          /\ ExactUpTo(b, l.count, in) /\ NonEmpty(b)
          /\ \A i \in Indices(in) : b[l.count].offset <= b[i].offset
      BY <1>2, <1>6, <2>7
    <3>2. p # l.count
      <4> SUFFICES ASSUME p = l.count
                   PROVE  FALSE
        OBVIOUS
      <4>1. /\ b[p + 1].offset \in Nat /\ b[p + 1].size \in Nat
            /\ EndOf(b[p + 1]) = b[p + 1].offset + b[p + 1].size
            /\ b[p].offset \in Nat
        BY <1>1, <1>4, <1>6, CellType
      <4>2. b[p + 1].size > 0
        BY <1>1, <1>4, <1>6, <3>1 DEF NonEmpty
      <4>3. b[p].offset <= b[p + 1].offset
        BY <1>4, <1>6, <3>1 DEF Indices
      <4>4. PICK x \in Nat, y \in Nat :
              /\ x = b[p + 1].offset /\ y = b[p + 1].size /\ y > 0
              /\ b[p].offset = x + y
        BY <1>6, <4>1, <4>2
      <4>5. x + y <= x
        BY <4>3, <4>4
      <4> QED
        BY <4>4, <4>5, AddsMore
    <3>3. p = 1 /\ l.count = 2
      BY <1>1, <1>2, <1>6, <3>1, <3>2
    <3>4. Len(in) - (l.merged + 1) = 1
      <4>1. l.merged = Len(in) - 2
        BY <3>1, <3>3
      <4> QED
        BY <1>1, <4>1, OneLeft
    <3>5. Covered(c, 1 .. 1) = Covered(in, Indices(in))
      BY <2>1, <3>1, <3>3 DEF ExactUpTo, Exact
    <3>6. Apart(c, 1 .. 1)
      BY DEF Apart
    <3>7. \A i \in 1 .. 1 : c[1].offset <= c[i].offset
      <4>1. c[1].offset \in Nat
        BY <1>1, <2>1, CellType DEF Indices
      <4> QED
        BY <4>1
    <3>8. ExactUpTo(c, 1, in)
      BY <1>1, <3>5, <3>6, <3>7 DEF ExactUpTo, Exact
    <3> QED
      BY <3>3, <3>4, <3>8
  <2>8. Merging(m, in)
    BY <1>2, <1>4, <1>6, <2>6, <2>7 DEF Merging
  <2> QED
    BY <1>1, <2>1, <2>3, <2>5, <2>6, <2>8 DEF Runs
<1> QED
  BY <1>3, <1>5, <1>6

-----------------------------------------------------------------------------
(***************************************************************************)
(* The invariant                                                           *)
(***************************************************************************)

LEMMA RunsStep ==
  ASSUME NEW in, Passed(in), NEW l, Runs(l, in)
  PROVE  Runs(Step(l), in)
<1>1. CASE l.phase = "position"
  <2>1. Step(l) = EnterPosition(l)
    BY <1>1 DEF Step
  <2> QED
    BY <1>1, <2>1, PositionStep
<1>2. CASE l.phase = "scan"
  <2>1. Step(l) = ScanOther(l)
    BY <1>2 DEF Step
  <2> QED
    BY <1>2, <2>1, ScanStep
<1>3. CASE l.phase = "compact"
  <2>1. Step(l) = Compact(l)
    BY <1>3 DEF Step
  <2> QED
    BY <1>3, <2>1, CompactStep
<1>4. CASE l.phase = "merge"
  <2>1. Step(l) = MergeBack(l)
    BY <1>4 DEF Step
  <2> QED
    BY <1>4, <2>1, MergeStep
<1>5. CASE l.phase = "done"
  <2>1. Step(l) = l
    BY <1>5 DEF Step
  <2> QED
    BY <2>1
<1>6. l.phase \in Phase
  BY DEF Runs, Locals
<1> QED
  BY <1>1, <1>2, <1>3, <1>4, <1>5, <1>6 DEF Phase

\* An array of free blocks is one of entries.
LEMMA FreeBlocksAreCells ==
  ASSUME NEW n \in Nat, NEW b \in [1 .. n -> FreeBlocks]
  PROVE  /\ b \in Seq(Cell) /\ Len(b) = n
         /\ Unmerged(b) = 1 .. n
<1>1. FreeBlocks \subseteq Cell
  BY DefragmentAssumption DEF FreeBlocks, Cell, BlockState
<1>2. b \in [1 .. n -> Cell] /\ DOMAIN b = 1 .. n
  BY <1>1
<1>3. b \in Seq(Cell)
  BY <1>2, SeqDef
<1>4. Len(b) \in Nat /\ 1 .. Len(b) = 1 .. n
  BY <1>2, <1>3, LenProperties
<1>5. Len(b) = n
  BY <1>4
<1>6. \A i \in 1 .. n : b[i].state # "MERGED"
  BY DEF FreeBlocks
<1> QED
  BY <1>3, <1>5, <1>6 DEF Unmerged, Indices

LEMMA InvInit == Init => Inv
<1> SUFFICES ASSUME Init
             PROVE  Inv
  OBVIOUS
<1>1. PICK n \in 2 .. MaxBlocks : input \in [1 .. n -> FreeBlocks]
  BY DEF Init
<1>2. n \in Nat /\ n >= 2
  BY <1>1, DefragmentAssumption
<1>3. /\ input \in Seq(Cell) /\ Len(input) = n
      /\ Unmerged(input) = 1 .. n
  BY <1>1, <1>2, FreeBlocksAreCells
<1>4. /\ Apart(input, 1 .. n) /\ LastIsFirstBlock(input)
      /\ locals = Start(input)
  BY <1>3 DEF Init
<1>5. \A i \in 1 .. n - 1 :
        input[i].size > 0 /\ input[n].offset <= input[i].offset
  BY <1>3, <1>4 DEF LastIsFirstBlock
<1>6. 1 \in 1 .. n - 1 /\ n \in 1 .. n /\ 1 \in 1 .. n
      /\ \A i \in 1 .. n : i \in 1 .. n - 1 \/ i = n
  BY <1>2
<1>7. \A i \in 1 .. n : input[n].offset <= input[i].offset
  <2>1. input[n].offset \in Nat
    BY <1>3, <1>6, CellType DEF Indices
  <2> QED
    BY <1>5, <1>6, <2>1
<1>8. /\ locals.phase = "position" /\ locals.blocks = input
      /\ locals.count = n /\ locals.pos = 1 /\ locals.merged = 0
  BY <1>3, <1>4 DEF Start
<1>9. locals \in Locals
  <2>1. input \in Seq(Block)
    BY <1>3, CellsAreBlocks
  <2> QED
    BY <1>2, <1>3, <1>4, <2>1 DEF Start, Locals, Phase
<1>10. Sorting(input, 1, 0, input)
  <2>1. Exact(input, 1 .. n, input)
    BY <1>3, <1>4 DEF Exact, Indices
  <2>2. Falling(input, 1 .. n, 1)
    BY <1>2 DEF Falling
  <2>3. FirstBlockLast(input)
    BY <1>3, <1>5, <1>7 DEF FirstBlockLast
  <2>4. 0 = Len(input) - Cardinality(1 .. n)
    BY <1>2, <1>3, UpToFinite
  <2>5. NonEmpty(input) => Lowest(input, 1 .. n)
    BY <1>3, <1>6, <1>7 DEF Lowest, Indices
  <2> QED
    BY <1>3, <2>1, <2>2, <2>3, <2>4, <2>5 DEF Sorting
<1>11. Passed(input)
  BY <1>2, <1>3, <1>5, <1>6 DEF Passed
<1>12. Positioned(locals, input)
  BY <1>3, <1>6, <1>8, <1>10 DEF Positioned
<1>13. Runs(locals, input)
  BY <1>3, <1>8, <1>9, <1>12 DEF Runs
<1> QED
  BY <1>11, <1>13 DEF Inv

LEMMA InvNext == Inv /\ [Next]_vars => Inv'
<1> SUFFICES ASSUME Inv, [Next]_vars
             PROVE  Inv'
  OBVIOUS
<1>1. CASE Turn
  <2>1. Passed(input) /\ Runs(locals, input)
    BY DEF Inv
  <2>2. locals' = Step(locals) /\ input' = input
    BY <1>1 DEF Turn
  <2>3. Runs(Step(locals), input)
    BY <2>1, RunsStep
  <2> QED
    BY <2>1, <2>2, <2>3 DEF Inv
<1>2. CASE UNCHANGED vars
  BY <1>2 DEF Inv, vars
<1> QED
  BY <1>1, <1>2 DEF Next

LEMMA SpecInv == Spec => []Inv
  BY InvInit, InvNext, PTL DEF Spec

\* The entries that count, in the terms of the invariant.
LEMMA KeptEntries ==
  ASSUME Inv
  PROVE  /\ locals.phase # "compact" => Kept = Unmerged(locals.blocks)
         /\ locals.phase = "compact" =>
              Kept = Moving(locals.blocks, locals.pos, locals.other)
  BY DEF Kept, Entries, Unmerged, Moving, Indices

-----------------------------------------------------------------------------
(***************************************************************************)
(* The theorems                                                            *)
(***************************************************************************)

\* The local variables keep their types, and no loop reads or writes outside
\* of the array.
THEOREM DefragmentTypeOK == Spec => []TypeOK
<1>1. ASSUME Inv
      PROVE  TypeOK
  <2>1. /\ Passed(input) /\ Runs(locals, input)
        /\ locals \in Locals /\ Len(input) \in Nat
    BY <1>1, LocalsType DEF Inv
  <2>2. ASSUME locals.phase = "scan"
        PROVE  /\ locals.pos \in 1 .. Len(input) + 1
               /\ locals.other \in locals.pos .. Len(input) + 1
    BY <2>1, <2>2 DEF Runs, Scanned
  <2>3. ASSUME locals.phase = "compact"
        PROVE  /\ locals.pos \in 1 .. Len(input) + 1
               /\ locals.other \in locals.pos .. Len(input) + 1
    BY <2>1, <2>3 DEF Runs, Compacted
  <2>4. ASSUME locals.phase = "merge"
        PROVE  locals.pos \in 0 .. Len(input) - 1
    BY <2>1, <2>4 DEF Runs, Merging
  <2> QED
    BY <2>1, <2>2, <2>3, <2>4 DEF TypeOK
<1> QED
  BY <1>1, SpecInv, PTL

\* Sorting, merging and squeezing out lose no memory, keep none twice and
\* count the merged entries exactly, at every turn of the first two loops.
THEOREM DefragmentKeepsMemory == Spec => []ScanKeepsMemory
<1>1. ASSUME Inv, locals.phase \in {"position", "scan", "compact"}
      PROVE  /\ Covered(locals.blocks, Kept) = Covered(input, 1 .. Len(input))
             /\ \A i, j \in Kept : i # j => Bytes(locals.blocks[i])
                                     \cap Bytes(locals.blocks[j]) = {}
             /\ locals.merged = Len(input) - Cardinality(Kept)
  <2>1. Runs(locals, input) /\ locals.blocks \in Seq(Cell)
    BY <1>1 DEF Inv, Runs
  <2>2. /\ Exact(locals.blocks, Kept, input)
        /\ locals.merged = Len(input) - Cardinality(Kept)
    <3>1. CASE locals.phase = "position"
      BY <1>1, <2>1, <3>1, KeptEntries DEF Runs, Positioned, Sorting
    <3>2. CASE locals.phase = "scan"
      BY <1>1, <2>1, <3>2, KeptEntries DEF Runs, Scanned, Sorting
    <3>3. CASE locals.phase = "compact"
      BY <1>1, <2>1, <3>3, KeptEntries DEF Runs, Compacted, Compacting
    <3> QED
      BY <1>1, <3>1, <3>2, <3>3
  <2>3. Kept \in SUBSET Indices(locals.blocks)
    BY DEF Kept, Entries, Indices
  <2>4. ASSUME NEW i \in Kept, NEW j \in Kept, i # j
        PROVE  Bytes(locals.blocks[i]) \cap Bytes(locals.blocks[j]) = {}
    BY <2>1, <2>2, <2>3, <2>4, ApartDisjoint DEF Exact
  <2> QED
    BY <2>2, <2>4 DEF Exact, Indices
<1>2. Inv => ScanKeepsMemory
  BY <1>1 DEF ScanKeepsMemory
<1> QED
  BY <1>2, SpecInv, PTL

\* The first loop leaves what it keeps in falling order, each entry behind the
\* end of the next, and squeezing out the merged ones keeps the order.
THEOREM DefragmentSorts == Spec => []SortedAfterScan
<1>1. ASSUME Inv, locals.phase = "compact",
             NEW i \in Kept, NEW j \in Kept, i < j
      PROVE  locals.blocks[i].offset >= EndOf(locals.blocks[j])
  <2>1. /\ Passed(input) /\ Runs(locals, input)
        /\ Indices(locals.blocks) = 1 .. Len(input) /\ Len(input) \in Nat
    BY <1>1, LocalsType DEF Inv
  <2>2. Falling(locals.blocks, Kept, Len(input))
    BY <1>1, <2>1, KeptEntries DEF Runs, Compacted, Compacting
  <2>3. i \in Indices(locals.blocks) /\ j \in Indices(locals.blocks)
    BY DEF Kept, Entries, Indices
  <2>4. i < Len(input)
    BY <1>1, <2>1, <2>3
  <2> QED
    BY <1>1, <2>2, <2>4 DEF Falling
<1>2. Inv => SortedAfterScan
  BY <1>1 DEF SortedAfterScan
<1> QED
  BY <1>2, SpecInv, PTL

\* Up to three free blocks that are not empty come out whole, each address
\* once, the leftmost block last.
THEOREM DefragmentSmallArraysExact ==
  Spec => [](NonEmpty(input) => SmallArraysExact)
<1>1. ASSUME Inv, locals.phase = "done", Len(input) <= 3, NonEmpty(input)
      PROVE  SmallArraysExact
  <2> DEFINE k == Len(input) - locals.merged
  <2>1. /\ Passed(input) /\ Runs(locals, input)
        /\ locals.blocks \in Seq(Cell) /\ Len(input) \in Nat
        /\ Indices(locals.blocks) = 1 .. Len(input)
    BY <1>1, LocalsType DEF Inv
  <2>2. ExactUpTo(locals.blocks, k, input)
    BY <1>1, <2>1 DEF Runs, Finished, Small
  <2>3. Result = 1 .. k
    BY DEF Result
  <2> HIDE DEF k
  <2>4. /\ k \in 1 .. Len(input) /\ Exact(locals.blocks, 1 .. k, input)
        /\ \A i \in 1 .. k : locals.blocks[k].offset <= locals.blocks[i].offset
    BY <2>2 DEF ExactUpTo
  <2>5. 1 .. k \in SUBSET Indices(locals.blocks)
    BY <2>1, <2>4
  <2>6. ASSUME NEW i \in 1 .. k, NEW j \in 1 .. k, i # j
        PROVE  Bytes(locals.blocks[i]) \cap Bytes(locals.blocks[j]) = {}
    BY <2>1, <2>4, <2>5, <2>6, ApartDisjoint DEF Exact
  <2>7. MergedTwice(input) = {}
    <3>1. Len(input) >= 1
      BY <2>1 DEF Passed
    <3>2. input[Len(input)].size > 0
      BY <1>1, <2>1, <3>1 DEF NonEmpty
    <3> QED
      BY <3>2 DEF MergedTwice
  <2>8. Covered(locals.blocks, Result)
          = Covered(input, (1 .. Len(input)) \ MergedTwice(input))
    BY <2>3, <2>4, <2>7 DEF Exact, Indices
  <2> QED
    BY <2>3, <2>4, <2>6, <2>8 DEF k, SmallArraysExact
<1>2. Inv => (NonEmpty(input) => SmallArraysExact)
  BY <1>1 DEF SmallArraysExact
<1> QED
  BY <1>2, SpecInv, PTL
=============================================================================
