----------------------- MODULE FixedSizeAllocator_proofs -----------------------
(***************************************************************************)
(* The fixed-size allocator keeps its table sound, and the table is always *)
(* that of the blocks its callers hold, without a gap in the memory and    *)
(* with their contents kept when a block moves, whatever callers do        *)
(* through the cutl_allocator_t interface, for every size of the memory,   *)
(* of the guards and of the requests.  So it keeps AllocatorContract, but  *)
(* for pointers whose block was kept back.                                 *)
(*                                                                         *)
(* ServeSpec does not include cutl_allocator_fs_defragment: a direct call  *)
(* of it can break the table (FixedSizeDefragment.cfg shows how).          *)
(***************************************************************************)
EXTENDS FixedSizeAllocator, AllocatorLayout_proofs, SequenceTheorems,
        FiniteSetTheorems, WellFoundedInduction

-----------------------------------------------------------------------------
(***************************************************************************)
(* What the functions of FixedSizeTable do to a sound block table          *)
(***************************************************************************)

BlockT == [offset : Nat, size : Nat, state : {"FREE", "USED"}]

Typed(t) ==
  /\ t \in [blocks : Seq(BlockT), free_blocks : Nat]
  /\ t.free_blocks \in 1 .. Len(t.blocks)

Sorted(t) ==
  \A i \in 1 .. Len(t.blocks) :
    t.blocks[i].state = IF i \in UsedIndices(t) THEN "USED" ELSE "FREE"

\* Everything lies behind the start of the last block; only that may be empty.
Placed(t) ==
  LET n == Len(t.blocks)
  IN \A i \in 1 .. n : /\ t.blocks[i].offset >= t.blocks[n].offset
                       /\ EndOf(t.blocks[i]) <= TotalSize
                       /\ i # n => t.blocks[i].size > 0

Apart(t) ==
  \A i, j \in 1 .. Len(t.blocks) :
    i # j => \/ EndOf(t.blocks[i]) <= t.blocks[j].offset
             \/ EndOf(t.blocks[j]) <= t.blocks[i].offset

\* A table that has room for the given number of entries.
SoundFor(t, entries) ==
  /\ Typed(t)
  /\ Sorted(t)
  /\ t.blocks[Len(t.blocks)].offset = InfoSize * entries
  /\ Placed(t)
  /\ Apart(t)

\* The invariant of the allocator's table.
Sound(t) ==
  /\ SoundFor(t, BlockCount(t))
  /\ UsedCount(t) = 0 => t = EmptyTable

\* Every block starts and ends at a multiple of the alignment, but for the
\* last one: that starts where the table ends.
BlockAligned(b) == IsMultiple(b.offset) /\ IsMultiple(b.size)

AlignedTable(t) ==
  LET n == Len(t.blocks)
  IN /\ IsMultiple(EndOf(t.blocks[n]))
     /\ \A i \in 1 .. n - 1 : BlockAligned(t.blocks[i])

\* No memory is lost: a block ends where the memory does, or where another one
\* begins.
Followed(t) ==
  \A i \in 1 .. Len(t.blocks) :
    \/ EndOf(t.blocks[i]) = TotalSize
    \/ \E j \in 1 .. Len(t.blocks) : /\ t.blocks[j].offset = EndOf(t.blocks[i])
                                   /\ t.blocks[j].size > 0

-----------------------------------------------------------------------------

LEMMA EntriesAdd ==
  ASSUME NEW n \in Nat
  PROVE  /\ InfoSize * n \in Nat
         /\ InfoSize * (n + 1) = InfoSize * n + InfoSize
BY TableAssumption

LEMMA BlockFields ==
  ASSUME NEW offset, NEW size, NEW state
  PROVE  /\ MakeBlock(offset, size, state).offset = offset
         /\ MakeBlock(offset, size, state).size = size
         /\ MakeBlock(offset, size, state).state = state
         /\ EndOf(MakeBlock(offset, size, state)) = offset + size
         /\ offset \in Nat /\ size \in Nat /\ state \in {"FREE", "USED"}
              => MakeBlock(offset, size, state) \in BlockT
BY DEF MakeBlock, BlockT, EndOf

LEMMA WithBlocks ==
  ASSUME NEW t \in [blocks : Seq(BlockT), free_blocks : Nat],
         NEW b \in Seq(BlockT)
  PROVE  /\ [t EXCEPT !.blocks = b] \in [blocks : Seq(BlockT), free_blocks : Nat]
         /\ [t EXCEPT !.blocks = b].blocks = b
         /\ [t EXCEPT !.blocks = b].free_blocks = t.free_blocks
OBVIOUS

LEMMA EntryType ==
  ASSUME NEW b \in Seq(BlockT), NEW i \in 1 .. Len(b)
  PROVE  /\ b[i] \in BlockT
         /\ b[i].offset \in Nat /\ b[i].size \in Nat
         /\ b[i].state \in {"FREE", "USED"}
<1>1. b[i] \in BlockT
  OBVIOUS
<1>2. \A x \in BlockT : /\ x.offset \in Nat /\ x.size \in Nat
                        /\ x.state \in {"FREE", "USED"}
  BY DEF BlockT
<1> QED
  BY <1>1, <1>2

\* The three ways entries change, entry by entry.
LEMMA AdjustShape ==
  ASSUME NEW b \in Seq(BlockT), NEW i \in 1 .. Len(b), NEW ahead, NEW more,
         NEW e \in BlockT,
         e = MakeBlock(b[i].offset + ahead, b[i].size + more, b[i].state)
  PROVE  LET r == Adjust(b, i, ahead, more)
         IN /\ r \in Seq(BlockT)
            /\ Len(r) = Len(b)
            /\ \A j \in 1 .. Len(b) : r[j] = IF j = i THEN e ELSE b[j]
<1>1. Adjust(b, i, ahead, more) = [b EXCEPT ![i] = e]
  BY DEF Adjust
<1> QED
  BY <1>1, ExceptSeq

LEMMA MarkShape ==
  ASSUME NEW b \in Seq(BlockT), NEW i \in 1 .. Len(b),
         NEW state \in {"FREE", "USED"}
  PROVE  LET r == Mark(b, i, state)
         IN /\ r \in Seq(BlockT)
            /\ Len(r) = Len(b)
            /\ \A j \in 1 .. Len(b) :
                 r[j] = IF j = i
                        THEN MakeBlock(b[i].offset, b[i].size, state)
                        ELSE b[j]
<1>1. b[i].offset \in Nat /\ b[i].size \in Nat
  BY EntryType
<1>2. MakeBlock(b[i].offset, b[i].size, state) \in BlockT
  BY <1>1, BlockFields
<1> QED
  BY <1>2, ExceptSeq DEF Mark

LEMMA ExchangeShape ==
  ASSUME NEW b \in Seq(BlockT), NEW i \in 1 .. Len(b), NEW j \in 1 .. Len(b)
  PROVE  /\ Exchange(b, i, j) \in Seq(BlockT)
         /\ Len(Exchange(b, i, j)) = Len(b)
         /\ Exchange(b, i, j)[i] = b[j]
         /\ Exchange(b, i, j)[j] = b[i]
         /\ \A k \in 1 .. Len(b) :
              k # i /\ k # j => Exchange(b, i, j)[k] = b[k]
<1> DEFINE once == [b EXCEPT ![i] = b[j]]
<1>1. b[i] \in BlockT /\ b[j] \in BlockT
  OBVIOUS
<1>2. /\ once \in Seq(BlockT) /\ Len(once) = Len(b)
      /\ \A k \in 1 .. Len(b) : once[k] = IF k = i THEN b[j] ELSE b[k]
  BY <1>1, ExceptSeq
<1>3. Exchange(b, i, j) = [once EXCEPT ![j] = b[i]]
  BY DEF Exchange
<1> HIDE DEF once
<1>4. /\ Exchange(b, i, j) \in Seq(BlockT)
      /\ Len(Exchange(b, i, j)) = Len(b)
      /\ \A k \in 1 .. Len(b) :
           Exchange(b, i, j)[k] = IF k = j THEN b[i] ELSE once[k]
  BY <1>1, <1>2, <1>3, ExceptSeq
<1> QED
  BY <1>2, <1>4

LEMMA EmptySound ==
  Sound(EmptyTable) /\ AlignedTable(EmptyTable) /\ Followed(EmptyTable)
<1> DEFINE b == MakeBlock(InfoSize, TotalSize - InfoSize, "FREE")
<1>1. /\ b \in BlockT /\ EndOf(b) = TotalSize
      /\ b.state = "FREE" /\ b.offset = InfoSize
  BY BlockFields, TableAssumption
<1>2. EmptyTable.blocks = << b >> /\ EmptyTable.free_blocks = 1
  BY DEF EmptyTable
<1>3. << b >> \in Seq(BlockT) /\ Len(<< b >>) = 1 /\ << b >>[1] = b
  BY <1>1
<1>4. EmptyTable \in [blocks : Seq(BlockT), free_blocks : Nat]
  BY <1>3 DEF EmptyTable
<1> HIDE DEF b
<1>5. Typed(EmptyTable)
  BY <1>2, <1>3, <1>4 DEF Typed
<1>6. Sorted(EmptyTable)
  BY <1>1, <1>2, <1>3 DEF Sorted, UsedIndices, UsedCount, BlockCount
<1>7. Placed(EmptyTable) /\ Apart(EmptyTable)
  BY <1>1, <1>2, <1>3, TableAssumption DEF Placed, Apart
<1>8. InfoSize * BlockCount(EmptyTable) = InfoSize
  BY <1>2, <1>3, TableAssumption DEF BlockCount
<1>9. AlignedTable(EmptyTable)
  <2>1. IsMultiple(TotalSize)
    BY MultipleAligned, TableAssumption
  <2> QED
    BY <1>1, <1>2, <1>3, <2>1 DEF AlignedTable
<1>10. Followed(EmptyTable)
  BY <1>1, <1>2, <1>3 DEF Followed
<1> QED
  BY <1>1, <1>2, <1>3, <1>5, <1>6, <1>7, <1>8, <1>9, <1>10 DEF Sound, SoundFor

\* The last block lies below all others: none of them ends where it begins.
LEMMA FollowerNotLast ==
  ASSUME NEW t, t.blocks \in Seq(BlockT), Placed(t),
         NEW n, n = Len(t.blocks), n >= 1, NEW i \in 1 .. n,
         NEW j \in 1 .. n, t.blocks[j].offset = EndOf(t.blocks[i]),
         t.blocks[j].size > 0
  PROVE  j # n
<1>1. SUFFICES ASSUME j = n PROVE FALSE
  OBVIOUS
<1>2. /\ t.blocks[i].offset \in Nat /\ t.blocks[i].size \in Nat
      /\ t.blocks[j].offset \in Nat /\ t.blocks[j].size \in Nat
  BY EntryType
<1>3. t.blocks[i].offset >= t.blocks[n].offset /\ t.blocks[i].size > 0
  BY <1>1 DEF Placed
<1> QED
  BY <1>1, <1>2, <1>3 DEF EndOf

\* The last block may begin elsewhere, as long as it ends where it did.
LEMMA FollowedKept ==
  ASSUME NEW t, t.blocks \in Seq(BlockT), Placed(t), Followed(t),
         NEW n, n = Len(t.blocks), n >= 1,
         NEW u, Len(u.blocks) = n,
         \A i \in 1 .. n : i # n => u.blocks[i] = t.blocks[i],
         EndOf(u.blocks[n]) = EndOf(t.blocks[n])
  PROVE  Followed(u)
<1> SUFFICES ASSUME NEW i \in 1 .. n, EndOf(u.blocks[i]) # TotalSize
             PROVE  \E j \in 1 .. n : /\ u.blocks[j].offset = EndOf(u.blocks[i])
                                     /\ u.blocks[j].size > 0
  BY DEF Followed
<1>1. EndOf(u.blocks[i]) = EndOf(t.blocks[i])
  OBVIOUS
<1>2. PICK j \in 1 .. n : /\ t.blocks[j].offset = EndOf(t.blocks[i])
                          /\ t.blocks[j].size > 0
  BY <1>1 DEF Followed
<1>3. j # n
  BY <1>2, FollowerNotLast
<1> QED
  BY <1>1, <1>2, <1>3

\* Taking an entry's worth of memory from the first block leaves room for one
\* more entry: no other block lies in that memory.
LEMMA PaidSound ==
  ASSUME NEW t, Sound(t), t.blocks[BlockCount(t)].size >= InfoSize,
         NEW paid,
         paid = [t EXCEPT !.blocks = PayForEntries(@, BlockCount(t), 1)]
  PROVE  /\ SoundFor(paid, BlockCount(t) + 1)
         /\ BlockCount(paid) = BlockCount(t)
         /\ UsedCount(paid) = UsedCount(t)
         /\ paid.free_blocks = t.free_blocks
         /\ \A i \in UsedIndices(t) : paid.blocks[i] = t.blocks[i]
         /\ \A i \in 1 .. BlockCount(t) - 1 : paid.blocks[i] = t.blocks[i]
         /\ AlignedTable(t) => AlignedTable(paid)
         /\ Followed(t) => Followed(paid)
<1>0. PICK n, first, less : /\ n = Len(t.blocks) /\ first = t.blocks[n]
                            /\ less = MakeBlock(first.offset + InfoSize,
                                                first.size - InfoSize, first.state)
  OBVIOUS
<1>1. Typed(t) /\ n \in Nat /\ n >= 1 /\ t.blocks \in Seq(BlockT)
  BY <1>0 DEF Sound, SoundFor, Typed
<1>2. /\ first \in BlockT /\ first.offset \in Nat /\ first.size \in Nat
      /\ first.offset = InfoSize * n /\ first.size >= InfoSize
  BY <1>0, <1>1, EntryType DEF Sound, SoundFor, BlockCount
<1>3. /\ first.offset + InfoSize \in Nat /\ first.size - InfoSize \in Nat
      /\ first.size + (-InfoSize) = first.size - InfoSize
  BY <1>2, TableAssumption
<1>4. /\ less.offset = first.offset + InfoSize
      /\ less.size = first.size - InfoSize
      /\ less.state = first.state
      /\ EndOf(less) = EndOf(first)
      /\ EndOf(first) = first.offset + first.size
  <2>1. /\ less.offset = first.offset + InfoSize
        /\ less.size = first.size - InfoSize
        /\ less.state = first.state
    BY <1>0, BlockFields
  <2> QED
    BY <1>2, <2>1, TableAssumption DEF EndOf
<1>5. less \in BlockT
  <2>1. first.state \in {"FREE", "USED"}
    BY <1>0, <1>1, EntryType
  <2> QED
    BY <1>0, <1>3, <2>1, BlockFields
<1>6. /\ PayForEntries(t.blocks, n, 1) \in Seq(BlockT)
      /\ Len(PayForEntries(t.blocks, n, 1)) = n
      /\ \A i \in 1 .. n : PayForEntries(t.blocks, n, 1)[i]
                             = IF i = n THEN less ELSE t.blocks[i]
  <2>1. PayForEntries(t.blocks, n, 1) = Adjust(t.blocks, n, InfoSize, -InfoSize)
    BY TableAssumption DEF PayForEntries
  <2>2. less = MakeBlock(t.blocks[n].offset + InfoSize,
                         t.blocks[n].size + (-InfoSize), t.blocks[n].state)
    BY <1>0, <1>3
  <2>3. n \in 1 .. Len(t.blocks)
    BY <1>0, <1>1
  <2> QED
    BY <1>0, <1>1, <1>5, <2>1, <2>2, <2>3, AdjustShape
<1>7. /\ paid.blocks = PayForEntries(t.blocks, n, 1)
      /\ paid.free_blocks = t.free_blocks
      /\ paid \in [blocks : Seq(BlockT), free_blocks : Nat]
  <2>1. paid = [t EXCEPT !.blocks = PayForEntries(t.blocks, n, 1)]
    BY <1>0 DEF BlockCount
  <2>2. t \in [blocks : Seq(BlockT), free_blocks : Nat]
    BY <1>1 DEF Typed
  <2> QED
    BY <1>6, <2>1, <2>2, WithBlocks
<1>8. /\ Len(paid.blocks) = n
      /\ \A i \in 1 .. n : paid.blocks[i] = IF i = n THEN less ELSE t.blocks[i]
  BY <1>6, <1>7
<1>9. BlockCount(paid) = BlockCount(t) /\ UsedCount(paid) = UsedCount(t)
  BY <1>0, <1>7, <1>8 DEF BlockCount, UsedCount
<1>10. \A i \in 1 .. n : i # n => /\ t.blocks[i] \in BlockT
                                  /\ t.blocks[i].size > 0
                                  /\ t.blocks[i].offset >= EndOf(first)
                                  /\ EndOf(t.blocks[i]) <= TotalSize
  <2> SUFFICES ASSUME NEW i \in 1 .. n, i # n
               PROVE  /\ t.blocks[i] \in BlockT
                      /\ t.blocks[i].size > 0
                      /\ t.blocks[i].offset >= EndOf(first)
                      /\ EndOf(t.blocks[i]) <= TotalSize
    OBVIOUS
  <2>1. t.blocks[i] \in BlockT /\ t.blocks[i].offset \in Nat
        /\ t.blocks[i].size \in Nat
    BY <1>0, <1>1, EntryType
  <2>2. /\ t.blocks[i].offset >= first.offset
        /\ EndOf(t.blocks[i]) <= TotalSize
        /\ t.blocks[i].size > 0
    BY <1>0 DEF Sound, SoundFor, Placed
  <2>3. EndOf(t.blocks[i]) <= first.offset \/ EndOf(first) <= t.blocks[i].offset
    BY <1>0, <1>1 DEF Sound, SoundFor, Apart
  <2> QED
    BY <1>2, <2>1, <2>2, <2>3 DEF EndOf, BlockT
<1>11. EndOf(first) <= TotalSize
  BY <1>0, <1>1 DEF Sound, SoundFor, Placed
<1>12. \A i, j \in 1 .. n :
         i # j => \/ EndOf(t.blocks[i]) <= t.blocks[j].offset
                  \/ EndOf(t.blocks[j]) <= t.blocks[i].offset
  BY <1>0 DEF Sound, SoundFor, Apart
<1>13. \A i \in 1 .. n :
         t.blocks[i].state = IF i \in UsedIndices(t) THEN "USED" ELSE "FREE"
  BY <1>0 DEF Sound, SoundFor, Sorted
<1>14. first = t.blocks[n] /\ n = BlockCount(t) /\ n = Len(t.blocks)
  BY <1>0 DEF BlockCount
<1>15. Typed(paid)
  BY <1>1, <1>7, <1>8, <1>14 DEF Typed
<1>16. Sorted(paid)
  BY <1>4, <1>8, <1>9, <1>13, <1>14 DEF Sorted, UsedIndices
<1>17. paid.blocks[Len(paid.blocks)].offset = InfoSize * (BlockCount(t) + 1)
  BY <1>1, <1>2, <1>4, <1>8, <1>14, EntriesAdd
<1>18. Placed(paid)
  <2>1. \A i \in 1 .. n : i # n => less.offset <= t.blocks[i].offset
    <3> SUFFICES ASSUME NEW i \in 1 .. n, i # n
                 PROVE  less.offset <= t.blocks[i].offset
      OBVIOUS
    <3>1. t.blocks[i].offset \in Nat /\ t.blocks[i].offset >= EndOf(first)
      BY <1>0, <1>1, <1>10, EntryType
    <3> QED
      BY <1>2, <1>4, <3>1, TableAssumption
  <2> QED
    BY <1>1, <1>3, <1>4, <1>8, <1>10, <1>11, <2>1 DEF Placed
<1>19. Apart(paid)
  BY <1>1, <1>4, <1>8, <1>10, <1>12, <1>14 DEF Apart
<1>20. \A i \in UsedIndices(t) : paid.blocks[i] = t.blocks[i]
  BY <1>1, <1>8, <1>14 DEF UsedIndices, UsedCount, BlockCount, Typed
<1>21. \A i \in 1 .. n - 1 : paid.blocks[i] = t.blocks[i]
  BY <1>1, <1>8
<1>22. AlignedTable(t) => AlignedTable(paid)
  <2>1. paid.blocks[n] = less
    BY <1>1, <1>8
  <2> QED
    BY <1>4, <1>8, <1>14, <1>21, <2>1 DEF AlignedTable
<1>23. Followed(t) => Followed(paid)
  <2>1. Placed(t)
    BY DEF Sound, SoundFor
  <2>2. /\ \A i \in 1 .. n : i # n => paid.blocks[i] = t.blocks[i]
        /\ EndOf(paid.blocks[n]) = EndOf(t.blocks[n])
    <3>1. paid.blocks[n] = less
      BY <1>1, <1>8
    <3>2. \A i \in 1 .. n : i # n => paid.blocks[i] = t.blocks[i]
      BY <1>8
    <3>3. EndOf(paid.blocks[n]) = EndOf(t.blocks[n])
      BY <1>4, <1>14, <3>1
    <3> QED
      BY <3>2, <3>3
  <2> QED
    <3>1. /\ t.blocks \in Seq(BlockT) /\ n = Len(t.blocks) /\ n >= 1
          /\ Len(paid.blocks) = n
      BY <1>1, <1>8, <1>14
    <3> QED
      BY <2>1, <2>2, <3>1, FollowedKept
<1> QED
  BY <1>7, <1>9, <1>14, <1>15, <1>16, <1>17, <1>18, <1>19, <1>20, <1>21, <1>22,
     <1>23 DEF SoundFor

\* The three conditions a new block and the rest of a split block need.
LEMMA SplitSound ==
  ASSUME NEW t, NEW entries \in Nat, SoundFor(t, entries),
         entries = BlockCount(t) + 1,
         NEW c \in FreeIndices(t), NEW size \in Nat,
         size > 0, t.blocks[c].size >= size,
         c = BlockCount(t) \/ t.blocks[c].size > size,
         NEW new, new = SplitOff(t, c, size)
  PROVE  /\ Sound(new)
         /\ BlockCount(new) = BlockCount(t) + 1
         /\ UsedCount(new) = UsedCount(t) + 1
         /\ \A i \in UsedIndices(t) : new.blocks[i] = t.blocks[i]
         /\ new.blocks[UsedCount(t) + 1].size = size
         /\ AlignedTable(t) /\ IsMultiple(size) => AlignedTable(new)
         /\ Followed(t) => Followed(new)
<1>0. PICK n, k, old, rest, cut :
        /\ n = Len(t.blocks) /\ k = UsedCount(t) + 1
        /\ old = t.blocks[c]
        /\ rest = Adjust(t.blocks, c, 0, -size)
        /\ cut = MakeBlock(EndOf(rest[c]), size, "USED")
  OBVIOUS
<1>1. /\ Typed(t) /\ n \in Nat /\ n >= 1 /\ t.blocks \in Seq(BlockT)
      /\ k \in 1 .. n /\ c \in k .. n /\ c \in 1 .. n /\ UsedCount(t) = k - 1
      /\ t.free_blocks \in Nat /\ UsedCount(t) = n - t.free_blocks
  BY <1>0 DEF SoundFor, Typed, UsedCount, BlockCount, FreeIndices
<1>2. /\ old \in BlockT /\ old.offset \in Nat /\ old.size \in Nat
      /\ old.size >= size /\ (c # n => old.size > size)
  BY <1>0, <1>1, EntryType DEF BlockCount
<1>3. old.state = "FREE"
  <2>1. t.blocks[c].state = IF c \in UsedIndices(t) THEN "USED" ELSE "FREE"
    BY <1>0, <1>1 DEF SoundFor, Sorted
  <2>2. c \notin UsedIndices(t)
    BY <1>1 DEF UsedIndices
  <2> QED
    BY <1>0, <2>1, <2>2
<1>4. /\ rest \in Seq(BlockT) /\ Len(rest) = n
      /\ \A i \in 1 .. n : rest[i] = IF i = c
                                    THEN MakeBlock(old.offset, old.size - size, "FREE")
                                    ELSE t.blocks[i]
  <2>1. PICK e : e = MakeBlock(old.offset, old.size - size, "FREE")
    OBVIOUS
  <2>2. old.offset + 0 = old.offset /\ old.size + (-size) = old.size - size
    BY <1>2
  <2>3. e \in BlockT /\ c \in 1 .. Len(t.blocks)
    <3>1. old.size - size \in Nat
      BY <1>2
    <3> QED
      BY <1>0, <1>1, <1>2, <2>1, <3>1, BlockFields
  <2>4. e = MakeBlock(t.blocks[c].offset + 0, t.blocks[c].size + (-size),
                      t.blocks[c].state)
    BY <1>0, <1>3, <2>1, <2>2
  <2>5. rest = Adjust(t.blocks, c, 0, -size) /\ t.blocks \in Seq(BlockT)
    BY <1>0, <1>1
  <2>6. /\ rest \in Seq(BlockT) /\ Len(rest) = Len(t.blocks)
        /\ \A i \in 1 .. Len(t.blocks) :
             rest[i] = IF i = c THEN e ELSE t.blocks[i]
    BY <2>3, <2>4, <2>5, AdjustShape
  <2> QED
    BY <1>0, <2>1, <2>6
<1>5. /\ rest[c].offset = old.offset /\ rest[c].size = old.size - size
      /\ rest[c].state = "FREE" /\ EndOf(rest[c]) = old.offset + old.size - size
  <2>1. rest[c] = MakeBlock(old.offset, old.size - size, "FREE")
    BY <1>1, <1>4
  <2> QED
    BY <1>2, <2>1, BlockFields
<1>6. /\ cut \in BlockT /\ cut.size = size /\ cut.state = "USED"
      /\ cut.offset = old.offset + old.size - size
      /\ EndOf(cut) = old.offset + old.size
      /\ EndOf(old) = old.offset + old.size
  <2>1. cut = MakeBlock(old.offset + old.size - size, size, "USED")
    BY <1>0, <1>5
  <2>2. old.offset + old.size - size \in Nat
    BY <1>2
  <2>3. /\ cut \in BlockT /\ cut.size = size /\ cut.state = "USED"
        /\ cut.offset = old.offset + old.size - size
        /\ EndOf(cut) = (old.offset + old.size - size) + size
    BY <2>1, <2>2, BlockFields
  <2> QED
    BY <1>2, <2>3 DEF EndOf
<1>7. /\ new.blocks \in Seq(BlockT) /\ Len(new.blocks) = n + 1
      /\ \A i \in 1 .. n + 1 :
           new.blocks[i] = IF i = k THEN cut
                           ELSE IF i = n THEN rest[k]
                           ELSE IF i = n + 1 THEN rest[n] ELSE rest[i]
      /\ new.free_blocks = t.free_blocks
      /\ new \in [blocks : Seq(BlockT), free_blocks : Nat]
  <2>1. PICK a, e, b, d : /\ a = Append(rest, rest[n]) /\ e = rest[k]
                          /\ b = [a EXCEPT ![n] = e]
                          /\ d = [b EXCEPT ![k] = cut]
    OBVIOUS
  <2>2. rest[n] \in BlockT /\ e \in BlockT
    BY <1>1, <1>4, <2>1
  <2>3. /\ a \in Seq(BlockT) /\ Len(a) = n + 1
        /\ \A i \in 1 .. n : a[i] = rest[i]
        /\ a[n + 1] = rest[n]
    BY <1>4, <2>1, <2>2, AppendProperties
  <2>4. /\ b \in Seq(BlockT) /\ Len(b) = n + 1
        /\ \A i \in 1 .. n + 1 : b[i] = IF i = n THEN e ELSE a[i]
    <3>1. n \in 1 .. Len(a)
      BY <1>1, <2>3
    <3>2. b = [a EXCEPT ![n] = e] /\ e \in BlockT /\ a \in Seq(BlockT)
      BY <2>1, <2>2, <2>3
    <3>3. /\ b \in Seq(BlockT) /\ Len(b) = Len(a)
          /\ \A i \in 1 .. Len(a) : b[i] = IF i = n THEN e ELSE a[i]
      BY <3>1, <3>2, ExceptSeq
    <3> QED
      BY <2>3, <3>3
  <2>5. /\ d \in Seq(BlockT) /\ Len(d) = n + 1
        /\ \A i \in 1 .. n + 1 : d[i] = IF i = k THEN cut ELSE b[i]
    <3>1. k \in 1 .. Len(b)
      BY <1>1, <2>4
    <3> QED
      <4>1. d = [b EXCEPT ![k] = cut] /\ cut \in BlockT /\ b \in Seq(BlockT)
        BY <1>6, <2>1, <2>4
      <4>2. /\ d \in Seq(BlockT) /\ Len(d) = Len(b)
            /\ \A i \in 1 .. Len(b) : d[i] = IF i = k THEN cut ELSE b[i]
        BY <3>1, <4>1, ExceptSeq
      <4> QED
        BY <2>4, <4>2
  <2>6. new = [t EXCEPT !.blocks = d]
    BY <1>0, <2>1 DEF SplitOff, BlockCount
  <2>7. t \in [blocks : Seq(BlockT), free_blocks : Nat]
    BY <1>1 DEF Typed
  <2>8. /\ new.blocks = d /\ new.free_blocks = t.free_blocks
        /\ new \in [blocks : Seq(BlockT), free_blocks : Nat]
    BY <2>5, <2>6, <2>7, WithBlocks
  <2> QED
    <3>1. ASSUME NEW i \in 1 .. n + 1
          PROVE  d[i] = IF i = k THEN cut
                        ELSE IF i = n THEN rest[k]
                        ELSE IF i = n + 1 THEN rest[n] ELSE rest[i]
      <4>1. d[i] = IF i = k THEN cut ELSE IF i = n THEN rest[k] ELSE a[i]
        BY <2>1, <2>4, <2>5
      <4>2. a[i] = IF i = n + 1 THEN rest[n] ELSE rest[i]
        BY <1>1, <2>3
      <4> QED
        BY <4>1, <4>2
    <3> QED
      BY <2>5, <2>8, <3>1
<1>8. /\ BlockCount(new) = n + 1 /\ BlockCount(t) = n
      /\ UsedCount(new) = k /\ Typed(new)
  BY <1>0, <1>1, <1>7 DEF BlockCount, UsedCount, Typed
\* Every entry of the new table, by what it was cut from.
<1>9. \A i \in 1 .. n : /\ t.blocks[i] \in BlockT /\ t.blocks[i].offset \in Nat
                        /\ t.blocks[i].size \in Nat
  BY <1>0, <1>1, EntryType
<1>10. Sorted(new)
  <2>1. \A i \in 1 .. n :
          t.blocks[i].state = IF i \in 1 .. k - 1 THEN "USED" ELSE "FREE"
    BY <1>0, <1>1 DEF SoundFor, Sorted, UsedIndices
  <2>2. ASSUME NEW i \in 1 .. n
        PROVE  rest[i].state = IF i \in 1 .. k - 1 THEN "USED" ELSE "FREE"
    <3>1. CASE i = c
      BY <1>1, <1>5, <3>1
    <3>2. CASE i # c
      BY <1>4, <2>1, <3>2
    <3> QED
      BY <3>1, <3>2
  <2> QED
    <3> SUFFICES ASSUME NEW i \in 1 .. n + 1
                 PROVE  new.blocks[i].state
                          = IF i \in 1 .. k THEN "USED" ELSE "FREE"
      BY <1>7, <1>8 DEF Sorted, UsedIndices
    <3>1. k \in 1 .. n /\ n \in 1 .. n /\ k \notin 1 .. k - 1
          /\ n \notin 1 .. k - 1
      BY <1>1
    <3>2. CASE i = k
      BY <1>6, <1>7, <3>1, <3>2
    <3>3. CASE i # k /\ i = n
      <4>1. new.blocks[i] = rest[k] /\ i \notin 1 .. k
        BY <1>1, <1>7, <3>3
      <4> QED
        BY <2>2, <3>1, <4>1
    <3>4. CASE i # k /\ i = n + 1
      <4>1. new.blocks[i] = rest[n] /\ i \notin 1 .. k
        BY <1>1, <1>7, <3>4
      <4> QED
        BY <2>2, <3>1, <4>1
    <3>5. CASE i # k /\ i # n /\ i # n + 1
      <4>1. new.blocks[i] = rest[i] /\ i \in 1 .. n
        BY <1>1, <1>7, <3>5
      <4>2. i \in 1 .. k <=> i \in 1 .. k - 1
        BY <1>1, <3>5
      <4> QED
        BY <2>2, <4>1, <4>2
    <3> QED
      BY <3>2, <3>3, <3>4, <3>5
\* What the blocks of rest and the block cut off them have in common with the
\* blocks of the old table.
<1>11. ASSUME NEW i \in 1 .. n
       PROVE  /\ rest[i].offset = t.blocks[i].offset
              /\ rest[i].offset \in Nat /\ EndOf(rest[i]) \in Nat
              /\ EndOf(rest[i]) <= EndOf(t.blocks[i])
              /\ EndOf(t.blocks[i]) = t.blocks[i].offset + t.blocks[i].size
              /\ i # n => rest[i].size > 0
  <2>1. i # n => t.blocks[i].size > 0
    BY <1>0 DEF SoundFor, Placed
  <2>2. CASE i = c
    <3>1. /\ rest[i].offset = old.offset /\ rest[i].size = old.size - size
          /\ EndOf(rest[i]) = old.offset + old.size - size
          /\ t.blocks[i] = old
      BY <1>0, <1>5, <2>2
    <3>2. i # n => old.size > size
      BY <1>2, <2>2
    <3>3. EndOf(old) = old.offset + old.size
      BY <1>6
    <3> QED
      BY <1>2, <3>1, <3>2, <3>3
  <2>3. CASE i # c
    <3>1. rest[i] = t.blocks[i]
      BY <1>4, <2>3
    <3> QED
      BY <1>9, <2>1, <3>1 DEF EndOf
  <2> QED
    BY <2>2, <2>3
<1>12. ASSUME NEW i \in 1 .. n, NEW j \in 1 .. n, i # j
       PROVE  \/ EndOf(rest[i]) <= rest[j].offset
              \/ EndOf(rest[j]) <= rest[i].offset
  <2>1. \/ EndOf(t.blocks[i]) <= t.blocks[j].offset
        \/ EndOf(t.blocks[j]) <= t.blocks[i].offset
    BY <1>0, <1>12 DEF SoundFor, Apart
  <2> QED
    BY <1>9, <1>11, <2>1
<1>13. ASSUME NEW i \in 1 .. n
       PROVE  \/ EndOf(rest[i]) <= cut.offset
              \/ EndOf(cut) <= rest[i].offset
  <2>1. CASE i = c
    BY <1>2, <1>5, <1>6, <2>1
  <2>2. CASE i # c
    <3>1. \/ EndOf(t.blocks[i]) <= old.offset
          \/ EndOf(old) <= t.blocks[i].offset
      BY <1>0, <1>1, <2>2 DEF SoundFor, Apart
    <3>2. old.offset <= cut.offset /\ cut.offset \in Nat /\ EndOf(cut) = EndOf(old)
      BY <1>2, <1>6
    <3> QED
      BY <1>2, <1>6, <1>9, <1>11, <3>1, <3>2
  <2> QED
    BY <2>1, <2>2
<1> DEFINE src(i) == IF i = n THEN k ELSE IF i = n + 1 THEN n ELSE i
<1>14. \A i \in 1 .. n + 1 : i # k => /\ src(i) \in 1 .. n
                                      /\ new.blocks[i] = rest[src(i)]
                                      /\ i # n + 1 => src(i) # n
  BY <1>1, <1>7
<1>15. \A i, j \in 1 .. n + 1 :
         i # k /\ j # k /\ i # j => src(i) # src(j)
  BY <1>1
<1>16. new.blocks[k] = cut /\ new.blocks[n + 1] = rest[n]
  BY <1>1, <1>7
<1> HIDE DEF src
<1>17. Apart(new)
  <2> SUFFICES ASSUME NEW i \in 1 .. n + 1, NEW j \in 1 .. n + 1, i # j
               PROVE  \/ EndOf(new.blocks[i]) <= new.blocks[j].offset
                      \/ EndOf(new.blocks[j]) <= new.blocks[i].offset
    BY <1>7 DEF Apart
  <2>1. CASE i = k
    BY <1>13, <1>14, <1>16, <2>1
  <2>2. CASE j = k
    BY <1>13, <1>14, <1>16, <2>2
  <2>3. CASE i # k /\ j # k
    BY <1>12, <1>14, <1>15, <2>3
  <2> QED
    BY <2>1, <2>2, <2>3
<1>18. Placed(new)
  <2>1. \A i \in 1 .. n : /\ t.blocks[i].offset >= t.blocks[n].offset
                         /\ EndOf(t.blocks[i]) <= TotalSize
    BY <1>0 DEF SoundFor, Placed
  <2>2. \A i \in 1 .. n : /\ rest[i].offset >= rest[n].offset
                         /\ EndOf(rest[i]) <= TotalSize
    <3> TAKE i \in 1 .. n
    <3>1. /\ EndOf(rest[i]) \in Nat
          /\ EndOf(t.blocks[i]) = t.blocks[i].offset + t.blocks[i].size
          /\ EndOf(rest[i]) <= EndOf(t.blocks[i])
          /\ rest[i].offset = t.blocks[i].offset
      BY <1>11
    <3>2. EndOf(t.blocks[i]) \in Nat
      BY <1>9, <3>1
    <3>3. rest[n].offset = t.blocks[n].offset
      <4>1. n \in 1 .. n
        BY <1>1
      <4> QED
        BY <1>11, <4>1
    <3> QED
      BY <2>1, <3>1, <3>2, <3>3, TableAssumption
  <2>3. cut.offset >= rest[n].offset /\ EndOf(cut) <= TotalSize /\ cut.size > 0
    <3>1. old.offset >= t.blocks[n].offset /\ EndOf(old) <= TotalSize
      BY <1>0, <1>1, <2>1
    <3>2. rest[n].offset = t.blocks[n].offset /\ rest[n].offset \in Nat
      <4>1. n \in 1 .. n
        BY <1>1
      <4> QED
        BY <1>11, <4>1
    <3> QED
      BY <1>2, <1>6, <3>1, <3>2
  <2> SUFFICES ASSUME NEW i \in 1 .. n + 1
               PROVE  /\ new.blocks[i].offset >= rest[n].offset
                      /\ EndOf(new.blocks[i]) <= TotalSize
                      /\ i # n + 1 => new.blocks[i].size > 0
    BY <1>7, <1>16 DEF Placed
  <2>4. CASE i = k
    BY <1>16, <2>3, <2>4
  <2>5. CASE i # k
    BY <1>11, <1>14, <2>2, <2>5
  <2> QED
    BY <2>4, <2>5
<1>19. new.blocks[Len(new.blocks)].offset = InfoSize * BlockCount(new)
  <2>1. t.blocks[n].offset = InfoSize * entries
    BY <1>0 DEF SoundFor
  <2>2. rest[n].offset = t.blocks[n].offset
    <3>1. n \in 1 .. n
      BY <1>1
    <3> QED
      BY <1>11, <3>1
  <2>3. Len(new.blocks) = n + 1 /\ BlockCount(new) = entries
    BY <1>7, <1>8
  <2> QED
    BY <1>16, <2>1, <2>2, <2>3
<1>20. \A i \in UsedIndices(t) : new.blocks[i] = t.blocks[i]
  <2> SUFFICES ASSUME NEW i \in UsedIndices(t)
               PROVE  new.blocks[i] = t.blocks[i]
    OBVIOUS
  <2>1. i \in 1 .. n /\ i # k /\ i # n /\ i # n + 1 /\ i # c
    BY <1>1 DEF UsedIndices
  <2>2. new.blocks[i] = rest[i]
    <3>1. i \in 1 .. n + 1
      BY <1>1, <2>1
    <3> QED
      BY <1>7, <2>1, <3>1
  <2> QED
    BY <1>4, <2>1, <2>2
<1>21. UsedCount(new) # 0
  BY <1>1, <1>8
<1>22. AlignedTable(t) /\ IsMultiple(size) => AlignedTable(new)
  <2> SUFFICES ASSUME AlignedTable(t), IsMultiple(size)
               PROVE  AlignedTable(new)
    OBVIOUS
  <2>1. /\ IsMultiple(EndOf(t.blocks[n]))
        /\ \A i \in 1 .. n : i # n => BlockAligned(t.blocks[i])
    BY <1>0, <1>1 DEF AlignedTable
  <2>2. IsMultiple(old.offset + old.size) /\ old.offset + old.size >= size
    <3>1. CASE c = n
      BY <1>0, <1>2, <1>6, <2>1, <3>1, SMTT(30)
    <3>2. CASE c # n
      <4>1. BlockAligned(old)
        BY <1>0, <1>1, <2>1, <3>2
      <4>2. IsMultiple(old.offset) /\ IsMultiple(old.size)
        BY <4>1 DEF BlockAligned
      <4>3. IsMultiple(old.offset + old.size)
        BY <4>2, SumMultiple
      <4> QED
        BY <1>2, <4>3
    <3> QED
      BY <3>1, <3>2
  <2>3. IsMultiple(EndOf(rest[c])) /\ BlockAligned(cut)
    <3>1. IsMultiple(old.offset + old.size - size)
      <4>1. PICK end : end = old.offset + old.size
        OBVIOUS
      <4>2. IsMultiple(end - size)
        BY <2>2, <4>1, DifferenceMultiple
      <4> QED
        BY <1>2, <4>1, <4>2
    <3> QED
      BY <1>5, <1>6, <3>1 DEF BlockAligned
  <2>4. IsMultiple(EndOf(rest[n]))
    <3>1. CASE c = n
      BY <2>3, <3>1
    <3>2. CASE c # n
      BY <1>1, <1>4, <2>1, <3>2
    <3> QED
      BY <3>1, <3>2
  <2>5. ASSUME NEW i \in 1 .. n, i # n PROVE BlockAligned(rest[i])
    <3>1. CASE i = c
      <4>1. IsMultiple(old.offset) /\ IsMultiple(old.size)
        BY <1>0, <2>1, <2>5, <3>1 DEF BlockAligned
      <4>2. IsMultiple(old.size - size)
        BY <1>2, <4>1, DifferenceMultiple
      <4> QED
        BY <1>5, <3>1, <4>1, <4>2 DEF BlockAligned
    <3>2. CASE i # c
      BY <1>4, <2>1, <2>5, <3>2
    <3> QED
      BY <3>1, <3>2
  <2>6. ASSUME NEW i \in 1 .. n PROVE BlockAligned(new.blocks[i])
    <3>1. i \in 1 .. n + 1 /\ i # n + 1
      BY <1>1
    <3> QED
      BY <1>14, <1>16, <2>3, <2>5, <3>1
  <2>7. 1 .. (n + 1) - 1 = 1 .. n
    BY <1>1
  <2> QED
    BY <1>7, <1>16, <2>4, <2>6, <2>7 DEF AlignedTable
<1>23. Followed(t) => Followed(new)
  <2> SUFFICES ASSUME Followed(t) PROVE Followed(new)
    OBVIOUS
  \* Every block of rest is somewhere in the new table.
  <2>1. ASSUME NEW j \in 1 .. n
        PROVE  \E l \in 1 .. n + 1 : new.blocks[l] = rest[j]
    <3>1. CASE j = n
      BY <1>1, <1>16, <3>1
    <3>2. CASE j # n /\ j = k
      <4>1. n \in 1 .. n + 1 /\ n # k
        BY <1>1, <3>2
      <4>2. new.blocks[n] = rest[k]
        BY <1>7, <4>1
      <4> QED
        BY <3>2, <4>1, <4>2
    <3>3. CASE j # n /\ j # k
      <4>1. j \in 1 .. n + 1 /\ j # n + 1
        BY <1>1
      <4> QED
        BY <1>7, <3>3, <4>1
    <3> QED
      BY <3>1, <3>2, <3>3
  <2>2. ASSUME NEW i \in 1 .. n, EndOf(t.blocks[i]) # TotalSize
        PROVE  \E l \in 1 .. n + 1 :
                 /\ new.blocks[l].offset = EndOf(t.blocks[i])
                 /\ new.blocks[l].size > 0
    <3>1. PICK j \in 1 .. n : /\ t.blocks[j].offset = EndOf(t.blocks[i])
                              /\ t.blocks[j].size > 0
      BY <1>0, <2>2 DEF Followed
    <3>2. j # n
      <4>1. Placed(t)
        BY DEF SoundFor
      <4> QED
        BY <1>0, <1>1, <3>1, <4>1, FollowerNotLast
    <3>3. rest[j].offset = EndOf(t.blocks[i]) /\ rest[j].size > 0
      BY <1>11, <3>1, <3>2
    <3> QED
      BY <2>1, <3>3
  <2>3. k \in 1 .. n + 1
    BY <1>1
  <2> SUFFICES ASSUME NEW i \in 1 .. n + 1, EndOf(new.blocks[i]) # TotalSize
               PROVE  \E l \in 1 .. n + 1 :
                        /\ new.blocks[l].offset = EndOf(new.blocks[i])
                        /\ new.blocks[l].size > 0
    BY <1>7 DEF Followed
  <2>4. CASE i = k
    <3>1. EndOf(new.blocks[i]) = EndOf(t.blocks[c])
      BY <1>0, <1>6, <1>16, <2>4
    <3> QED
      BY <1>1, <2>2, <3>1
  <2>5. CASE i # k
    <3>1. PICK m \in 1 .. n : new.blocks[i] = rest[m]
      BY <1>14, <2>5
    <3>2. CASE m = c
      <4>1. EndOf(new.blocks[i]) = cut.offset
        BY <1>5, <1>6, <3>1, <3>2
      <4> QED
        BY <1>6, <1>16, <2>3, <4>1
    <3>3. CASE m # c
      <4>1. EndOf(new.blocks[i]) = EndOf(t.blocks[m])
        BY <1>4, <3>1, <3>3
      <4> QED
        BY <2>2, <4>1
    <3> QED
      BY <3>2, <3>3
  <2> QED
    BY <2>4, <2>5
<1> QED
  BY <1>1, <1>6, <1>8, <1>10, <1>16, <1>17, <1>18, <1>19, <1>20, <1>21, <1>22,
     <1>23 DEF Sound, SoundFor

SamePlace(b, c) == b.offset = c.offset /\ b.size = c.size

SameLength(t, u, n) ==
  n \in Nat /\ n >= 1 /\ Len(t.blocks) = n /\ Len(u.blocks) = n

\* The entries of u are those of t in another order, but for the last.
Rearranges(t, u, n, p) ==
  /\ p \in [1 .. n -> 1 .. n] /\ p[n] = n
  /\ \A i, j \in 1 .. n : i # j => p[i] # p[j]
  /\ \A i \in 1 .. n : SamePlace(u.blocks[i], t.blocks[p[i]])

ChangePlaces(t, u, n, i, k) ==
  /\ i \in 1 .. n - 1 /\ k \in 1 .. n - 1
  /\ SamePlace(u.blocks[i], t.blocks[k])
  /\ SamePlace(u.blocks[k], t.blocks[i])
  /\ \A j \in 1 .. n :
       j # i /\ j # k => SamePlace(u.blocks[j], t.blocks[j])

\* Moving entries of the table about, other than the last one, and changing
\* their states, leaves the blocks where they are.
LEMMA Rearranged ==
  ASSUME NEW t, NEW u, NEW n, SameLength(t, u, n), Placed(t), Apart(t),
         NEW p, Rearranges(t, u, n, p)
  PROVE  Placed(u) /\ Apart(u)
<1>0. /\ n \in Nat /\ n >= 1 /\ Len(t.blocks) = n /\ Len(u.blocks) = n
      /\ p \in [1 .. n -> 1 .. n] /\ p[n] = n
      /\ \A i, j \in 1 .. n : i # j => p[i] # p[j]
      /\ \A i \in 1 .. n : /\ u.blocks[i].offset = t.blocks[p[i]].offset
                           /\ u.blocks[i].size = t.blocks[p[i]].size
  BY DEF SameLength, Rearranges, SamePlace
<1>1. \A i \in 1 .. n : EndOf(u.blocks[i]) = EndOf(t.blocks[p[i]])
  BY <1>0 DEF EndOf
<1>2. Placed(u)
  <2> SUFFICES ASSUME NEW i \in 1 .. n
               PROVE  /\ u.blocks[i].offset >= u.blocks[n].offset
                      /\ EndOf(u.blocks[i]) <= TotalSize
                      /\ i # n => u.blocks[i].size > 0
    BY <1>0 DEF Placed
  <2>1. p[i] \in 1 .. n /\ (i # n => p[i] # n) /\ n \in 1 .. n
    BY <1>0
  <2>2. /\ t.blocks[p[i]].offset >= t.blocks[n].offset
        /\ EndOf(t.blocks[p[i]]) <= TotalSize
        /\ p[i] # n => t.blocks[p[i]].size > 0
    BY <1>0, <2>1 DEF Placed
  <2> QED
    BY <1>0, <1>1, <2>1, <2>2
<1>3. Apart(u)
  <2> SUFFICES ASSUME NEW i \in 1 .. n, NEW j \in 1 .. n, i # j
               PROVE  \/ EndOf(u.blocks[i]) <= u.blocks[j].offset
                      \/ EndOf(u.blocks[j]) <= u.blocks[i].offset
    BY <1>0 DEF Apart
  <2>1. p[i] \in 1 .. n /\ p[j] \in 1 .. n /\ p[i] # p[j]
    BY <1>0
  <2>2. \/ EndOf(t.blocks[p[i]]) <= t.blocks[p[j]].offset
        \/ EndOf(t.blocks[p[j]]) <= t.blocks[p[i]].offset
    BY <1>0, <2>1 DEF Apart
  <2> QED
    BY <1>0, <1>1, <2>2
<1> QED
  BY <1>2, <1>3

\* Two entries change places; the permutation Rearranged asks for.
LEMMA Exchanged ==
  ASSUME NEW t, NEW u, NEW n, SameLength(t, u, n), Placed(t), Apart(t),
         NEW i, NEW k, ChangePlaces(t, u, n, i, k)
  PROVE  Placed(u) /\ Apart(u) /\ (Followed(t) => Followed(u))
<1>1. PICK p : p = [j \in 1 .. n |-> IF j = i THEN k
                                     ELSE IF j = k THEN i ELSE j]
  OBVIOUS
<1>2. n \in Nat /\ n >= 1 /\ i \in 1 .. n - 1 /\ k \in 1 .. n - 1
  BY DEF SameLength, ChangePlaces
<1>3. p \in [1 .. n -> 1 .. n] /\ p[n] = n
  BY <1>1, <1>2
<1>4. \A j, l \in 1 .. n : j # l => p[j] # p[l]
  BY <1>1, <1>2
<1>5. \A j \in 1 .. n : SamePlace(u.blocks[j], t.blocks[p[j]])
  BY <1>1, <1>2 DEF ChangePlaces
<1>6. Rearranges(t, u, n, p)
  BY <1>3, <1>4, <1>5 DEF Rearranges
<1>7. Followed(t) => Followed(u)
  <2> SUFFICES ASSUME Followed(t), NEW j \in 1 .. n,
                      EndOf(u.blocks[j]) # TotalSize
               PROVE  \E l \in 1 .. n :
                        /\ u.blocks[l].offset = EndOf(u.blocks[j])
                        /\ u.blocks[l].size > 0
    BY DEF Followed, SameLength
  <2>1. EndOf(u.blocks[j]) = EndOf(t.blocks[p[j]]) /\ p[j] \in 1 .. n
    BY <1>3, <1>5 DEF SamePlace, EndOf
  <2>2. PICK m \in 1 .. n : /\ t.blocks[m].offset = EndOf(t.blocks[p[j]])
                            /\ t.blocks[m].size > 0
    BY <2>1 DEF Followed, SameLength
  <2>3. p[m] \in 1 .. n /\ p[p[m]] = m
    BY <1>1, <1>2, <1>3
  <2>4. SamePlace(u.blocks[p[m]], t.blocks[m])
    BY <1>5, <2>3
  <2> QED
    BY <2>1, <2>2, <2>3, <2>4 DEF SamePlace
<1> QED
  BY <1>6, <1>7, Rearranged

\* The first block gets an entry's worth of memory back: the memory it grows
\* into belonged to no block.
LEMMA RepaidPlaced ==
  ASSUME NEW t, NEW m \in Nat, SoundFor(t, m + 1),
         NEW n, n = Len(t.blocks),
         NEW more,
         more = MakeBlock(InfoSize * m, t.blocks[n].size + InfoSize,
                          t.blocks[n].state),
         NEW u, Len(u.blocks) = n,
         \A i \in 1 .. n : u.blocks[i] = IF i = n THEN more ELSE t.blocks[i]
  PROVE  /\ more \in BlockT /\ Placed(u) /\ Apart(u)
         /\ EndOf(more) = EndOf(t.blocks[n])
<1>1. PICK first : first = t.blocks[n]
  OBVIOUS
<1>2. n \in Nat /\ n >= 1 /\ t.blocks \in Seq(BlockT)
  BY DEF SoundFor, Typed
<1>3. /\ first.offset \in Nat /\ first.size \in Nat
      /\ first.state \in {"FREE", "USED"}
      /\ first.offset = InfoSize * m + InfoSize /\ InfoSize * m \in Nat
  <2>1. first.offset = InfoSize * (m + 1)
    BY <1>1 DEF SoundFor
  <2>2. /\ first.offset \in Nat /\ first.size \in Nat
        /\ first.state \in {"FREE", "USED"}
    BY <1>1, <1>2, EntryType
  <2>3. /\ InfoSize * m \in Nat
        /\ InfoSize * (m + 1) = InfoSize * m + InfoSize
    BY EntriesAdd
  <2> QED
    BY <2>1, <2>2, <2>3
<1>4. first.size + InfoSize \in Nat
  BY <1>3, TableAssumption
<1>5. /\ more \in BlockT /\ more.offset = InfoSize * m
      /\ EndOf(more) = InfoSize * m + (first.size + InfoSize)
  BY <1>1, <1>3, <1>4, BlockFields
<1>6. EndOf(more) = EndOf(first) /\ EndOf(first) = first.offset + first.size
  BY <1>3, <1>5, TableAssumption DEF EndOf
<1>7. /\ more.offset \in Nat /\ more.offset <= EndOf(first)
      /\ EndOf(first) \in Nat
  <2>1. more.offset = first.offset - InfoSize /\ more.offset \in Nat
    BY <1>3, <1>5, TableAssumption
  <2>2. EndOf(first) \in Nat /\ EndOf(first) >= first.offset
    BY <1>3, <1>6
  <2> QED
    BY <1>3, <2>1, <2>2, TableAssumption
<1>8. EndOf(first) <= TotalSize
  BY <1>1, <1>2 DEF SoundFor, Placed
<1>9. \A i \in 1 .. n :
        i # n => /\ t.blocks[i].offset \in Nat /\ t.blocks[i].size > 0
                 /\ t.blocks[i].offset >= EndOf(first)
                 /\ EndOf(t.blocks[i]) <= TotalSize
  <2> SUFFICES ASSUME NEW i \in 1 .. n, i # n
               PROVE  /\ t.blocks[i].offset \in Nat /\ t.blocks[i].size > 0
                      /\ t.blocks[i].offset >= EndOf(first)
                      /\ EndOf(t.blocks[i]) <= TotalSize
    OBVIOUS
  <2>1. t.blocks[i].offset \in Nat /\ t.blocks[i].size \in Nat
    BY <1>2, EntryType
  <2>2. /\ t.blocks[i].offset >= first.offset
        /\ EndOf(t.blocks[i]) <= TotalSize
        /\ t.blocks[i].size > 0
    BY <1>1 DEF SoundFor, Placed
  <2>3. EndOf(t.blocks[i]) <= first.offset \/ EndOf(first) <= t.blocks[i].offset
    BY <1>1, <1>2 DEF SoundFor, Apart
  <2> QED
    BY <1>3, <1>6, <2>1, <2>2, <2>3 DEF EndOf
<1>10. Placed(u)
  <2> SUFFICES ASSUME NEW i \in 1 .. n
               PROVE  /\ u.blocks[i].offset >= more.offset
                      /\ EndOf(u.blocks[i]) <= TotalSize
                      /\ i # n => u.blocks[i].size > 0
    BY <1>2 DEF Placed
  <2>1. CASE i = n
    BY <1>6, <1>7, <1>8, <2>1
  <2>2. CASE i # n
    <3>1. u.blocks[i] = t.blocks[i]
      BY <2>2
    <3> QED
      BY <1>7, <1>9, <2>2, <3>1
  <2> QED
    BY <2>1, <2>2
<1>11. Apart(u)
  <2> SUFFICES ASSUME NEW i \in 1 .. n, NEW j \in 1 .. n, i # j
               PROVE  \/ EndOf(u.blocks[i]) <= u.blocks[j].offset
                      \/ EndOf(u.blocks[j]) <= u.blocks[i].offset
    BY DEF Apart
  <2>1. CASE i = n
    BY <1>6, <1>9, <2>1
  <2>2. CASE j = n
    BY <1>6, <1>9, <2>2
  <2>3. CASE i # n /\ j # n
    BY <2>3 DEF SoundFor, Apart
  <2> QED
    BY <2>1, <2>2, <2>3
<1> QED
  BY <1>1, <1>5, <1>6, <1>10, <1>11

\* A block handed out whole: the first block gets its entry back.
LEMMA WholeSound ==
  ASSUME NEW t, SoundFor(t, BlockCount(t) + 1),
         NEW c \in FreeIndices(t), c # BlockCount(t),
         NEW new, new = HandOutWhole(t, c)
  PROVE  /\ Sound(new)
         /\ BlockCount(new) = BlockCount(t)
         /\ UsedCount(new) = UsedCount(t) + 1
         /\ \A i \in UsedIndices(t) : new.blocks[i] = t.blocks[i]
         /\ new.blocks[UsedCount(t) + 1].size = t.blocks[c].size
         /\ AlignedTable(t) => AlignedTable(new)
         /\ Followed(t) => Followed(new)
<1>0. PICK n, k, marked, repaid, more, given :
        /\ n = Len(t.blocks) /\ k = UsedCount(t) + 1
        /\ marked = Mark(t.blocks, c, "USED")
        /\ repaid = PayForEntries(marked, n, -1)
        /\ more = MakeBlock(InfoSize * n, t.blocks[n].size + InfoSize,
                            t.blocks[n].state)
        /\ given = MakeBlock(t.blocks[c].offset, t.blocks[c].size, "USED")
  OBVIOUS
<1>1. /\ n \in Nat /\ n >= 1 /\ t.blocks \in Seq(BlockT)
      /\ k \in 1 .. n - 1 /\ c \in k .. n - 1 /\ c \in 1 .. n
      /\ UsedCount(t) = k - 1
      /\ t.free_blocks \in Nat /\ UsedCount(t) = n - t.free_blocks
      /\ t \in [blocks : Seq(BlockT), free_blocks : Nat]
      /\ BlockCount(t) = n
  BY <1>0 DEF SoundFor, Typed, UsedCount, BlockCount, FreeIndices
<1>2. /\ marked \in Seq(BlockT) /\ Len(marked) = n
      /\ \A j \in 1 .. n : marked[j] = IF j = c THEN given ELSE t.blocks[j]
  <2>1. c \in 1 .. Len(t.blocks) /\ "USED" \in {"FREE", "USED"}
    BY <1>0, <1>1
  <2>2. /\ marked \in Seq(BlockT) /\ Len(marked) = Len(t.blocks)
        /\ \A j \in 1 .. Len(t.blocks) :
             marked[j] = IF j = c THEN given ELSE t.blocks[j]
    <3>1. t.blocks \in Seq(BlockT)
      BY <1>1
    <3>2. /\ marked = Mark(t.blocks, c, "USED")
          /\ given = MakeBlock(t.blocks[c].offset, t.blocks[c].size, "USED")
      BY <1>0
    <3>3. /\ Mark(t.blocks, c, "USED") \in Seq(BlockT)
          /\ Len(Mark(t.blocks, c, "USED")) = Len(t.blocks)
          /\ \A j \in 1 .. Len(t.blocks) :
               Mark(t.blocks, c, "USED")[j]
                 = IF j = c
                   THEN MakeBlock(t.blocks[c].offset, t.blocks[c].size, "USED")
                   ELSE t.blocks[j]
      BY <2>1, <3>1, MarkShape
    <3> QED
      BY <3>2, <3>3
  <2> QED
    BY <1>0, <2>2
<1>3. /\ t.blocks[n].offset = InfoSize * n + InfoSize
      /\ InfoSize * n \in Nat /\ t.blocks[n].size \in Nat
      /\ t.blocks[n].offset \in Nat
  <2>1. t.blocks[n].offset = InfoSize * (n + 1)
    BY <1>0, <1>1 DEF SoundFor
  <2>2. t.blocks[n].size \in Nat /\ t.blocks[n].offset \in Nat
    <3>1. n \in 1 .. Len(t.blocks)
      BY <1>0, <1>1
    <3> QED
      BY <1>1, <3>1, EntryType
  <2> QED
    BY <1>1, <2>1, <2>2, EntriesAdd
<1>4. more \in BlockT
  <2>1. t.blocks[n].state \in {"FREE", "USED"}
    BY <1>0, <1>1, EntryType
  <2>2. t.blocks[n].size + InfoSize \in Nat
    BY <1>3, TableAssumption
  <2> QED
    BY <1>0, <1>3, <2>1, <2>2, BlockFields
<1>5. /\ repaid \in Seq(BlockT) /\ Len(repaid) = n
      /\ \A j \in 1 .. n : repaid[j] = IF j = n THEN more ELSE marked[j]
  <2>1. repaid = Adjust(marked, n, -InfoSize, InfoSize)
    <3>1. (-1) * InfoSize = -InfoSize /\ -((-1) * InfoSize) = InfoSize
      BY TableAssumption
    <3> QED
      BY <1>0, <3>1 DEF PayForEntries
  <2>2. marked[n] = t.blocks[n]
    BY <1>1, <1>2
  <2>3. t.blocks[n].offset + (-InfoSize) = InfoSize * n
    BY <1>3, TableAssumption
  <2>4. more = MakeBlock(marked[n].offset + (-InfoSize),
                         marked[n].size + InfoSize, marked[n].state)
    BY <1>0, <2>2, <2>3
  <2>5. n \in 1 .. Len(marked)
    BY <1>1, <1>2
  <2> QED
    BY <1>2, <1>4, <2>1, <2>4, <2>5, AdjustShape
<1>6. /\ new.blocks \in Seq(BlockT) /\ Len(new.blocks) = n
      /\ \A j \in 1 .. n : new.blocks[j] = IF j = c THEN repaid[k]
                                           ELSE IF j = k THEN repaid[c]
                                           ELSE repaid[j]
      /\ new.free_blocks = t.free_blocks - 1
      /\ new \in [blocks : Seq(BlockT), free_blocks : Nat]
  <2>1. PICK b : b = Exchange(repaid, k, c)
    OBVIOUS
  <2>2. new = [blocks |-> b, free_blocks |-> t.free_blocks - 1]
    BY <1>0, <1>1, <2>1 DEF HandOutWhole
  <2>3. /\ b \in Seq(BlockT) /\ Len(b) = n
        /\ \A j \in 1 .. n : b[j] = IF j = c THEN repaid[k]
                                    ELSE IF j = k THEN repaid[c]
                                    ELSE repaid[j]
    <3>1. k \in 1 .. Len(repaid) /\ c \in 1 .. Len(repaid)
      BY <1>1, <1>5
    <3>2. /\ b \in Seq(BlockT) /\ Len(b) = Len(repaid)
          /\ b[c] = repaid[k] /\ b[k] = repaid[c]
          /\ \A j \in 1 .. Len(repaid) : j # k /\ j # c => b[j] = repaid[j]
      <4>1. repaid \in Seq(BlockT)
        BY <1>5
      <4> QED
        BY <2>1, <3>1, <4>1, ExchangeShape
    <3> QED
      BY <1>5, <3>2
  <2>4. t.free_blocks - 1 \in Nat
    BY <1>1
  <2> QED
    BY <2>2, <2>3, <2>4
<1>7. BlockCount(new) = n /\ UsedCount(new) = k /\ Typed(new)
  <2>1. BlockCount(new) = n
    BY <1>6 DEF BlockCount
  <2>2. UsedCount(new) = k
    BY <1>1, <1>6, <2>1 DEF UsedCount
  <2>3. new.free_blocks \in 1 .. n
    BY <1>1, <1>6
  <2> QED
    BY <1>6, <2>1, <2>2, <2>3 DEF Typed
<1>8. /\ new.blocks[k] = given /\ new.blocks[n] = more
      /\ \A j \in 1 .. n : j # k /\ j # n
           => new.blocks[j] = IF j = c THEN t.blocks[k] ELSE t.blocks[j]
  <2>1. \A j \in 1 .. n : repaid[j] = IF j = n THEN more
                                      ELSE IF j = c THEN given
                                      ELSE t.blocks[j]
    BY <1>2, <1>5
  <2>2. k # n /\ c # n /\ k \in 1 .. n /\ n \in 1 .. n
    BY <1>1
  <2> QED
    BY <1>1, <1>6, <2>1, <2>2
<1>9. Sorted(new)
  <2>1. \A j \in 1 .. n :
          t.blocks[j].state = IF j \in 1 .. k - 1 THEN "USED" ELSE "FREE"
    BY <1>0, <1>1 DEF SoundFor, Sorted, UsedIndices
  <2>2. given.state = "USED" /\ more.state = "FREE"
    <3>1. t.blocks[n].state = "FREE"
      BY <1>1, <2>1
    <3> QED
      BY <1>0, <3>1, BlockFields
  <2> SUFFICES ASSUME NEW j \in 1 .. n
               PROVE  new.blocks[j].state
                        = IF j \in 1 .. k THEN "USED" ELSE "FREE"
    BY <1>6, <1>7 DEF Sorted, UsedIndices
  <2> QED
    <3>1. CASE j = k
      BY <1>1, <1>8, <2>2, <3>1
    <3>2. CASE j = n
      <4>1. j \notin 1 .. k /\ new.blocks[j] = more
        BY <1>1, <1>8, <3>2
      <4> QED
        BY <2>2, <4>1
    <3>3. CASE j # k /\ j # n /\ j = c
      <4>1. new.blocks[j] = t.blocks[k] /\ k \in 1 .. n
        BY <1>1, <1>8, <3>3
      <4>2. t.blocks[k].state = "FREE"
        BY <1>1, <2>1, <4>1
      <4>3. j \notin 1 .. k
        BY <1>1, <3>3
      <4> QED
        BY <4>1, <4>2, <4>3
    <3>4. CASE j # k /\ j # n /\ j # c
      <4>1. new.blocks[j] = t.blocks[j]
        BY <1>8, <3>4
      <4>2. j \in 1 .. k <=> j \in 1 .. k - 1
        BY <1>1, <3>4
      <4> QED
        BY <2>1, <4>1, <4>2
    <3> QED
      BY <3>1, <3>2, <3>3, <3>4
<1>10. PICK b, w : /\ b = [t.blocks EXCEPT ![n] = more]
                   /\ w = [t EXCEPT !.blocks = b]
  OBVIOUS
<1>11. /\ w.blocks \in Seq(BlockT) /\ Len(w.blocks) = n
       /\ \A j \in 1 .. n : w.blocks[j] = IF j = n THEN more ELSE t.blocks[j]
  <2>1. /\ b \in Seq(BlockT) /\ Len(b) = n
        /\ \A j \in 1 .. n : b[j] = IF j = n THEN more ELSE t.blocks[j]
    BY <1>0, <1>1, <1>4, <1>10, ExceptSeq
  <2>2. w.blocks = b
    BY <1>1, <1>10, <2>1, WithBlocks
  <2> QED
    BY <2>1, <2>2
<1>12. Placed(w) /\ Apart(w) /\ EndOf(more) = EndOf(t.blocks[n])
  <2>1. SoundFor(t, n + 1)
    BY <1>1
  <2>2. n = Len(t.blocks) /\ n \in Nat
    BY <1>0, <1>1
  <2>3. more = MakeBlock(InfoSize * n, t.blocks[n].size + InfoSize,
                         t.blocks[n].state)
    BY <1>0
  <2>4. /\ Len(w.blocks) = n
        /\ \A j \in 1 .. n : w.blocks[j] = IF j = n THEN more ELSE t.blocks[j]
    BY <1>11
  <2> QED
    BY <2>1, <2>2, <2>3, <2>4, RepaidPlaced
<1>13. Placed(new) /\ Apart(new) /\ (Followed(w) => Followed(new))
  <2>1. given.offset = t.blocks[c].offset /\ given.size = t.blocks[c].size
    BY <1>0, BlockFields
  <2>2. new.blocks[k] = given /\ w.blocks[c] = t.blocks[c]
    BY <1>1, <1>8, <1>11
  <2>3. /\ new.blocks[k].offset = w.blocks[c].offset
        /\ new.blocks[k].size = w.blocks[c].size
    BY <2>1, <2>2
  <2>4. /\ new.blocks[c].offset = w.blocks[k].offset
        /\ new.blocks[c].size = w.blocks[k].size
    <3>1. CASE c = k
      BY <2>3, <3>1
    <3>2. CASE c # k
      BY <1>1, <1>8, <1>11, <3>2
    <3> QED
      BY <3>1, <3>2
  <2>5. \A j \in 1 .. n : j # k /\ j # c
          => /\ new.blocks[j].offset = w.blocks[j].offset
             /\ new.blocks[j].size = w.blocks[j].size
    BY <1>8, <1>11
  <2>6. c \in 1 .. n - 1 /\ k \in 1 .. n - 1 /\ n \in Nat /\ n >= 1
    BY <1>1
  <2>7. w.blocks \in Seq(BlockT) /\ Len(w.blocks) = n /\ Len(new.blocks) = n
    BY <1>6, <1>11
  <2> QED
    <3>1. SameLength(w, new, n)
      BY <2>6, <2>7 DEF SameLength
    <3>2. ChangePlaces(w, new, n, k, c)
      BY <2>3, <2>4, <2>5, <2>6 DEF ChangePlaces, SamePlace
    <3> QED
      BY <1>12, <3>1, <3>2, Exchanged
<1>14. new.blocks[Len(new.blocks)].offset = InfoSize * BlockCount(new)
  BY <1>0, <1>6, <1>7, <1>8, BlockFields
<1>15. \A i \in UsedIndices(t) : new.blocks[i] = t.blocks[i]
  <2> SUFFICES ASSUME NEW i \in UsedIndices(t)
               PROVE  new.blocks[i] = t.blocks[i]
    OBVIOUS
  <2>1. i \in 1 .. n /\ i # k /\ i # n /\ i # c
    BY <1>1 DEF UsedIndices
  <2> QED
    BY <1>8, <2>1
<1>16. given.offset = t.blocks[c].offset /\ given.size = t.blocks[c].size
  BY <1>0, BlockFields
<1>17. AlignedTable(t) => AlignedTable(new)
  <2> SUFFICES ASSUME AlignedTable(t) PROVE AlignedTable(new)
    OBVIOUS
  <2>1. /\ IsMultiple(EndOf(t.blocks[n]))
        /\ \A j \in 1 .. n - 1 : BlockAligned(t.blocks[j])
    BY <1>0 DEF AlignedTable
  <2>2. BlockAligned(given)
    BY <1>1, <1>16, <2>1 DEF BlockAligned
  <2>3. ASSUME NEW j \in 1 .. n - 1 PROVE BlockAligned(new.blocks[j])
    <3>1. CASE j = k
      BY <1>8, <2>2, <3>1
    <3>2. CASE j # k
      <4>1. new.blocks[j] = IF j = c THEN t.blocks[k] ELSE t.blocks[j]
        BY <1>1, <1>8, <3>2
      <4> QED
        BY <1>1, <2>1, <4>1
    <3> QED
      BY <3>1, <3>2
  <2> QED
    BY <1>6, <1>8, <1>12, <2>1, <2>3 DEF AlignedTable
<1>18. Followed(t) => Followed(new)
  <2>1. Placed(t)
    BY DEF SoundFor
  <2>2. /\ \A j \in 1 .. n : j # n => w.blocks[j] = t.blocks[j]
        /\ EndOf(w.blocks[n]) = EndOf(t.blocks[n]) /\ n = Len(t.blocks)
    <3>1. \A j \in 1 .. n : j # n => w.blocks[j] = t.blocks[j]
      BY <1>11
    <3>2. n \in 1 .. n /\ n = Len(t.blocks)
      BY <1>0, <1>1
    <3>3. w.blocks[n] = more
      BY <1>11, <3>2
    <3>4. EndOf(w.blocks[n]) = EndOf(t.blocks[n])
      BY <1>12, <3>3
    <3> QED
      BY <3>1, <3>2, <3>4
  <2>3. Followed(t) => Followed(w)
    BY <1>1, <1>11, <2>1, <2>2, FollowedKept
  <2> QED
    BY <1>13, <2>3
<1> QED
  BY <1>1, <1>7, <1>8, <1>9, <1>13, <1>14, <1>15, <1>16, <1>17, <1>18
     DEF Sound, SoundFor

\* The used blocks of u are those of t, but for the one at index i.  That one
\* is still a block of u, a free one, or no entry of u is used.
Frees(t, i, u) ==
  /\ \A j \in UsedIndices(t) :
       j # i => \E l \in UsedIndices(u) : u.blocks[l] = t.blocks[j]
  /\ \A l \in UsedIndices(u) :
       \E j \in UsedIndices(t) : j # i /\ u.blocks[l] = t.blocks[j]
  /\ \/ /\ BlockCount(u) = BlockCount(t)
        /\ \E l \in 1 .. BlockCount(u) - 1 : SamePlace(u.blocks[l], t.blocks[i])
     \/ BlockCount(u) = 1 /\ BlockCount(t) >= 2

\* Releasing a used block.
LEMMA ReleaseSound ==
  ASSUME NEW t, Sound(t), NEW i \in UsedIndices(t)
  PROVE  /\ Sound(Release(t, i))
         /\ AlignedTable(t) => AlignedTable(Release(t, i))
         /\ Followed(t) => Followed(Release(t, i))
         /\ Frees(t, i, Release(t, i))
<1>0. PICK n, k, marked, new :
        /\ n = Len(t.blocks) /\ k = UsedCount(t)
        /\ marked = Mark(t.blocks, i, "FREE")
        /\ new = Release(t, i)
  OBVIOUS
<1>1. /\ n \in Nat /\ n >= 1 /\ t.blocks \in Seq(BlockT)
      /\ k \in 1 .. n - 1 /\ i \in 1 .. k /\ i \in 1 .. n
      /\ t.free_blocks \in Nat /\ k = n - t.free_blocks
      /\ BlockCount(t) = n
  BY <1>0 DEF Sound, SoundFor, Typed, UsedCount, BlockCount, UsedIndices
<1>2. CASE t.free_blocks + 1 = n
  <2>1. Release(t, i) = EmptyTable /\ k = 1 /\ n >= 2
    BY <1>1, <1>2 DEF Release
  <2>2. BlockCount(EmptyTable) = 1 /\ UsedCount(EmptyTable) = 0
    BY DEF EmptyTable, BlockCount, UsedCount
  <2>3. UsedIndices(t) = {i} /\ UsedIndices(EmptyTable) = {}
    BY <1>0, <1>1, <2>1, <2>2 DEF UsedIndices
  <2>4. Frees(t, i, EmptyTable)
    BY <1>1, <2>1, <2>2, <2>3 DEF Frees
  <2> QED
    BY <2>1, <2>4, EmptySound
<1>3. CASE t.free_blocks + 1 # n
  <2>1. k >= 2
    BY <1>1, <1>3
  <2>2. PICK freed : freed = MakeBlock(t.blocks[i].offset, t.blocks[i].size,
                                       "FREE")
    OBVIOUS
  <2>3. /\ freed.offset = t.blocks[i].offset /\ freed.size = t.blocks[i].size
        /\ freed.state = "FREE"
    BY <2>2, BlockFields
  <2>4. /\ marked \in Seq(BlockT) /\ Len(marked) = n
        /\ \A j \in 1 .. n : marked[j] = IF j = i THEN freed ELSE t.blocks[j]
    <3>1. i \in 1 .. Len(t.blocks) /\ "FREE" \in {"FREE", "USED"}
      BY <1>0, <1>1
    <3>2. /\ marked \in Seq(BlockT) /\ Len(marked) = Len(t.blocks)
          /\ \A j \in 1 .. Len(t.blocks) :
               marked[j] = IF j = i THEN freed ELSE t.blocks[j]
      <4>1. t.blocks \in Seq(BlockT) /\ marked = Mark(t.blocks, i, "FREE")
        BY <1>0, <1>1
      <4>2. /\ Mark(t.blocks, i, "FREE") \in Seq(BlockT)
            /\ Len(Mark(t.blocks, i, "FREE")) = Len(t.blocks)
            /\ \A j \in 1 .. Len(t.blocks) :
                 Mark(t.blocks, i, "FREE")[j]
                   = IF j = i
                     THEN MakeBlock(t.blocks[i].offset, t.blocks[i].size,
                                    "FREE")
                     ELSE t.blocks[j]
        BY <3>1, <4>1, MarkShape
      <4> QED
        BY <2>2, <4>1, <4>2
    <3> QED
      BY <1>0, <3>2
  <2>5. /\ new.blocks \in Seq(BlockT) /\ Len(new.blocks) = n
        /\ \A j \in 1 .. n : new.blocks[j] = IF j = i THEN marked[k]
                                             ELSE IF j = k THEN marked[i]
                                             ELSE marked[j]
        /\ new.free_blocks = t.free_blocks + 1
        /\ new \in [blocks : Seq(BlockT), free_blocks : Nat]
    <3>1. PICK b : b = Exchange(marked, k, i)
      OBVIOUS
    <3>2. new = [blocks |-> b, free_blocks |-> t.free_blocks + 1]
      BY <1>0, <1>1, <1>3, <3>1 DEF Release
    <3>3. /\ b \in Seq(BlockT) /\ Len(b) = n
          /\ \A j \in 1 .. n : b[j] = IF j = i THEN marked[k]
                                      ELSE IF j = k THEN marked[i]
                                      ELSE marked[j]
      <4>1. k \in 1 .. Len(marked) /\ i \in 1 .. Len(marked)
        BY <1>1, <2>4
      <4>2. /\ b \in Seq(BlockT) /\ Len(b) = Len(marked)
            /\ b[i] = marked[k] /\ b[k] = marked[i]
            /\ \A j \in 1 .. Len(marked) : j # i /\ j # k => b[j] = marked[j]
        <5>1. marked \in Seq(BlockT)
          BY <2>4
        <5> QED
          BY <3>1, <4>1, <5>1, ExchangeShape
      <4> QED
        BY <2>4, <4>2
    <3>4. t.free_blocks + 1 \in Nat
      BY <1>1
    <3> QED
      BY <3>2, <3>3, <3>4
  <2>6. /\ new.blocks[k] = freed
        /\ \A j \in 1 .. n : j # k
             => new.blocks[j] = IF j = i THEN t.blocks[k] ELSE t.blocks[j]
    <3>1. k \in 1 .. n /\ i \in 1 .. n
      BY <1>1
    <3>2. new.blocks[k] = freed
      BY <2>4, <2>5, <3>1
    <3>3. ASSUME NEW j \in 1 .. n, j # k
          PROVE  new.blocks[j] = IF j = i THEN t.blocks[k] ELSE t.blocks[j]
      BY <2>4, <2>5, <3>1, <3>3
    <3> QED
      BY <3>2, <3>3
  <2>7. BlockCount(new) = n /\ UsedCount(new) = k - 1 /\ Typed(new)
    BY <1>1, <2>1, <2>5 DEF BlockCount, UsedCount, Typed
  <2>8. Sorted(new)
    <3>1. \A j \in 1 .. n :
            t.blocks[j].state = IF j \in 1 .. k THEN "USED" ELSE "FREE"
      BY <1>0 DEF Sound, SoundFor, Sorted, UsedIndices
    <3> SUFFICES ASSUME NEW j \in 1 .. n
                 PROVE  new.blocks[j].state
                          = IF j \in 1 .. k - 1 THEN "USED" ELSE "FREE"
      BY <2>5, <2>7 DEF Sorted, UsedIndices
    <3>2. CASE j = k
      BY <1>1, <2>3, <2>6, <3>2
    <3>3. CASE j = i /\ j # k
      <4>1. new.blocks[j] = t.blocks[k] /\ k \in 1 .. n /\ j \in 1 .. k - 1
        BY <1>1, <2>6, <3>3
      <4> QED
        <5>1. t.blocks[k].state = "USED"
          <6>1. k \in 1 .. k
            BY <4>1
          <6> QED
            BY <3>1, <4>1, <6>1
        <5> QED
          BY <4>1, <5>1
    <3>4. CASE j # i /\ j # k
      <4>1. new.blocks[j] = t.blocks[j]
        BY <2>6, <3>4
      <4> QED
        BY <1>1, <3>1, <3>4, <4>1
    <3> QED
      BY <3>2, <3>3, <3>4
  <2>9. Placed(new) /\ Apart(new) /\ (Followed(t) => Followed(new))
    <3>1. /\ new.blocks[k].offset = t.blocks[i].offset
          /\ new.blocks[k].size = t.blocks[i].size
      BY <2>3, <2>6
    <3>2. /\ new.blocks[i].offset = t.blocks[k].offset
          /\ new.blocks[i].size = t.blocks[k].size
      BY <1>1, <2>6, <3>1
    <3>3. \A j \in 1 .. n : j # i /\ j # k
            => /\ new.blocks[j].offset = t.blocks[j].offset
               /\ new.blocks[j].size = t.blocks[j].size
      BY <2>6
    <3>4. i \in 1 .. n - 1 /\ k \in 1 .. n - 1 /\ n \in Nat /\ n >= 1
      BY <1>1
    <3>5. /\ Placed(t) /\ Apart(t) /\ t.blocks \in Seq(BlockT)
          /\ Len(t.blocks) = n /\ Len(new.blocks) = n
      BY <1>0, <1>1, <2>5 DEF Sound, SoundFor
    <3> QED
      <4>1. SameLength(t, new, n)
        BY <3>4, <3>5 DEF SameLength
      <4>2. ChangePlaces(t, new, n, i, k)
        BY <3>1, <3>2, <3>3, <3>4 DEF ChangePlaces, SamePlace
      <4> QED
        BY <3>5, <4>1, <4>2, Exchanged
  <2>10. new.blocks[n].offset = InfoSize * BlockCount(new)
    <3>1. n \in 1 .. n /\ n # k /\ n # i
      BY <1>1
    <3>2. new.blocks[n] = t.blocks[n]
      BY <2>6, <3>1
    <3> QED
      BY <1>0, <1>1, <2>7, <3>2 DEF Sound, SoundFor
  <2>11. UsedCount(new) # 0
    BY <1>1, <2>1, <2>7
  <2>12. AlignedTable(t) => AlignedTable(new)
    <3> SUFFICES ASSUME AlignedTable(t) PROVE AlignedTable(new)
      OBVIOUS
    <3>1. /\ IsMultiple(EndOf(t.blocks[n]))
          /\ \A j \in 1 .. n - 1 : BlockAligned(t.blocks[j])
      BY <1>0 DEF AlignedTable
    <3>2. n \in 1 .. n /\ n # k /\ n # i /\ new.blocks[n] = t.blocks[n]
      BY <1>1, <2>6
    <3>3. BlockAligned(freed)
      BY <1>1, <2>3, <3>1 DEF BlockAligned
    <3>4. ASSUME NEW j \in 1 .. n - 1 PROVE BlockAligned(new.blocks[j])
      <4>1. CASE j = k
        BY <2>6, <3>3, <4>1
      <4>2. CASE j # k
        <5>1. new.blocks[j] = IF j = i THEN t.blocks[k] ELSE t.blocks[j]
          BY <1>1, <2>6, <4>2
        <5> QED
          BY <1>1, <3>1, <5>1
      <4> QED
        BY <4>1, <4>2
    <3> QED
      BY <2>5, <3>1, <3>2, <3>4 DEF AlignedTable
  <2>13. Frees(t, i, new)
    <3>1. UsedIndices(t) = 1 .. k /\ UsedIndices(new) = 1 .. k - 1
      BY <1>0, <2>7 DEF UsedIndices
    <3>2. ASSUME NEW j \in 1 .. k, j # i
          PROVE  \E l \in 1 .. k - 1 : new.blocks[l] = t.blocks[j]
      <4>1. CASE j = k
        <5>1. i \in 1 .. k - 1 /\ i \in 1 .. n /\ i # k
          BY <1>1, <3>2, <4>1
        <5>2. new.blocks[i] = t.blocks[k]
          BY <2>6, <5>1
        <5> QED
          BY <4>1, <5>1, <5>2
      <4>2. CASE j # k
        <5>1. j \in 1 .. k - 1 /\ j \in 1 .. n
          BY <1>1, <4>2
        <5>2. new.blocks[j] = t.blocks[j]
          BY <2>6, <3>2, <4>2, <5>1
        <5> QED
          BY <5>1, <5>2
      <4> QED
        BY <4>1, <4>2
    <3>3. ASSUME NEW l \in 1 .. k - 1
          PROVE  \E j \in 1 .. k : j # i /\ new.blocks[l] = t.blocks[j]
      <4>1. /\ l \in 1 .. n /\ l \in 1 .. k /\ l # k
            /\ k \in 1 .. k /\ k \in 1 .. n
        BY <1>1
      <4>2. new.blocks[l] = IF l = i THEN t.blocks[k] ELSE t.blocks[l]
        BY <2>6, <4>1
      <4> QED
        BY <4>1, <4>2
    <3>4. k \in 1 .. n - 1 /\ SamePlace(new.blocks[k], t.blocks[i])
      BY <1>1, <2>3, <2>6 DEF SamePlace
    <3> QED
      BY <1>1, <2>7, <3>1, <3>2, <3>3, <3>4 DEF Frees
  <2> QED
    BY <1>0, <2>5, <2>7, <2>8, <2>9, <2>10, <2>11, <2>12, <2>13
       DEF Sound, SoundFor
<1> QED
  BY <1>2, <1>3

-----------------------------------------------------------------------------

LEMMA LeastNat ==
  ASSUME NEW S, S \subseteq Nat, S # {}
  PROVE  \E x \in S : \A y \in S : x <= y
<1>1. PICK x \in S : \A y \in S : << y, x >> \notin OpToRel(<, Nat)
  BY WFMin, NatLessThanWellFounded, Zenon
<1>2. \A y \in S : ~(y < x)
  BY <1>1, Zenon DEF OpToRel
<1> QED
  BY <1>2

LEMMA FindByStartFinds ==
  ASSUME NEW b, NEW indices, indices \subseteq Nat \ {0}, NEW address,
         NEW i, i = FindByStart(b, indices, address), i # 0
  PROVE  i \in indices /\ b[i].offset = address
<1>1. PICK found : found = {j \in indices : b[j].offset = address}
  OBVIOUS
<1>2. found # {} /\ i = CHOOSE j \in found : \A l \in found : j <= l
  BY <1>1 DEF FindByStart
<1>3. \E j \in found : \A l \in found : j <= l
  BY <1>1, <1>2, LeastNat
<1>4. i \in found
  BY <1>2, <1>3
<1> QED
  BY <1>1, <1>4

\* The search of the allocator yields a free block that is large enough.
LEMMA BestFitFits ==
  ASSUME NEW t, Typed(t), NEW size, Fitting(t, size) # {},
         NEW c, c = BestFit(t, size)
  PROVE  /\ c \in FreeIndices(t) /\ c \in 1 .. BlockCount(t)
         /\ t.blocks[c].size >= size
<1>1. PICK fit : fit = Fitting(t, size)
  OBVIOUS
<1>2. \A i \in fit : /\ i \in 1 .. Len(t.blocks) /\ i \in FreeIndices(t)
                     /\ t.blocks[i].size >= size
  BY <1>1 DEF Fitting, FreeIndices, UsedCount, BlockCount, Typed
<1>3. \A i \in fit : i \in Nat /\ t.blocks[i].size \in Nat
  BY <1>2, EntryType DEF Typed
<1>4. PICK x \in fit : \A j \in fit : t.blocks[x].size <= t.blocks[j].size
  <2>1. PICK S : S = {t.blocks[i].size : i \in fit}
    OBVIOUS
  <2>2. S \subseteq Nat /\ S # {}
    BY <1>1, <1>3, <2>1
  <2>3. PICK s \in S : \A y \in S : s <= y
    BY <2>2, LeastNat
  <2> QED
    BY <2>1, <2>3
<1>5. PICK least : least = {i \in fit : t.blocks[i].size = t.blocks[x].size}
  OBVIOUS
<1>6. PICK z \in least : \A j \in least : z <= j
  BY <1>3, <1>5, LeastNat
<1>7. \A j \in fit : \/ t.blocks[z].size < t.blocks[j].size
                     \/ t.blocks[z].size = t.blocks[j].size /\ z <= j
  <2> SUFFICES ASSUME NEW j \in fit
               PROVE  \/ t.blocks[z].size < t.blocks[j].size
                      \/ t.blocks[z].size = t.blocks[j].size /\ z <= j
    OBVIOUS
  <2>1. CASE j \in least
    BY <1>5, <1>6, <2>1
  <2>2. CASE j \notin least
    <3>1. t.blocks[x].size # t.blocks[j].size /\ t.blocks[z].size = t.blocks[x].size
      BY <1>5, <2>2
    <3> QED
      BY <1>3, <1>4, <3>1
  <2> QED
    BY <2>1, <2>2
<1>8. c = CHOOSE i \in fit : \A j \in fit :
            \/ t.blocks[i].size < t.blocks[j].size
            \/ t.blocks[i].size = t.blocks[j].size /\ i <= j
  BY <1>1 DEF BestFit
<1>9. c \in fit
  BY <1>5, <1>7, <1>8
<1> QED
  BY <1>2, <1>9 DEF BlockCount

-----------------------------------------------------------------------------

\* Growing a block into its right neighbour.
LEMMA StealSound ==
  ASSUME NEW t, Sound(t), NEW i \in UsedIndices(t), NEW extra \in Nat,
         CanSteal(t, i, extra),
         NEW new, new = Steal(t, i, extra)
  PROVE  /\ Sound(new) /\ UsedCount(new) = UsedCount(t)
         /\ AlignedTable(t) /\ IsMultiple(extra) => AlignedTable(new)
         /\ Followed(t) => Followed(new)
         /\ \A j \in UsedIndices(t) :
              j # i => new.blocks[j] = t.blocks[j]
         /\ new.blocks[i].offset = t.blocks[i].offset
         /\ new.blocks[i].size = t.blocks[i].size + extra
<1>0. PICK n, r, old, right, grown, left, once :
        /\ n = Len(t.blocks) /\ r = RightOf(t, i)
        /\ old = t.blocks[i] /\ right = t.blocks[r]
        /\ grown = MakeBlock(old.offset, old.size + extra, old.state)
        /\ left = MakeBlock(right.offset + extra, right.size - extra,
                            right.state)
        /\ once = Adjust(t.blocks, i, 0, extra)
  OBVIOUS
<1>1. /\ n \in Nat /\ n >= 1 /\ t.blocks \in Seq(BlockT)
      /\ i \in 1 .. n - 1 /\ i \in 1 .. n /\ i <= UsedCount(t)
      /\ UsedCount(t) \in Nat /\ UsedCount(t) <= n
      /\ t.free_blocks \in Nat /\ UsedCount(t) = n - t.free_blocks
      /\ t \in [blocks : Seq(BlockT), free_blocks : Nat]
      /\ BlockCount(t) = n
  BY <1>0 DEF Sound, SoundFor, Typed, UsedCount, BlockCount, UsedIndices
<1>2. r \in FreeIndices(t) /\ right.offset = EndOf(old) /\ right.size > extra
  <2>1. FreeIndices(t) \subseteq Nat \ {0}
    BY <1>1 DEF FreeIndices
  <2> QED
    BY <1>0, <2>1, FindByStartFinds DEF CanSteal, RightOf
<1>3. r \in 1 .. n /\ r # i
  BY <1>1, <1>2 DEF FreeIndices
<1>4. /\ old.offset \in Nat /\ old.size \in Nat
      /\ right.offset \in Nat /\ right.size \in Nat
      /\ EndOf(old) = old.offset + old.size
      /\ EndOf(right) = right.offset + right.size
  <2>1. i \in 1 .. Len(t.blocks) /\ r \in 1 .. Len(t.blocks)
    BY <1>0, <1>1, <1>3
  <2> QED
    BY <1>0, <1>1, <2>1, EntryType DEF EndOf
<1>5. \A j \in 1 .. n : /\ t.blocks[j].offset \in Nat
                        /\ t.blocks[j].size \in Nat
                        /\ EndOf(t.blocks[j]) = t.blocks[j].offset + t.blocks[j].size
  BY <1>0, <1>1, EntryType DEF EndOf
<1>6. /\ \A j \in 1 .. n : /\ t.blocks[j].offset >= t.blocks[n].offset
                           /\ EndOf(t.blocks[j]) <= TotalSize
                           /\ j # n => t.blocks[j].size > 0
      /\ \A j, l \in 1 .. n :
           j # l => \/ EndOf(t.blocks[j]) <= t.blocks[l].offset
                    \/ EndOf(t.blocks[l]) <= t.blocks[j].offset
  BY <1>0 DEF Sound, SoundFor, Placed, Apart
<1>7. old.size > 0 /\ old.offset >= t.blocks[n].offset
  BY <1>0, <1>1, <1>6
\* The first block lies below all others.
<1>8. r # n
  <2>1. right.offset > t.blocks[n].offset
    <3>1. t.blocks[n].offset \in Nat
      BY <1>1, <1>5
    <3> QED
      BY <1>2, <1>4, <1>7, <3>1
  <2> QED
    BY <1>0, <1>1, <1>5, <2>1
<1>9. /\ grown \in BlockT /\ grown.offset = old.offset
      /\ grown.size = old.size + extra /\ grown.state = old.state
      /\ EndOf(grown) = right.offset + extra
  <2>1. old.state \in {"FREE", "USED"}
    <3>1. i \in 1 .. Len(t.blocks)
      BY <1>0, <1>1
    <3> QED
      BY <1>0, <1>1, <3>1, EntryType
  <2>2. old.size + extra \in Nat
    BY <1>4
  <2>3. /\ grown \in BlockT /\ grown.offset = old.offset
        /\ grown.size = old.size + extra /\ grown.state = old.state
        /\ EndOf(grown) = old.offset + (old.size + extra)
    <3>1. grown = MakeBlock(old.offset, old.size + extra, old.state)
      BY <1>0
    <3> QED
      BY <1>4, <2>1, <2>2, <3>1, BlockFields
  <2> QED
    BY <1>2, <1>4, <2>3
<1>10. /\ left \in BlockT /\ left.offset = right.offset + extra
       /\ left.size = right.size - extra /\ left.state = right.state
       /\ EndOf(left) = EndOf(right)
  <2>1. /\ right.size - extra \in Nat /\ right.offset + extra \in Nat
    BY <1>2, <1>4
  <2>2. right.state \in {"FREE", "USED"}
    <3>1. r \in 1 .. Len(t.blocks)
      BY <1>0, <1>3
    <3> QED
      BY <1>0, <1>1, <3>1, EntryType
  <2>3. /\ left \in BlockT /\ left.offset = right.offset + extra
        /\ left.size = right.size - extra /\ left.state = right.state
        /\ EndOf(left) = (right.offset + extra) + (right.size - extra)
    BY <1>0, <2>1, <2>2, BlockFields
  <2> QED
    BY <1>4, <2>3
<1>11. /\ once \in Seq(BlockT) /\ Len(once) = n
       /\ \A j \in 1 .. n : once[j] = IF j = i THEN grown ELSE t.blocks[j]
  <2>1. i \in 1 .. Len(t.blocks) /\ old.offset + 0 = old.offset
    <3>1. i \in 1 .. Len(t.blocks)
      BY <1>0, <1>1
    <3>2. old.offset + 0 = old.offset
      BY <1>4
    <3> QED
      BY <3>1, <3>2
  <2>2. grown = MakeBlock(t.blocks[i].offset + 0, t.blocks[i].size + extra,
                          t.blocks[i].state)
    BY <1>0, <2>1
  <2> QED
    BY <1>0, <1>1, <1>9, <2>1, <2>2, AdjustShape
<1>12. /\ new.blocks \in Seq(BlockT) /\ Len(new.blocks) = n
       /\ new.blocks[i] = grown /\ new.blocks[r] = left
       /\ \A j \in 1 .. n : j # i /\ j # r => new.blocks[j] = t.blocks[j]
       /\ new.free_blocks = t.free_blocks
       /\ new \in [blocks : Seq(BlockT), free_blocks : Nat]
  <2>1. PICK b : b = Adjust(once, r, extra, -extra)
    OBVIOUS
  <2>2. r \in 1 .. Len(once) /\ once[r] = right
    BY <1>0, <1>3, <1>11
  <2>3. left = MakeBlock(once[r].offset + extra, once[r].size + (-extra),
                         once[r].state)
    BY <1>0, <1>4, <2>2
  <2>4. /\ b \in Seq(BlockT) /\ Len(b) = n
        /\ \A j \in 1 .. n : b[j] = IF j = r THEN left ELSE once[j]
    BY <1>10, <1>11, <2>1, <2>2, <2>3, AdjustShape
  <2>5. new = [t EXCEPT !.blocks = b]
    BY <1>0, <2>1 DEF Steal
  <2>6. /\ new.blocks = b /\ new.free_blocks = t.free_blocks
        /\ new \in [blocks : Seq(BlockT), free_blocks : Nat]
    BY <1>1, <2>4, <2>5, WithBlocks
  <2> QED
    BY <1>1, <1>3, <1>11, <2>4, <2>6
<1>13. /\ BlockCount(new) = n /\ UsedCount(new) = UsedCount(t) /\ Typed(new)
       /\ UsedCount(new) # 0
  BY <1>0, <1>1, <1>12 DEF BlockCount, UsedCount, Typed, Sound, SoundFor
<1>14. Sorted(new)
  <2>1. \A j \in 1 .. n :
          t.blocks[j].state = IF j \in UsedIndices(t) THEN "USED" ELSE "FREE"
    BY <1>0 DEF Sound, SoundFor, Sorted
  <2>2. \A j \in 1 .. n : new.blocks[j].state = t.blocks[j].state
    BY <1>0, <1>9, <1>10, <1>12
  <2> QED
    BY <1>12, <1>13, <2>1, <2>2 DEF Sorted, UsedIndices
<1>15. n \in 1 .. n /\ n # i /\ n # r
  BY <1>1, <1>8
<1>16. new.blocks[n] = t.blocks[n]
  BY <1>12, <1>15
<1>17. Placed(new)
  <2> SUFFICES ASSUME NEW j \in 1 .. n
               PROVE  /\ new.blocks[j].offset >= t.blocks[n].offset
                      /\ EndOf(new.blocks[j]) <= TotalSize
                      /\ j # n => new.blocks[j].size > 0
    BY <1>12, <1>16 DEF Placed
  <2>1. EndOf(right) <= TotalSize /\ right.offset >= t.blocks[n].offset
    BY <1>0, <1>3, <1>6
  <2>2. t.blocks[n].offset \in Nat
    BY <1>5, <1>15
  <2>3. CASE j = i
    <3>1. new.blocks[j] = grown
      BY <1>12, <2>3
    <3>2. EndOf(grown) <= EndOf(right) /\ EndOf(grown) \in Nat
          /\ EndOf(right) \in Nat
      BY <1>2, <1>4, <1>9
    <3>3. grown.size > 0 /\ grown.offset >= t.blocks[n].offset
      BY <1>4, <1>7, <1>9
    <3> QED
      BY <2>1, <3>1, <3>2, <3>3, TableAssumption
  <2>4. CASE j = r
    <3>1. new.blocks[j] = left
      BY <1>12, <2>4
    <3>2. EndOf(left) <= TotalSize
      BY <1>10, <2>1
    <3>3. left.size > 0 /\ left.offset >= t.blocks[n].offset
      BY <1>2, <1>4, <1>10, <2>1, <2>2
    <3> QED
      BY <3>1, <3>2, <3>3
  <2>5. CASE j # i /\ j # r
    BY <1>6, <1>12, <2>5
  <2> QED
    BY <2>3, <2>4, <2>5
\* A third block does not lie where the neighbour gave way.
<1>18. ASSUME NEW j \in 1 .. n, j # i, j # r
       PROVE  /\ \/ EndOf(t.blocks[j]) <= grown.offset
                 \/ EndOf(grown) <= t.blocks[j].offset
              /\ \/ EndOf(t.blocks[j]) <= left.offset
                 \/ EndOf(left) <= t.blocks[j].offset
  <2>1. /\ t.blocks[j].offset \in Nat /\ t.blocks[j].size \in Nat
        /\ EndOf(t.blocks[j]) = t.blocks[j].offset + t.blocks[j].size
    BY <1>5
  <2>2. EndOf(t.blocks[j]) <= old.offset \/ EndOf(old) <= t.blocks[j].offset
    BY <1>0, <1>1, <1>6, <1>18
  <2>3. EndOf(t.blocks[j]) <= right.offset \/ EndOf(right) <= t.blocks[j].offset
    BY <1>0, <1>3, <1>6, <1>18
  <2>4. t.blocks[j].size > 0 \/ t.blocks[j].offset <= old.offset
    <3>1. CASE j = n
      BY <1>7, <2>1, <3>1, <1>4
    <3>2. CASE j # n
      BY <1>6, <3>2
    <3> QED
      BY <3>1, <3>2
  <2>5. EndOf(left) = right.offset + right.size
    BY <1>4, <1>10
  <2>6. EndOf(t.blocks[j]) <= left.offset \/ EndOf(left) <= t.blocks[j].offset
    BY <1>4, <1>10, <2>1, <2>3, <2>5
  <2>7. EndOf(t.blocks[j]) <= grown.offset \/ EndOf(grown) <= t.blocks[j].offset
    BY <1>2, <1>4, <1>7, <1>9, <2>1, <2>2, <2>3, <2>4
  <2> QED
    BY <2>6, <2>7
<1>19. Apart(new)
  <2>1. \A j \in 1 .. n : j # i /\ j # r =>
          /\ new.blocks[j] = t.blocks[j]
          /\ \/ EndOf(t.blocks[j]) <= grown.offset
             \/ EndOf(grown) <= t.blocks[j].offset
          /\ \/ EndOf(t.blocks[j]) <= left.offset
             \/ EndOf(left) <= t.blocks[j].offset
    BY <1>12, <1>18
  <2>2. EndOf(grown) <= left.offset
    BY <1>4, <1>9, <1>10
  <2> SUFFICES ASSUME NEW j \in 1 .. n, NEW l \in 1 .. n, j # l
               PROVE  \/ EndOf(new.blocks[j]) <= new.blocks[l].offset
                      \/ EndOf(new.blocks[l]) <= new.blocks[j].offset
    BY <1>12 DEF Apart
  <2>3. CASE j \in {i, r} /\ l \in {i, r}
    BY <1>12, <2>2, <2>3
  <2>4. CASE j \in {i, r} /\ l \notin {i, r}
    BY <1>12, <2>1, <2>4
  <2>5. CASE j \notin {i, r} /\ l \in {i, r}
    BY <1>12, <2>1, <2>5
  <2>6. CASE j \notin {i, r} /\ l \notin {i, r}
    BY <1>6, <2>1, <2>6
  <2> QED
    BY <2>3, <2>4, <2>5, <2>6
<1>20. new.blocks[Len(new.blocks)].offset = InfoSize * BlockCount(new)
  BY <1>0, <1>1, <1>12, <1>13, <1>16 DEF Sound, SoundFor
<1>21. AlignedTable(t) /\ IsMultiple(extra) => AlignedTable(new)
  <2> SUFFICES ASSUME AlignedTable(t), IsMultiple(extra)
               PROVE  AlignedTable(new)
    OBVIOUS
  <2>1. /\ IsMultiple(EndOf(t.blocks[n]))
        /\ \A j \in 1 .. n - 1 : BlockAligned(t.blocks[j])
    BY <1>0 DEF AlignedTable
  <2>2. r \in 1 .. n - 1
    BY <1>1, <1>3, <1>8
  <2>3. BlockAligned(grown)
    BY <1>0, <1>1, <1>9, <2>1, SumMultiple DEF BlockAligned
  <2>4. BlockAligned(left)
    <3>1. IsMultiple(right.offset) /\ IsMultiple(right.size)
      BY <1>0, <2>1, <2>2 DEF BlockAligned
    <3>2. IsMultiple(right.size - extra)
      BY <1>2, <1>4, <3>1, DifferenceMultiple
    <3> QED
      BY <1>10, <3>1, <3>2, SumMultiple DEF BlockAligned
  <2>5. ASSUME NEW j \in 1 .. n - 1 PROVE BlockAligned(new.blocks[j])
    <3>1. j \in 1 .. n
      BY <1>1
    <3> QED
      BY <1>12, <2>1, <2>3, <2>4, <3>1
  <2> QED
    BY <1>12, <1>16, <2>1, <2>5 DEF AlignedTable
<1>22. \A j \in UsedIndices(t) : j # i => new.blocks[j] = t.blocks[j]
  <2> SUFFICES ASSUME NEW j \in UsedIndices(t), j # i
               PROVE  new.blocks[j] = t.blocks[j]
    OBVIOUS
  <2>1. j \in 1 .. n /\ j # r
    BY <1>1, <1>2 DEF UsedIndices, FreeIndices
  <2> QED
    BY <1>12, <2>1
<1>23. Followed(t) => Followed(new)
  <2> SUFFICES ASSUME Followed(t), NEW j \in 1 .. n,
                      EndOf(new.blocks[j]) # TotalSize
               PROVE  \E l \in 1 .. n :
                        /\ new.blocks[l].offset = EndOf(new.blocks[j])
                        /\ new.blocks[l].size > 0
    BY <1>12 DEF Followed
  <2>1. CASE j = i
    <3>1. EndOf(new.blocks[j]) = left.offset
      BY <1>4, <1>9, <1>10, <1>12, <2>1
    <3>2. left.size > 0
      BY <1>2, <1>4, <1>10
    <3> QED
      BY <1>3, <1>12, <3>1, <3>2
  <2>2. CASE j # i
    <3>1. EndOf(new.blocks[j]) = EndOf(t.blocks[j])
      BY <1>0, <1>10, <1>12, <2>2
    <3>2. PICK l \in 1 .. n : /\ t.blocks[l].offset = EndOf(t.blocks[j])
                              /\ t.blocks[l].size > 0
      BY <1>0, <3>1 DEF Followed
    \* The neighbour follows the block that grows and no other.
    <3>3. l # r
      <4>1. SUFFICES ASSUME l = r PROVE FALSE
        OBVIOUS
      <4>2. EndOf(t.blocks[j]) = EndOf(old)
        BY <1>0, <1>2, <3>2, <4>1
      <4>3. \/ EndOf(t.blocks[j]) <= old.offset
            \/ EndOf(old) <= t.blocks[j].offset
        BY <1>0, <1>1, <1>6, <2>2
      <4>4. /\ t.blocks[j].offset \in Nat /\ t.blocks[j].size \in Nat
            /\ EndOf(t.blocks[j]) = t.blocks[j].offset + t.blocks[j].size
        BY <1>5
      <4>5. t.blocks[j].size > 0 \/ t.blocks[j].offset <= old.offset
        <5>1. CASE j = n
          BY <1>7, <1>4, <4>4, <5>1
        <5>2. CASE j # n
          BY <1>6, <5>2
        <5> QED
          BY <5>1, <5>2
      <4> QED
        BY <1>4, <1>7, <4>2, <4>3, <4>4, <4>5
    <3>4. /\ new.blocks[l].offset = t.blocks[l].offset
          /\ new.blocks[l].size > 0
      <4>1. CASE l = i
        <5>1. new.blocks[l] = grown /\ t.blocks[l] = old
          BY <1>0, <1>12, <4>1
        <5>2. grown.offset = old.offset /\ grown.size > 0
          BY <1>4, <1>7, <1>9
        <5> QED
          BY <5>1, <5>2
      <4>2. CASE l # i
        BY <1>12, <3>2, <3>3, <4>2
      <4> QED
        BY <4>1, <4>2
    <3> QED
      BY <3>1, <3>2, <3>4
  <2> QED
    BY <2>1, <2>2
<1> QED
  BY <1>0, <1>9, <1>12, <1>13, <1>14, <1>17, <1>19, <1>20, <1>21, <1>22, <1>23
     DEF Sound, SoundFor

-----------------------------------------------------------------------------

\* The blocks of t, but for the last one, lie behind a table of m entries.
ClearOf(t, m) ==
  \A i \in 1 .. BlockCount(t) - 1 : t.blocks[i].offset >= InfoSize * m

\* One search for a free block, and what is done with the block found.
LEMMA AllocateOnceSound ==
  ASSUME NEW t, Sound(t), NEW size, BlockSize(size) \in Nat,
         BlockSize(size) > 0,
         NEW out, out = AllocateOnce(t, size)
  PROVE  /\ out.status \in {"SUCCESS", "OUT_OF_MEMORY",
                            "INSUFFICIENT_BUFFER", Undefined}
         /\ Typed(out.table)
         /\ out.status # Undefined => Sound(out.table)
         /\ out.status = "SUCCESS" =>
              /\ UsedCount(out.table) = UsedCount(t) + 1
              /\ out.index = UsedCount(out.table)
              /\ \A i \in UsedIndices(t) : out.table.blocks[i] = t.blocks[i]
              /\ out.table.blocks[out.index].size >= BlockSize(size)
              /\ AlignedTable(t) /\ IsMultiple(BlockSize(size))
                   => AlignedTable(out.table)
              /\ Followed(t) => Followed(out.table)
              /\ ClearOf(t, BlockCount(out.table))
              /\ BlockCount(out.table) \in {BlockCount(t), BlockCount(t) + 1}
         /\ out.status \notin {"SUCCESS", Undefined} => out.table = t
         /\ out.status = "INSUFFICIENT_BUFFER" => UsedCount(t) = 0
<1>0. PICK n, need, paid, c :
        /\ n = BlockCount(t) /\ need = BlockSize(size)
        /\ paid = [t EXCEPT !.blocks = PayForEntries(@, n, 1)]
        /\ c = BestFit(paid, need)
  OBVIOUS
<1>1. /\ Typed(t) /\ n \in Nat /\ n >= 1 /\ t.free_blocks \in 1 .. n
      /\ need \in Nat /\ need > 0
  BY <1>0 DEF Sound, SoundFor, Typed, BlockCount
<1>2. \A table, status, index :
        /\ Outcome(table, status, index).table = table
        /\ Outcome(table, status, index).status = status
        /\ Outcome(table, status, index).index = index
  BY DEF Outcome
<1>3. CASE t.blocks[n].state = "USED" \/ t.blocks[n].size < InfoSize
  <2>1. out = Outcome(t, "OUT_OF_MEMORY", 0)
    BY <1>0, <1>1, <1>3 DEF AllocateOnce
  <2> QED
    BY <1>1, <1>2, <2>1 DEF Undefined
<1>4. CASE ~(t.blocks[n].state = "USED" \/ t.blocks[n].size < InfoSize)
  <2>1. t.blocks[n].size >= InfoSize
    <3>1. n \in 1 .. Len(t.blocks)
      BY <1>0, <1>1 DEF BlockCount
    <3>2. t.blocks[n].size \in Nat
      BY <1>1, <3>1, EntryType DEF Typed
    <3> QED
      BY <1>4, <3>2, TableAssumption
  <2>2. /\ SoundFor(paid, n + 1)
        /\ BlockCount(paid) = n /\ UsedCount(paid) = UsedCount(t)
        /\ \A i \in UsedIndices(t) : paid.blocks[i] = t.blocks[i]
        /\ \A i \in 1 .. n - 1 : paid.blocks[i] = t.blocks[i]
        /\ AlignedTable(t) => AlignedTable(paid)
        /\ Followed(t) => Followed(paid)
    <3>1. t.blocks[BlockCount(t)].size >= InfoSize
      BY <1>0, <2>1
    <3>2. paid = [t EXCEPT !.blocks = PayForEntries(@, BlockCount(t), 1)]
      BY <1>0
    <3>3. /\ SoundFor(paid, BlockCount(t) + 1)
          /\ BlockCount(paid) = BlockCount(t) /\ UsedCount(paid) = UsedCount(t)
          /\ \A i \in UsedIndices(t) : paid.blocks[i] = t.blocks[i]
          /\ \A i \in 1 .. BlockCount(t) - 1 : paid.blocks[i] = t.blocks[i]
          /\ AlignedTable(t) => AlignedTable(paid)
          /\ Followed(t) => Followed(paid)
      BY <3>1, <3>2, PaidSound
    <3> QED
      BY <1>0, <3>3
  <2>3. Typed(paid)
    BY <2>2 DEF SoundFor
  <2>4. CASE Fitting(paid, need) = {} /\ n = t.free_blocks
    <3>1. out = Outcome(t, "INSUFFICIENT_BUFFER", 0)
      BY <1>0, <1>1, <1>4, <2>4 DEF AllocateOnce
    <3>2. UsedCount(t) = 0
      BY <1>0, <1>1, <2>4 DEF UsedCount
    <3> QED
      BY <1>1, <1>2, <3>1, <3>2 DEF Undefined
  <2>5. CASE Fitting(paid, need) = {} /\ n # t.free_blocks
    <3>1. out = Outcome(paid, Undefined, 0)
      BY <1>0, <1>1, <1>4, <2>5 DEF AllocateOnce
    <3> QED
      BY <1>2, <2>3, <3>1 DEF Undefined
  <2>6. CASE Fitting(paid, need) # {}
    <3>1. /\ c \in FreeIndices(paid) /\ c \in 1 .. n
          /\ paid.blocks[c].size >= need
      BY <1>0, <2>2, <2>3, <2>6, BestFitFits
    <3>2. PICK new : new = IF paid.blocks[c].size - need > GuardTotal \/ c = n
                           THEN SplitOff(paid, c, need)
                           ELSE HandOutWhole(paid, c)
      OBVIOUS
    <3>3. out = Outcome(new, "SUCCESS", UsedCount(t) + 1)
      BY <1>0, <1>1, <1>4, <2>6, <3>2 DEF AllocateOnce
    <3>4. /\ Sound(new) /\ UsedCount(new) = UsedCount(paid) + 1
          /\ \A i \in UsedIndices(paid) : new.blocks[i] = paid.blocks[i]
          /\ BlockCount(new) \in {n, n + 1}
          /\ new.blocks[UsedCount(t) + 1].size >= need
          /\ AlignedTable(paid) /\ IsMultiple(need) => AlignedTable(new)
          /\ Followed(paid) => Followed(new)
      <4>1. CASE paid.blocks[c].size - need > GuardTotal \/ c = n
        <5>1. new = SplitOff(paid, c, need)
          BY <3>2, <4>1
        <5>2. c = BlockCount(paid) \/ paid.blocks[c].size > need
          <6>1. paid.blocks[c].size \in Nat
            BY <2>2, <2>3, <3>1, EntryType DEF Typed, BlockCount
          <6> QED
            BY <1>1, <2>2, <4>1, <6>1, LayoutAssumption DEF GuardTotal
        <5>3. n + 1 \in Nat /\ n + 1 = BlockCount(paid) + 1
          BY <1>1, <2>2
        <5>4. /\ Sound(new) /\ UsedCount(new) = UsedCount(paid) + 1
              /\ \A i \in UsedIndices(paid) : new.blocks[i] = paid.blocks[i]
              /\ BlockCount(new) = BlockCount(paid) + 1
              /\ new.blocks[UsedCount(paid) + 1].size = need
              /\ AlignedTable(paid) /\ IsMultiple(need) => AlignedTable(new)
              /\ Followed(paid) => Followed(new)
          BY <1>1, <2>2, <3>1, <5>1, <5>2, <5>3, SplitSound
        <5> QED
          BY <1>1, <2>2, <5>4
      <4>2. CASE ~(paid.blocks[c].size - need > GuardTotal \/ c = n)
        <5>1. new = HandOutWhole(paid, c) /\ c # BlockCount(paid)
          BY <2>2, <3>2, <4>2
        <5>2. SoundFor(paid, BlockCount(paid) + 1)
          BY <2>2
        <5>3. /\ Sound(new) /\ UsedCount(new) = UsedCount(paid) + 1
              /\ \A i \in UsedIndices(paid) : new.blocks[i] = paid.blocks[i]
              /\ BlockCount(new) = BlockCount(paid)
              /\ new.blocks[UsedCount(paid) + 1].size = paid.blocks[c].size
              /\ AlignedTable(paid) => AlignedTable(new)
              /\ Followed(paid) => Followed(new)
          BY <3>1, <5>1, <5>2, WholeSound
        <5> QED
          BY <2>2, <3>1, <5>3
      <4> QED
        BY <4>1, <4>2
    <3>5. /\ UsedCount(new) = UsedCount(t) + 1
          /\ \A i \in UsedIndices(t) : new.blocks[i] = t.blocks[i]
      BY <2>2, <3>4 DEF UsedIndices
    <3>6. Typed(new)
      BY <3>4 DEF Sound, SoundFor
    <3>7. /\ new.blocks[UsedCount(new)].size >= BlockSize(size)
          /\ AlignedTable(t) /\ IsMultiple(BlockSize(size)) => AlignedTable(new)
          /\ BlockCount(new) \in {BlockCount(t), BlockCount(t) + 1}
          /\ Followed(t) => Followed(new)
      BY <1>0, <2>2, <3>4, <3>5
    \* The entries paid for lie before all blocks but the last.
    <3>8. ClearOf(t, BlockCount(new))
      <4> SUFFICES ASSUME NEW i \in 1 .. n - 1
                   PROVE  t.blocks[i].offset >= InfoSize * BlockCount(new)
        BY <1>0 DEF ClearOf
      <4>1. /\ i \in 1 .. Len(paid.blocks) /\ n = Len(paid.blocks)
            /\ paid.blocks[i] = t.blocks[i]
        BY <1>1, <2>2 DEF BlockCount
      <4>2. paid.blocks[i].offset >= InfoSize * (n + 1)
        BY <2>2, <4>1 DEF SoundFor, Placed
      <4>3. paid.blocks[i].offset \in Nat
        BY <2>3, <4>1, EntryType DEF Typed
      <4>4. /\ InfoSize * (n + 1) = InfoSize * n + InfoSize
            /\ InfoSize * n \in Nat
        BY <1>1, EntriesAdd
      <4>5. CASE BlockCount(new) = n
        <5>1. paid.blocks[i].offset >= InfoSize * n
          BY <4>2, <4>3, <4>4, TableAssumption
        <5> QED
          BY <4>1, <4>5, <5>1
      <4>6. CASE BlockCount(new) = n + 1
        BY <4>1, <4>2, <4>6
      <4> QED
        BY <3>4, <4>5, <4>6
    <3> QED
      BY <1>2, <3>3, <3>4, <3>5, <3>6, <3>7, <3>8 DEF Undefined
  <2> QED
    BY <2>4, <2>5, <2>6
<1> QED
  BY <1>3, <1>4

\* Allocation with its retry: where the code defragments, no block is used,
\* and there is nothing to merge.
LEMMA AllocateBlockSound ==
  ASSUME NEW t, Sound(t), NEW size, BlockSize(size) \in Nat,
         BlockSize(size) > 0,
         NEW out, out = AllocateBlock(t, size)
  PROVE  /\ out.status \in {"SUCCESS", "OUT_OF_MEMORY",
                            "INSUFFICIENT_BUFFER", Undefined}
         /\ Typed(out.table)
         /\ out.status # Undefined => Sound(out.table)
         /\ out.status = "SUCCESS" =>
              /\ UsedCount(out.table) = UsedCount(t) + 1
              /\ out.index = UsedCount(out.table)
              /\ \A i \in UsedIndices(t) : out.table.blocks[i] = t.blocks[i]
              /\ out.table.blocks[out.index].size >= BlockSize(size)
              /\ AlignedTable(t) /\ IsMultiple(BlockSize(size))
                   => AlignedTable(out.table)
              /\ Followed(t) => Followed(out.table)
              /\ ClearOf(t, BlockCount(out.table))
              /\ BlockCount(out.table) \in {BlockCount(t), BlockCount(t) + 1}
         /\ out.status \notin {"SUCCESS", Undefined} => out.table = t
<1>1. PICK once : once = AllocateOnce(t, size)
  OBVIOUS
<1>2. CASE once.status # "INSUFFICIENT_BUFFER"
  BY <1>1, <1>2, AllocateOnceSound DEF AllocateBlock
<1>3. CASE once.status = "INSUFFICIENT_BUFFER"
  <2>1. UsedCount(t) = 0
    BY <1>1, <1>3, AllocateOnceSound
  <2>2. t.free_blocks = 1
    BY <2>1 DEF Sound, EmptyTable
  <2>3. Defragmented(t) = t
    BY <2>2 DEF Defragmented
  <2>4. out = once
    BY <1>1, <1>3, <2>3 DEF AllocateBlock
  <2> QED
    BY <1>1, <2>4, AllocateOnceSound
<1> QED
  BY <1>2, <1>3

LEMMA DeallocateBlockSound ==
  ASSUME NEW t, Sound(t), NEW i \in UsedIndices(t), NEW intact,
         NEW out, out = DeallocateBlock(t, i, intact)
  PROVE  /\ Sound(out.table)
         /\ out.status \in {"SUCCESS", "CORRUPTED_POINTER",
                            "DOUBLE_DEALLOCATION"}
<1>1. Sound(Release(t, i))
  BY ReleaseSound
<1> QED
  BY <1>1 DEF DeallocateBlock, Outcome

\* A pointer that passes the checks belongs to a used block.
LEMMA LocateFinds ==
  ASSUME NEW t, Typed(t), NEW p, NEW at, at = Locate(t, p)
  PROVE  /\ at.status \in {"SUCCESS", "MISMATCHED_ALLOCATOR",
                           "CORRUPTED_POINTER"}
         /\ at.status = "SUCCESS" =>
              /\ at.index \in UsedIndices(t)
              /\ at.index \in 1 .. BlockCount(t)
              /\ t.blocks[at.index].offset = p - UserOffset
<1>1. PICK i : i = FindByStart(t.blocks, UsedIndices(t), p - UserOffset)
  OBVIOUS
<1>2. at.status = "SUCCESS" => at.index = i /\ i # 0
  BY <1>1 DEF Locate, Outcome
<1>3. UsedIndices(t) \subseteq Nat \ {0}
      /\ UsedIndices(t) \subseteq 1 .. BlockCount(t)
  BY DEF UsedIndices, UsedCount, BlockCount, Typed
<1>4. i # 0 => i \in UsedIndices(t) /\ t.blocks[i].offset = p - UserOffset
  BY <1>1, <1>3, FindByStartFinds
<1>5. at.status \in {"SUCCESS", "MISMATCHED_ALLOCATOR", "CORRUPTED_POINTER"}
  BY DEF Locate, Outcome
<1> QED
  BY <1>2, <1>3, <1>4, <1>5

-----------------------------------------------------------------------------
(***************************************************************************)
(* What callers do to it                                                   *)
(***************************************************************************)

\* The types of what callers hold and of the last answer.
CallersTyped ==
  /\ DOMAIN live \subseteq Nat
  /\ \A p \in DOMAIN live : live[p] \in Sizes
  /\ damaged \subseteq Nat

AnswerT == [op : Operations, arg : Nat, status : Statuses, result : Nat,
            bytes : Int]

\* The inductive invariant.  A call that runs into undefined behaviour is
\* the last one: of the table it leaves only the types matter.
Inv ==
  /\ Typed(this)
  /\ CallersTyped
  /\ ret \in AnswerT
  /\ Defined => Sound(this)

LEMMA InvImpliesTypeOK == Inv => TypeOK
BY DEF Inv, Typed, CallersTyped, AnswerT, TypeOK, BlockCount, BlockT

LEMMA InvImpliesApart ==
  ASSUME Inv, Defined
  PROVE  UsedBeforeFree /\ FirstBlockLast /\ BlocksApart
<1>1. PICK n : n = Len(this.blocks)
  OBVIOUS
<1>2. /\ Sorted(this) /\ Placed(this) /\ Apart(this)
      /\ this.blocks[n].offset = InfoSize * n
  BY <1>1 DEF Inv, Sound, SoundFor, BlockCount
<1>3. UsedBeforeFree /\ FirstBlockLast
  BY <1>1, <1>2 DEF UsedBeforeFree, FirstBlockLast, Sorted, Indices, Blocks,
                    BlockCount
<1>4. BlocksApart
  BY <1>1, <1>2 DEF BlocksApart, Placed, Apart, Indices, Blocks, BlockCount
<1> QED
  BY <1>3, <1>4

LEMMA InvImpliesStartsOver == Inv => StartsOver
BY DEF Inv, StartsOver, Sound

LEMMA AnswerTyped ==
  ASSUME NEW op \in Operations, NEW arg \in Nat, NEW status \in Statuses,
         NEW result \in Nat, NEW bytes \in Int
  PROVE  /\ Answer(op, arg, status, result, bytes) \in AnswerT
         /\ Answer(op, arg, status, result, bytes).status = status
BY DEF Answer, AnswerT

\* A request of a caller is a block of its own size.
LEMMA RequestSize ==
  ASSUME NEW size \in Sizes
  PROVE  BlockSize(size) \in Nat /\ BlockSize(size) > 0
<1>1. size \in Nat /\ size > 0 /\ size + Alignment - 1 + GuardTotal < SizeLimit
  BY CallerAssumption
<1>2. BlockSize(size) \in Nat /\ BlockSize(size) >= size + GuardTotal
  BY <1>1, BlockHoldsRequest
<1> QED
  BY <1>1, <1>2, LayoutAssumption DEF GuardTotal

\* The pointer of the block that was allocated last.
LEMMA NewPointer ==
  ASSUME NEW t, Sound(t), UsedCount(t) > 0
  PROVE  PointerTo(t.blocks[UsedCount(t)]) \in Nat
<1>1. UsedCount(t) \in 1 .. Len(t.blocks) /\ t.blocks \in Seq(BlockT)
  BY DEF Sound, SoundFor, Typed, UsedCount, BlockCount
<1>2. t.blocks[UsedCount(t)].offset \in Nat
  BY <1>1, EntryType
<1> QED
  BY <1>2, LayoutAssumption DEF PointerTo, UserOffset

LEMMA WithTyped ==
  ASSUME CallersTyped, NEW p \in Nat, NEW q \in Nat, NEW size \in Sizes
  PROVE  /\ DOMAIN With(live, q, size) \subseteq Nat
         /\ \A r \in DOMAIN With(live, q, size) : With(live, q, size)[r] \in Sizes
         /\ DOMAIN With(Without(live, p), q, size) \subseteq Nat
         /\ \A r \in DOMAIN With(Without(live, p), q, size) :
              With(Without(live, p), q, size)[r] \in Sizes
         /\ DOMAIN Without(live, p) \subseteq Nat
         /\ \A r \in DOMAIN Without(live, p) : Without(live, p)[r] \in Sizes
BY DEF CallersTyped, With, Without

LEMMA InitInv == Init => Inv
<1> SUFFICES ASSUME Init PROVE Inv
  OBVIOUS
<1>1. Sound(this) /\ Typed(this)
  BY EmptySound DEF Init, Sound, SoundFor
<1>2. CallersTyped
  BY DEF Init, CallersTyped
<1>3. ret \in AnswerT
  <2>1. /\ "create" \in Operations /\ Null \in Nat /\ "SUCCESS" \in Statuses
        /\ 0 \in Int
    BY DEF Operations, Null, Statuses
  <2> QED
    BY <2>1, AnswerTyped DEF Init
<1> QED
  BY <1>1, <1>2, <1>3 DEF Inv

-----------------------------------------------------------------------------
(***************************************************************************)
(* One lemma per call.                                                     *)
(***************************************************************************)

\* A call that changes nothing but its answer.
LEMMA UnchangedInv ==
  ASSUME Inv, Defined, NEW answer \in AnswerT, Unchanged(answer)
  PROVE  Inv'
BY DEF Inv, Defined, Unchanged, CallersTyped

LEMMA AllocateInv ==
  ASSUME Inv, NEW size \in Sizes, Allocate(size)
  PROVE  Inv'
<1>0. PICK out, q : /\ out = AllocateBlock(this, size)
                    /\ q = PointerTo(out.table.blocks[out.index])
  OBVIOUS
<1>1. Defined /\ Sound(this) /\ Typed(this) /\ CallersTyped
  BY DEF Inv, Allocate
<1>2. /\ out.status \in {"SUCCESS", "OUT_OF_MEMORY", "INSUFFICIENT_BUFFER",
                         Undefined}
      /\ Typed(out.table)
      /\ out.status # Undefined => Sound(out.table)
      /\ out.status = "SUCCESS" => /\ UsedCount(out.table) = UsedCount(this) + 1
                                   /\ out.index = UsedCount(out.table)
  BY <1>0, <1>1, RequestSize, AllocateBlockSound
<1>3. this' = out.table
  BY <1>0 DEF Allocate
<1>4. out.status \in Statuses /\ "allocate" \in Operations
      /\ Null \in Nat /\ 0 \in Int
  BY <1>2 DEF Statuses, Operations, Null
<1>5. CASE out.status = "SUCCESS"
  <2>1. UsedCount(this) \in Nat
    BY <1>1 DEF Typed, UsedCount, BlockCount
  <2>2. Sound(out.table) /\ UsedCount(out.table) > 0
    BY <1>2, <1>5, <2>1 DEF Undefined
  <2>3. q \in Nat
    BY <1>0, <1>2, <1>5, <2>2, NewPointer
  <2>4. /\ live' = With(live, q, size) /\ damaged' = damaged \ {q}
        /\ ret' = Answer("allocate", Null, "SUCCESS", q, 0)
    BY <1>0, <1>5 DEF Allocate
  <2>5. ret' \in AnswerT
    BY <1>4, <1>5, <2>3, <2>4, AnswerTyped
  <2>6. CallersTyped'
    BY <1>1, <2>3, <2>4, WithTyped DEF CallersTyped
  <2> QED
    BY <1>2, <1>3, <2>2, <2>5, <2>6 DEF Inv
<1>6. CASE out.status # "SUCCESS"
  <2>1. /\ ret' = Answer("allocate", Null, out.status, Null, 0)
        /\ UNCHANGED << live, damaged >>
    BY <1>0, <1>6 DEF Allocate
  <2>2. ret' \in AnswerT /\ ret'.status = out.status
    BY <1>4, <2>1, AnswerTyped
  <2>3. CallersTyped'
    BY <1>1, <2>1 DEF CallersTyped
  <2> QED
    BY <1>2, <1>3, <2>2, <2>3 DEF Inv, Defined
<1> QED
  BY <1>5, <1>6

LEMMA DeallocateInv ==
  ASSUME Inv, NEW p \in Pointers, Deallocate(p)
  PROVE  Inv'
<1>0. PICK at, out : /\ at = Locate(this, p)
                     /\ out = DeallocateBlock(this, at.index, Intact(p))
  OBVIOUS
<1>1. Defined /\ Sound(this) /\ Typed(this) /\ CallersTyped /\ p \in Nat
  BY CallerAssumption DEF Inv, Deallocate
<1>2. /\ at.status \in {"SUCCESS", "MISMATCHED_ALLOCATOR", "CORRUPTED_POINTER"}
      /\ at.status = "SUCCESS" => at.index \in UsedIndices(this)
  BY <1>0, <1>1, LocateFinds
<1>3. "deallocate" \in Operations /\ Null \in Nat /\ 0 \in Int
  BY DEF Operations, Null
<1>4. CASE at.status # "SUCCESS"
  <2>1. at.status \in Statuses
    BY <1>2 DEF Statuses
  <2>2. Answer("deallocate", p, at.status, Null, 0) \in AnswerT
    BY <1>1, <1>3, <2>1, AnswerTyped
  <2>3. Unchanged(Answer("deallocate", p, at.status, Null, 0))
    BY <1>0, <1>4 DEF Deallocate
  <2> QED
    BY <1>1, <2>2, <2>3, UnchangedInv
<1>5. CASE at.status = "SUCCESS"
  <2>1. /\ Sound(out.table)
        /\ out.status \in {"SUCCESS", "CORRUPTED_POINTER",
                           "DOUBLE_DEALLOCATION"}
    BY <1>0, <1>1, <1>2, <1>5, DeallocateBlockSound
  <2>2. /\ this' = out.table
        /\ live' = IF out.status = "SUCCESS" THEN Without(live, p) ELSE live
        /\ ret' = Answer("deallocate", p, out.status, Null, 0)
        /\ damaged' = damaged
    BY <1>0, <1>5 DEF Deallocate
  <2>3. out.status \in Statuses
    BY <2>1 DEF Statuses
  <2>4. ret' \in AnswerT
    BY <1>1, <1>3, <2>2, <2>3, AnswerTyped
  <2>5. CallersTyped'
    <3>1. CASE out.status = "SUCCESS"
      BY <1>1, <2>2, <3>1 DEF CallersTyped, Without
    <3>2. CASE out.status # "SUCCESS"
      BY <1>1, <2>2, <3>2 DEF CallersTyped
    <3> QED
      BY <3>1, <3>2
  <2>6. Typed(this') /\ Sound(this')
    BY <2>1, <2>2 DEF Sound, SoundFor
  <2> QED
    BY <2>4, <2>5, <2>6 DEF Inv
<1> QED
  BY <1>4, <1>5

LEMMA RealBlockSizeInv ==
  ASSUME Inv, NEW p \in Pointers, RealBlockSize(p)
  PROVE  Inv'
<1>0. PICK at, bytes :
        /\ at = Locate(this, p)
        /\ bytes = IF at.status = "SUCCESS"
                   THEN UsableSize(this.blocks[at.index].size) ELSE 0
  OBVIOUS
<1>1. Defined /\ Typed(this) /\ p \in Nat
  BY CallerAssumption DEF Inv, RealBlockSize
<1>2. /\ at.status \in {"SUCCESS", "MISMATCHED_ALLOCATOR", "CORRUPTED_POINTER"}
      /\ at.status = "SUCCESS" => at.index \in 1 .. BlockCount(this)
  BY <1>0, <1>1, LocateFinds
<1>3. bytes \in Int
  <2>1. CASE at.status = "SUCCESS"
    <3>1. at.index \in 1 .. Len(this.blocks)
      BY <1>2, <2>1 DEF BlockCount
    <3>2. this.blocks[at.index].size \in Nat
      BY <1>1, <3>1, EntryType DEF Typed
    <3> QED
      BY <1>0, <2>1, <3>2, LayoutAssumption DEF UsableSize, GuardTotal
  <2>2. CASE at.status # "SUCCESS"
    BY <1>0, <2>2
  <2> QED
    BY <2>1, <2>2
<1>4. /\ at.status \in Statuses /\ "real_block_size" \in Operations
      /\ Null \in Nat
  BY <1>2 DEF Statuses, Operations, Null
<1>5. Answer("real_block_size", p, at.status, Null, bytes) \in AnswerT
  BY <1>1, <1>3, <1>4, AnswerTyped
<1>6. Unchanged(Answer("real_block_size", p, at.status, Null, bytes))
  BY <1>0 DEF RealBlockSize
<1> QED
  BY <1>1, <1>5, <1>6, UnchangedInv

LEMMA ReallocateRejectInv ==
  ASSUME Inv, NEW p \in Pointers, ReallocateReject(p)
  PROVE  Inv'
<1>0. PICK at : at = Locate(this, p)
  OBVIOUS
<1>1. Defined /\ Typed(this) /\ p \in Nat
  BY CallerAssumption DEF Inv, ReallocateReject
<1>2. at.status \in {"SUCCESS", "MISMATCHED_ALLOCATOR", "CORRUPTED_POINTER"}
  BY <1>0, <1>1, LocateFinds
<1>3. /\ at.status \in Statuses /\ "reallocate" \in Operations
      /\ Null \in Nat /\ 0 \in Int
  BY <1>2 DEF Statuses, Operations, Null
<1>4. Answer("reallocate", p, at.status, Null, 0) \in AnswerT
  BY <1>1, <1>3, AnswerTyped
<1>5. Unchanged(Answer("reallocate", p, at.status, Null, 0))
  BY <1>0 DEF ReallocateReject
<1> QED
  BY <1>1, <1>4, <1>5, UnchangedInv

LEMMA ReallocatedTyped ==
  ASSUME NEW p \in Nat, NEW q \in Nat, NEW status \in Statuses,
         NEW bytes \in Int, Reallocated(p, status, q, bytes)
  PROVE  ret' \in AnswerT /\ ret'.status = status
<1>1. "reallocate" \in Operations
  BY DEF Operations
<1> QED
  BY <1>1, AnswerTyped DEF Reallocated

LEMMA ReallocateSameInv ==
  ASSUME Inv, NEW p \in Pointers, NEW size \in Sizes, ReallocateSame(p, size)
  PROVE  Inv'
<1>1. Defined /\ Typed(this) /\ Sound(this) /\ CallersTyped /\ p \in Nat
  BY CallerAssumption DEF Inv, ReallocateSame, Found
<1>2. /\ live' = With(live, p, size) /\ damaged' = damaged /\ this' = this
      /\ Reallocated(p, "SUCCESS", p, 0)
  BY DEF ReallocateSame
<1>3. "SUCCESS" \in Statuses /\ 0 \in Int
  BY DEF Statuses
<1>4. ret' \in AnswerT
  BY <1>1, <1>2, <1>3, ReallocatedTyped
<1>5. CallersTyped'
  BY <1>1, <1>2, WithTyped DEF CallersTyped
<1> QED
  BY <1>1, <1>2, <1>4, <1>5 DEF Inv

LEMMA ReallocateShrinkInv ==
  ASSUME Inv, NEW p \in Pointers, NEW size \in Sizes, ReallocateShrink(p, size)
  PROVE  Inv'
<1>0. PICK at, freed, out, q :
        /\ at = Locate(this, p)
        /\ freed = DeallocateBlock(this, at.index, Intact(p))
        /\ out = AllocateBlock(freed.table, size)
        /\ q = PointerTo(out.table.blocks[out.index])
  OBVIOUS
<1>1. /\ Defined /\ Typed(this) /\ Sound(this) /\ CallersTyped /\ p \in Nat
      /\ at.status = "SUCCESS"
  BY <1>0, CallerAssumption DEF Inv, ReallocateShrink, Found
<1>2. at.index \in UsedIndices(this)
  BY <1>0, <1>1, LocateFinds
<1>3. Sound(freed.table) /\ Typed(freed.table)
  <2>1. PICK intact : intact = Intact(p)
    OBVIOUS
  <2>2. freed = DeallocateBlock(this, at.index, intact)
    BY <1>0, <2>1
  <2>3. Sound(freed.table)
    BY <1>1, <1>2, <2>2, DeallocateBlockSound
  <2> QED
    BY <2>3 DEF Sound, SoundFor
<1>4. /\ out.status \in {"SUCCESS", "OUT_OF_MEMORY", "INSUFFICIENT_BUFFER",
                         Undefined}
      /\ Typed(out.table)
      /\ out.status # Undefined => Sound(out.table)
      /\ out.status = "SUCCESS" =>
           /\ UsedCount(out.table) = UsedCount(freed.table) + 1
           /\ out.index = UsedCount(out.table)
  <2>1. BlockSize(size) \in Nat /\ BlockSize(size) > 0
    BY RequestSize
  <2>2. out = AllocateBlock(freed.table, size)
    BY <1>0
  <2> QED
    BY <1>3, <2>1, <2>2, AllocateBlockSound
<1>5. this' = out.table
  BY <1>0 DEF ReallocateShrink
<1>6. size \in Nat /\ Null \in Nat /\ 0 \in Int
  BY CallerAssumption DEF Null
<1>7. CASE out.status = "SUCCESS"
  <2>1. UsedCount(freed.table) \in Nat
    BY <1>3 DEF Typed, UsedCount, BlockCount
  <2>2. Sound(out.table) /\ UsedCount(out.table) > 0
    BY <1>4, <1>7, <2>1 DEF Undefined
  <2>3. q \in Nat
    BY <1>0, <1>4, <1>7, <2>2, NewPointer
  <2>4. /\ live' = With(Without(live, p), q, size) /\ damaged' = damaged \ {q}
        /\ Reallocated(p, "SUCCESS", q, size)
    BY <1>0, <1>7 DEF ReallocateShrink
  <2>5. "SUCCESS" \in Statuses
    BY DEF Statuses
  <2>6. ret' \in AnswerT
    BY <1>1, <1>6, <2>3, <2>4, <2>5, ReallocatedTyped
  <2>7. CallersTyped'
    BY <1>1, <2>3, <2>4, WithTyped DEF CallersTyped
  <2> QED
    BY <1>4, <1>5, <2>2, <2>6, <2>7 DEF Inv
<1>8. CASE out.status # "SUCCESS"
  <2>1. PICK status : status = IF out.status = Undefined
                               THEN Undefined ELSE "CORRUPTED_POINTER"
    OBVIOUS
  <2>2. /\ live' = IF freed.status = "SUCCESS" THEN Without(live, p) ELSE live
        /\ damaged' = damaged
        /\ Reallocated(p, status, Null, 0)
    BY <1>0, <1>8, <2>1 DEF ReallocateShrink
  <2>3. status \in Statuses /\ (status # Undefined => out.status # Undefined)
    BY <2>1 DEF Statuses
  <2>4. ret' \in AnswerT /\ ret'.status = status
    BY <1>1, <1>6, <2>2, <2>3, ReallocatedTyped
  <2>5. CallersTyped'
    <3>1. CASE freed.status = "SUCCESS"
      BY <1>1, <2>2, <3>1 DEF CallersTyped, Without
    <3>2. CASE freed.status # "SUCCESS"
      BY <1>1, <2>2, <3>2 DEF CallersTyped
    <3> QED
      BY <3>1, <3>2
  <2> QED
    BY <1>4, <1>5, <2>3, <2>4, <2>5 DEF Inv, Defined
<1> QED
  BY <1>7, <1>8

\* What a block needs in addition, when it grows.
LEMMA ExtraType ==
  ASSUME NEW p \in Pointers, NEW size \in Sizes, Typed(this), Found(p)
  PROVE  Extra(p, size) \in Int /\ OldSize(p) \in Nat
<1>1. Locate(this, p).index \in 1 .. BlockCount(this)
  BY LocateFinds DEF Found
<1>2. OldSize(p) \in Nat
  BY <1>1, EntryType DEF Typed, OldSize, BlockCount
<1> QED
  BY <1>2, RequestSize DEF Extra

LEMMA ReallocateInPlaceInv ==
  ASSUME Inv, NEW p \in Pointers, NEW size \in Sizes, ReallocateInPlace(p, size)
  PROVE  Inv'
<1>0. PICK i, extra : i = Locate(this, p).index /\ extra = Extra(p, size)
  OBVIOUS
<1>1. /\ Defined /\ Typed(this) /\ Sound(this) /\ CallersTyped /\ p \in Nat
      /\ Found(p)
  BY CallerAssumption DEF Inv, ReallocateInPlace, Found
<1>2. /\ extra > 0 /\ CanSteal(this, i, extra)
      /\ this' = Steal(this, i, extra)
      /\ live' = With(live, p, size) /\ damaged' = damaged \ {p}
      /\ Reallocated(p, "SUCCESS", p, 0)
  BY <1>0 DEF ReallocateInPlace
<1>3. extra \in Nat
  BY <1>0, <1>1, <1>2, ExtraType
<1>4. i \in UsedIndices(this)
  BY <1>0, <1>1, LocateFinds DEF Found
<1>5. Sound(this') /\ Typed(this')
  BY <1>1, <1>2, <1>3, <1>4, StealSound DEF Sound, SoundFor
<1>6. "SUCCESS" \in Statuses /\ 0 \in Int
  BY DEF Statuses
<1>7. ret' \in AnswerT
  BY <1>1, <1>2, <1>6, ReallocatedTyped
<1>8. CallersTyped'
  BY <1>1, <1>2, WithTyped DEF CallersTyped
<1> QED
  BY <1>5, <1>7, <1>8 DEF Inv

LEMMA ReallocateMoveInv ==
  ASSUME Inv, NEW p \in Pointers, NEW size \in Sizes, ReallocateMove(p, size)
  PROVE  Inv'
<1>0. PICK i, out, q, freed :
        /\ i = Locate(this, p).index
        /\ out = AllocateBlock(this, size)
        /\ q = PointerTo(out.table.blocks[out.index])
        /\ freed = DeallocateBlock(out.table, i, Intact(p))
  OBVIOUS
<1>1. /\ Defined /\ Typed(this) /\ Sound(this) /\ CallersTyped /\ p \in Nat
      /\ Found(p)
  BY CallerAssumption DEF Inv, ReallocateMove, Found
<1>2. i \in UsedIndices(this)
  BY <1>0, <1>1, LocateFinds DEF Found
<1>3. /\ out.status \in {"SUCCESS", "OUT_OF_MEMORY", "INSUFFICIENT_BUFFER",
                         Undefined}
      /\ Typed(out.table)
      /\ out.status # Undefined => Sound(out.table)
      /\ out.status = "SUCCESS" =>
           /\ UsedCount(out.table) = UsedCount(this) + 1
           /\ out.index = UsedCount(out.table)
  BY <1>0, <1>1, RequestSize, AllocateBlockSound
<1>4. size \in Nat /\ Null \in Nat /\ 0 \in Int
  BY CallerAssumption DEF Null
<1>5. UsedCount(this) \in Nat
  BY <1>1 DEF Typed, UsedCount, BlockCount
<1>6. CASE out.status = "SUCCESS"
  <2>1. /\ Sound(out.table) /\ UsedCount(out.table) > 0
        /\ i \in UsedIndices(out.table)
    BY <1>2, <1>3, <1>5, <1>6 DEF Undefined, UsedIndices
  <2>2. q \in Nat
    BY <1>0, <1>3, <1>6, <2>1, NewPointer
  <2>3. Sound(freed.table) /\ Typed(freed.table)
    <3>1. PICK intact : intact = Intact(p)
      OBVIOUS
    <3>2. freed = DeallocateBlock(out.table, i, intact)
      BY <1>0, <3>1
    <3>3. Sound(freed.table)
      BY <2>1, <3>2, DeallocateBlockSound
    <3> QED
      BY <3>3 DEF Sound, SoundFor
  <2>4. /\ this' = freed.table
        /\ live' = With(Without(live, p), q, size) /\ damaged' = damaged \ {q}
        /\ Reallocated(p, "SUCCESS", q, CopiedBytes(p, size))
    BY <1>0, <1>6 DEF ReallocateMove
  <2>5. "SUCCESS" \in Statuses /\ CopiedBytes(p, size) \in Int
    <3>1. OldSize(p) \in Nat
      BY <1>1, ExtraType
    <3> QED
      BY <1>4, <3>1, LayoutAssumption DEF Statuses, CopiedBytes, Smaller,
                                          UsableSize, GuardTotal
  <2>6. ret' \in AnswerT
    BY <1>1, <2>2, <2>4, <2>5, ReallocatedTyped
  <2>7. CallersTyped'
    BY <1>1, <2>2, <2>4, WithTyped DEF CallersTyped
  <2> QED
    BY <2>3, <2>4, <2>6, <2>7 DEF Inv
<1>7. CASE out.status # "SUCCESS"
  <2>1. /\ this' = out.table /\ live' = live /\ damaged' = damaged
        /\ Reallocated(p, out.status, Null, 0)
    BY <1>0, <1>7 DEF ReallocateMove
  <2>2. out.status \in Statuses
    BY <1>3 DEF Statuses
  <2>3. ret' \in AnswerT /\ ret'.status = out.status
    BY <1>1, <1>4, <2>1, <2>2, ReallocatedTyped
  <2>4. CallersTyped'
    BY <1>1, <2>1 DEF CallersTyped
  <2> QED
    BY <1>3, <2>1, <2>3, <2>4 DEF Inv, Defined
<1> QED
  BY <1>6, <1>7

LEMMA OverrunInv ==
  ASSUME Inv, NEW p \in Pointers, Overrun(p)
  PROVE  Inv'
<1>1. Defined /\ Typed(this) /\ Sound(this) /\ CallersTyped /\ p \in Nat
  BY CallerAssumption DEF Inv, Overrun
<1>2. /\ damaged' = damaged \cup {p} /\ this' = this /\ live' = live
      /\ ret' = Answer("write", p, "SUCCESS", Null, 0)
  BY DEF Overrun
<1>3. /\ "write" \in Operations /\ "SUCCESS" \in Statuses /\ Null \in Nat
      /\ 0 \in Int
  BY DEF Operations, Statuses, Null
<1>4. ret' \in AnswerT
  BY <1>1, <1>2, <1>3, AnswerTyped
<1>5. CallersTyped'
  BY <1>1, <1>2 DEF CallersTyped
<1> QED
  BY <1>1, <1>2, <1>4, <1>5 DEF Inv

-----------------------------------------------------------------------------

LEMMA NextInv == Inv /\ [ServeNext]_vars => Inv'
<1> SUFFICES ASSUME Inv, [ServeNext]_vars PROVE Inv'
  OBVIOUS
<1>1. CASE \E size \in Sizes : Allocate(size)
  BY <1>1, AllocateInv
<1>2. ASSUME NEW p \in Pointers, Deallocate(p) PROVE Inv'
  BY <1>2, DeallocateInv
<1>3. ASSUME NEW p \in Pointers, RealBlockSize(p) PROVE Inv'
  BY <1>3, RealBlockSizeInv
<1>4. ASSUME NEW p \in Pointers, ReallocateReject(p) PROVE Inv'
  BY <1>4, ReallocateRejectInv
<1>5. ASSUME NEW p \in Pointers, Overrun(p) PROVE Inv'
  BY <1>5, OverrunInv
<1>6. ASSUME NEW p \in Pointers, NEW size \in Sizes, Reallocate(p, size)
      PROVE  Inv'
  BY <1>6, ReallocateSameInv, ReallocateShrinkInv, ReallocateInPlaceInv,
     ReallocateMoveInv DEF Reallocate
<1>7. CASE UNCHANGED vars
  BY <1>7 DEF vars, Inv, Defined, CallersTyped
<1> QED
  BY <1>1, <1>2, <1>3, <1>4, <1>5, <1>6, <1>7 DEF ServeNext

\* The invariant the three theorems rest on.
LEMMA ServeInv == ServeSpec => []Inv
BY InitInv, NextInv, PTL DEF ServeSpec

\* Every variable keeps its type whatever callers do: no size or offset of
\* fixed_size_allocator.c drops below zero, and the table never loses its
\* last, free block, which allocate_block reads without looking.
THEOREM ServeTypeOK == ServeSpec => []TypeOK
BY ServeInv, InvImpliesTypeOK, PTL

\* With the last allocation given back the allocator is as good as new: no
\* history of calls leaves it fragmented (fixed_buffer_deallocate_block).
THEOREM ServeStartsOver == ServeSpec => []StartsOver
BY ServeInv, InvImpliesStartsOver, PTL

-----------------------------------------------------------------------------
(***************************************************************************)
(* What callers hold, and what the table says is used                      *)
(***************************************************************************)

\* Blocks are aligned, and no memory lies between them.
Tight(t) == AlignedTable(t) /\ Followed(t)

\* Every allocation of L has a used block with room for it; every used block
\* is one of L's or of D's, and every member of D has one.
HeldIn(t, L, D) ==
  /\ \A p \in DOMAIN L : \E i \in UsedIndices(t) :
       /\ PointerTo(t.blocks[i]) = p
       /\ UsableSize(t.blocks[i].size) >= L[p]
  /\ \A i \in UsedIndices(t) : PointerTo(t.blocks[i]) \in DOMAIN L \cup D
  /\ \A p \in D : \E i \in UsedIndices(t) : PointerTo(t.blocks[i]) = p

Held == Tight(this) /\ HeldIn(this, live, damaged)

\* The inductive invariant for HeldBlocks, DamagedKeptBack and NoGaps.
HeldInv == Inv /\ (Defined => Held)

\* A used block is an entry of the table, not the last, and is not empty.
LEMMA UsedEntry ==
  ASSUME NEW t, Sound(t), NEW i \in UsedIndices(t)
  PROVE  /\ i \in 1 .. Len(t.blocks) - 1 /\ i \in 1 .. Len(t.blocks)
         /\ t.blocks[i].offset \in Nat /\ t.blocks[i].size \in Nat
         /\ t.blocks[i].size > 0
         /\ PointerTo(t.blocks[i]) = t.blocks[i].offset + UserOffset
         /\ PointerTo(t.blocks[i]) \in Nat
<1>1. /\ i \in 1 .. Len(t.blocks) - 1 /\ i \in 1 .. Len(t.blocks)
      /\ t.blocks \in Seq(BlockT)
  BY DEF Sound, SoundFor, Typed, UsedIndices, UsedCount, BlockCount
<1>2. t.blocks[i].offset \in Nat /\ t.blocks[i].size \in Nat
  BY <1>1, EntryType
<1>3. t.blocks[i].size > 0
  BY <1>1 DEF Sound, SoundFor, Placed
<1> QED
  BY <1>1, <1>2, <1>3, LayoutAssumption DEF PointerTo, UserOffset

\* Two offsets with the same pointer behind the front guard are the same.
LEMMA SameDistance ==
  ASSUME NEW a \in Nat, NEW b \in Nat, NEW d \in Nat, a + d = b + d
  PROVE  a = b
OBVIOUS

\* No two used blocks have the same pointer.
LEMMA PointersDiffer ==
  ASSUME NEW t, Sound(t), NEW i \in UsedIndices(t), NEW j \in UsedIndices(t),
         PointerTo(t.blocks[i]) = PointerTo(t.blocks[j])
  PROVE  i = j
<1>1. SUFFICES ASSUME i # j PROVE FALSE
  OBVIOUS
<1>2. /\ i \in 1 .. Len(t.blocks) /\ j \in 1 .. Len(t.blocks)
      /\ t.blocks[i].offset \in Nat /\ t.blocks[i].size \in Nat
      /\ t.blocks[j].offset \in Nat /\ t.blocks[j].size \in Nat
      /\ t.blocks[i].size > 0 /\ t.blocks[j].size > 0
  BY UsedEntry
<1>3. t.blocks[i].offset = t.blocks[j].offset
  <2>1. /\ PointerTo(t.blocks[i]) = t.blocks[i].offset + UserOffset
        /\ PointerTo(t.blocks[j]) = t.blocks[j].offset + UserOffset
    BY DEF PointerTo
  <2>2. /\ UserOffset \in Nat
        /\ t.blocks[i].offset + UserOffset = t.blocks[j].offset + UserOffset
    BY <2>1, LayoutAssumption DEF UserOffset
  <2> QED
    BY <1>2, <2>2, SameDistance
<1>4. \/ EndOf(t.blocks[i]) <= t.blocks[j].offset
      \/ EndOf(t.blocks[j]) <= t.blocks[i].offset
  BY <1>1, <1>2 DEF Sound, SoundFor, Apart
<1> QED
  BY <1>2, <1>3, <1>4 DEF EndOf

\* A used block is aligned, and so is the pointer to it.
LEMMA UsedAligned ==
  ASSUME NEW t, Sound(t), Tight(t), NEW i \in UsedIndices(t)
  PROVE  /\ IsMultiple(t.blocks[i].size)
         /\ PointerTo(t.blocks[i]) % Alignment = 0
<1>1. /\ i \in 1 .. Len(t.blocks) - 1
      /\ PointerTo(t.blocks[i]) = t.blocks[i].offset + UserOffset
      /\ PointerTo(t.blocks[i]) \in Nat
  BY UsedEntry
<1>2. IsMultiple(t.blocks[i].size) /\ IsMultiple(t.blocks[i].offset)
  BY <1>1 DEF Tight, AlignedTable, BlockAligned
<1>3. IsMultiple(UserOffset)
  BY MultipleAligned, LayoutAssumption, TableAssumption DEF UserOffset
<1>4. IsMultiple(PointerTo(t.blocks[i]))
  BY <1>1, <1>2, <1>3, SumMultiple
<1> QED
  BY <1>1, <1>2, <1>4, MultipleAligned

LEMMA RequestFits ==
  ASSUME NEW size \in Sizes
  PROVE  /\ BlockSize(size) \in Nat /\ BlockSize(size) > 0
         /\ IsMultiple(BlockSize(size))
         /\ UsableSize(BlockSize(size)) >= size
         /\ size \in Nat /\ GuardTotal \in Nat
<1>1. size \in Nat /\ size + Alignment - 1 + GuardTotal < SizeLimit
  BY CallerAssumption
<1>2. IsMultiple(BlockSize(size))
  BY <1>1, BlockSizeMultiple, TableAssumption
<1>3. UsableSize(BlockSize(size)) >= size
  BY <1>1, BlockHoldsRequest
<1> QED
  BY <1>1, <1>2, <1>3, RequestSize, LayoutAssumption DEF GuardTotal

LEMMA HeldInvImpliesHeldBlocks == HeldInv => HeldBlocks
<1> SUFFICES ASSUME HeldInv, Defined
             PROVE  /\ \A p \in DOMAIN live :
                         /\ p % Alignment = 0
                         /\ \E i \in Indices :
                              /\ Serves(i, p)
                              /\ UsableSize(Blocks[i].size) >= live[p]
                    /\ \A i \in UsedIndices(this) :
                         PointerTo(Blocks[i]) \in DOMAIN live \cup damaged
  BY DEF HeldBlocks
<1>1. Sound(this) /\ Tight(this) /\ HeldIn(this, live, damaged)
  BY DEF HeldInv, Held, Inv
<1>2. ASSUME NEW p \in DOMAIN live
      PROVE  /\ p % Alignment = 0
             /\ \E i \in Indices : /\ Serves(i, p)
                                   /\ UsableSize(Blocks[i].size) >= live[p]
  <2>1. PICK i \in UsedIndices(this) :
          /\ PointerTo(this.blocks[i]) = p
          /\ UsableSize(this.blocks[i].size) >= live[p]
    BY <1>1 DEF HeldIn
  <2>2. i \in Indices
    BY <1>1, UsedEntry DEF Indices, BlockCount
  <2>3. p % Alignment = 0
    BY <1>1, <2>1, UsedAligned
  <2> QED
    BY <2>1, <2>2, <2>3 DEF Serves, Blocks
<1> QED
  BY <1>1, <1>2 DEF HeldIn, Blocks

\* The block that follows another one is the only one that begins there.
LEMMA HeldInvImpliesNoGaps == HeldInv /\ Defined => NoGaps
<1> SUFFICES ASSUME HeldInv, Defined, NEW i \in Indices,
                    EndOf(Blocks[i]) # TotalSize
             PROVE  Cardinality({j \in Indices :
                                   /\ Blocks[j].offset = EndOf(Blocks[i])
                                   /\ Blocks[j].size > 0}) = 1
  BY DEF NoGaps
<1>1. Sound(this) /\ Followed(this) /\ Indices = 1 .. Len(this.blocks)
  BY DEF HeldInv, Held, Tight, Inv, Indices, BlockCount
<1>2. PICK j \in Indices : /\ this.blocks[j].offset = EndOf(this.blocks[i])
                           /\ this.blocks[j].size > 0
  BY <1>1 DEF Followed, Blocks
<1>3. ASSUME NEW l \in Indices, this.blocks[l].offset = EndOf(this.blocks[i]),
             this.blocks[l].size > 0
      PROVE  l = j
  <2>1. SUFFICES ASSUME l # j PROVE FALSE
    OBVIOUS
  <2>2. \/ EndOf(this.blocks[l]) <= this.blocks[j].offset
        \/ EndOf(this.blocks[j]) <= this.blocks[l].offset
    BY <1>1, <2>1 DEF Sound, SoundFor, Apart
  <2>3. /\ this.blocks[l].offset \in Nat /\ this.blocks[l].size \in Nat
        /\ this.blocks[j].offset \in Nat /\ this.blocks[j].size \in Nat
    BY <1>1, EntryType DEF Sound, SoundFor, Typed
  <2> QED
    BY <1>2, <1>3, <2>2, <2>3 DEF EndOf
<1>4. {l \in Indices : /\ Blocks[l].offset = EndOf(Blocks[i])
                       /\ Blocks[l].size > 0} = {j}
  BY <1>2, <1>3 DEF Blocks
<1> QED
  BY <1>4, FS_Singleton

LEMMA HeldInvImpliesValidated == HeldInv => Validated
BY InvImpliesApart, HeldInvImpliesNoGaps DEF HeldInv, Validated

LEMMA HeldInvImpliesKeptBack == HeldInv => DamagedKeptBack
<1> SUFFICES ASSUME HeldInv, Defined, NEW p \in damaged
             PROVE  \E i \in Indices : Serves(i, p)
  BY DEF DamagedKeptBack
<1>1. Sound(this) /\ HeldIn(this, live, damaged)
  BY DEF HeldInv, Held, Inv
<1>2. PICK i \in UsedIndices(this) : PointerTo(this.blocks[i]) = p
  BY <1>1 DEF HeldIn
<1>3. i \in Indices
  BY <1>1, UsedEntry DEF Indices, BlockCount
<1> QED
  BY <1>2, <1>3 DEF Serves, Blocks

-----------------------------------------------------------------------------
(***************************************************************************)
(* How the steps of the allocator change what is held.                     *)
(***************************************************************************)

\* One more used block, for a new allocation.
LEMMA GiveHeld ==
  ASSUME NEW t, NEW u, NEW L, NEW D, HeldIn(t, L, D),
         UsedCount(t) \in Nat, UsedCount(u) = UsedCount(t) + 1,
         \A i \in UsedIndices(t) : u.blocks[i] = t.blocks[i],
         NEW q, q = PointerTo(u.blocks[UsedCount(u)]),
         NEW size, UsableSize(u.blocks[UsedCount(u)].size) >= size
  PROVE  HeldIn(u, With(L, q, size), D \ {q})
<1>1. /\ \A i \in UsedIndices(u) : i \in UsedIndices(t) \/ i = UsedCount(u)
      /\ UsedCount(u) \in UsedIndices(u)
      /\ \A i \in UsedIndices(t) : i \in UsedIndices(u)
  BY DEF UsedIndices
<1>2. ASSUME NEW p \in DOMAIN With(L, q, size)
      PROVE  \E i \in UsedIndices(u) :
               /\ PointerTo(u.blocks[i]) = p
               /\ UsableSize(u.blocks[i].size) >= With(L, q, size)[p]
  <2>1. CASE p = q
    BY <1>1, <2>1 DEF With
  <2>2. CASE p # q
    <3>1. p \in DOMAIN L /\ With(L, q, size)[p] = L[p]
      BY <1>2, <2>2 DEF With
    <3> QED
      BY <1>1, <3>1 DEF HeldIn
  <2> QED
    BY <2>1, <2>2
<1>3. \A i \in UsedIndices(u) :
        PointerTo(u.blocks[i]) \in DOMAIN With(L, q, size) \cup (D \ {q})
  BY <1>1 DEF HeldIn, With
<1>4. \A p \in D \ {q} : \E i \in UsedIndices(u) : PointerTo(u.blocks[i]) = p
  BY <1>1 DEF HeldIn
<1> QED
  BY <1>2, <1>3, <1>4 DEF HeldIn

\* One used block less, and its allocation is forgotten.
LEMMA FreeHeld ==
  ASSUME NEW t, Sound(t), NEW L, NEW D, HeldIn(t, L, D),
         NEW i \in UsedIndices(t), NEW p, PointerTo(t.blocks[i]) = p,
         p \notin D, NEW u, Frees(t, i, u)
  PROVE  HeldIn(u, Without(L, p), D)
<1>1. /\ \A j \in UsedIndices(t) :
           j # i => \E l \in UsedIndices(u) : u.blocks[l] = t.blocks[j]
      /\ \A l \in UsedIndices(u) :
           \E j \in UsedIndices(t) : j # i /\ u.blocks[l] = t.blocks[j]
  BY DEF Frees
<1>2. ASSUME NEW r \in DOMAIN Without(L, p)
      PROVE  \E l \in UsedIndices(u) :
               /\ PointerTo(u.blocks[l]) = r
               /\ UsableSize(u.blocks[l].size) >= Without(L, p)[r]
  <2>1. r \in DOMAIN L /\ r # p /\ Without(L, p)[r] = L[r]
    BY <1>2 DEF Without
  <2>2. PICK j \in UsedIndices(t) : /\ PointerTo(t.blocks[j]) = r
                                    /\ UsableSize(t.blocks[j].size) >= L[r]
    BY <2>1 DEF HeldIn
  <2>3. j # i
    BY <2>1, <2>2
  <2> QED
    BY <1>1, <2>1, <2>2, <2>3
<1>3. ASSUME NEW l \in UsedIndices(u)
      PROVE  PointerTo(u.blocks[l]) \in DOMAIN Without(L, p) \cup D
  <2>1. PICK j \in UsedIndices(t) : j # i /\ u.blocks[l] = t.blocks[j]
    BY <1>1
  <2>2. PointerTo(t.blocks[j]) # p
    BY <2>1, PointersDiffer
  <2>3. PointerTo(t.blocks[j]) \in DOMAIN L \cup D
    BY DEF HeldIn
  <2> QED
    BY <2>1, <2>2, <2>3 DEF Without
<1>4. ASSUME NEW r \in D
      PROVE  \E l \in UsedIndices(u) : PointerTo(u.blocks[l]) = r
  <2>1. PICK j \in UsedIndices(t) : PointerTo(t.blocks[j]) = r
    BY DEF HeldIn
  <2>2. j # i
    BY <2>1
  <2> QED
    BY <1>1, <2>1, <2>2
<1> QED
  BY <1>2, <1>3, <1>4 DEF HeldIn

\* A caller gives up a block that is kept back.
LEMMA ForgetHeld ==
  ASSUME NEW t, NEW L, NEW D, HeldIn(t, L, D), NEW p \in D
  PROVE  HeldIn(t, Without(L, p), D)
BY DEF HeldIn, Without

\* The block of an allocation is as large as its new size asks for.
LEMMA GrowHeld ==
  ASSUME NEW t, NEW u, NEW L, NEW D, HeldIn(t, L, D),
         NEW i \in UsedIndices(t), NEW p, PointerTo(t.blocks[i]) = p,
         PointerTo(u.blocks[i]) = p, UsedCount(u) = UsedCount(t),
         \A j \in UsedIndices(t) : j # i => u.blocks[j] = t.blocks[j],
         NEW size, UsableSize(u.blocks[i].size) >= size,
         NEW E, E \subseteq D
  PROVE  HeldIn(u, With(L, p, size), (D \ {p}) \cup E)
<1>1. UsedIndices(u) = UsedIndices(t)
  BY DEF UsedIndices
<1>2. ASSUME NEW r \in DOMAIN With(L, p, size)
      PROVE  \E j \in UsedIndices(u) :
               /\ PointerTo(u.blocks[j]) = r
               /\ UsableSize(u.blocks[j].size) >= With(L, p, size)[r]
  <2>1. CASE r = p
    BY <1>1, <2>1 DEF With
  <2>2. CASE r # p
    <3>1. r \in DOMAIN L /\ With(L, p, size)[r] = L[r]
      BY <1>2, <2>2 DEF With
    <3>2. PICK j \in UsedIndices(t) : /\ PointerTo(t.blocks[j]) = r
                                      /\ UsableSize(t.blocks[j].size) >= L[r]
      BY <3>1 DEF HeldIn
    <3>3. j # i
      BY <2>2, <3>2
    <3> QED
      BY <1>1, <3>1, <3>2, <3>3
  <2> QED
    BY <2>1, <2>2
<1>3. \A j \in UsedIndices(t) : PointerTo(u.blocks[j]) = PointerTo(t.blocks[j])
  OBVIOUS
<1>4. \A j \in UsedIndices(u) :
        PointerTo(u.blocks[j])
          \in DOMAIN With(L, p, size) \cup ((D \ {p}) \cup E)
  BY <1>1, <1>3 DEF HeldIn, With
<1>5. \A r \in (D \ {p}) \cup E :
        \E j \in UsedIndices(u) : PointerTo(u.blocks[j]) = r
  BY <1>1, <1>3 DEF HeldIn
<1> QED
  BY <1>2, <1>4, <1>5 DEF HeldIn

-----------------------------------------------------------------------------
(***************************************************************************)
(* One lemma per call, as before.                                          *)
(***************************************************************************)

LEMMA InitHeld == Init => Held
<1> SUFFICES ASSUME Init PROVE Held
  OBVIOUS
<1>1. UsedIndices(EmptyTable) = {}
  BY DEF EmptyTable, UsedIndices, UsedCount, BlockCount
<1> QED
  BY <1>1, EmptySound DEF Init, Held, HeldIn, Tight

\* A successful search, and what it gives to its caller.
LEMMA AllocateHeld ==
  ASSUME NEW t, Sound(t), Tight(t), NEW L, NEW D, HeldIn(t, L, D),
         NEW size \in Sizes, NEW out, out = AllocateBlock(t, size),
         out.status # Undefined,
         NEW q, q = PointerTo(out.table.blocks[out.index])
  PROVE  /\ Sound(out.table) /\ Tight(out.table)
         /\ out.status # "SUCCESS" => out.table = t
         /\ out.status = "SUCCESS" =>
              /\ HeldIn(out.table, With(L, q, size), D \ {q})
              /\ out.index \in UsedIndices(out.table)
              /\ out.index \notin UsedIndices(t)
              /\ UsedIndices(t) \subseteq UsedIndices(out.table)
              /\ \A i \in UsedIndices(t) : out.table.blocks[i] = t.blocks[i]
              /\ ClearOf(t, BlockCount(out.table))
              /\ BlockCount(out.table) \in {BlockCount(t), BlockCount(t) + 1}
<1>1. /\ out.status # Undefined => Sound(out.table)
      /\ out.status = "SUCCESS" =>
           /\ UsedCount(out.table) = UsedCount(t) + 1
           /\ out.index = UsedCount(out.table)
           /\ \A i \in UsedIndices(t) : out.table.blocks[i] = t.blocks[i]
           /\ out.table.blocks[out.index].size >= BlockSize(size)
           /\ AlignedTable(t) /\ IsMultiple(BlockSize(size))
                => AlignedTable(out.table)
           /\ Followed(t) => Followed(out.table)
           /\ ClearOf(t, BlockCount(out.table))
           /\ BlockCount(out.table) \in {BlockCount(t), BlockCount(t) + 1}
      /\ out.status \notin {"SUCCESS", Undefined} => out.table = t
  BY RequestFits, AllocateBlockSound
<1>2. CASE out.status # "SUCCESS"
  BY <1>1, <1>2
<1>3. CASE out.status = "SUCCESS"
  <2>1. Sound(out.table) /\ Tight(out.table)
    BY <1>1, <1>3, RequestFits DEF Tight
  <2>2. UsedCount(t) \in Nat
    BY DEF Sound, SoundFor, Typed, UsedCount, BlockCount
  <2>3. /\ out.index \in UsedIndices(out.table)
        /\ out.index \notin UsedIndices(t)
        /\ UsedIndices(t) \subseteq UsedIndices(out.table)
    BY <1>1, <1>3, <2>2 DEF UsedIndices
  <2>4. UsableSize(out.table.blocks[out.index].size) >= size
    <3>1. out.table.blocks[out.index].size \in Nat
      BY <2>1, <2>3, UsedEntry
    <3> QED
      BY <1>1, <1>3, <3>1, RequestFits DEF UsableSize
  <2>5. HeldIn(out.table, With(L, q, size), D \ {q})
    <3>1. PICK u : u = out.table
      OBVIOUS
    <3>2. HeldIn(u, With(L, q, size), D \ {q})
      BY <1>1, <1>3, <2>2, <2>4, <3>1, GiveHeld
    <3> QED
      BY <3>1, <3>2
  <2> QED
    BY <1>1, <1>3, <2>1, <2>3, <2>5
<1> QED
  BY <1>2, <1>3

\* A block is given back, or kept back for its damaged guards.
Returned(t, i, p, D, out) ==
  out = IF p \in D THEN Outcome(t, "CORRUPTED_POINTER", i)
                   ELSE Outcome(Release(t, i), "SUCCESS", i)

LEMMA DeallocateReturns ==
  ASSUME NEW t, Sound(t), NEW i \in UsedIndices(t), NEW p
  PROVE  Returned(t, i, p, damaged, DeallocateBlock(t, i, Intact(p)))
<1>1. t.blocks[i].state = "USED"
  <2>1. i \in 1 .. Len(t.blocks)
    BY UsedEntry
  <2> QED
    BY <2>1 DEF Sound, SoundFor, Sorted
<1> QED
  BY <1>1 DEF Returned, DeallocateBlock, Intact

LEMMA ReturnHeld ==
  ASSUME NEW t, Sound(t), Tight(t), NEW L, NEW D, HeldIn(t, L, D),
         NEW i \in UsedIndices(t), NEW p, PointerTo(t.blocks[i]) = p,
         NEW out, Returned(t, i, p, D, out)
  PROVE  /\ Sound(out.table) /\ Tight(out.table)
         /\ HeldIn(out.table, Without(L, p), D)
         /\ out.status # "SUCCESS" => out.table = t
         /\ Frees(t, i, out.table) \/ out.table = t
<1>1. CASE p \notin D
  <2>1. out.table = Release(t, i) /\ out.status = "SUCCESS"
    BY <1>1 DEF Returned, Outcome
  <2>2. /\ Sound(Release(t, i)) /\ Tight(Release(t, i))
        /\ Frees(t, i, Release(t, i))
    BY ReleaseSound DEF Tight
  <2>3. HeldIn(out.table, Without(L, p), D)
    BY <1>1, <2>1, <2>2, FreeHeld
  <2> QED
    BY <2>1, <2>2, <2>3
<1>2. CASE p \in D
  <2>1. out.table = t
    BY <1>2 DEF Returned, Outcome
  <2> QED
    BY <1>2, <2>1, ForgetHeld
<1> QED
  BY <1>1, <1>2

\* The block a pointer is found to belong to.
LEMMA LocateUsed ==
  ASSUME NEW t, Sound(t), NEW p \in Nat, NEW at, at = Locate(t, p),
         at.status = "SUCCESS"
  PROVE  at.index \in UsedIndices(t) /\ PointerTo(t.blocks[at.index]) = p
<1>1. /\ at.index \in UsedIndices(t)
      /\ t.blocks[at.index].offset = p - UserOffset
  BY LocateFinds DEF Sound, SoundFor
<1>2. PointerTo(t.blocks[at.index]) = t.blocks[at.index].offset + UserOffset
  BY <1>1, UsedEntry
<1> QED
  BY <1>1, <1>2, LayoutAssumption DEF UserOffset

LEMMA AllocateKeepsHeld ==
  ASSUME HeldInv, NEW size \in Sizes, Allocate(size), Defined'
  PROVE  Held'
<1>0. PICK out, q : /\ out = AllocateBlock(this, size)
                    /\ q = PointerTo(out.table.blocks[out.index])
  OBVIOUS
<1>1. Sound(this) /\ Tight(this) /\ HeldIn(this, live, damaged)
  BY DEF HeldInv, Held, Inv, Allocate
<1>2. this' = out.table
  BY <1>0 DEF Allocate
<1>3. CASE out.status = "SUCCESS"
  <2>1. live' = With(live, q, size) /\ damaged' = damaged \ {q}
    BY <1>0, <1>3 DEF Allocate
  <2>2. /\ Tight(out.table)
        /\ HeldIn(out.table, With(live, q, size), damaged \ {q})
    <3>1. out.status # Undefined
      BY <1>3 DEF Undefined
    <3> QED
      BY <1>0, <1>1, <1>3, <3>1, AllocateHeld
  <2> QED
    BY <1>2, <2>1, <2>2 DEF Held
<1>4. CASE out.status # "SUCCESS"
  <2>1. /\ ret' = Answer("allocate", Null, out.status, Null, 0)
        /\ UNCHANGED << live, damaged >>
    BY <1>0, <1>4 DEF Allocate
  <2>2. out.status # Undefined
    BY <2>1 DEF Defined, Answer
  <2>3. out.table = this
    BY <1>0, <1>1, <1>4, <2>2, AllocateHeld
  <2> QED
    BY <1>1, <1>2, <2>1, <2>3 DEF Held
<1> QED
  BY <1>3, <1>4

LEMMA DeallocateKeepsHeld ==
  ASSUME HeldInv, NEW p \in Pointers, Deallocate(p)
  PROVE  Held'
<1>0. PICK at, out : /\ at = Locate(this, p)
                     /\ out = DeallocateBlock(this, at.index, Intact(p))
  OBVIOUS
<1>1. /\ Sound(this) /\ Tight(this) /\ HeldIn(this, live, damaged)
      /\ p \in Nat
  BY CallerAssumption DEF HeldInv, Held, Inv, Deallocate
<1>2. CASE at.status # "SUCCESS"
  BY <1>0, <1>1, <1>2 DEF Deallocate, Unchanged, Held
<1>3. CASE at.status = "SUCCESS"
  <2>1. /\ this' = out.table /\ damaged' = damaged
        /\ live' = IF out.status = "SUCCESS" THEN Without(live, p) ELSE live
    BY <1>0, <1>3 DEF Deallocate
  <2>2. /\ at.index \in UsedIndices(this)
        /\ PointerTo(this.blocks[at.index]) = p
    BY <1>0, <1>1, <1>3, LocateUsed
  <2>3. Returned(this, at.index, p, damaged, out)
    BY <1>0, <1>1, <2>2, DeallocateReturns
  <2>4. /\ Tight(out.table)
        /\ HeldIn(out.table, Without(live, p), damaged)
        /\ out.status # "SUCCESS" => out.table = this
    BY <1>1, <2>2, <2>3, ReturnHeld
  <2> QED
    BY <1>1, <2>1, <2>4 DEF Held
<1> QED
  BY <1>2, <1>3

LEMMA ReallocateSameKeepsHeld ==
  ASSUME HeldInv, NEW p \in Pointers, NEW size \in Sizes,
         ReallocateSame(p, size)
  PROVE  Held'
<1>0. PICK i : i = Locate(this, p).index
  OBVIOUS
<1>1. /\ Sound(this) /\ Tight(this) /\ HeldIn(this, live, damaged)
      /\ p \in Nat /\ Locate(this, p).status = "SUCCESS"
  BY CallerAssumption DEF HeldInv, Held, Inv, ReallocateSame, Found
<1>2. /\ live' = With(live, p, size) /\ damaged' = damaged /\ this' = this
      /\ Extra(p, size) = 0
  BY DEF ReallocateSame
<1>3. i \in UsedIndices(this) /\ PointerTo(this.blocks[i]) = p
  BY <1>0, <1>1, LocateUsed
<1>4. UsableSize(this.blocks[i].size) >= size
  <2>1. this.blocks[i].size \in Nat
    BY <1>1, <1>3, UsedEntry
  <2>2. this.blocks[i].size = BlockSize(size)
    BY <1>0, <1>2, <2>1, RequestFits DEF Extra, OldSize
  <2> QED
    BY <2>2, RequestFits
<1>5. HeldIn(this, With(live, p, size), (damaged \ {p}) \cup damaged)
  BY <1>1, <1>3, <1>4, GrowHeld
<1>6. (damaged \ {p}) \cup damaged = damaged
  OBVIOUS
<1> QED
  BY <1>1, <1>2, <1>5, <1>6 DEF Held

LEMMA ReallocateInPlaceKeepsHeld ==
  ASSUME HeldInv, NEW p \in Pointers, NEW size \in Sizes,
         ReallocateInPlace(p, size)
  PROVE  Held'
<1>0. PICK i, extra, u : /\ i = Locate(this, p).index
                         /\ extra = Extra(p, size)
                         /\ u = Steal(this, i, extra)
  OBVIOUS
<1>1. /\ Sound(this) /\ Tight(this) /\ HeldIn(this, live, damaged)
      /\ p \in Nat /\ Locate(this, p).status = "SUCCESS"
  BY CallerAssumption DEF HeldInv, Held, Inv, ReallocateInPlace, Found
<1>2. /\ extra > 0 /\ CanSteal(this, i, extra) /\ this' = u
      /\ live' = With(live, p, size) /\ damaged' = damaged \ {p}
  BY <1>0 DEF ReallocateInPlace
<1>3. i \in UsedIndices(this) /\ PointerTo(this.blocks[i]) = p
  BY <1>0, <1>1, LocateUsed
<1>4. this.blocks[i].size \in Nat /\ IsMultiple(this.blocks[i].size)
  BY <1>1, <1>3, UsedEntry, UsedAligned
<1>5. /\ extra = BlockSize(size) - this.blocks[i].size
      /\ extra \in Nat /\ IsMultiple(extra)
  <2>1. extra = BlockSize(size) - this.blocks[i].size
    BY <1>0 DEF Extra, OldSize
  <2>2. extra \in Nat /\ BlockSize(size) >= this.blocks[i].size
    BY <1>2, <1>4, <2>1, RequestFits
  <2> QED
    BY <1>4, <2>1, <2>2, RequestFits, DifferenceMultiple
<1>6. /\ UsedCount(u) = UsedCount(this)
      /\ AlignedTable(u) /\ Followed(u)
      /\ \A j \in UsedIndices(this) : j # i => u.blocks[j] = this.blocks[j]
      /\ u.blocks[i].offset = this.blocks[i].offset
      /\ u.blocks[i].size = this.blocks[i].size + extra
  <2>1. AlignedTable(this) /\ Followed(this)
    BY <1>1 DEF Tight
  <2>2. Sound(this) /\ i \in UsedIndices(this) /\ u = Steal(this, i, extra)
    BY <1>0, <1>1, <1>3
  <2>3. CanSteal(this, i, extra)
    BY <1>0, <1>2
  <2>4. extra \in Nat /\ IsMultiple(extra)
    BY <1>5
  <2> QED
    BY <2>1, <2>2, <2>3, <2>4, StealSound
<1>7. PointerTo(u.blocks[i]) = p /\ UsableSize(u.blocks[i].size) >= size
  <2>1. u.blocks[i].size = BlockSize(size)
    BY <1>4, <1>5, <1>6, RequestFits
  <2> QED
    BY <1>3, <1>6, <2>1, RequestFits DEF PointerTo
<1>8. HeldIn(u, With(live, p, size), (damaged \ {p}) \cup {})
  BY <1>1, <1>3, <1>6, <1>7, GrowHeld
<1>9. (damaged \ {p}) \cup {} = damaged \ {p}
  OBVIOUS
<1> QED
  BY <1>2, <1>6, <1>8, <1>9 DEF Held, Tight

\* What a reallocation that moves a block keeps of its contents.
ContentsKept(p, q, bytes) ==
  /\ bytes >= Smaller(live[p], live'[q])
  /\ bytes <= UsableSize(OldSize(p))
  /\ InfoSize * BlockCount(this') <= p - UserOffset

\* What a reallocation that moves a block does to what callers hold.
HandedOver(p, size) ==
  IF ret'.status = "SUCCESS"
  THEN /\ ret'.result \notin DOMAIN Without(live, p)
       /\ live' = With(Without(live, p), ret'.result, size)
  ELSE \/ live' = live
       \/ p \notin damaged /\ live' = Without(live, p)

\* The pointer of a new used block is not held yet.
LEMMA FreshPointer ==
  ASSUME NEW t, NEW L, NEW D, HeldIn(t, L, D), NEW u, Sound(u),
         NEW k \in UsedIndices(u), k \notin UsedIndices(t),
         UsedIndices(t) \subseteq UsedIndices(u),
         \A i \in UsedIndices(t) : u.blocks[i] = t.blocks[i]
  PROVE  PointerTo(u.blocks[k]) \notin DOMAIN L
<1>1. SUFFICES ASSUME PointerTo(u.blocks[k]) \in DOMAIN L PROVE FALSE
  OBVIOUS
<1>2. PICK i \in UsedIndices(t) :
        PointerTo(t.blocks[i]) = PointerTo(u.blocks[k])
  BY <1>1 DEF HeldIn
<1>3. i \in UsedIndices(u) /\ PointerTo(u.blocks[i]) = PointerTo(u.blocks[k])
  BY <1>2
<1> QED
  BY <1>2, <1>3, PointersDiffer

\* What an allocation hands out is a pointer that no one holds.
LEMMA AllocateFresh ==
  ASSUME NEW t, Sound(t), Tight(t), NEW L, NEW D, HeldIn(t, L, D),
         NEW size \in Sizes, NEW out, out = AllocateBlock(t, size),
         out.status = "SUCCESS",
         NEW q, q = PointerTo(out.table.blocks[out.index])
  PROVE  q \notin DOMAIN L
<1>1. out.status # Undefined
  BY DEF Undefined
<1>2. /\ Sound(out.table)
      /\ out.index \in UsedIndices(out.table)
      /\ out.index \notin UsedIndices(t)
      /\ UsedIndices(t) \subseteq UsedIndices(out.table)
      /\ \A i \in UsedIndices(t) : out.table.blocks[i] = t.blocks[i]
  BY <1>1, AllocateHeld, ZenonT(60)
<1> QED
  BY <1>2, FreshPointer

\* A block that was given back is not overwritten by the table that grows for
\* the block allocated in its stead.
LEMMA ReleasedClear ==
  ASSUME NEW t, Sound(t), NEW i \in UsedIndices(t),
         NEW u, Sound(u), Frees(t, i, u) \/ u = t,
         NEW m, ClearOf(u, m), m \in Nat, m <= BlockCount(u) + 1
  PROVE  InfoSize * m <= t.blocks[i].offset
<1>1. /\ i \in 1 .. BlockCount(t) - 1 /\ t.blocks[i].offset \in Nat
      /\ BlockCount(t) \in Nat
  BY UsedEntry DEF BlockCount, Sound, SoundFor, Typed
<1>2. CASE u = t
  BY <1>1, <1>2 DEF ClearOf
<1>3. CASE Frees(t, i, u) /\ BlockCount(u) # 1
  <2>1. PICK l \in 1 .. BlockCount(u) - 1 :
          u.blocks[l].offset = t.blocks[i].offset
    BY <1>3 DEF Frees, SamePlace
  <2> QED
    BY <2>1 DEF ClearOf
<1>4. CASE Frees(t, i, u) /\ BlockCount(u) = 1
  <2>1. BlockCount(t) >= 2
    BY <1>1, <1>4 DEF Frees
  <2>2. t.blocks[i].offset >= InfoSize * BlockCount(t)
    BY <1>1 DEF Sound, SoundFor, Placed, BlockCount
  <2>3. m <= BlockCount(t)
    BY <1>1, <1>4, <2>1
  <2>4. InfoSize * m <= InfoSize * BlockCount(t)
    <3>1. m * InfoSize <= BlockCount(t) * InfoSize
      BY <1>1, <2>3, TimesMonotone, TableAssumption
    <3> QED
      BY <1>1, <3>1, TableAssumption
  <2>5. InfoSize * m \in Nat /\ InfoSize * BlockCount(t) \in Nat
    BY <1>1, TableAssumption
  <2> QED
    BY <1>1, <2>2, <2>4, <2>5
<1> QED
  BY <1>2, <1>3, <1>4

LEMMA ReallocateShrinkKeepsHeld ==
  ASSUME HeldInv, NEW p \in Pointers, NEW size \in Sizes,
         ReallocateShrink(p, size), Defined'
  PROVE  /\ Held'
         /\ ret'.status = "SUCCESS" /\ p \in DOMAIN live
              => ContentsKept(p, ret'.result, ret'.bytes)
         /\ HandedOver(p, size)
<1>0. PICK i, freed, out, q :
        /\ i = Locate(this, p).index
        /\ freed = DeallocateBlock(this, i, Intact(p))
        /\ out = AllocateBlock(freed.table, size)
        /\ q = PointerTo(out.table.blocks[out.index])
  OBVIOUS
<1>1. /\ Sound(this) /\ Tight(this) /\ HeldIn(this, live, damaged)
      /\ p \in Nat /\ Locate(this, p).status = "SUCCESS" /\ Extra(p, size) < 0
      /\ CallersTyped
  BY CallerAssumption DEF HeldInv, Held, Inv, ReallocateShrink, Found
<1>2. i \in UsedIndices(this) /\ PointerTo(this.blocks[i]) = p
  BY <1>0, <1>1, LocateUsed
<1>3. /\ Sound(freed.table) /\ Tight(freed.table)
      /\ HeldIn(freed.table, Without(live, p), damaged)
      /\ freed.status # "SUCCESS" => freed.table = this
      /\ Frees(this, i, freed.table) \/ freed.table = this
      /\ freed.status = "SUCCESS" => p \notin damaged
  <2>1. Returned(this, i, p, damaged, freed)
    BY <1>0, <1>1, <1>2, DeallocateReturns
  <2>2. freed.status = "SUCCESS" => p \notin damaged
    BY <2>1 DEF Returned, Outcome
  <2> QED
    BY <1>1, <1>2, <2>1, <2>2, ReturnHeld
<1>4. this' = out.table
  BY <1>0 DEF ReallocateShrink
<1>5. out.status # Undefined
  <2>1. CASE out.status = "SUCCESS"
    BY <2>1 DEF Undefined
  <2>2. CASE out.status # "SUCCESS"
    <3>1. Reallocated(p, IF out.status = Undefined
                         THEN Undefined ELSE "CORRUPTED_POINTER", Null, 0)
      BY <1>0, <2>2 DEF ReallocateShrink
    <3> QED
      BY <3>1 DEF Reallocated, Answer, Defined
  <2> QED
    BY <2>1, <2>2
<1>6. /\ Sound(out.table) /\ Tight(out.table)
      /\ out.status # "SUCCESS" => out.table = freed.table
      /\ out.status = "SUCCESS" =>
           /\ HeldIn(out.table, With(Without(live, p), q, size), damaged \ {q})
           /\ ClearOf(freed.table, BlockCount(out.table))
           /\ BlockCount(out.table)
                \in {BlockCount(freed.table), BlockCount(freed.table) + 1}
           /\ q \notin DOMAIN Without(live, p)
  <2>1. PICK t, L : t = freed.table /\ L = Without(live, p)
    OBVIOUS
  <2>2. /\ Sound(t) /\ Tight(t) /\ HeldIn(t, L, damaged)
        /\ out = AllocateBlock(t, size)
        /\ q = PointerTo(out.table.blocks[out.index])
    BY <1>0, <1>3, <2>1
  <2>3. /\ Sound(out.table) /\ Tight(out.table)
        /\ out.status # "SUCCESS" => out.table = t
        /\ out.status = "SUCCESS" =>
             /\ HeldIn(out.table, With(L, q, size), damaged \ {q})
             /\ ClearOf(t, BlockCount(out.table))
             /\ BlockCount(out.table) \in {BlockCount(t), BlockCount(t) + 1}
    BY <1>5, <2>2, AllocateHeld
  <2>4. out.status = "SUCCESS" => q \notin DOMAIN L
    BY <1>5, <2>2, AllocateFresh
  <2> QED
    BY <2>1, <2>3, <2>4
<1>7. CASE out.status # "SUCCESS"
  <2>1. /\ live' = IF freed.status = "SUCCESS" THEN Without(live, p) ELSE live
        /\ damaged' = damaged
        /\ Reallocated(p, IF out.status = Undefined
                          THEN Undefined ELSE "CORRUPTED_POINTER", Null, 0)
    BY <1>0, <1>7 DEF ReallocateShrink
  <2>2. out.table = freed.table
    BY <1>6, <1>7
  <2>3. HeldIn(out.table, live', damaged)
    BY <1>1, <1>3, <2>1, <2>2
  <2>4. ret'.status # "SUCCESS"
    BY <1>5, <2>1 DEF Reallocated, Answer
  <2>5. HandedOver(p, size)
    BY <1>3, <2>1, <2>4 DEF HandedOver
  <2> QED
    BY <1>3, <1>4, <2>1, <2>2, <2>3, <2>4, <2>5 DEF Held
<1>8. CASE out.status = "SUCCESS"
  <2>1. /\ live' = With(Without(live, p), q, size) /\ damaged' = damaged \ {q}
        /\ Reallocated(p, "SUCCESS", q, size)
    BY <1>0, <1>8 DEF ReallocateShrink
  <2>2. /\ Tight(out.table)
        /\ HeldIn(out.table, With(Without(live, p), q, size), damaged \ {q})
        /\ ClearOf(freed.table, BlockCount(out.table))
        /\ BlockCount(out.table)
             \in {BlockCount(freed.table), BlockCount(freed.table) + 1}
        /\ Sound(out.table)
    BY <1>6, <1>8
  <2>3. Held'
    BY <1>4, <2>1, <2>2 DEF Held
  <2>4. ASSUME p \in DOMAIN live
        PROVE  ContentsKept(p, ret'.result, ret'.bytes)
    <3>1. ret'.result = q /\ ret'.bytes = size
      BY <2>1 DEF Reallocated, Answer
    <3>2. size >= Smaller(live[p], live'[q])
      <4>1. live'[q] = size
        BY <2>1 DEF With
      <4>2. live[p] \in Nat /\ size \in Nat
        BY <1>1, <2>4, RequestFits, CallerAssumption DEF CallersTyped
      <4> QED
        BY <4>1, <4>2 DEF Smaller
    <3>3. size <= UsableSize(OldSize(p))
      <4>1. OldSize(p) = this.blocks[i].size /\ this.blocks[i].size \in Nat
        BY <1>0, <1>1, <1>2, UsedEntry DEF OldSize
      <4> QED
        BY <1>1, <4>1, RequestFits DEF Extra, UsableSize
    <3>4. InfoSize * BlockCount(out.table) <= this.blocks[i].offset
      <4>1. /\ BlockCount(out.table) \in Nat
            /\ BlockCount(out.table) <= BlockCount(freed.table) + 1
        BY <1>3, <2>2 DEF Sound, SoundFor, Typed, BlockCount
      <4> QED
        BY <1>1, <1>2, <1>3, <2>2, <4>1, ReleasedClear
    <3>5. this.blocks[i].offset = p - UserOffset
      <4>1. /\ this.blocks[i].offset \in Nat
            /\ PointerTo(this.blocks[i]) = this.blocks[i].offset + UserOffset
        BY <1>1, <1>2, UsedEntry
      <4> QED
        BY <1>2, <4>1, LayoutAssumption DEF UserOffset
    <3> QED
      BY <1>4, <3>1, <3>2, <3>3, <3>4, <3>5 DEF ContentsKept
  <2>5. HandedOver(p, size)
    <3>1. ret'.status = "SUCCESS" /\ ret'.result = q
      BY <2>1 DEF Reallocated, Answer
    <3>2. q \notin DOMAIN Without(live, p)
      BY <1>6, <1>8
    <3> QED
      BY <2>1, <3>1, <3>2 DEF HandedOver
  <2> QED
    BY <2>3, <2>4, <2>5
<1> QED
  BY <1>7, <1>8

LEMMA WithWithout ==
  ASSUME NEW L, NEW p, NEW q, p # q, NEW size
  PROVE  Without(With(L, q, size), p) = With(Without(L, p), q, size)
<1>1. DOMAIN With(L, q, size) \ {p} = DOMAIN Without(L, p) \cup {q}
  BY DEF With, Without
<1>2. \A r \in DOMAIN Without(L, p) \cup {q} :
        With(L, q, size)[r] = IF r = q THEN size ELSE Without(L, p)[r]
  BY DEF With, Without
<1> QED
  BY <1>1, <1>2 DEF With, Without

LEMMA ReallocateMoveKeepsHeld ==
  ASSUME HeldInv, NEW p \in Pointers, NEW size \in Sizes,
         ReallocateMove(p, size), Defined'
  PROVE  /\ Held'
         /\ ret'.status = "SUCCESS" /\ p \in DOMAIN live
              => ContentsKept(p, ret'.result, ret'.bytes)
         /\ HandedOver(p, size)
<1>0. PICK i, out, t, q, freed :
        /\ i = Locate(this, p).index
        /\ out = AllocateBlock(this, size)
        /\ t = out.table
        /\ q = PointerTo(out.table.blocks[out.index])
        /\ freed = DeallocateBlock(out.table, i, Intact(p))
  OBVIOUS
<1>1. /\ Sound(this) /\ Tight(this) /\ HeldIn(this, live, damaged)
      /\ p \in Nat /\ Locate(this, p).status = "SUCCESS" /\ CallersTyped
  BY CallerAssumption DEF HeldInv, Held, Inv, ReallocateMove, Found
<1>2. i \in UsedIndices(this) /\ PointerTo(this.blocks[i]) = p
  BY <1>0, <1>1, LocateUsed
<1>3. CASE out.status # "SUCCESS"
  <2>1. /\ this' = out.table /\ live' = live /\ damaged' = damaged
        /\ Reallocated(p, out.status, Null, 0)
    BY <1>0, <1>3 DEF ReallocateMove
  <2>2. ret'.status = out.status /\ out.status # Undefined
    <3>1. ret'.status = out.status
      BY <2>1 DEF Reallocated, Answer
    <3> QED
      BY <3>1 DEF Defined
  <2>3. out.table = this
    BY <1>0, <1>1, <1>3, <2>2, AllocateHeld, ZenonT(40)
  <2>4. HandedOver(p, size)
    BY <1>3, <2>1, <2>2 DEF HandedOver
  <2> QED
    BY <1>1, <1>3, <2>1, <2>2, <2>3, <2>4 DEF Held
<1>4. CASE out.status = "SUCCESS"
  <2>1. /\ this' = freed.table
        /\ live' = With(Without(live, p), q, size) /\ damaged' = damaged \ {q}
        /\ Reallocated(p, "SUCCESS", q, CopiedBytes(p, size))
    BY <1>0, <1>4 DEF ReallocateMove
  <2>2. /\ Sound(t) /\ Tight(t)
        /\ HeldIn(t, With(live, q, size), damaged \ {q})
        /\ out.index \in UsedIndices(t) /\ out.index \notin UsedIndices(this)
        /\ UsedIndices(this) \subseteq UsedIndices(t)
        /\ \A j \in UsedIndices(this) : t.blocks[j] = this.blocks[j]
        /\ ClearOf(this, BlockCount(t))
    <3>1. out.status # Undefined
      BY <1>4 DEF Undefined
    <3> QED
      BY <1>0, <1>1, <1>4, <3>1, AllocateHeld
  \* The old block and the new one are two blocks of the table.
  <2>3. /\ i \in UsedIndices(t) /\ PointerTo(t.blocks[i]) = p
        /\ i # out.index
    BY <1>2, <2>2
  <2>4. p # q
    BY <1>0, <2>2, <2>3, PointersDiffer
  <2>5. Returned(t, i, p, damaged \ {q}, freed)
    <3>1. Returned(t, i, p, damaged, freed)
      BY <1>0, <2>2, <2>3, DeallocateReturns
    <3> QED
      BY <2>4, <3>1 DEF Returned
  <2>6. PICK L, D : L = With(live, q, size) /\ D = damaged \ {q}
    OBVIOUS
  <2>7. /\ Sound(freed.table) /\ Tight(freed.table)
        /\ HeldIn(freed.table, Without(L, p), D)
        /\ Frees(t, i, freed.table) \/ freed.table = t
    BY <2>2, <2>3, <2>5, <2>6, ReturnHeld
  <2>8. Held'
    BY <2>1, <2>4, <2>6, <2>7, WithWithout DEF Held
  <2>9. ASSUME p \in DOMAIN live
        PROVE  ContentsKept(p, ret'.result, ret'.bytes)
    <3>1. ret'.result = q /\ ret'.bytes = CopiedBytes(p, size)
      BY <2>1 DEF Reallocated, Answer
    <3>2. live'[q] = size
      BY <2>1 DEF With
    <3>3. /\ OldSize(p) = this.blocks[i].size /\ this.blocks[i].size \in Nat
          /\ live[p] \in Nat /\ size \in Nat
      BY <1>0, <1>1, <1>2, <2>9, UsedEntry, RequestFits, CallerAssumption
         DEF OldSize, CallersTyped
    <3>4. UsableSize(OldSize(p)) >= live[p]
      <4>1. PICK j \in UsedIndices(this) :
              /\ PointerTo(this.blocks[j]) = p
              /\ UsableSize(this.blocks[j].size) >= live[p]
        BY <1>1, <2>9 DEF HeldIn
      <4>2. j = i
        BY <1>1, <1>2, <4>1, PointersDiffer
      <4> QED
        BY <3>3, <4>1, <4>2
    <3>5. UsableSize(OldSize(p)) \in Int
      BY <3>3, RequestFits DEF UsableSize
    <3>6. /\ CopiedBytes(p, size) >= Smaller(live[p], size)
          /\ CopiedBytes(p, size) <= UsableSize(OldSize(p))
      BY <3>3, <3>4, <3>5 DEF CopiedBytes, Smaller
    <3>7. InfoSize * BlockCount(freed.table) <= this.blocks[i].offset
      <4>1. /\ i \in 1 .. BlockCount(this) - 1
            /\ this.blocks[i].offset \in Nat
        BY <1>1, <1>2, UsedEntry DEF BlockCount
      <4>2. this.blocks[i].offset >= InfoSize * BlockCount(t)
        BY <2>2, <4>1 DEF ClearOf
      <4>3. BlockCount(t) \in Nat
        BY <2>2 DEF Sound, SoundFor, Typed, BlockCount
      <4>4. CASE BlockCount(freed.table) = BlockCount(t)
        BY <4>1, <4>2, <4>3, <4>4, TableAssumption
      <4>5. CASE BlockCount(freed.table) = 1 /\ BlockCount(t) >= 2
        <5>1. 1 * InfoSize <= BlockCount(t) * InfoSize
          BY <4>3, <4>5, TimesMonotone, TableAssumption
        <5> QED
          BY <4>1, <4>2, <4>3, <4>5, <5>1, TableAssumption
      <4> QED
        BY <2>7, <4>4, <4>5 DEF Frees
    <3>8. this.blocks[i].offset = p - UserOffset
      <4>1. /\ this.blocks[i].offset \in Nat
            /\ PointerTo(this.blocks[i]) = this.blocks[i].offset + UserOffset
        BY <1>1, <1>2, UsedEntry
      <4> QED
        BY <1>2, <4>1, LayoutAssumption DEF UserOffset
    <3> QED
      BY <2>1, <3>1, <3>2, <3>6, <3>7, <3>8 DEF ContentsKept
  <2>10. HandedOver(p, size)
    <3>1. ret'.status = "SUCCESS" /\ ret'.result = q
      BY <2>1 DEF Reallocated, Answer
    <3>2. q \notin DOMAIN live
      BY <1>0, <1>1, <2>2, FreshPointer
    <3>3. q \notin DOMAIN Without(live, p)
      BY <3>2 DEF Without
    <3> QED
      BY <2>1, <3>1, <3>3 DEF HandedOver
  <2> QED
    BY <2>8, <2>9, <2>10
<1> QED
  BY <1>3, <1>4

LEMMA OverrunKeepsHeld ==
  ASSUME HeldInv, NEW p \in Pointers, Overrun(p)
  PROVE  Held'
<1>1. Tight(this) /\ HeldIn(this, live, damaged) /\ p \in DOMAIN live
  BY DEF HeldInv, Held, Overrun
<1>2. this' = this /\ live' = live /\ damaged' = damaged \cup {p}
  BY DEF Overrun
<1>3. HeldIn(this, live, damaged \cup {p})
  BY <1>1 DEF HeldIn
<1> QED
  BY <1>1, <1>2, <1>3 DEF Held

LEMMA NextHeld ==
  ASSUME HeldInv, [ServeNext]_vars
  PROVE  HeldInv'
<1>1. Inv'
  BY NextInv DEF HeldInv
<1> SUFFICES ASSUME Defined' PROVE Held'
  BY <1>1 DEF HeldInv
<1>2. CASE \E size \in Sizes : Allocate(size)
  BY <1>2, AllocateKeepsHeld
<1>3. ASSUME NEW p \in Pointers, Deallocate(p) PROVE Held'
  BY <1>3, DeallocateKeepsHeld
<1>4. ASSUME NEW p \in Pointers, RealBlockSize(p) \/ ReallocateReject(p)
      PROVE  Held'
  BY <1>4 DEF RealBlockSize, ReallocateReject, Unchanged, HeldInv, Held
<1>5. ASSUME NEW p \in Pointers, Overrun(p) PROVE Held'
  BY <1>5, OverrunKeepsHeld
<1>6. ASSUME NEW p \in Pointers, NEW size \in Sizes, Reallocate(p, size)
      PROVE  Held'
  BY <1>6, ReallocateSameKeepsHeld, ReallocateShrinkKeepsHeld,
     ReallocateInPlaceKeepsHeld, ReallocateMoveKeepsHeld DEF Reallocate
<1>7. CASE UNCHANGED vars
  BY <1>7 DEF vars, HeldInv, Held, Defined
<1> QED
  BY <1>2, <1>3, <1>4, <1>5, <1>6, <1>7 DEF ServeNext

LEMMA ServeHeld == ServeSpec => []HeldInv
<1>1. Init => HeldInv
  BY InitInv, InitHeld DEF HeldInv
<1>2. HeldInv /\ [ServeNext]_vars => HeldInv'
  BY NextHeld
<1> QED
  BY <1>1, <1>2, PTL DEF ServeSpec

\* Every allocation a caller holds has a used block, aligned, with room
\* between its guards for all that was asked for, and the table holds no used
\* block that nobody holds, but for those kept back for their overwritten
\* guards (allocate_block, deallocate_block, reallocate together).
THEOREM ServeHeldBlocks == ServeSpec => []HeldBlocks
BY ServeHeld, HeldInvImpliesHeldBlocks, PTL

\* What _fixed_size_allocator_validate asserts before and after every call
\* holds, whatever callers do: the entries are sorted by their state, the last
\* one is the free memory behind the table, no two blocks share a byte, and
\* the blocks cover the memory without a gap.
THEOREM ServeValidated == ServeSpec => []Validated
BY ServeHeld, HeldInvImpliesValidated, PTL

\* A block with overwritten guards is never handed out again, unless its caller
\* grows it in place: fixed_buffer_deallocate_block leaves it used, and no
\* other call frees it.
THEOREM ServeDamagedKeptBack == ServeSpec => []DamagedKeptBack
BY ServeHeld, HeldInvImpliesKeptBack, PTL

\* A step that moves a block is one of these two.
LEMMA MovesOnly ==
  ASSUME ServeNext, ret'.op = "reallocate",
         ret'.status = "SUCCESS", ret'.result # ret'.arg
  PROVE  \E p \in Pointers : \E size \in Sizes :
           /\ ret'.arg = p
           /\ ReallocateShrink(p, size) \/ ReallocateMove(p, size)
<1>1. \A op, arg, status, result, bytes :
        /\ Answer(op, arg, status, result, bytes).op = op
        /\ Answer(op, arg, status, result, bytes).arg = arg
        /\ Answer(op, arg, status, result, bytes).status = status
        /\ Answer(op, arg, status, result, bytes).result = result
  BY DEF Answer
<1>2. ~ \E size \in Sizes : Allocate(size)
  BY <1>1 DEF Allocate
<1>3. ASSUME NEW p \in Pointers
      PROVE  ~Deallocate(p) /\ ~RealBlockSize(p) /\ ~Overrun(p)
  BY <1>1 DEF Deallocate, RealBlockSize, Overrun, Unchanged
<1>4. ASSUME NEW p \in Pointers PROVE ~ReallocateReject(p)
  BY <1>1 DEF ReallocateReject, Unchanged
<1>5. ASSUME NEW p \in Pointers, NEW size \in Sizes
      PROVE  ~ReallocateSame(p, size) /\ ~ReallocateInPlace(p, size)
  BY <1>1 DEF ReallocateSame, ReallocateInPlace, Reallocated
<1>6. PICK p \in Pointers, size \in Sizes :
        ReallocateShrink(p, size) \/ ReallocateMove(p, size)
  BY <1>2, <1>3, <1>4, <1>5 DEF ServeNext, Reallocate, vars
<1>7. ret'.arg = p
  <2>1. \A status, q, bytes : Reallocated(p, status, q, bytes) => ret'.arg = p
    BY <1>1 DEF Reallocated
  <2>2. CASE ReallocateShrink(p, size)
    BY <2>1, <2>2 DEF ReallocateShrink
  <2>3. CASE ReallocateMove(p, size)
    BY <2>1, <2>3 DEF ReallocateMove
  <2> QED
    BY <1>6, <2>2, <2>3
<1> QED
  BY <1>6, <1>7

LEMMA NextKeepsContents ==
  ASSUME HeldInv, [ServeNext]_vars
  PROVE  [ /\ ret'.op = "reallocate" /\ ret'.status = "SUCCESS"
           /\ ret'.arg \in DOMAIN live /\ ret'.result # ret'.arg
           => /\ ret'.bytes >= Smaller(live[ret'.arg], live'[ret'.result])
              /\ ret'.bytes <= UsableSize(OldSize(ret'.arg))
              /\ InfoSize * BlockCount(this') <= ret'.arg - UserOffset ]_vars
<1> SUFFICES ASSUME ~UNCHANGED vars, ret'.op = "reallocate",
                    ret'.status = "SUCCESS", ret'.arg \in DOMAIN live,
                    ret'.result # ret'.arg
             PROVE  ContentsKept(ret'.arg, ret'.result, ret'.bytes)
  BY DEF ContentsKept
<1>1. Defined'
  BY DEF Defined, Undefined
<1> QED
  BY <1>1, MovesOnly, ReallocateShrinkKeepsHeld, ReallocateMoveKeepsHeld

\* A reallocation that moves a block copies all the caller wrote and still has
\* room for, no byte from behind the old block, and before the growing table
\* reaches the old block (cutl_allocator_fs_reallocate).
THEOREM ServeKeepsContents == ServeSpec => ReallocateKeepsContents
<1>1. ServeSpec => [][ServeNext]_vars
  BY DEF ServeSpec
<1>2. HeldInv /\ [ServeNext]_vars
        => [ /\ ret'.op = "reallocate" /\ ret'.status = "SUCCESS"
             /\ ret'.arg \in DOMAIN live /\ ret'.result # ret'.arg
             => /\ ret'.bytes >= Smaller(live[ret'.arg], live'[ret'.result])
                /\ ret'.bytes <= UsableSize(OldSize(ret'.arg))
                /\ InfoSize * BlockCount(this') <= ret'.arg - UserOffset ]_vars
  BY NextKeepsContents
<1> QED
  BY <1>1, <1>2, ServeHeld, PTL DEF ReallocateKeepsContents

-----------------------------------------------------------------------------
(***************************************************************************)
(* The contract of an allocator                                            *)
(***************************************************************************)

\* No two allocations share a byte, and each lies in the memory: the memory of
\* one is free for the callers that hold the others.
LEMMA HeldIsFree ==
  ASSUME NEW t, Sound(t), Tight(t), NEW L, NEW D, HeldIn(t, L, D),
         \A q \in DOMAIN L : L[q] \in Nat, NEW p \in DOMAIN L,
         NEW held, p \notin DOMAIN held, DOMAIN held \subseteq DOMAIN L,
         \A q \in DOMAIN held : held[q] = L[q]
  PROVE  Contract!IsFree(p, L[p], held)
<1>1. UserOffset \in Nat /\ GuardTotal = 2 * UserOffset
  BY LayoutAssumption DEF UserOffset, GuardTotal
<1>2. ASSUME NEW q \in DOMAIN L
      PROVE  \E i \in UsedIndices(t) : \E a, n, size \in Nat :
               /\ a = t.blocks[i].offset /\ n = t.blocks[i].size
               /\ size = L[q]
               /\ q = a + UserOffset /\ size + 2 * UserOffset <= n
               /\ a + n <= TotalSize
               /\ q % Alignment = 0
  <2>1. PICK i \in UsedIndices(t) :
          /\ PointerTo(t.blocks[i]) = q
          /\ UsableSize(t.blocks[i].size) >= L[q]
    BY <1>1, <1>2 DEF HeldIn
  <2>2. /\ i \in 1 .. Len(t.blocks)
        /\ t.blocks[i].offset \in Nat /\ t.blocks[i].size \in Nat
        /\ q = t.blocks[i].offset + UserOffset
    BY <1>1, <2>1, UsedEntry
  <2>3. EndOf(t.blocks[i]) <= TotalSize
    BY <1>1, <2>2 DEF Sound, SoundFor, Placed
  <2>4. L[q] \in Nat
    BY <1>2
  <2>5. q % Alignment = 0
    BY <1>1, <2>1, UsedAligned
  <2>6. PICK a \in Nat, n \in Nat, size \in Nat :
          /\ a = t.blocks[i].offset /\ n = t.blocks[i].size
          /\ size = L[q]
    BY <2>2, <2>4
  <2>7. n - 2 * UserOffset >= size
    BY <1>1, <2>1, <2>6 DEF UsableSize
  <2>8. size + 2 * UserOffset <= n
    BY <1>1, <2>7
  <2>9. a + n <= TotalSize
    BY <2>3, <2>6 DEF EndOf
  <2> QED
    BY <2>2, <2>5, <2>6, <2>8, <2>9
<1>3. PICK i \in UsedIndices(t), a \in Nat, n \in Nat, size \in Nat :
        /\ a = t.blocks[i].offset /\ n = t.blocks[i].size
        /\ size = L[p]
        /\ p = a + UserOffset /\ size + 2 * UserOffset <= n
        /\ a + n <= TotalSize
        /\ p % Alignment = 0
  BY <1>2
<1>4. ASSUME NEW q \in DOMAIN held
      PROVE  p + size <= q \/ q + held[q] <= p
  <2>1. PICK j \in UsedIndices(t), b \in Nat, m \in Nat, other \in Nat :
          /\ b = t.blocks[j].offset /\ m = t.blocks[j].size
          /\ other = L[q]
          /\ q = b + UserOffset /\ other + 2 * UserOffset <= m
    BY <1>2
  <2>2. i # j
    BY <1>3, <2>1
  <2>3. a + n <= b \/ b + m <= a
    <3>1. i \in 1 .. Len(t.blocks) /\ j \in 1 .. Len(t.blocks)
      BY <1>1, UsedEntry
    <3> QED
      BY <1>1, <1>3, <2>1, <2>2, <3>1 DEF Sound, SoundFor, Apart, EndOf
  <2>4. held[q] = other
    BY <2>1
  <2>5. p + size <= q \/ q + other <= p
    BY <1>1, <1>3, <2>1, <2>3
  <2> QED
    BY <2>4, <2>5
<1>5. p >= 0 /\ p + size <= TotalSize
  BY <1>1, <1>3, TableAssumption
<1> QED
  BY <1>3, <1>4, <1>5 DEF Contract!IsFree

\* An allocation added to what was held is what the contract grants.
LEMMA AddedIsGranted ==
  ASSUME Inv', Defined', Held', NEW q, q = ret'.result, NEW size,
         NEW held, q \notin DOMAIN held, NEW before,
         DOMAIN before \ {q} = DOMAIN held \ {q},
         \A r \in DOMAIN held : held[r] = before[r],
         live' = With(before, q, size)
  PROVE  Contract!Granted(held)
<1>0. /\ Sound(this') /\ Tight(this') /\ HeldIn(this', live', damaged')
      /\ \A r \in DOMAIN live' : live'[r] \in Nat
  BY CallerAssumption DEF Inv, Held, CallersTyped
<1>1. /\ DOMAIN live' = DOMAIN held \cup {q}
      /\ \A r \in DOMAIN held \ {q} : live'[r] = held[r]
  BY DEF With
<1>2. Contract!IsFree(q, live'[q], held)
  <2>1. /\ q \in DOMAIN live' /\ DOMAIN held \subseteq DOMAIN live'
        /\ \A r \in DOMAIN held : held[r] = live'[r]
    BY <1>1
  <2> QED
    BY <1>0, <2>1, HeldIsFree
<1> QED
  BY <1>1, <1>2 DEF Contract!Granted

\* A step that asks for memory and does not get it.
LEMMA RefusedIsAllowed ==
  ASSUME ret'.op \in {"allocate", "deallocate", "reallocate"},
         ret'.status # "SUCCESS", live' = live
  PROVE  Contract!Next
BY DEF Contract!Next, Contract!Allocate, Contract!Deallocate,
       Contract!Reallocate, Contract!Succeeded

LEMMA AllocateIsAllowed ==
  ASSUME HeldInv, Inv', Held', Defined', NEW size \in Sizes, Allocate(size)
  PROVE  Contract!Next
<1>0. PICK out, q : /\ out = AllocateBlock(this, size)
                    /\ q = PointerTo(out.table.blocks[out.index])
  OBVIOUS
<1>1. Sound(this) /\ Tight(this) /\ HeldIn(this, live, damaged)
  BY DEF HeldInv, Held, Inv, Allocate
<1>2. CASE out.status # "SUCCESS"
  <2>1. ret' = Answer("allocate", Null, out.status, Null, 0) /\ live' = live
    BY <1>0, <1>2 DEF Allocate
  <2>2. ret'.op = "allocate" /\ ret'.status = out.status
    BY <2>1 DEF Answer
  <2> QED
    BY <1>2, <2>1, <2>2, RefusedIsAllowed
<1>3. CASE out.status = "SUCCESS"
  <2>1. /\ live' = With(live, q, size)
        /\ ret' = Answer("allocate", Null, "SUCCESS", q, 0)
    BY <1>0, <1>3 DEF Allocate
  <2>2. /\ ret'.op = "allocate" /\ ret'.status = "SUCCESS"
        /\ ret'.result = q
    BY <2>1 DEF Answer
  <2>3. q \notin DOMAIN live
    <3>1. out.status # Undefined
      BY <1>3 DEF Undefined
    <3>2. /\ Sound(out.table)
          /\ out.index \in UsedIndices(out.table)
          /\ out.index \notin UsedIndices(this)
          /\ UsedIndices(this) \subseteq UsedIndices(out.table)
          /\ \A i \in UsedIndices(this) : out.table.blocks[i] = this.blocks[i]
          /\ HeldIn(out.table, With(live, q, size), damaged \ {q})
      BY <1>0, <1>1, <1>3, <3>1, AllocateHeld
    <3> QED
      BY <1>0, <1>1, <3>2, FreshPointer
  <2>4. Contract!Granted(live)
    BY <2>1, <2>2, <2>3, AddedIsGranted
  <2> QED
    BY <2>2, <2>4 DEF Contract!Next, Contract!Allocate, Contract!Succeeded
<1> QED
  BY <1>2, <1>3

LEMMA DeallocateIsAllowed ==
  ASSUME HeldInv, NEW p \in Pointers, Deallocate(p)
  PROVE  Contract!Next
<1>0. PICK at, out : /\ at = Locate(this, p)
                     /\ out = DeallocateBlock(this, at.index, Intact(p))
  OBVIOUS
<1>1. /\ Sound(this) /\ Tight(this) /\ HeldIn(this, live, damaged)
      /\ p \in Nat
  BY CallerAssumption DEF HeldInv, Held, Inv, Deallocate
<1>2. CASE at.status # "SUCCESS"
  <2>1. ret' = Answer("deallocate", p, at.status, Null, 0) /\ live' = live
    BY <1>0, <1>2 DEF Deallocate, Unchanged
  <2>2. ret'.op = "deallocate" /\ ret'.status = at.status
    BY <2>1 DEF Answer
  <2> QED
    BY <1>2, <2>1, <2>2, RefusedIsAllowed
<1>3. CASE at.status = "SUCCESS"
  <2>1. /\ ret' = Answer("deallocate", p, out.status, Null, 0)
        /\ live' = IF out.status = "SUCCESS" THEN Without(live, p) ELSE live
    BY <1>0, <1>3 DEF Deallocate
  <2>2. /\ ret'.op = "deallocate" /\ ret'.status = out.status
        /\ ret'.arg = p
    BY <2>1 DEF Answer
  <2>3. CASE out.status # "SUCCESS"
    BY <2>1, <2>2, <2>3, RefusedIsAllowed
  <2>4. CASE out.status = "SUCCESS"
    <3>1. /\ at.index \in UsedIndices(this)
          /\ PointerTo(this.blocks[at.index]) = p
      BY <1>0, <1>1, <1>3, LocateUsed
    <3>2. Returned(this, at.index, p, damaged, out)
      BY <1>0, <1>1, <3>1, DeallocateReturns
    <3>3. p \notin damaged
      BY <2>4, <3>2 DEF Returned, Outcome
    <3>4. p \in DOMAIN live
      BY <1>1, <3>1, <3>3 DEF HeldIn
    <3>5. live' = Contract!Without(live, p)
      BY <2>1, <2>4 DEF Without, Contract!Without
    <3> QED
      BY <2>2, <2>4, <3>4, <3>5
         DEF Contract!Next, Contract!Deallocate, Contract!Succeeded
  <2> QED
    BY <2>3, <2>4
<1> QED
  BY <1>2, <1>3

\* A reallocation that hands its caller other memory, or the same in place.
LEMMA ReallocateIsAllowed ==
  ASSUME HeldInv, Inv', Held', Defined',
         NEW p \in DOMAIN live \cup damaged, NEW size \in Sizes,
         ret'.op = "reallocate", ret'.arg = p,
         \/ HandedOver(p, size)
         \/ /\ ret'.status = "SUCCESS" /\ ret'.result = p
            /\ live' = With(live, p, size)
  PROVE  Contract!Next \/ ReallocatesKeptBack
<1>1. PICK q : q = ret'.result
  OBVIOUS
<1> DEFINE held == Contract!Without(live, p)
<1>2. /\ DOMAIN held = DOMAIN live \ {p}
      /\ \A r \in DOMAIN held : held[r] = live[r]
  BY DEF Contract!Without
<1>3. Without(live, p) = held
  BY DEF Without, Contract!Without
<1> HIDE DEF held
<1>4. CASE ret'.status # "SUCCESS"
  <2>1. \/ live' = live
        \/ p \notin damaged /\ live' = held
    BY <1>3, <1>4 DEF HandedOver
  <2> QED
    BY <1>4, <2>1 DEF held, ReallocatesKeptBack, Contract!Next,
       Contract!Reallocate, Contract!Succeeded
<1>5. CASE ret'.status = "SUCCESS"
  <2>1. /\ q \notin DOMAIN held
        /\ \/ live' = With(held, q, size)
           \/ live' = With(live, q, size) /\ q = p
    BY <1>1, <1>2, <1>3, <1>5 DEF HandedOver
  <2>2. CASE p \in DOMAIN live
    <3>1. Contract!Granted(held)
      <4>1. CASE live' = With(held, q, size)
        BY <1>1, <2>1, <4>1, AddedIsGranted
      <4>2. CASE live' = With(live, q, size) /\ q = p
        <5>1. DOMAIN live \ {q} = DOMAIN held \ {q}
          BY <1>2, <4>2
        <5> QED
          BY <1>1, <1>2, <2>1, <4>2, <5>1, AddedIsGranted
      <4> QED
        BY <2>1, <4>1, <4>2
    <3> QED
      BY <1>5, <2>2, <3>1 DEF held, Contract!Next, Contract!Reallocate,
         Contract!Succeeded
  <2>3. CASE p \notin DOMAIN live
    <3>1. DOMAIN held = DOMAIN live /\ q \notin DOMAIN live
      BY <1>2, <2>1, <2>3
    <3>2. Contract!Granted(live)
      <4>1. PICK before : /\ DOMAIN before \ {q} = DOMAIN live \ {q}
                          /\ \A r \in DOMAIN live : live[r] = before[r]
                          /\ live' = With(before, q, size)
        BY <1>2, <2>1, <3>1
      <4> QED
        BY <1>1, <3>1, <4>1, AddedIsGranted
    <3> QED
      BY <1>5, <2>3, <3>2 DEF ReallocatesKeptBack
  <2> QED
    BY <2>2, <2>3
<1> QED
  BY <1>4, <1>5

LEMMA NextIsAllowed ==
  ASSUME HeldInv, [ServeNext]_vars
  PROVE  [Contract!Next \/ ReallocatesKeptBack]_<< live, ret >>
<1>1. CASE UNCHANGED vars
  BY <1>1 DEF vars
<1>2. CASE ~Defined'
  BY <1>2 DEF Defined, Undefined, Contract!Next, Contract!Fails
<1> SUFFICES ASSUME ServeNext, Defined'
             PROVE  Contract!Next \/ ReallocatesKeptBack
  BY <1>1, <1>2
<1>3. Inv' /\ Held'
  BY NextHeld DEF HeldInv
<1>4. ASSUME NEW size \in Sizes, Allocate(size) PROVE Contract!Next
  BY <1>3, <1>4, AllocateIsAllowed
<1>5. ASSUME NEW p \in Pointers, Deallocate(p) PROVE Contract!Next
  BY <1>5, DeallocateIsAllowed
<1>6. ASSUME NEW p \in Pointers, RealBlockSize(p) \/ Overrun(p)
      PROVE  Contract!Next
  <2>1. live' = live /\ ret'.op \in {"real_block_size", "write"}
    BY <1>6 DEF RealBlockSize, Overrun, Unchanged, Answer
  <2> QED
    BY <2>1 DEF Contract!Next, Contract!Observe, Contract!ManyOps
<1>7. ASSUME NEW p \in Pointers, ReallocateReject(p) PROVE Contract!Next
  <2>1. /\ live' = live /\ ret'.op = "reallocate"
        /\ ret'.status = Locate(this, p).status /\ ret'.status # "SUCCESS"
    BY <1>7 DEF ReallocateReject, Unchanged, Answer
  <2> QED
    BY <2>1, RefusedIsAllowed
<1>8. ASSUME NEW p \in Pointers, NEW size \in Sizes, Reallocate(p, size)
      PROVE  Contract!Next \/ ReallocatesKeptBack
  <2>1. ret'.op = "reallocate" /\ ret'.arg = p
    <3>1. \E status, q, bytes : Reallocated(p, status, q, bytes)
      BY <1>8 DEF Reallocate, ReallocateSame, ReallocateShrink,
         ReallocateInPlace, ReallocateMove
    <3> QED
      BY <3>1 DEF Reallocated, Answer
  <2>2. p \in DOMAIN live \cup damaged
    <3>1. /\ Sound(this) /\ HeldIn(this, live, damaged) /\ p \in Nat
          /\ Locate(this, p).status = "SUCCESS"
      BY <1>8, CallerAssumption DEF HeldInv, Held, Inv, Found, Reallocate,
         ReallocateSame, ReallocateShrink, ReallocateInPlace, ReallocateMove
    <3>2. /\ Locate(this, p).index \in UsedIndices(this)
          /\ PointerTo(this.blocks[Locate(this, p).index]) = p
      BY <3>1, LocateUsed
    <3> QED
      BY <3>1, <3>2 DEF HeldIn
  <2>3. CASE ReallocateShrink(p, size) \/ ReallocateMove(p, size)
    <3>1. HandedOver(p, size)
      BY <2>3, ReallocateShrinkKeepsHeld, ReallocateMoveKeepsHeld
    <3> QED
      BY <1>3, <2>1, <2>2, <3>1, ReallocateIsAllowed
  <2>4. CASE ReallocateSame(p, size) \/ ReallocateInPlace(p, size)
    <3>1. /\ ret'.status = "SUCCESS" /\ ret'.result = p
          /\ live' = With(live, p, size)
      BY <2>4 DEF ReallocateSame, ReallocateInPlace, Reallocated, Answer
    <3> QED
      BY <1>3, <2>1, <2>2, <3>1, ReallocateIsAllowed
  <2> QED
    BY <1>8, <2>3, <2>4 DEF Reallocate
<1> QED
  BY <1>4, <1>5, <1>6, <1>7, <1>8 DEF ServeNext

\* The fixed-size allocator does what AllocatorContract promises: whatever the
\* calls before, what it hands out is aligned, lies in its memory behind the
\* table and apart from all that is held, and no call changes another's
\* allocation.  A block that was kept back for its guards can still be
\* reallocated, and its caller gets memory that no one holds.
THEOREM ServeKeepsContract == ServeSpec => KeepsContract
<1>1. Init => Contract!Init
  BY DEF Init, Contract!Init
<1>2. HeldInv /\ [ServeNext]_vars
        => [Contract!Next \/ ReallocatesKeptBack]_<< live, ret >>
  BY NextIsAllowed
<1>3. ServeSpec => Init /\ [][ServeNext]_vars
  BY DEF ServeSpec
<1> QED
  BY <1>1, <1>2, <1>3, ServeHeld, PTL DEF KeepsContract
=============================================================================
