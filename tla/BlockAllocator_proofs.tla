------------------------ MODULE BlockAllocator_proofs ------------------------
(***************************************************************************)
(* Proofs about BlockAllocator, for every size of memory and of blocks:    *)
(* the layout fits the memory, the bits are those of the blocks callers    *)
(* hold, and the allocator implements AllocatorContract.                   *)
(***************************************************************************)
EXTENDS BlockAllocator, AllocatorLayout_proofs, FiniteSetTheorems,
        WellFoundedInduction

-----------------------------------------------------------------------------
(***************************************************************************)
(* The layout                                                              *)
(***************************************************************************)

LEMMA GuardMultiple == UserOffset \in Nat /\ IsMultiple(UserOffset)
  BY LayoutAssumption, BlockAssumption, MultipleAligned DEF UserOffset

\* A block is a positive multiple of the alignment and holds its guards.
LEMMA BlockType ==
  /\ Block \in Nat \ {0}
  /\ IsMultiple(Block)
  /\ Block >= Alignment
  /\ Block = RoundUp(Requested) + GuardTotal
<1> USE LayoutAssumption, BlockAssumption
<1>1. GuardTotal \in Nat /\ GuardTotal = GuardBytes + GuardBytes
  BY DEF GuardTotal
<1>2. /\ RoundUp(Requested) \in Nat
      /\ RoundUp(Requested) <= Requested + Alignment - 1
  BY <1>1, RoundUpBounds
<1>3. Block = RoundUp(Requested) + GuardTotal
  <2>1. RoundUp(Requested) + GuardTotal < SizeLimit
    BY <1>1, <1>2
  <2> QED
    BY <1>1, <1>2, <2>1 DEF Block, BlockSize
<1>4. IsMultiple(RoundUp(Requested))
  <2>1. (Requested + Alignment - 1) % SizeLimit \in Nat
    OBVIOUS
  <2> QED
    BY <2>1, RoundDownMultiple DEF RoundUp
<1>5. IsMultiple(GuardTotal)
  BY <1>1, GuardMultiple, SumMultiple DEF UserOffset
<1>6. IsMultiple(Block)
  BY <1>3, <1>4, <1>5, SumMultiple
<1>7. Block \in Nat \ {0}
  BY <1>1, <1>2, <1>3
<1>8. Block >= Alignment
  <2>1. PICK k \in Nat : Block = k * Alignment
    BY <1>6 DEF IsMultiple
  <2>2. k >= 1
    BY <1>7, <2>1
  <2>3. 1 * Alignment <= k * Alignment
    BY <2>2, TimesMonotone
  <2> QED
    BY <2>1, <2>3
<1> QED
  BY <1>3, <1>6, <1>7, <1>8

\* The bytes of the bits: a multiple of the alignment, enough for a bit for
\* each block, no more than the alignment for each, and growing with them.
LEMMA CounterBytesType ==
  ASSUME NEW n \in Nat
  PROVE  /\ CounterBytes(n) \in Nat
         /\ IsMultiple(CounterBytes(n))
         /\ n <= GroupBits * CounterBytes(n)
         /\ CounterBytes(n) <= n * Alignment
<1> USE LayoutAssumption, BlockAssumption
<1> DEFINE u == Alignment * GroupBits
           a == n + u - 1
           q == a \div u
           r == a % u
<1>1. u \in Nat \ {0}
  OBVIOUS
<1>2. a \in Nat
  BY <1>1
<1>3. q \in Nat /\ r \in 0 .. u - 1 /\ a = q * u + r
  BY <1>1, <1>2, Division
<1>4. CounterBytes(n) = q * Alignment
  BY DEF CounterBytes
<1>5. q <= n
  <2>1. n * u \in Nat /\ n * 1 <= n * u
    BY <1>1
  <2>2. a < n * u + u
    BY <1>1, <2>1
  <2> QED
    BY <1>1, <1>2, <2>2, DivisionBelow
<1> HIDE DEF q, r
<1>6. n <= q * u
  <2>1. q * u \in Nat
    BY <1>1, <1>3
  <2> QED
    BY <1>1, <1>3, <2>1
<1>7. GroupBits * (q * Alignment) = q * u
  BY <1>3
<1>8. q * Alignment <= n * Alignment
  BY <1>3, <1>5, TimesMonotone
<1>9. q * Alignment \in Nat /\ IsMultiple(q * Alignment)
  BY <1>3 DEF IsMultiple
<1> QED
  BY <1>4, <1>6, <1>7, <1>8, <1>9

LEMMA CounterBytesMonotone ==
  ASSUME NEW m \in Nat, NEW n \in Nat, m <= n
  PROVE  CounterBytes(m) <= CounterBytes(n)
<1> USE LayoutAssumption, BlockAssumption
<1> DEFINE u == Alignment * GroupBits
<1>1. u \in Nat \ {0}
  OBVIOUS
<1>2. m + u - 1 \in Nat /\ n + u - 1 \in Nat /\ m + u - 1 <= n + u - 1
  BY <1>1
<1>3. (m + u - 1) \div u \in Nat /\ (n + u - 1) \div u \in Nat
  BY <1>1, <1>2, Division
<1>4. (m + u - 1) \div u <= (n + u - 1) \div u
  BY <1>1, <1>2, DivisionMonotone
<1>5. ((m + u - 1) \div u) * Alignment <= ((n + u - 1) \div u) * Alignment
  BY <1>3, <1>4, TimesMonotone
<1> QED
  BY <1>5 DEF CounterBytes

\* There is a bit for every block, in front of the blocks, and the last block
\* ends inside of the memory.
LEMMA BlocksFit ==
  ASSUME Creatable
  PROVE  /\ BlockCount \in Nat
         /\ BlockCount <= GroupBits * CounterBytes(BlockCount)
         /\ BlockOffset(BlockCount) <= MemorySize
<1> USE BlockAssumption
<1> DEFINE U == MemorySize \div Block
           C == CounterBytes(U)
           rest == MemorySize - C
<1>1. Block \in Nat \ {0} /\ Block >= Alignment /\ Alignment \in Nat
  BY BlockType, LayoutAssumption
<1>2. U \in Nat /\ MemorySize % Block \in Nat
      /\ MemorySize = U * Block + (MemorySize % Block)
  BY <1>1, Division
<1> HIDE DEF U
<1>3. C \in Nat /\ C <= U * Alignment
  BY <1>2, CounterBytesType
<1>4. U * Alignment <= U * Block
  <2>1. Alignment * U <= Block * U
    BY <1>1, <1>2, TimesMonotone
  <2> QED
    BY <1>1, <1>2, <2>1
<1>5. U * Block \in Nat /\ U * Alignment \in Nat
  BY <1>1, <1>2
<1>6. rest \in Nat /\ rest <= MemorySize
  BY <1>2, <1>3, <1>4, <1>5
<1>7. BlockCount = rest \div Block
  BY DEF BlockCount, U
<1> HIDE DEF C, rest
<1>8. BlockCount \in Nat /\ rest % Block \in Nat
      /\ rest = BlockCount * Block + (rest % Block)
  BY <1>1, <1>6, <1>7, Division
<1>9. BlockCount <= U
  BY <1>1, <1>6, <1>7, DivisionMonotone DEF U
<1>10. CounterBytes(BlockCount) <= C /\ CounterBytes(BlockCount) \in Nat
  BY <1>2, <1>8, <1>9, CounterBytesMonotone, CounterBytesType DEF C
<1>11. BlockCount * Block \in Nat
  BY <1>1, <1>8
<1>12. CounterBytes(BlockCount) + BlockCount * Block <= MemorySize
  BY <1>3, <1>8, <1>10, <1>11 DEF rest
<1> QED
  BY <1>8, <1>12, CounterBytesType DEF BlockOffset

-----------------------------------------------------------------------------
(***************************************************************************)
(* Blocks and pointers                                                     *)
(***************************************************************************)

LEMMA PointerType ==
  ASSUME NEW i \in Nat, BlockCount \in Nat
  PROVE  /\ PointerTo(i) \in Nat
         /\ PointerTo(i) % Alignment = 0
         /\ PointerTo(i) = CounterBytes(BlockCount) + i * Block + UserOffset
<1>1. Block \in Nat /\ CounterBytes(BlockCount) \in Nat /\ UserOffset \in Nat
  BY BlockType, CounterBytesType, GuardMultiple
<1>2. i * Block \in Nat
  BY <1>1
<1>3. PointerTo(i) = CounterBytes(BlockCount) + i * Block + UserOffset
  BY DEF PointerTo, BlockOffset
<1>4. PointerTo(i) \in Nat
  BY <1>1, <1>2, <1>3
<1>5. IsMultiple(i * Block)
  BY BlockType, ProductMultiple
<1>6. IsMultiple(CounterBytes(BlockCount) + i * Block)
  BY <1>5, CounterBytesType, SumMultiple
<1>7. IsMultiple(PointerTo(i))
  BY <1>3, <1>6, GuardMultiple, SumMultiple
<1> QED
  BY <1>3, <1>4, <1>7, MultipleAligned

\* cutl_allocator_block_create, for every block size that is not zero after it
\* was rounded and the guards were added: there is a bit for every block, in front
\* of the blocks, the last block ends inside of the memory, and each block starts
\* at an aligned offset, hands out an aligned pointer, and ends with its rear
\* guard where the next one starts.
THEOREM LayoutIsSound == LayoutFits /\ (Creatable => BlockCount \in Nat)
<1>1. ASSUME Creatable, NEW i \in 0 .. BlockCount - 1
      PROVE  /\ BlockOffset(i) % Alignment = 0 /\ PointerTo(i) % Alignment = 0
             /\ PointerTo(i) + UsableSize(Block) + GuardBytes
                  <= BlockOffset(i + 1)
  <2>1. BlockCount \in Nat /\ i \in Nat
    BY <1>1, BlocksFit
  <2>2. /\ Block \in Nat /\ IsMultiple(Block)
        /\ CounterBytes(BlockCount) \in Nat /\ GuardBytes \in Nat
    BY <2>1, BlockType, CounterBytesType, LayoutAssumption
  <2>3. i * Block \in Nat /\ (i + 1) * Block = i * Block + Block
    BY <2>1, <2>2
  <2>4. BlockOffset(i) \in Nat /\ IsMultiple(BlockOffset(i))
    <3>1. IsMultiple(i * Block) /\ IsMultiple(CounterBytes(BlockCount))
      BY <2>1, <2>2, CounterBytesType, ProductMultiple
    <3>2. IsMultiple(CounterBytes(BlockCount) + i * Block)
      BY <3>1, SumMultiple
    <3> QED
      BY <2>2, <2>3, <3>2 DEF BlockOffset
  <2>5. PICK first, before, one : /\ first = CounterBytes(BlockCount)
                                  /\ before = i * Block /\ one = Block
    OBVIOUS
  <2>6. /\ PointerTo(i) = first + before + GuardBytes
        /\ BlockOffset(i + 1) = first + (before + one)
        /\ UsableSize(Block) = one - (GuardBytes + GuardBytes)
    BY <2>2, <2>3, <2>5
       DEF PointerTo, BlockOffset, UserOffset, UsableSize, GuardTotal
  <2>7. PointerTo(i) + UsableSize(Block) + GuardBytes <= BlockOffset(i + 1)
    BY <2>2, <2>3, <2>5, <2>6
  <2> QED
    BY <2>1, <2>4, <2>7, PointerType, MultipleAligned
<1> QED
  BY <1>1, BlocksFit DEF LayoutFits

\* Two blocks share no byte.
LEMMA BlocksApart ==
  ASSUME NEW i \in Nat, NEW j \in Nat, i < j, BlockCount \in Nat
  PROVE  PointerTo(i) + Block <= PointerTo(j)
<1>1. Block \in Nat /\ CounterBytes(BlockCount) \in Nat /\ UserOffset \in Nat
  BY BlockType, CounterBytesType, GuardMultiple
<1>2. i * Block + Block <= j * Block /\ i * Block \in Nat /\ j * Block \in Nat
  BY <1>1, TimesBelow
<1>3. PointerTo(i) = CounterBytes(BlockCount) + i * Block + UserOffset
  BY PointerType
<1>4. PointerTo(j) = CounterBytes(BlockCount) + j * Block + UserOffset
  BY PointerType
<1> DEFINE first == CounterBytes(BlockCount)
           before == i * Block
           after == j * Block
           guard == UserOffset
           one == Block
<1> HIDE DEF first, before, after, guard, one
<1>5. first \in Nat /\ before \in Nat /\ after \in Nat /\ guard \in Nat
      /\ one \in Nat /\ before + one <= after
  BY <1>1, <1>2 DEF first, before, after, guard, one
<1>6. PointerTo(i) = first + before + guard
      /\ PointerTo(j) = first + after + guard
  BY <1>3, <1>4 DEF first, before, after, guard
<1>7. PointerTo(i) + one <= PointerTo(j)
  BY <1>5, <1>6
<1> QED
  BY <1>7 DEF one

\* What a caller may use of a block lies in the memory.
LEMMA BlockInside ==
  ASSUME Creatable, NEW i \in 0 .. BlockCount - 1, BlockCount \in Nat
  PROVE  PointerTo(i) + UsableSize(Block) <= MemorySize
<1>1. Block \in Nat /\ CounterBytes(BlockCount) \in Nat /\ UserOffset \in Nat
  BY BlockType, CounterBytesType, GuardMultiple
<1>2. i * Block + Block <= BlockCount * Block
  BY <1>1, TimesBelow
<1>3. i * Block \in Nat /\ BlockCount * Block \in Nat
  BY <1>1
<1>4. CounterBytes(BlockCount) + BlockCount * Block <= MemorySize
  BY BlocksFit DEF BlockOffset
<1>5. PointerTo(i) = CounterBytes(BlockCount) + i * Block + UserOffset
  BY PointerType
<1>6. UsableSize(Block) = Block - (UserOffset + UserOffset)
  BY <1>1 DEF UsableSize, UserOffset, GuardTotal
<1> QED
  BY <1>1, <1>2, <1>3, <1>4, <1>5, <1>6, BlockAssumption

\* The index computed from the pointer of a block is the block's.
LEMMA IndexOfPointer ==
  ASSUME NEW i \in Nat, BlockCount \in Nat
  PROVE  IndexOf(PointerTo(i)) = i
<1>1. /\ Block \in Nat \ {0} /\ CounterBytes(BlockCount) \in Nat
      /\ UserOffset \in Nat
  BY BlockType, CounterBytesType, GuardMultiple
<1>2. i * Block \in Nat
  BY <1>1
<1>3. Offset(PointerTo(i)) - UserOffset = i * Block + 0
  BY <1>1, <1>2, PointerType DEF Offset
<1>4. (i * Block + 0) \div Block = i
  BY <1>1, DivisionUnique
<1> QED
  BY <1>3, <1>4 DEF IndexOf

\* The addresses that are no block's are recognized.
LEMMA StrangersForeign ==
  ASSUME NEW p \in Strangers, BlockCount \in Nat
  PROVE  IsForeign(p)
<1>1. Block \in Nat \ {0} /\ CounterBytes(BlockCount) \in Nat
  BY BlockType, CounterBytesType
<1>2. BlockCount * Block \in Nat
  BY <1>1
<1>3. CASE p = CounterBytes(BlockCount) + BlockCount * Block
  BY <1>1, <1>2, <1>3 DEF IsForeign, Offset
<1>4. CASE p = 0
  <2>1. CASE BlockCount = 0
    <3>1. BlockCount * Block = 0
      BY <1>1, <2>1
    <3> QED
      BY <1>1, <1>4, <3>1 DEF IsForeign, Offset
  <2>2. CASE BlockCount # 0
    <3>1. BlockCount <= GroupBits * CounterBytes(BlockCount)
      BY CounterBytesType
    <3>2. CounterBytes(BlockCount) # 0
      <4>1. SUFFICES ASSUME CounterBytes(BlockCount) = 0 PROVE FALSE
        OBVIOUS
      <4>2. GroupBits * CounterBytes(BlockCount) = 0
        BY <4>1, BlockAssumption
      <4> QED
        BY <2>2, <3>1, <4>2
    <3> QED
      BY <1>1, <1>4, <3>2 DEF IsForeign, Offset
  <2> QED
    BY <2>1, <2>2
<1> QED
  BY <1>3, <1>4 DEF Strangers

\* A request that is not refused fits into a block.
LEMMA RequestFits ==
  ASSUME NEW size \in Sizes, ~Refused(size)
  PROVE  size \in Nat /\ size <= UsableSize(Block)
<1>1. size \in Nat /\ size + Alignment - 1 + GuardTotal < SizeLimit
  BY BlockAssumption
<1>2. BlockSize(size) \in Nat /\ BlockSize(size) >= size + GuardTotal
  BY <1>1, BlockHoldsRequest
<1>3. BlockSize(size) <= Block
  BY <1>2, BlockType DEF Refused
<1>4. GuardTotal \in Nat
  BY LayoutAssumption DEF GuardTotal
<1> QED
  BY <1>1, <1>2, <1>3, <1>4, BlockType DEF UsableSize

-----------------------------------------------------------------------------
(***************************************************************************)
(* The invariant                                                           *)
(***************************************************************************)

Inv == Creatable /\ TypeOK /\ HeldBlocks

LEMMA InvInit == Init => Inv
  BY DEF Init, Inv, TypeOK, HeldBlocks, Answer, Operations, Statuses

\* The facts about the state that every step starts from.
LEMMA InvFacts ==
  ASSUME Inv
  PROVE  /\ BlockCount \in Nat
         /\ bits \subseteq 0 .. BlockCount - 1
         /\ DOMAIN live \subseteq Nat
         /\ \A p \in DOMAIN live : live[p] \in Sizes
         /\ damaged \subseteq DOMAIN live
         /\ DOMAIN live = {PointerTo(i) : i \in bits}
         /\ \A p \in DOMAIN live : live[p] <= UsableSize(Block)
  BY BlocksFit DEF Inv, TypeOK, HeldBlocks

\* A call that fails keeps the invariant.
LEMMA FailInv ==
  ASSUME Inv, NEW op \in Operations, NEW p, NEW status \in Statuses,
         Fail(op, p, status)
  PROVE  Inv'
  BY DEF Inv, TypeOK, HeldBlocks, Fail, Answer, Creatable

LEMMA AllocateInv ==
  ASSUME Inv, NEW size \in Sizes, NEW i \in SearchedBits, Allocate(size, i)
  PROVE  Inv'
<1> DEFINE p == PointerTo(i)
<1>1. i \in 0 .. BlockCount - 1
  BY InvFacts DEF Allocate, IsAvailable, IsLowestClear, SearchedBits
<1>2. size \in Nat /\ size <= UsableSize(Block)
  BY RequestFits DEF Allocate
<1>3. p \in Nat
  BY <1>1, InvFacts, PointerType
<1>4. bits' = bits \cup {i} /\ live' = With(live, p, size)
      /\ damaged' = damaged /\ ret' = Answer("allocate", Null, "SUCCESS", p)
  BY DEF Allocate
<1>5. DOMAIN live' = DOMAIN live \cup {p}
      /\ \A q \in DOMAIN live' : live'[q] = IF q = p THEN size ELSE live[q]
  BY <1>4 DEF With
<1>6. TypeOK'
  BY <1>1, <1>3, <1>4, <1>5, InvFacts DEF TypeOK, Answer, Operations, Statuses
<1>7. HeldBlocks'
  <2>1. DOMAIN live' = {PointerTo(j) : j \in bits'}
    BY <1>4, <1>5, InvFacts
  <2>2. \A q \in DOMAIN live' : live'[q] <= UsableSize(Block)
    BY <1>2, <1>5, InvFacts
  <2> QED
    BY <2>1, <2>2 DEF HeldBlocks
<1> QED
  BY <1>6, <1>7 DEF Inv, Creatable

\* The pointer of a held block is the one of a bit that is set.
LEMMA HeldIndex ==
  ASSUME Inv, NEW p \in DOMAIN live
  PROVE  /\ IndexOf(p) \in bits
         /\ PointerTo(IndexOf(p)) = p
         /\ \A j \in bits : PointerTo(j) = p => j = IndexOf(p)
<1>1. PICK i \in bits : p = PointerTo(i)
  BY InvFacts
<1>2. i \in Nat
  BY InvFacts
<1>3. IndexOf(p) = i
  BY <1>1, <1>2, InvFacts, IndexOfPointer
<1>4. \A j \in bits : PointerTo(j) = p => j = IndexOf(p)
  <2>1. SUFFICES ASSUME NEW j \in bits, PointerTo(j) = p PROVE j = IndexOf(p)
    OBVIOUS
  <2>2. j \in Nat
    BY InvFacts
  <2> QED
    BY <2>1, <2>2, InvFacts, IndexOfPointer
<1> QED
  BY <1>1, <1>3, <1>4

LEMMA DeallocateInv ==
  ASSUME Inv, NEW p \in DOMAIN live, Deallocate(p)
  PROVE  Inv'
<1> DEFINE i == IndexOf(p)
<1>1. bits' = bits \ {i} /\ live' = Without(live, p)
      /\ damaged' = damaged /\ p \notin damaged
      /\ ret' = Answer("deallocate", p, "SUCCESS", Null)
  BY HeldIndex DEF Deallocate, Cleared, GuardsLost
<1>2. DOMAIN live' = DOMAIN live \ {p}
      /\ \A q \in DOMAIN live' : live'[q] = live[q]
  BY <1>1 DEF Without
<1>3. TypeOK'
  BY <1>1, <1>2, InvFacts DEF TypeOK, Answer, Operations, Statuses
<1>4. DOMAIN live' = {PointerTo(j) : j \in bits'}
  BY <1>1, <1>2, InvFacts, HeldIndex
<1>5. HeldBlocks'
  BY <1>2, <1>4, InvFacts DEF HeldBlocks
<1> QED
  BY <1>3, <1>5 DEF Inv, Creatable

LEMMA ReallocateInv ==
  ASSUME Inv, NEW p \in DOMAIN live, NEW size \in Sizes, Reallocate(p, size)
  PROVE  Inv'
<1>1. size \in Nat /\ size <= UsableSize(Block)
  BY RequestFits DEF Reallocate
<1>2. bits' = bits /\ damaged' = damaged /\ live' = With(live, p, size)
      /\ ret' = Answer("reallocate", p, "SUCCESS", p)
  BY DEF Reallocate
<1>3. DOMAIN live' = DOMAIN live
      /\ \A q \in DOMAIN live' : live'[q] = IF q = p THEN size ELSE live[q]
  BY <1>2 DEF With
<1>4. TypeOK'
  BY <1>2, <1>3, InvFacts DEF TypeOK, Answer, Operations, Statuses
<1>5. HeldBlocks'
  BY <1>1, <1>2, <1>3, InvFacts DEF HeldBlocks
<1> QED
  BY <1>4, <1>5 DEF Inv, Creatable

\* A pointer into a block is answered, and nothing else happens.
LEMMA ReallocateOther ==
  ASSUME NEW p, p \notin DOMAIN live, NEW size, Reallocate(p, size)
  PROVE  /\ UNCHANGED << bits, live, damaged >>
         /\ ret' = Answer("reallocate", p, "SUCCESS", p)
  BY DEF Reallocate

LEMMA OverrunInv ==
  ASSUME Inv, NEW p, Overrun(p)
  PROVE  Inv'
  BY DEF Overrun, Inv, TypeOK, HeldBlocks, Answer, Operations, Statuses,
     Creatable

\* Pointers into a block that is held are told from the block's own.
LEMMA SkewedFound ==
  ASSUME Inv, NEW p \in Skewed
  PROVE  IsSkewed(p)
<1>1. PICK q \in DOMAIN live : p = q + Alignment /\ live[q] > Alignment
  BY DEF Skewed
<1>2. PICK i \in bits : q = PointerTo(i)
  BY InvFacts
<1>3. i \in Nat /\ BlockCount \in Nat
  BY InvFacts
<1>4. /\ Block \in Nat \ {0} /\ CounterBytes(BlockCount) \in Nat
      /\ UserOffset \in Nat /\ GuardTotal \in Nat /\ Alignment \in Nat \ {0}
  BY <1>3, BlockType, CounterBytesType, GuardMultiple, LayoutAssumption
     DEF GuardTotal
<1>5. Alignment < Block
  <2>1. live[q] \in Nat /\ live[q] <= UsableSize(Block)
    BY InvFacts, BlockAssumption
  <2> QED
    BY <1>1, <1>4, <2>1 DEF UsableSize
<1>6. i * Block \in Nat
  BY <1>3, <1>4
<1>7. Offset(p) - UserOffset = i * Block + Alignment
  BY <1>1, <1>2, <1>3, <1>4, <1>6, PointerType DEF Offset
<1>8. (i * Block + Alignment) % Block = Alignment
  BY <1>3, <1>4, <1>5, DivisionUnique
<1> QED
  BY <1>4, <1>7, <1>8 DEF IsSkewed

\* What Next is about: a pointer that was not refused as foreign is held, or
\* points into what is.
LEMMA NotForeignHeld ==
  ASSUME Inv, NEW p \in DOMAIN live \cup Strangers \cup Skewed, ~IsForeign(p),
         p \notin DOMAIN live
  PROVE  IsSkewed(p)
  BY StrangersForeign, SkewedFound, InvFacts

LEMMA InvNext == Inv /\ [Next]_vars => Inv'
<1> SUFFICES ASSUME Inv, [Next]_vars PROVE Inv'
  OBVIOUS
<1>1. CASE UNCHANGED vars
  BY <1>1 DEF vars, Inv, TypeOK, HeldBlocks, Creatable
<1>2. ASSUME NEW size \in Sizes,
             AllocateRefused(size) \/ AllocateOutOfMemory(size)
      PROVE Inv'
  BY <1>2, FailInv DEF AllocateRefused, AllocateOutOfMemory, Operations,
     Statuses
<1>3. ASSUME NEW size \in Sizes, NEW i \in SearchedBits, Allocate(size, i)
      PROVE Inv'
  BY <1>3, AllocateInv
<1>4. ASSUME NEW p, DeallocateForeign(p) \/ DeallocateCorrupted(p)
      PROVE Inv'
  BY <1>4, FailInv DEF DeallocateForeign, DeallocateCorrupted, Operations,
     Statuses
<1>5. ASSUME NEW p \in DOMAIN live \cup Strangers \cup Skewed,
             Deallocate(p)
      PROVE Inv'
  <2>1. p \in DOMAIN live
    BY <1>5, NotForeignHeld DEF Deallocate
  <2> QED
    BY <1>5, <2>1, DeallocateInv
<1>6. ASSUME NEW p, NEW size \in Sizes,
             \/ ReallocateRefused(p, size) \/ ReallocateForeign(p, size)
             \/ ReallocateCorrupted(p, size)
      PROVE Inv'
  BY <1>6, FailInv DEF ReallocateRefused, ReallocateForeign,
       ReallocateCorrupted, Operations, Statuses
<1>7. ASSUME NEW p \in DOMAIN live \cup Strangers \cup Skewed,
             NEW size \in Sizes, Reallocate(p, size)
      PROVE Inv'
  <2>1. CASE p \in DOMAIN live
    BY <1>7, <2>1, ReallocateInv
  <2>2. CASE p \notin DOMAIN live
    <3>1. /\ UNCHANGED << bits, live, damaged >>
          /\ ret' = Answer("reallocate", p, "SUCCESS", p)
      BY <1>7, <2>2, ReallocateOther
    <3> QED
      BY <3>1 DEF Inv, TypeOK, HeldBlocks, Creatable, Answer, Operations,
         Statuses
  <2> QED
    BY <2>1, <2>2
<1>8. ASSUME NEW p, Overrun(p) PROVE Inv'
  BY <1>8, OverrunInv
<1> QED
  BY <1>1, <1>2, <1>3, <1>4, <1>5, <1>6, <1>7, <1>8 DEF Next

\* Every variable keeps its type, and no bit but a block's is ever set.
THEOREM BlockTypeOK == Spec => []TypeOK
<1>1. Inv => TypeOK
  BY DEF Inv
<1> QED
  BY <1>1, InvInit, InvNext, PTL DEF Spec

\* The bits are those of the blocks callers hold: whatever the sequence of
\* calls, none is handed out twice and none is lost.
THEOREM BlockHeldBlocks == Spec => []HeldBlocks
<1>1. Inv => HeldBlocks
  BY DEF Inv
<1> QED
  BY <1>1, InvInit, InvNext, PTL DEF Spec

-----------------------------------------------------------------------------
(***************************************************************************)
(* A free block is found                                                   *)
(***************************************************************************)

LEMMA LowestOf ==
  ASSUME NEW T \in SUBSET Nat, T # {}
  PROVE  \E x \in T : \A y \in T : x <= y
<1> DEFINE R == OpToRel(<, Nat)
<1>1. \A x, y \in Nat : y < x => << y, x >> \in R
  BY DEF OpToRel
<1>2. IsWellFoundedOn(R, Nat)
  BY NatLessThanWellFounded
<1> HIDE DEF R
<1>3. PICK x \in T : \A y \in T : ~(<< y, x >> \in R)
  BY <1>2, WFMin
<1>4. ASSUME NEW y \in T PROVE x <= y
  <2>1. x \in Nat /\ y \in Nat /\ ~(<< y, x >> \in R)
    BY <1>3
  <2>2. ~(y < x)
    BY <1>1, <2>1
  <2> QED
    BY <2>1, <2>2
<1> QED
  BY <1>4

\* The bits that are searched are at least those of the blocks.
LEMMA SearchCoversBlocks ==
  ASSUME BlockCount \in Nat
  PROVE  0 .. BlockCount - 1 \subseteq SearchedBits
<1> DEFINE a == BlockCount + GroupBits - 1
           q == a \div GroupBits
           r == a % GroupBits
<1>1. GroupBits \in Nat \ {0} /\ a \in Nat
  BY BlockAssumption
<1>2. q \in Nat /\ r \in 0 .. GroupBits - 1 /\ a = q * GroupBits + r
  BY <1>1, Division
<1> HIDE DEF q, r
<1>3. q * GroupBits \in Nat
  BY <1>1, <1>2
<1>4. q * GroupBits >= BlockCount
  BY <1>1, <1>2, <1>3
<1>5. SearchedBits = 0 .. q * GroupBits - 1
  BY DEF SearchedBits, q
<1> QED
  BY <1>3, <1>4, <1>5

\* Callers hold as many blocks as there are bits set.
LEMMA HeldCount ==
  ASSUME Inv
  PROVE  IsFiniteSet(bits) /\ Cardinality(bits) = Cardinality(DOMAIN live)
<1> DEFINE f == [i \in bits |-> PointerTo(i)]
<1>1. BlockCount \in Nat /\ bits \subseteq 0 .. BlockCount - 1
  BY InvFacts
<1>2. IsFiniteSet(bits)
  <2>1. IsFiniteSet(0 .. BlockCount - 1)
    BY <1>1, FS_Interval
  <2> QED
    BY <1>1, <2>1, FS_Subset
<1>3. DOMAIN live = {PointerTo(i) : i \in bits}
  BY DEF Inv, HeldBlocks
<1>4. f \in Surjection(bits, DOMAIN live)
  BY <1>3 DEF Surjection
<1>5. f \in Injection(bits, DOMAIN live)
  <2>1. ASSUME NEW i \in bits, NEW j \in bits, i < j
        PROVE  PointerTo(i) # PointerTo(j)
    <3>1. i \in Nat /\ j \in Nat
      BY <1>1
    <3>2. /\ PointerTo(i) \in Nat /\ PointerTo(j) \in Nat
          /\ PointerTo(i) + Block <= PointerTo(j)
          /\ Block \in Nat \ {0}
      BY <1>1, <2>1, <3>1, BlocksApart, PointerType, BlockType
    <3> QED
      BY <3>2
  <2>2. \A i, j \in bits : PointerTo(i) = PointerTo(j) => i = j
    <3>1. \A i \in bits : i \in Nat
      BY <1>1
    <3>2. \A i, j \in bits : i < j \/ i = j \/ j < i
      BY <3>1
    <3> QED
      BY <2>1, <3>2
  <2> QED
    BY <1>3, <2>2 DEF Injection, IsInjective
<1> HIDE DEF f
<1>6. Cardinality(DOMAIN live) = Cardinality(bits)
  BY <1>2, <1>4, <1>5, FS_Surjection
<1> QED
  BY <1>2, <1>6

\* The search for a clear bit ends at that of a block while there is a free
\* one: the spare bits behind those of the blocks do not get in its way.
THEOREM BlockFreeIsFound == Spec => []FreeIsFound
<1>1. ASSUME Inv PROVE FreeIsFound
  <2>1. SUFFICES ASSUME Cardinality(DOMAIN live) < BlockCount
                 PROVE  \E i \in SearchedBits : IsAvailable(i)
    BY DEF FreeIsFound
  <2>2. BlockCount \in Nat /\ bits \subseteq 0 .. BlockCount - 1
    BY <1>1, InvFacts
  <2>3. Cardinality(0 .. BlockCount - 1) = BlockCount
    BY <2>2, FS_Interval
  <2>4. bits # 0 .. BlockCount - 1
    BY <1>1, <2>1, <2>2, <2>3, HeldCount
  <2>5. PICK k \in 0 .. BlockCount - 1 : k \notin bits
    BY <2>2, <2>4
  <2> DEFINE clear == SearchedBits \ bits
  <2>6. 0 .. BlockCount - 1 \subseteq SearchedBits
    BY <2>2, SearchCoversBlocks
  <2>7. clear \in SUBSET Nat /\ k \in clear
    BY <2>5, <2>6 DEF SearchedBits
  <2>8. PICK i \in clear : \A j \in clear : i <= j
    BY <2>7, LowestOf
  <2>9. i <= k /\ i \in Nat
    BY <2>7, <2>8
  <2>10. IsAvailable(i)
    BY <2>2, <2>8, <2>9 DEF IsAvailable, IsLowestClear
  <2> QED
    BY <2>8, <2>10
<1> QED
  BY <1>1, InvInit, InvNext, PTL DEF Spec

-----------------------------------------------------------------------------
(***************************************************************************)
(* The contract is kept                                                    *)
(***************************************************************************)

\* A call that fails is one that the contract allows to fail.
LEMMA FailKeepsContract ==
  ASSUME NEW op \in {"allocate", "deallocate", "reallocate"}, NEW p,
         NEW status \in Statuses \ {"SUCCESS"}, Fail(op, p, status)
  PROVE  Contract!Next
<1>1. live' = live /\ ret'.op = op /\ ret'.status = status
  BY DEF Fail, Answer
<1>2. ~Contract!Succeeded
  BY <1>1 DEF Contract!Succeeded
<1> QED
  BY <1>1, <1>2 DEF Contract!Next, Contract!Allocate, Contract!Deallocate,
     Contract!Reallocate

\* The memory of a block is free for callers that hold other blocks only.
LEMMA BlockIsFree ==
  ASSUME Inv, NEW i \in 0 .. BlockCount - 1, NEW size \in Nat,
         size <= UsableSize(Block), NEW held, DOMAIN held \subseteq DOMAIN live,
         PointerTo(i) \notin DOMAIN held,
         \A q \in DOMAIN held : held[q] = live[q]
  PROVE  Contract!IsFree(PointerTo(i), size, held)
<1> DEFINE p == PointerTo(i)
<1>1. i \in Nat /\ BlockCount \in Nat /\ Creatable
  BY InvFacts DEF Inv
<1>2. p \in Nat /\ p % Alignment = 0
  BY <1>1, PointerType
<1>3. UsableSize(Block) \in Int /\ Block \in Nat /\ UsableSize(Block) <= Block
  <2>1. Block \in Nat /\ GuardTotal \in Nat
    BY BlockType, LayoutAssumption DEF GuardTotal
  <2> QED
    BY <2>1 DEF UsableSize
<1>4. p + UsableSize(Block) <= MemorySize
  BY <1>1, BlockInside
<1>5. p + size <= MemorySize
  BY <1>2, <1>3, <1>4, BlockAssumption
<1>6. ASSUME NEW q \in DOMAIN held
      PROVE  p + size <= q \/ q + held[q] <= p
  <2>1. PICK j \in bits : q = PointerTo(j)
    BY <1>6, InvFacts
  <2>2. j \in Nat /\ j # i
    BY <1>6, <2>1, InvFacts
  <2>3. live[q] \in Nat /\ live[q] <= UsableSize(Block) /\ held[q] = live[q]
    BY <1>6, InvFacts, BlockAssumption
  <2>4. q \in Nat
    BY <1>1, <2>1, <2>2, PointerType
  <2>5. CASE i < j
    <3>1. p + Block <= q
      BY <1>1, <2>1, <2>2, <2>5, BlocksApart
    <3> HIDE DEF p
    <3> QED
      BY <1>2, <1>3, <2>4, <3>1
  <2>6. CASE j < i
    <3>1. q + Block <= p
      BY <1>1, <2>1, <2>2, <2>6, BlocksApart
    <3> HIDE DEF p
    <3> QED
      BY <1>2, <1>3, <2>3, <2>4, <3>1
  <2> QED
    BY <1>1, <2>2, <2>5, <2>6
<1> QED
  BY <1>2, <1>5, <1>6 DEF Contract!IsFree

LEMMA AllocateKeepsContract ==
  ASSUME Inv, NEW size \in Sizes, NEW i \in SearchedBits, Allocate(size, i)
  PROVE  Contract!Next
<1> DEFINE p == PointerTo(i)
<1>1. i \in 0 .. BlockCount - 1 /\ i \notin bits
  BY InvFacts DEF Allocate, IsAvailable, IsLowestClear, SearchedBits
<1>2. size \in Nat /\ size <= UsableSize(Block)
  BY RequestFits DEF Allocate
<1>3. p \notin DOMAIN live
  <2>1. SUFFICES ASSUME p \in DOMAIN live PROVE FALSE
    OBVIOUS
  <2>2. PICK j \in bits : p = PointerTo(j)
    BY <2>1, InvFacts
  <2>3. i \in Nat /\ j \in Nat /\ BlockCount \in Nat
    BY <1>1, InvFacts
  <2> QED
    BY <1>1, <2>2, <2>3, IndexOfPointer
<1>4. live' = With(live, p, size) /\ ret'.op = "allocate" /\ ret'.result = p
      /\ ret'.status = "SUCCESS"
  BY DEF Allocate, Answer
<1>5. DOMAIN live' = DOMAIN live \cup {p} /\ live'[p] = size
      /\ \A q \in DOMAIN live \ {p} : live'[q] = live[q]
  BY <1>4 DEF With
<1>6. Contract!IsFree(p, size, live)
  BY <1>1, <1>2, <1>3, BlockIsFree
<1>7. Contract!Granted(live)
  BY <1>4, <1>5, <1>6 DEF Contract!Granted
<1> QED
  BY <1>4, <1>7 DEF Contract!Next, Contract!Allocate, Contract!Succeeded

LEMMA ReallocateKeepsContract ==
  ASSUME Inv, NEW p \in DOMAIN live, NEW size \in Sizes, Reallocate(p, size)
  PROVE  Contract!Next
<1> DEFINE held == Contract!Without(live, p)
<1>1. size \in Nat /\ size <= UsableSize(Block)
  BY RequestFits DEF Reallocate
<1>2. live' = With(live, p, size) /\ ret'.op = "reallocate" /\ ret'.result = p
      /\ ret'.status = "SUCCESS" /\ ret'.arg = p
  BY DEF Reallocate, Answer
<1>3. DOMAIN live' = DOMAIN live /\ live'[p] = size
      /\ \A q \in DOMAIN live \ {p} : live'[q] = live[q]
  BY <1>2 DEF With
<1>4. DOMAIN held = DOMAIN live \ {p}
      /\ \A q \in DOMAIN held : held[q] = live[q]
  BY DEF Contract!Without
<1>5. PICK i \in bits : p = PointerTo(i)
  BY InvFacts
<1>6. i \in 0 .. BlockCount - 1
  BY InvFacts
<1>7. Contract!IsFree(p, size, held)
  <2> HIDE DEF held
  <2> QED
    BY <1>1, <1>4, <1>5, <1>6, BlockIsFree
<1>8. Contract!Granted(held)
  <2> HIDE DEF held
  <2> QED
    BY <1>2, <1>3, <1>4, <1>7 DEF Contract!Granted
<1> QED
  BY <1>2, <1>8 DEF Contract!Next, Contract!Reallocate, Contract!Succeeded

LEMMA NextKeepsContract ==
  ASSUME Inv, [Next]_vars
  PROVE  [Contract!Next \/ AnswersSkewed]_<< live, ret >>
<1>1. CASE UNCHANGED vars
  BY <1>1 DEF vars
<1>2. ASSUME NEW size \in Sizes,
             AllocateRefused(size) \/ AllocateOutOfMemory(size)
      PROVE Contract!Next
  BY <1>2, FailKeepsContract DEF AllocateRefused, AllocateOutOfMemory, Statuses
<1>3. ASSUME NEW size \in Sizes, NEW i \in SearchedBits, Allocate(size, i)
      PROVE Contract!Next
  BY <1>3, AllocateKeepsContract
<1>4. ASSUME NEW p, DeallocateForeign(p) \/ DeallocateCorrupted(p)
      PROVE Contract!Next
  BY <1>4, FailKeepsContract DEF DeallocateForeign, DeallocateCorrupted,
     Statuses
<1>5. ASSUME NEW p \in DOMAIN live \cup Strangers \cup Skewed,
             Deallocate(p)
      PROVE Contract!Next
  <2>1. p \in DOMAIN live
    BY <1>5, NotForeignHeld DEF Deallocate
  <2>2. live' = Contract!Without(live, p) /\ ret'.op = "deallocate"
        /\ ret'.status = "SUCCESS" /\ ret'.arg = p
    BY <1>5 DEF Deallocate, Answer, Without, Contract!Without
  <2> QED
    BY <2>1, <2>2 DEF Contract!Next, Contract!Deallocate, Contract!Succeeded
<1>6. ASSUME NEW p, NEW size \in Sizes,
             \/ ReallocateRefused(p, size) \/ ReallocateForeign(p, size)
             \/ ReallocateCorrupted(p, size)
      PROVE Contract!Next
  BY <1>6, FailKeepsContract DEF ReallocateRefused, ReallocateForeign,
     ReallocateCorrupted, Statuses
<1>7. ASSUME NEW p \in DOMAIN live \cup Strangers \cup Skewed,
             NEW size \in Sizes, Reallocate(p, size)
      PROVE Contract!Next \/ AnswersSkewed
  <2>1. CASE p \in DOMAIN live
    BY <1>7, <2>1, ReallocateKeepsContract
  <2>2. CASE p \notin DOMAIN live
    <3>1. IsSkewed(p)
      BY <1>7, <2>2, NotForeignHeld DEF Reallocate
    <3>2. /\ UNCHANGED << bits, live, damaged >>
          /\ ret'.op = "reallocate" /\ ret'.arg = p /\ ret'.result = p
      BY <1>7, <2>2, ReallocateOther DEF Answer
    <3> QED
      BY <3>1, <3>2 DEF AnswersSkewed
  <2> QED
    BY <2>1, <2>2
<1>8. ASSUME NEW p, Overrun(p) PROVE Contract!Next
  <2>1. live' = live /\ ret'.op = "write"
    BY <1>8 DEF Overrun, Answer
  <2> QED
    BY <2>1 DEF Contract!Next, Contract!Observe, Contract!ManyOps
<1> QED
  BY <1>1, <1>2, <1>3, <1>4, <1>5, <1>6, <1>7, <1>8 DEF Next

\* The block allocator does what AllocatorContract promises: whatever the
\* sequence of calls, what it hands out is aligned, inside its memory and apart
\* from all that is held, and no call disturbs another's allocation.  The one
\* exception is a pointer into the middle of a block: reallocate hands it back as
\* if it were the block's, and changes nothing.
THEOREM BlockKeepsContract == Spec => KeepsContract
<1>1. Init => Contract!Init
  BY DEF Init, Contract!Init
<1>2. Inv /\ [Next]_vars => [Contract!Next \/ AnswersSkewed]_<< live, ret >>
  BY NextKeepsContract
<1> QED
  BY <1>1, <1>2, InvInit, InvNext, PTL DEF Spec, KeepsContract
=============================================================================
