--------------------------- MODULE BlockAllocator ---------------------------
(***************************************************************************)
(* The block allocator (block_allocator.c) and the code that uses it       *)
(* through cutl_allocator_t.                                               *)
(*                                                                         *)
(* memory[] holds one bit for each block, set while the block is used,     *)
(* padded to a multiple of the alignment, and then the blocks, all of one  *)
(* size.                                                                   *)
(*                                                                         *)
(*   | bits ... | block 0 | block 1 | ...                                  *)
(*                                                                         *)
(* Callers give back what they hold, pointers into it, or pointers that    *)
(* are no block of this allocator.  A block that is given back twice is    *)
(* only found by an assertion, which release builds do without.            *)
(***************************************************************************)
EXTENDS AllocatorLayout, FiniteSets

CONSTANTS
  MemorySize,    \* the bytes of memory[]
  Requested,     \* block_size, as it is passed to the create function
  GroupBits,     \* bits of a byte, 8 in the code
  Sizes          \* the sizes callers ask for

\* The memory was found large enough, see Creatable.
ASSUME BlockAssumption ==
  /\ MemorySize \in Nat
  /\ Requested \in Nat
  /\ GroupBits \in Nat \ {0}
  /\ GuardBytes % Alignment = 0
  /\ Requested + Alignment - 1 + GuardTotal < SizeLimit
  /\ RoundUp(Requested) + GuardTotal > 0
  /\ Sizes \subseteq Nat
  /\ \A size \in Sizes : size + Alignment - 1 + GuardTotal < SizeLimit

VARIABLES
  bits,      \* the bits that are set, counted from the start of memory[]
  live,      \* the allocations callers hold: pointer -> size asked for
  damaged,   \* pointers of allocations whose guards were overwritten
  ret        \* the last call, its result code, and the pointer it returned

vars == << bits, live, damaged, ret >>

Null == 0

Answer(op, arg, status, result) ==
  [op |-> op, arg |-> arg, status |-> status, result |-> result]

-----------------------------------------------------------------------------
(***************************************************************************)
(* The layout (cutl_allocator_block_create)                                *)
(***************************************************************************)

\* block_size, once the guards are added.
Block == BlockSize(Requested)

\* cutl_allocator_block_create refuses less memory than this.
Creatable == MemorySize >= 2 * Block

\* counter_bytes, for a number of blocks: they come in units of Alignment.
CounterBytes(blocks) ==
  LET unit == Alignment * GroupBits
  IN ((blocks + unit - 1) \div unit) * Alignment

\* Faulty: the bits are left out of account.
BlockCountBare == MemorySize \div Block

\* block_count: the bits are reckoned for the blocks that would fit without.
BlockCount ==
  (MemorySize - CounterBytes(MemorySize \div Block)) \div Block

\* block_offset
BlockOffset(i) == CounterBytes(BlockCount) + i * Block

PointerTo(i) == BlockOffset(i) + UserOffset

Init ==
  /\ Creatable
  /\ bits = {}
  /\ live = << >>
  /\ damaged = {}
  /\ ret = Answer("create", Null, "SUCCESS", Null)

-----------------------------------------------------------------------------

Without(allocs, p) == [q \in DOMAIN allocs \ {p} |-> allocs[q]]
With(allocs, p, size) ==
  [q \in DOMAIN allocs \cup {p} |-> IF q = p THEN size ELSE allocs[q]]

Fail(op, p, status) ==
  /\ ret' = Answer(op, p, status, Null)
  /\ UNCHANGED << bits, live, damaged >>

\* wrap_allocate and wrap_reallocate answer nullptr to these.
Refused(size) == size = 0 \/ BlockSize(size) > Block

\* The bits in the bytes that are searched: more than there are blocks, unless
\* these fill their last byte.
SearchedBits ==
  0 .. ((BlockCount + GroupBits - 1) \div GroupBits) * GroupBits - 1

\* Block i is the one that cutl_allocator_block_allocate settles on: the
\* lowest clear bit.
IsLowestClear(i) ==
  /\ i \in SearchedBits \ bits
  /\ \A j \in SearchedBits \ bits : i <= j

\* Faulty: a clear bit behind those of the blocks is taken for a block.
IsAvailableAnyBit(i) == IsLowestClear(i)

\* Faulty: the last block is never handed out.
IsAvailableButLast(i) == IsLowestClear(i) /\ i + 1 < BlockCount

IsAvailable(i) == IsLowestClear(i) /\ i < BlockCount

\* wrap_allocate
AllocateRefused(size) ==
  /\ Refused(size)
  /\ Fail("allocate", Null, "OUT_OF_MEMORY")

Allocate(size, i) ==
  /\ ~Refused(size)
  /\ IsAvailable(i)
  /\ bits' = bits \cup {i}
  /\ live' = With(live, PointerTo(i), size)
  /\ ret' = Answer("allocate", Null, "SUCCESS", PointerTo(i))
  /\ UNCHANGED damaged

AllocateOutOfMemory(size) ==
  /\ ~Refused(size)
  /\ ~\E i \in SearchedBits : IsAvailable(i)
  /\ Fail("allocate", Null, "OUT_OF_MEMORY")

-----------------------------------------------------------------------------

\* address_to_offset, and the test that follows its calls
Offset(p) == p - CounterBytes(BlockCount)
IsForeign(p) ==
  \/ Offset(p) < 0
  \/ Offset(p) >= BlockCount * Block
  \/ Offset(p) < UserOffset

\* The block a pointer lies in, and whether it is other than the block's own.
IndexOf(p) == (Offset(p) - UserOffset) \div Block
IsSkewed(p) == (Offset(p) - UserOffset) % Block # 0

\* allocator_check_guards finds something written over the guards of the block
\* that a pointer lies in.
GuardsLost(p) == PointerTo(IndexOf(p)) \in damaged

DeallocateForeign(p) ==
  /\ IsForeign(p)
  /\ Fail("deallocate", p, "MISMATCHED_ALLOCATOR")

DeallocateCorrupted(p) ==
  /\ ~IsForeign(p)
  /\ IsSkewed(p) \/ GuardsLost(p)
  /\ Fail("deallocate", p, "CORRUPTED_POINTER")

\* Faulty: the bit of the next block is cleared.
ClearedNext(i) == bits \ {i + 1}

Cleared(i) == bits \ {i}

\* cutl_allocator_block_deallocate
Deallocate(p) ==
  /\ ~IsForeign(p)
  /\ ~IsSkewed(p)
  /\ ~GuardsLost(p)
  /\ bits' = Cleared(IndexOf(p))
  /\ live' = Without(live, p)
  /\ ret' = Answer("deallocate", p, "SUCCESS", Null)
  /\ UNCHANGED damaged

\* wrap_reallocate, to a size that no block has.  A size of zero is a
\* deallocation.
ReallocateRefused(p, size) ==
  /\ size # 0 /\ Refused(size)
  /\ Fail("reallocate", p, "OUT_OF_MEMORY")

ReallocateForeign(p, size) ==
  /\ ~Refused(size)
  /\ IsForeign(p)
  /\ Fail("reallocate", p, "MISMATCHED_ALLOCATOR")

ReallocateCorrupted(p, size) ==
  /\ ~Refused(size)
  /\ ~IsForeign(p)
  /\ GuardsLost(p)
  /\ Fail("reallocate", p, "CORRUPTED_POINTER")

\* The block is large enough already, and stays where it is.  Unlike
\* cutl_allocator_block_deallocate, cutl_allocator_block_reallocate does not ask
\* whether the pointer is the block's own: one into a block is answered as well.
Reallocate(p, size) ==
  /\ ~Refused(size)
  /\ ~IsForeign(p)
  /\ ~GuardsLost(p)
  /\ live' = IF p \in DOMAIN live THEN With(live, p, size) ELSE live
  /\ ret' = Answer("reallocate", p, "SUCCESS", p)
  /\ UNCHANGED << bits, damaged >>

\* A caller writes past the end of its allocation, into the guard.
Overrun(p) ==
  /\ GuardBytes > 0
  /\ p \in DOMAIN live \ damaged
  /\ damaged' = damaged \cup {p}
  /\ ret' = Answer("write", p, "SUCCESS", Null)
  /\ UNCHANGED << bits, live >>

\* Pointers that are no block's: to the bits, and behind the last block.
Strangers == {0, CounterBytes(BlockCount) + BlockCount * Block}

\* Pointers into the memory of a block that is held.
Skewed == {p + Alignment : p \in {p \in DOMAIN live : live[p] > Alignment}}

Next ==
  \/ \E size \in Sizes : \/ AllocateRefused(size)
                         \/ AllocateOutOfMemory(size)
                         \/ \E i \in SearchedBits : Allocate(size, i)
  \/ \E p \in DOMAIN live \cup Strangers \cup Skewed :
       \/ DeallocateForeign(p)
       \/ DeallocateCorrupted(p)
       \/ Deallocate(p)
       \/ \E size \in Sizes : \/ ReallocateRefused(p, size)
                              \/ ReallocateForeign(p, size)
                              \/ ReallocateCorrupted(p, size)
                              \/ Reallocate(p, size)
       \/ Overrun(p)

Spec == Init /\ [][Next]_vars

-----------------------------------------------------------------------------
(***************************************************************************)
(* Properties                                                              *)
(***************************************************************************)

Statuses == {"SUCCESS", "OUT_OF_MEMORY", "MISMATCHED_ALLOCATOR",
             "CORRUPTED_POINTER"}

Operations == {"create", "allocate", "deallocate", "reallocate", "write"}

\* Every variable has its type; only bits of blocks are ever set, and guards
\* are only watched for allocations that callers hold.
TypeOK ==
  /\ bits \subseteq 0 .. BlockCount - 1
  /\ DOMAIN live \subseteq Nat
  /\ \A p \in DOMAIN live : live[p] \in Sizes
  /\ damaged \subseteq DOMAIN live
  /\ ret.op \in Operations /\ ret.status \in Statuses

\* The bits lie in front of the blocks, and the blocks in the memory, each with
\* an aligned start and an aligned pointer, apart from the next.
LayoutFits ==
  Creatable =>
    /\ BlockCount <= GroupBits * CounterBytes(BlockCount)
    /\ BlockOffset(BlockCount) <= MemorySize
    /\ \A i \in 0 .. BlockCount - 1 :
         /\ BlockOffset(i) % Alignment = 0 /\ PointerTo(i) % Alignment = 0
         /\ PointerTo(i) + UsableSize(Block) + GuardBytes <= BlockOffset(i + 1)

\* The bits that are set are those of the blocks callers hold, so that none is
\* handed out twice and none is lost, and each is as large as was asked for.
HeldBlocks ==
  /\ DOMAIN live = {PointerTo(i) : i \in bits}
  /\ \A p \in DOMAIN live : live[p] <= UsableSize(Block)

\* While callers hold fewer blocks than there are, the search for a clear bit
\* ends at one of a block: the bits behind those of the blocks hide none.
FreeIsFound ==
  Cardinality(DOMAIN live) < BlockCount
    => \E i \in SearchedBits : IsAvailable(i)

Contract == INSTANCE AllocatorContract

\* A pointer that is not a block's own is reallocated: the call hands it back,
\* and changes nothing.
AnswersSkewed ==
  /\ ret'.op = "reallocate" /\ ret'.result = ret'.arg
  /\ IsSkewed(ret'.arg)
  /\ UNCHANGED << bits, live, damaged >>

\* The block allocator does what every allocator promises, but that it lets a
\* pointer into the middle of a block be reallocated.
KeepsContract ==
  Contract!Init /\ [][Contract!Next \/ AnswersSkewed]_<< live, ret >>
=============================================================================
