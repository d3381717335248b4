------------------------- MODULE FixedSizeAllocator -------------------------
(***************************************************************************)
(* The fixed-size allocator (fixed_size_allocator.c) and the code that     *)
(* uses it: any sequence of calls of its interface, with pointers that     *)
(* were handed out, that were given back, or that never were a pointer of  *)
(* this allocator.                                                         *)
(*                                                                         *)
(* A call is one step: the allocator has no lock and is used by one thread *)
(* at a time.  CUTL_ASSERT is compiled out, as in a release build.  A call *)
(* that runs into undefined behaviour is the last of a behaviour.          *)
(***************************************************************************)
EXTENDS FixedSizeTable, FiniteSets

CONSTANTS
  Sizes,      \* the sizes callers ask for
  Pointers    \* the pointers callers pass, relative to memory[]

\* cutl_alloc and cutl_realloc turn a size of zero into other calls, and no
\* caller asks for so much that rounding the size up wraps around.
ASSUME CallerAssumption ==
  /\ Sizes \subseteq Nat \ {0}
  /\ Pointers \subseteq Nat
  /\ \A size \in Sizes : size + Alignment - 1 + GuardTotal < SizeLimit

VARIABLES
  this,      \* the table, see FixedSizeTable
  live,      \* the allocations callers hold: pointer -> size asked for
  damaged,   \* the blocks whose guards were overwritten, by their pointer
  ret        \* the last call: its name and pointer, its result code, the
             \* pointer it returned, the bytes it copied or reported

vars == << this, live, damaged, ret >>

Null == 0

Answer(op, arg, status, result, bytes) ==
  [op |-> op, arg |-> arg, status |-> status, result |-> result,
   bytes |-> bytes]

Init ==
  /\ this = EmptyTable
  /\ live = << >>
  /\ damaged = {}
  /\ ret = Answer("create", Null, "SUCCESS", Null, 0)

-----------------------------------------------------------------------------

Defined == ret.status # Undefined

\* The pointer make_block_guarded returns for a block.
PointerTo(block) == block.offset + UserOffset

Intact(p) == p \notin damaged

With(allocs, p, size) ==
  [q \in DOMAIN allocs \cup {p} |-> IF q = p THEN size ELSE allocs[q]]

Without(allocs, p) == [q \in DOMAIN allocs \ {p} |-> allocs[q]]

Smaller(a, b) == IF a < b THEN a ELSE b

\* A call that changed nothing but may have failed.
Unchanged(answer) == ret' = answer /\ UNCHANGED << this, live, damaged >>

\* cutl_allocator_fs_allocate
Allocate(size) ==
  LET out == AllocateBlock(this, size)
      q   == PointerTo(out.table.blocks[out.index])
  IN /\ Defined
     /\ this' = out.table
     /\ IF out.status = "SUCCESS"
        THEN /\ live' = With(live, q, size)
             /\ damaged' = damaged \ {q}
             /\ ret' = Answer("allocate", Null, "SUCCESS", q, 0)
        ELSE /\ ret' = Answer("allocate", Null, out.status, Null, 0)
             /\ UNCHANGED << live, damaged >>

\* cutl_allocator_fs_deallocate
Deallocate(p) ==
  LET at  == Locate(this, p)
      out == DeallocateBlock(this, at.index, Intact(p))
  IN /\ Defined
     /\ IF at.status # "SUCCESS"
        THEN Unchanged(Answer("deallocate", p, at.status, Null, 0))
        ELSE /\ this' = out.table
             /\ live' = IF out.status = "SUCCESS" THEN Without(live, p)
                                                  ELSE live
             /\ ret' = Answer("deallocate", p, out.status, Null, 0)
             /\ UNCHANGED damaged

\* cutl_allocator_fs_real_block_size
RealBlockSize(p) ==
  LET at == Locate(this, p)
  IN /\ Defined
     /\ Unchanged(Answer("real_block_size", p, at.status, Null,
                    IF at.status = "SUCCESS"
                    THEN UsableSize(this.blocks[at.index].size) ELSE 0))

-----------------------------------------------------------------------------
(***************************************************************************)
(* cutl_allocator_fs_reallocate, one action per way through it             *)
(***************************************************************************)

\* The size of the block p belongs to, and the size the call needs.
OldSize(p) == this.blocks[Locate(this, p).index].size
Extra(p, size) == BlockSize(size) - OldSize(p)

Found(p) == Defined /\ Locate(this, p).status = "SUCCESS"

Reallocated(p, status, q, bytes) ==
  ret' = Answer("reallocate", p, status, q, bytes)

ReallocateReject(p) ==
  /\ Defined
  /\ Locate(this, p).status # "SUCCESS"
  /\ Unchanged(Answer("reallocate", p, Locate(this, p).status, Null, 0))

ReallocateSame(p, size) ==
  /\ Found(p)
  /\ Extra(p, size) = 0
  /\ live' = With(live, p, size)
  /\ Reallocated(p, "SUCCESS", p, 0)
  /\ UNCHANGED << this, damaged >>

\* A smaller block: the old one is released, whether or not its guards allow
\* it, a new one allocated, and the contents moved.
ReallocateShrink(p, size) ==
  LET freed == DeallocateBlock(this, Locate(this, p).index, Intact(p))
      out   == AllocateBlock(freed.table, size)
      q     == PointerTo(out.table.blocks[out.index])
  IN /\ Found(p)
     /\ Extra(p, size) < 0
     /\ this' = out.table
     /\ IF out.status = "SUCCESS"
        THEN /\ live' = With(Without(live, p), q, size)
             /\ damaged' = damaged \ {q}
             /\ Reallocated(p, "SUCCESS", q, size)
        ELSE /\ live' = IF freed.status = "SUCCESS" THEN Without(live, p)
                                                    ELSE live
             /\ Reallocated(p, IF out.status = Undefined
                               THEN Undefined ELSE "CORRUPTED_POINTER",
                            Null, 0)
             /\ UNCHANGED damaged

\* A larger block, with enough free memory right behind the old one.  Both
\* guards are written anew, whatever was found in their place.
ReallocateInPlace(p, size) ==
  LET i == Locate(this, p).index
  IN /\ Found(p)
     /\ Extra(p, size) > 0
     /\ CanSteal(this, i, Extra(p, size))
     /\ this' = Steal(this, i, Extra(p, size))
     /\ live' = With(live, p, size)
     /\ damaged' = damaged \ {p}
     /\ Reallocated(p, "SUCCESS", p, 0)

\* Faulty: as many bytes as the new block is asked for.
CopyRequested(p, size) == size

\* What memcpy is told to copy: the new block is the larger one.
CopiedBytes(p, size) == Smaller(size, UsableSize(OldSize(p)))

\* A larger block somewhere else: a new one is allocated, the contents
\* copied, and the old one released, unless its guards forbid it.
ReallocateMove(p, size) ==
  LET i     == Locate(this, p).index
      out   == AllocateBlock(this, size)
      q     == PointerTo(out.table.blocks[out.index])
      freed == DeallocateBlock(out.table, i, Intact(p))
  IN /\ Found(p)
     /\ Extra(p, size) > 0
     /\ ~CanSteal(this, i, Extra(p, size))
     /\ IF out.status = "SUCCESS"
        THEN /\ this' = freed.table
             /\ live' = With(Without(live, p), q, size)
             /\ damaged' = damaged \ {q}
             /\ Reallocated(p, "SUCCESS", q, CopiedBytes(p, size))
        ELSE /\ this' = out.table
             /\ Reallocated(p, out.status, Null, 0)
             /\ UNCHANGED << live, damaged >>

Reallocate(p, size) ==
  \/ ReallocateSame(p, size)
  \/ ReallocateShrink(p, size)
  \/ ReallocateInPlace(p, size)
  \/ ReallocateMove(p, size)

-----------------------------------------------------------------------------

\* A caller writes past the end of its allocation, into the guard.
Overrun(p) ==
  /\ Defined
  /\ GuardBytes > 0
  /\ p \in DOMAIN live
  /\ Intact(p)
  /\ damaged' = damaged \cup {p}
  /\ ret' = Answer("write", p, "SUCCESS", Null, 0)
  /\ UNCHANGED << this, live >>

\* cutl_allocator_fs_defragment, called by the user of the allocator
Defragment ==
  /\ Defined
  /\ ret' = Answer("defragment", Null,
                   IF this.free_blocks = 0 THEN Undefined ELSE "SUCCESS",
                   Null, 0)
  /\ this' = IF this.free_blocks = 0 THEN this ELSE Defragmented(this)
  /\ UNCHANGED << live, damaged >>

\* The cutl_allocator_t interface, and callers that overrun their blocks.
ServeNext ==
  \/ \E size \in Sizes : Allocate(size)
  \/ \E p \in Pointers : \/ Deallocate(p)
                         \/ RealBlockSize(p)
                         \/ ReallocateReject(p)
                         \/ Overrun(p)
                         \/ \E size \in Sizes : Reallocate(p, size)

Next == ServeNext \/ Defragment

\* Callers that know the allocator by its cutl_allocator_t alone.
ServeSpec == Init /\ [][ServeNext]_vars

\* Callers that also force it to defragment.
Spec == Init /\ [][Next]_vars

-----------------------------------------------------------------------------
(***************************************************************************)
(* Properties                                                              *)
(***************************************************************************)

Contract == INSTANCE AllocatorContract WITH MemorySize <- TotalSize

Blocks == this.blocks
Indices == 1 .. BlockCount(this)

Statuses == {"SUCCESS", "OUT_OF_MEMORY", "INSUFFICIENT_BUFFER",
             "MISMATCHED_ALLOCATOR", "CORRUPTED_POINTER",
             "DOUBLE_DEALLOCATION", Undefined}

Operations == {"create", "allocate", "deallocate", "reallocate",
               "real_block_size", "write", "defragment"}

\* Every variable has its type: offsets and sizes never wrap below zero, the
\* table always keeps its last, free block.
TypeOK ==
  /\ this.blocks \in Seq([offset : Nat, size : Nat, state : {"FREE", "USED"}])
  /\ this.free_blocks \in 1 .. BlockCount(this)
  /\ DOMAIN live \subseteq Nat
  /\ \A p \in DOMAIN live : live[p] \in Sizes
  /\ damaged \subseteq Nat
  /\ ret \in [op : Operations, arg : Nat, status : Statuses,
              result : Nat, bytes : Int]

\* The used blocks stand before the free ones in the table, as the array of
\* free blocks is found by counting.
UsedBeforeFree ==
  \A i \in Indices :
    Blocks[i].state = IF i \in UsedIndices(this) THEN "USED" ELSE "FREE"

\* The first free block starts right behind the table, at the table's end.
FirstBlockLast == Blocks[BlockCount(this)].offset = InfoSize * BlockCount(this)

\* Blocks lie between the table and the end of the memory, and no two of
\* them share a byte.
BlocksApart ==
  /\ \A i \in Indices : /\ Blocks[i].offset >= InfoSize * BlockCount(this)
                        /\ EndOf(Blocks[i]) <= TotalSize
  /\ \A i, j \in Indices :
       i # j => \/ EndOf(Blocks[i]) <= Blocks[j].offset
                \/ EndOf(Blocks[j]) <= Blocks[i].offset

\* No memory is lost: a block ends where the memory does or where exactly
\* one other block begins.
NoGaps ==
  \A i \in Indices :
    \/ EndOf(Blocks[i]) = TotalSize
    \/ Cardinality({j \in Indices : /\ Blocks[j].offset = EndOf(Blocks[i])
                                    /\ Blocks[j].size > 0}) = 1

\* What _fixed_size_allocator_validate checks before and after every call of
\* the interface.
Validated ==
  Defined => UsedBeforeFree /\ FirstBlockLast /\ BlocksApart /\ NoGaps

\* The used block of a pointer.
Serves(i, p) == i \in UsedIndices(this) /\ PointerTo(Blocks[i]) = p

\* Every allocation a caller holds has a used block that is large enough for
\* what was asked for, aligned and guarded, and every used block is held by a
\* caller, or is one whose guards were overwritten and that was kept back.
HeldBlocks ==
  Defined =>
    /\ \A p \in DOMAIN live :
         /\ p % Alignment = 0
         /\ \E i \in Indices : /\ Serves(i, p)
                               /\ UsableSize(Blocks[i].size) >= live[p]
    /\ \A i \in UsedIndices(this) :
         PointerTo(Blocks[i]) \in DOMAIN live \cup damaged

\* When nothing is allocated the allocator is as it was when created: no
\* history of calls leaves fragments or table entries behind.
StartsOver == Defined /\ UsedCount(this) = 0 => this = EmptyTable

\* A block whose guards were overwritten is not given out again: it stays a
\* used block, until a caller that still holds it grows it in place.
DamagedKeptBack ==
  Defined => \A p \in damaged : \E i \in Indices : Serves(i, p)

\* A reallocation that moves a block copies all the caller wrote and still
\* has room for, reads no byte behind the old block, and finds the old block
\* not yet overwritten by the growing table.
ReallocateKeepsContents ==
  [][ /\ ret'.op = "reallocate" /\ ret'.status = "SUCCESS"
      /\ ret'.arg \in DOMAIN live /\ ret'.result # ret'.arg
      => /\ ret'.bytes >= Smaller(live[ret'.arg], live'[ret'.result])
         /\ ret'.bytes <= UsableSize(OldSize(ret'.arg))
         /\ InfoSize * BlockCount(this') <= ret'.arg - UserOffset ]_vars

\* A caller reallocates a pointer that an earlier reallocation replaced but
\* whose block was kept back for its guards: the block is still used, so the
\* call is served, with memory that no one holds, as an allocation would.
ReallocatesKeptBack ==
  /\ ret'.op = "reallocate"
  /\ ret'.arg \in damaged \ DOMAIN live
  /\ IF ret'.status = "SUCCESS" THEN Contract!Granted(live)
                                ELSE UNCHANGED live

\* Whatever the calls before, a call does what AllocatorContract allows: what
\* it hands out lies apart from all that is held, and it changes no
\* allocation but its own.  The exception is a block that was kept back.
KeepsContract ==
  /\ Contract!Init
  /\ [][Contract!Next \/ ReallocatesKeptBack]_<< live, ret >>

\* fixed_size_allocator.h: when no free block is large enough the allocation
\* is considered failed.  No sequence of calls may run into undefined
\* behaviour instead.
AlwaysDefined == Defined

\* A reallocation that fails leaves the caller with the allocation it had.
FailedReallocateKeeps ==
  [][ ret'.op = "reallocate" /\ ret'.status \notin {"SUCCESS", Undefined}
        => UNCHANGED << this, live >> ]_vars
=============================================================================
