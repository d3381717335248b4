--------------------------- MODULE ArenaAllocator ---------------------------
(***************************************************************************)
(* The arena allocator (arena_allocator.c), its parent allocator, and the  *)
(* code that uses it.                                                      *)
(*                                                                         *)
(* The arena carves blocks out of chunks it takes from the parent: first   *)
(* out of those given back, which the free list of a chunk links by their  *)
(* address, then off the part that was never handed out.  Every block has  *)
(* a header in front of its memory, with its size and magic number.        *)
(*                                                                         *)
(* Addresses are numbers; the chunk that is k-th from the oldest starts at *)
(* k * Span.  `header' holds the headers that can be read: one that lies   *)
(* in memory handed out later is as good as overwritten.  Running into     *)
(* undefined behaviour is the last step of a behaviour.                    *)
(***************************************************************************)
EXTENDS AllocatorLayout, FiniteSetsExt, SequencesExt

CONSTANTS
  ChunkSize,     \* chunk_size
  Header,        \* ARENA_BLOCK_HEADER_SIZE
  ChunkHeader,   \* sizeof(arena_chunk_t)
  Span,          \* the distance of chunks, larger than any of them
  Sizes,         \* the sizes callers ask for
  MaxChunks,     \* how many chunks the parent gives out (bounds the model)
  MaxReturned    \* how many pointers callers remember giving back (likewise)

ASSUME ArenaAssumption ==
  /\ ChunkSize \in Nat \ {0}
  /\ Header \in Nat \ {0} /\ Header % Alignment = 0
  /\ Header + Alignment <= SizeLimit
  /\ ChunkHeader \in Nat \ {0} /\ ChunkHeader % Alignment = 0
  /\ Span \in Nat /\ Span >= SizeLimit /\ Span % Alignment = 0
  /\ Sizes \subseteq 0 .. SizeLimit - 1
  /\ MaxChunks \in Nat /\ MaxReturned \in Nat

VARIABLES
  this,      \* the arena: its chunks, the newest first; the headers in them;
             \* `used', `capacity' and `largest_block'
  live,      \* the allocations callers hold: pointer -> size asked for
  returned,  \* pointers given back one by one and not handed out again
  ret        \* the last call, its result code, result, and bytes copied

vars == << this, live, returned, ret >>

Undefined == "UNDEFINED"
Null == 0

Answer(op, arg, status, result, bytes) ==
  [op |-> op, arg |-> arg, status |-> status, result |-> result,
   bytes |-> bytes]

EmptyArena ==
  [chunks |-> << >>, header |-> << >>, used |-> 0, capacity |-> 0,
   largest_block |-> 0]

\* cutl_allocator_arena_create
Init ==
  /\ this = EmptyArena
  /\ live = << >>
  /\ returned = {}
  /\ ret = Answer("create", Null, "SUCCESS", Null, 0)

-----------------------------------------------------------------------------

\* The arena can still be used.
Defined == ret.status # Undefined /\ ret.op # "destroy"

Without(allocs, p) == [q \in DOMAIN allocs \ {p} |-> allocs[q]]
With(allocs, p, size) ==
  [q \in DOMAIN allocs \cup {p} |-> IF q = p THEN size ELSE allocs[q]]

\* The pointers a caller may give back once more, after it gave back p.
Remember(p) ==
  IF Cardinality(returned) < MaxReturned THEN returned \cup {p} ELSE returned

\* ARENA_MINIMUM_BLOCK_SIZE
MinimumBlock == Header + Alignment

PointerTo(block) == block + Header

\* The size of the block for a request, and whether computing it wraps.
Total(size) == (Header + RoundUp(size)) % SizeLimit
Refused(size) == size = 0 \/ Total(size) < size

SizeOf(arena, block) == arena.header[block].size
EndOf(arena, block) == block + SizeOf(arena, block)

\* The header of a block is written.
Label(arena, block, size, magic) ==
  [arena EXCEPT !.header = With(@, block, [size |-> size, magic |-> magic])]

-----------------------------------------------------------------------------
(***************************************************************************)
(* The free list of a chunk                                                *)
(***************************************************************************)

FreeList(arena, c) == arena.chunks[c].free_list

SetFreeList(arena, c, list) == [arena EXCEPT !.chunks[c].free_list = list]

\* free_list_remove
FreeListRemove(arena, c, block) ==
  LET list == FreeList(arena, c)
  IN SetFreeList(arena, c, RemoveAt(list, Min({i \in DOMAIN list :
                                                 list[i] = block})))

\* Faulty: the block is put in front of the list.
FreeListPush(arena, c, block) ==
  SetFreeList(arena, c, << block >> \o FreeList(arena, c))

\* free_list_insert.  The block is linked in front of the first one behind
\* it, `previous'.  The two merges that are tried look for a `previous' that
\* ends where the block begins, and for a next block whose link, not whose
\* header, is where the block ends.
FreeListInsert(arena, c, block) ==
  LET list     == FreeList(arena, c)
      passed   == {i \in DOMAIN list : \A j \in 1 .. i : list[j] < block}
      link     == Cardinality(passed) + 1
      previous == list[link]
      inFront  == link <= Len(list) /\ EndOf(arena, previous) = block
      merged   == IF inFront THEN previous ELSE block
      size     == IF inFront THEN SizeOf(arena, previous) + SizeOf(arena, block)
                             ELSE SizeOf(arena, block)
      linked   == IF inFront THEN list ELSE InsertAt(list, link, block)
      behind   == linked[link + 1]
      touches  == link < Len(linked) /\ merged + size = behind + Header
      grown    == IF touches THEN size + SizeOf(arena, behind) ELSE size
  IN Label(SetFreeList(arena, c, IF touches THEN RemoveAt(linked, link + 1)
                                            ELSE linked),
           merged, grown, arena.header[merged].magic)

-----------------------------------------------------------------------------
(***************************************************************************)
(* Blocks                                                                  *)
(***************************************************************************)

FreeFits(arena, c, total) ==
  {i \in DOMAIN FreeList(arena, c) :
     SizeOf(arena, FreeList(arena, c)[i]) >= total}

\* Faulty: what was handed out of the chunk already is forgotten.
HasRoomWhole(arena, c, total) ==
  \/ FreeFits(arena, c, total) # {}
  \/ arena.chunks[c].capacity >= total

\* Whether block_from_chunk finds room.
HasRoom(arena, c, total) ==
  \/ FreeFits(arena, c, total) # {}
  \/ arena.chunks[c].capacity - arena.chunks[c].bump >= total

\* Faulty: a block carved out of a larger one keeps its size.
CarveKeepingSize(arena, c, block, total) ==
  LET available == SizeOf(arena, block)
      rest      == Label(arena, block + total, available - total, "FREE")
  IN IF available - total >= MinimumBlock
     THEN FreeListInsert(rest, c, block + total) ELSE arena

\* Faulty: what remains is listed with the size of the whole block.
CarveWholeRest(arena, c, block, total) ==
  LET available == SizeOf(arena, block)
      rest      == Label(arena, block + total, available, "FREE")
      listed    == IF available - total >= MinimumBlock
                   THEN FreeListInsert(rest, c, block + total) ELSE arena
  IN Label(listed, block, total, arena.header[block].magic)

\* The free block, no longer on its list, is cut to the size it is handed out
\* with: what remains goes back on the list, unless it could not be linked.
Carve(arena, c, block, total) ==
  LET available == SizeOf(arena, block)
      rest      == Label(arena, block + total, available - total, "FREE")
      listed    == IF available - total >= MinimumBlock
                   THEN FreeListInsert(rest, c, block + total) ELSE arena
  IN Label(listed, block, total, arena.header[block].magic)

\* block_from_chunk and arena_hand_out: the block, in use, from a chunk with
\* room for it.  What lies in it is the caller's.
HandOut(arena, c, total) ==
  LET fits  == FreeFits(arena, c, total)
      chunk == arena.chunks[c]
      block == IF fits # {} THEN FreeList(arena, c)[Min(fits)]
                            ELSE chunk.base + chunk.bump
      taken == IF fits # {}
               THEN Carve(FreeListRemove(arena, c, block), c, block, total)
               ELSE Label([arena EXCEPT !.chunks[c].bump = @ + total],
                          block, total, "USED")
      kept  == {b \in DOMAIN taken.header : b <= block \/ b >= block + total}
  IN [status |-> "SUCCESS", block |-> block,
      arena |-> [taken EXCEPT
                   !.header = With([b \in kept |-> taken.header[b]], block,
                                   [size |-> SizeOf(taken, block),
                                    magic |-> "USED"]),
                   !.used = @ + total]]

\* The capacity of the chunk arena_grow asks for.
GrownCapacity(arena, total) ==
  RoundUp(Max({total, arena.largest_block, ChunkSize}))

\* arena_grow, when the parent gives the memory.
Grow(arena, total) ==
  LET chunk == [base |-> (Len(arena.chunks) + 1) * Span,
                capacity |-> GrownCapacity(arena, total),
                bump |-> 0, free_list |-> << >>]
  IN [arena EXCEPT !.chunks = << chunk >> \o @,
                   !.capacity = @ + chunk.capacity,
                   !.largest_block = Max({total, @})]

\* What cutl_allocator_arena_allocate may do: the parent may refuse, and gives
\* no more than it is asked for, a number of bytes that may have wrapped; and
\* so may the capacity of the chunk, which then has no room for the block.
Outcomes(arena, size) ==
  LET total  == Total(size)
      rooms  == {c \in DOMAIN arena.chunks : HasRoom(arena, c, total)}
      needed == ChunkHeader + GrownCapacity(arena, total)
      asked  == needed % SizeLimit
      failed == [status |-> "OUT_OF_MEMORY", block |-> Null, arena |-> arena]
  IN IF Refused(size) THEN {failed}
     ELSE IF rooms # {} THEN {HandOut(arena, Min(rooms), total)}
     ELSE IF asked = 0 \/ Len(arena.chunks) = MaxChunks THEN {failed}
     ELSE IF asked < needed \/ GrownCapacity(arena, total) < total
          THEN {failed, [failed EXCEPT !.status = Undefined]}
     ELSE {failed, HandOut(Grow(arena, total), 1, total)}

\* The chunk a pointer handed out by the arena would be in.
Home(arena, p) ==
  {c \in DOMAIN arena.chunks :
     LET offset == p - arena.chunks[c].base
     IN offset >= Header /\ offset < arena.chunks[c].capacity}

\* Faulty: a block that was given back already is not told apart.
LookUpUnchecked(arena, p) ==
  IF Home(arena, p) = {} THEN "MISMATCHED_ALLOCATOR"
  ELSE IF p - Header \notin DOMAIN arena.header THEN Undefined
  ELSE "SUCCESS"

\* block_from_pointer
LookUp(arena, p) ==
  IF Home(arena, p) = {} THEN "MISMATCHED_ALLOCATOR"
  ELSE IF p - Header \notin DOMAIN arena.header THEN Undefined
  ELSE IF arena.header[p - Header].magic = "FREE" THEN "DOUBLE_DEALLOCATION"
  ELSE "SUCCESS"

\* What cutl_allocator_arena_deallocate makes of the arena, for a block in use.
GiveBack(arena, p) ==
  LET block == p - Header
      c     == CHOOSE c \in Home(arena, p) : TRUE
      freed == FreeListInsert(
                 Label(arena, block, SizeOf(arena, block), "FREE"), c, block)
  IN [freed EXCEPT !.used = @ - SizeOf(freed, block)]

-----------------------------------------------------------------------------
(***************************************************************************)
(* The calls                                                               *)
(***************************************************************************)

\* A call that changed nothing.
Unchanged(op, p, status) ==
  /\ ret' = Answer(op, p, status, Null, 0)
  /\ UNCHANGED << this, live, returned >>

\* cutl_allocator_arena_allocate
Allocate(size) ==
  /\ Defined
  /\ \E out \in Outcomes(this, size) :
       LET p == PointerTo(out.block)
       IN IF out.status # "SUCCESS"
          THEN /\ this' = out.arena
               /\ ret' = Answer("allocate", Null, out.status, Null, 0)
               /\ UNCHANGED << live, returned >>
          ELSE /\ this' = out.arena
               /\ live' = With(live, p, size)
               /\ returned' = returned \ {p}
               /\ ret' = Answer("allocate", Null, "SUCCESS", p, 0)

Found(p) == Defined /\ LookUp(this, p) = "SUCCESS"

Reject(op, p) ==
  /\ Defined
  /\ LookUp(this, p) # "SUCCESS"
  /\ Unchanged(op, p, LookUp(this, p))

\* cutl_allocator_arena_deallocate, also called by a reallocation to nothing.
Deallocate(p) ==
  /\ Found(p)
  /\ this' = GiveBack(this, p)
  /\ live' = Without(live, p)
  /\ returned' = Remember(p)
  /\ ret' = Answer("deallocate", p, "SUCCESS", Null, 0)

\* cutl_allocator_arena_reallocate, one action per way through it
Larger(p, size) == Total(size) > SizeOf(this, p - Header)

ReallocateRefused(p, size) ==
  /\ Found(p)
  /\ size # 0 /\ Refused(size)
  /\ Unchanged("reallocate", p, "OUT_OF_MEMORY")

ReallocateSame(p, size) ==
  /\ Found(p)
  /\ ~Refused(size)
  /\ ~Larger(p, size)
  /\ live' = With(live, p, size)
  /\ ret' = Answer("reallocate", p, "SUCCESS", p, 0)
  /\ UNCHANGED << this, returned >>

\* free_list_find: the list is ordered (FreeListSane), so that the search can
\* end where the address would be.
Behind(p) ==
  LET c == CHOOSE c \in Home(this, p) : TRUE
  IN Range(FreeList(this, c)) \cap {EndOf(this, p - Header)}

GrowsInPlace(p, size) ==
  \E b \in Behind(p) :
    SizeOf(this, p - Header) + SizeOf(this, b) >= Total(size)

\* All of the free block right behind is added to this one.
ReallocateInPlace(p, size) ==
  LET c == CHOOSE c \in Home(this, p) : TRUE
  IN /\ Found(p)
     /\ ~Refused(size)
     /\ Larger(p, size)
     /\ GrowsInPlace(p, size)
     /\ \E b \in Behind(p) :
          LET taken == FreeListRemove(this, c, b)
              grown == Label(taken, p - Header,
                             SizeOf(this, p - Header) + SizeOf(this, b), "USED")
          IN this' = [grown EXCEPT !.used = @ + SizeOf(this, b),
                                   !.header = Without(@, b)]
     /\ live' = With(live, p, size)
     /\ ret' = Answer("reallocate", p, "SUCCESS", p, 0)
     /\ UNCHANGED returned

\* Faulty: as many bytes as the new block has.
CopyNew(p, size) == Total(size) - Header

\* What memcpy is told to copy.
CopiedBytes(p, size) == Min({SizeOf(this, p - Header), Total(size)}) - Header

\* A new block, the contents copied, and the old block given back.
ReallocateMove(p, size) ==
  /\ Found(p)
  /\ ~Refused(size)
  /\ Larger(p, size)
  /\ ~GrowsInPlace(p, size)
  /\ \E out \in Outcomes(this, size) :
       LET q == PointerTo(out.block)
       IN IF out.status # "SUCCESS"
          THEN /\ this' = out.arena
               /\ ret' = Answer("reallocate", p, out.status, Null, 0)
               /\ UNCHANGED << live, returned >>
          ELSE /\ this' = GiveBack(out.arena, p)
               /\ live' = With(Without(live, p), q, size)
               /\ returned' = Remember(p) \ {q}
               /\ ret' = Answer("reallocate", p, "SUCCESS", q,
                                CopiedBytes(p, size))

\* cutl_allocator_arena_clear
Clear ==
  /\ Defined
  /\ this' = [this EXCEPT
                !.chunks = [c \in DOMAIN @ |->
                              [@[c] EXCEPT !.bump = 0, !.free_list = << >>]],
                !.used = 0]
  /\ live' = << >>
  /\ returned' = {}
  /\ ret' = Answer("clear", Null, "SUCCESS", Null, 0)

\* cutl_allocator_arena_release, and cutl_allocator_arena_destroy, which does
\* the same before it gives the arena itself back.
Release(op) ==
  /\ Defined
  /\ this' = EmptyArena
  /\ live' = << >>
  /\ returned' = {}
  /\ ret' = Answer(op, Null, "SUCCESS", Null, 0)

\* Pointers of other allocators: below all chunks, and before the first block
\* of each.
Strangers == {Alignment} \cup {chunk.base : chunk \in Range(this.chunks)}

Next ==
  \/ \E size \in Sizes : Allocate(size)
  \/ \E p \in DOMAIN live \cup returned \cup Strangers :
       \/ Deallocate(p) \/ Reject("deallocate", p) \/ Reject("reallocate", p)
       \/ \E size \in Sizes :
            \/ ReallocateRefused(p, size) \/ ReallocateSame(p, size)
            \/ ReallocateInPlace(p, size) \/ ReallocateMove(p, size)
  \/ Clear
  \/ Release("release")
  \/ Release("destroy")

Spec == Init /\ [][Next]_vars

-----------------------------------------------------------------------------
(***************************************************************************)
(* Properties                                                              *)
(***************************************************************************)

Chunks == DOMAIN this.chunks

UsedBlocks == {p - Header : p \in DOMAIN live}
FreeBlocks == UNION {Range(FreeList(this, c)) : c \in Chunks}

Statuses == {"SUCCESS", "OUT_OF_MEMORY", "MISMATCHED_ALLOCATOR",
             "CORRUPTED_POINTER", "DOUBLE_DEALLOCATION", Undefined}

Operations == {"create", "allocate", "deallocate", "reallocate", "clear",
               "release", "destroy"}

\* Every variable has its type: no offset or count is below zero, and no
\* chunk is handed out beyond its capacity.
TypeOK ==
  /\ \A c \in Chunks :
       /\ this.chunks[c].base \in Nat
       /\ this.chunks[c].capacity \in 0 .. SizeLimit - 1
       /\ this.chunks[c].bump \in 0 .. this.chunks[c].capacity
       /\ FreeList(this, c) \in Seq(Nat)
  /\ \A b \in DOMAIN this.header :
       this.header[b] \in [size : 0 .. SizeLimit - 1, magic : {"FREE", "USED"}]
  /\ this.used \in Nat /\ this.capacity \in Nat /\ this.largest_block \in Nat
  /\ DOMAIN live \subseteq Nat
  /\ \A p \in DOMAIN live : live[p] \in Sizes
  /\ returned \subseteq Nat \ DOMAIN live
  /\ ret \in [op : Operations, arg : Nat, status : Statuses,
              result : Nat, bytes : Nat]

\* The free list of a chunk is ordered by address, without duplicates, and
\* its blocks are free, of the chunk, and large enough to hold a link.
FreeListSane ==
  \A c \in Chunks :
    LET list == FreeList(this, c)
    IN /\ \A i \in 1 .. Len(list) - 1 : list[i] < list[i + 1]
       /\ \A b \in Range(list) :
            /\ c \in Home(this, PointerTo(b))
            /\ this.header[b].magic = "FREE"
            /\ SizeOf(this, b) >= MinimumBlock

\* The blocks callers hold are in use, as large as was asked for, lie in the
\* part of a chunk that was handed out, and share no byte with each other or
\* with a free block.
BlocksApart ==
  Defined =>
    /\ \A p \in DOMAIN live :
         /\ this.header[p - Header].magic = "USED"
         /\ SizeOf(this, p - Header) >= Header + live[p]
    /\ \A b \in UsedBlocks \cup FreeBlocks :
         /\ \E c \in Chunks :
              /\ b >= this.chunks[c].base
              /\ EndOf(this, b) <= this.chunks[c].base + this.chunks[c].bump
         /\ \A d \in (UsedBlocks \cup FreeBlocks) \ {b} :
              EndOf(this, b) <= d \/ EndOf(this, d) <= b

\* cutl_allocator_arena_get_used: the memory handed out, headers included,
\* blocks that were given back not counted; _get_capacity: what all chunks
\* hold together.
UsedExact ==
  Defined =>
    /\ this.used = SumFunction([b \in UsedBlocks |-> SizeOf(this, b)])
    /\ this.capacity = SumFunction([c \in Chunks |-> this.chunks[c].capacity])

\* A reallocation that moves a block copies all the caller wrote and still
\* has room for, and reads no byte behind the old block.
ReallocateKeepsContents ==
  [][ /\ ret'.op = "reallocate" /\ ret'.status = "SUCCESS"
      /\ ret'.result # ret'.arg
      => /\ ret'.bytes >= Min({live[ret'.arg], live'[ret'.result]})
         /\ ret'.bytes <= SizeOf(this, ret'.arg - Header) - Header ]_vars

\* The arena allocator does what every allocator promises.
Contract == INSTANCE AllocatorContract
              WITH MemorySize <- (MaxChunks + 1) * Span
KeepsContract == Contract!Spec

\* free_list_insert: a block is merged "with the free blocks it touches so
\* that the arena does not slowly run out of memory".
NoTouchingFree ==
  \A b, d \in FreeBlocks : EndOf(this, b) # d

\* cutl_allocator_arena_allocate: "Reject requests whose bookkeeping would
\* wrap around."
RequestsDefined ==
  [][ ret'.op = "allocate" => ret'.status # Undefined ]_vars
=============================================================================
