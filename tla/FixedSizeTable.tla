--------------------------- MODULE FixedSizeTable ---------------------------
(***************************************************************************)
(* The block table of the fixed-size allocator and the functions that      *)
(* change it (fixed_size_allocator.c).                                     *)
(*                                                                         *)
(* The allocator manages the bytes 0 .. TotalSize - 1 of memory[].  The    *)
(* table stands at the low end, one entry of InfoSize bytes per block:     *)
(* first the used blocks, then the free ones, the last of which is the     *)
(* `first' block, the free memory right behind the table.  Blocks are cut  *)
(* from the high end of a free block, and a new entry of the table is paid *)
(* for by the first block.                                                 *)
(*                                                                         *)
(* A table t is a record: t.blocks, of length block_count, and             *)
(* t.free_blocks.  Indices are those of the C code plus one.               *)
(***************************************************************************)
EXTENDS AllocatorLayout, BlockArrayDefragment, Integers, Sequences

CONSTANTS
  TotalSize,   \* total_size: the bytes of memory[]
  InfoSize     \* sizeof(memory_block_info_t)

\* Guards are whole multiples of the alignment, and so is the memory: create
\* rounds its size down.
ASSUME TableAssumption ==
  /\ InfoSize \in Nat \ {0}
  /\ TotalSize \in Nat
  /\ TotalSize >= InfoSize
  /\ TotalSize % Alignment = 0
  /\ GuardBytes % Alignment = 0

\* The outcome of running into behaviour C leaves undefined.
Undefined == "UNDEFINED"

BlockCount(t) == Len(t.blocks)
UsedCount(t) == BlockCount(t) - t.free_blocks
UsedIndices(t) == 1 .. UsedCount(t)
FreeIndices(t) == UsedCount(t) + 1 .. BlockCount(t)

MakeBlock(offset, size, state) ==
  [offset |-> offset, size |-> size, state |-> state]

\* The block at index i starts `ahead' bytes further on and is `more' bytes
\* larger; either may be negative.
Adjust(blocks, i, ahead, more) ==
  [blocks EXCEPT ![i] = MakeBlock(@.offset + ahead, @.size + more, @.state)]

\* The block at index i gets another state.
Mark(blocks, i, state) ==
  [blocks EXCEPT ![i] = MakeBlock(@.offset, @.size, state)]

\* The table of an allocator nothing is allocated from.
EmptyTable ==
  [blocks |-> << MakeBlock(InfoSize, TotalSize - InfoSize, "FREE") >>,
   free_blocks |-> 1]

\* find_memory_block_index_by_start, over the indices given; 0 when there
\* is no such block.
FindByStart(blocks, indices, address) ==
  LET found == {i \in indices : blocks[i].offset = address}
  IN IF found = {} THEN 0
     ELSE CHOOSE i \in found : \A j \in found : i <= j

-----------------------------------------------------------------------------
(***************************************************************************)
(* Allocation                                                              *)
(***************************************************************************)

\* n entries' worth of memory moves from the block at index i to the table
\* (back to the block when n is negative).
PayForEntries(blocks, i, n) == Adjust(blocks, i, n * InfoSize, -(n * InfoSize))

\* The free blocks that hold a block of the given size.
Fitting(t, size) == {i \in FreeIndices(t) : t.blocks[i].size >= size}

\* The smallest of them, the first of the smallest.
BestFit(t, size) ==
  LET fit == Fitting(t, size)
  IN CHOOSE i \in fit : \A j \in fit :
       \/ t.blocks[i].size < t.blocks[j].size
       \/ t.blocks[i].size = t.blocks[j].size /\ i <= j

\* The high end of block c becomes a used block with an entry of its own: the
\* last used one.  The first block's entry makes room at the end, the entry
\* that stood where the new one goes takes its place.
SplitOff(t, c, size) ==
  LET n    == BlockCount(t)
      k    == UsedCount(t) + 1
      rest == Adjust(t.blocks, c, 0, -size)
  IN [t EXCEPT !.blocks = [Append(rest, rest[n]) EXCEPT
                             ![n] = rest[k],
                             ![k] = MakeBlock(EndOf(rest[c]), size, "USED")]]

\* Faulty: the first block does not get its entry back.
HandOutUnpaid(t, c) ==
  [blocks |-> Exchange(Mark(t.blocks, c, "USED"), UsedCount(t) + 1, c),
   free_blocks |-> t.free_blocks - 1]

\* Block c is handed out whole, and the first block gets its entry back.
HandOutWhole(t, c) ==
  LET marked == Mark(t.blocks, c, "USED")
      repaid == PayForEntries(marked, BlockCount(t), -1)
  IN [blocks |-> Exchange(repaid, UsedCount(t) + 1, c),
      free_blocks |-> t.free_blocks - 1]

Outcome(table, status, index) ==
  [table |-> table, status |-> status, index |-> index]

\* fixed_size_allocator_allocate_block without its retry.  The search starts
\* from i_chosen = block_count, but a search that found nothing is recognised
\* by i_chosen = free_blocks: with a used block in the table it goes on with
\* the entry behind the end of the table.
AllocateOnce(t, size) ==
  LET first  == BlockCount(t)
      need   == BlockSize(size)
      paid   == [t EXCEPT !.blocks = PayForEntries(@, first, 1)]
      chosen == BestFit(paid, need)
      spare  == paid.blocks[chosen].size - need
  IN IF t.free_blocks = 0
     THEN Outcome(t, Undefined, 0)            \* free_block_array[UINT_MAX]
     ELSE IF \/ t.blocks[first].state = "USED"
             \/ t.blocks[first].size < InfoSize
     THEN Outcome(t, "OUT_OF_MEMORY", 0)
     ELSE IF Fitting(paid, need) = {}
     THEN IF BlockCount(t) = t.free_blocks
          THEN Outcome(t, "INSUFFICIENT_BUFFER", 0)
          ELSE Outcome(paid, Undefined, 0)
     ELSE Outcome(IF spare > GuardTotal \/ chosen = first
                  THEN SplitOff(paid, chosen, need)
                  ELSE HandOutWhole(paid, chosen),
                  "SUCCESS", UsedCount(t) + 1)

\* cutl_allocator_fs_defragment: the free part of the table is merged, and
\* the table's last block gets the memory of the entries saved.
Defragmented(t) ==
  LET used  == UsedCount(t)
      out   == Run[Start(SubSeq(t.blocks, used + 1, BlockCount(t)))]
      count == BlockCount(t) - out.merged
      all   == SubSeq(t.blocks, 1, used) \o out.blocks
  IN IF t.free_blocks = 1
     THEN t
     ELSE [blocks |-> PayForEntries(SubSeq(all, 1, count), count, -out.merged),
           free_blocks |-> t.free_blocks - out.merged]

\* fixed_size_allocator_allocate_block: when the search reports that nothing
\* fits, defragment and search once more.
AllocateBlock(t, size) ==
  LET once == AllocateOnce(t, size)
  IN IF once.status = "INSUFFICIENT_BUFFER"
     THEN AllocateOnce(Defragmented(t), size)
     ELSE once

-----------------------------------------------------------------------------
(***************************************************************************)
(* Deallocation                                                            *)
(***************************************************************************)

\* Faulty: the block is not moved to the free part of the table.
ReleaseUnmoved(t, i) ==
  IF t.free_blocks + 1 = BlockCount(t)
  THEN EmptyTable
  ELSE [blocks |-> Mark(t.blocks, i, "FREE"),
        free_blocks |-> t.free_blocks + 1]

\* Faulty: the allocator does not start over with its last block.
ReleaseNoRestart(t, i) ==
  [blocks |-> Exchange(Mark(t.blocks, i, "FREE"), UsedCount(t), i),
   free_blocks |-> t.free_blocks + 1]

\* The block at index i becomes the first of the free ones; when it was the
\* last used one the allocator starts over.
Release(t, i) ==
  LET k     == UsedCount(t)
      freed == Mark(t.blocks, i, "FREE")
  IN IF t.free_blocks + 1 = BlockCount(t)
     THEN EmptyTable
     ELSE [blocks |-> Exchange(freed, k, i), free_blocks |-> t.free_blocks + 1]

\* Faulty: the guards are not looked at.
DeallocateUnchecked(t, i, intact) ==
  IF t.blocks[i].state # "USED" THEN Outcome(t, "DOUBLE_DEALLOCATION", i)
  ELSE Outcome(Release(t, i), "SUCCESS", i)

\* fixed_buffer_deallocate_block; `intact' is what the guard check finds.
DeallocateBlock(t, i, intact) ==
  IF t.blocks[i].state # "USED" THEN Outcome(t, "DOUBLE_DEALLOCATION", i)
  ELSE IF ~intact THEN Outcome(t, "CORRUPTED_POINTER", i)
  ELSE Outcome(Release(t, i), "SUCCESS", i)

\* address_to_offset and the search for the block: the status, and the index
\* of the used block the pointer belongs to.
Locate(t, pointer) ==
  LET i == FindByStart(t.blocks, UsedIndices(t), pointer - UserOffset)
  IN IF pointer < InfoSize * BlockCount(t) \/ pointer >= TotalSize
     THEN Outcome(t, "MISMATCHED_ALLOCATOR", 0)
     ELSE IF i = 0 THEN Outcome(t, "CORRUPTED_POINTER", 0)
     ELSE Outcome(t, "SUCCESS", i)

-----------------------------------------------------------------------------
(***************************************************************************)
(* Growing a block in place                                                *)
(***************************************************************************)

\* The free block right behind block i; 0 when there is none.
RightOf(t, i) == FindByStart(t.blocks, FreeIndices(t), EndOf(t.blocks[i]))

\* Faulty: any free right neighbour will do, however small.
CanStealFromAny(t, i, extra) ==
  /\ RightOf(t, i) # 0
  /\ t.blocks[RightOf(t, i)].state = "FREE"

\* The right neighbour must keep some memory: the code's branch for one that
\* is used up entirely cannot be reached.
CanSteal(t, i, extra) ==
  /\ RightOf(t, i) # 0
  /\ t.blocks[RightOf(t, i)].state = "FREE"
  /\ t.blocks[RightOf(t, i)].size > extra

Steal(t, i, extra) ==
  [t EXCEPT !.blocks =
     Adjust(Adjust(@, i, 0, extra), RightOf(t, i), extra, -extra)]
=============================================================================
