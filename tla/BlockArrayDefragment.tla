------------------------ MODULE BlockArrayDefragment ------------------------
(***************************************************************************)
(* memory_block_array_defragment of the fixed-size allocator: sort the     *)
(* free blocks by falling offset, merging neighbours on the way, squeeze   *)
(* out the merged entries, then merge once more from the back.             *)
(*                                                                         *)
(* The loops are one transition function, Step, over the record of the     *)
(* function's local variables; Run iterates it to the end.  Indices are    *)
(* those of the C code plus one.                                           *)
(***************************************************************************)
EXTENDS Integers, Sequences

BlockState == {"FREE", "USED", "MERGED"}
Block == [offset : Int, size : Int, state : BlockState]

\* Where a block ends, which is where its right neighbour starts.
EndOf(block) == block.offset + block.size

Phase == {"position", "scan", "compact", "merge", "done"}

\* blocks   the array, changed in place         count  block_cnt
\* pos      i_pos, i_write, i of the last loop  merged entries merged so far
\* other    i_other, i_read
Locals == [phase : Phase, blocks : Seq(Block), count : Int,
           pos : Int, other : Int, merged : Int]

Start(blocks) ==
  [phase |-> "position", blocks |-> blocks, count |-> Len(blocks),
   pos |-> 1, other |-> 1, merged |-> 0]

-----------------------------------------------------------------------------
(***************************************************************************)
(* First loop                                                              *)
(***************************************************************************)

\* The first loop ends.
LeaveScan(l) ==
  IF l.merged = 0
  THEN [l EXCEPT !.phase = "done"]
  ELSE [l EXCEPT !.phase = "compact", !.pos = 1, !.other = 1]

\* The head of the outer loop.  An empty block is dropped here, and the scan
\* goes on with it in place all the same.
EnterPosition(l) ==
  IF l.pos >= l.count
  THEN LeaveScan(l)
  ELSE IF l.blocks[l.pos].state = "MERGED"
  THEN [l EXCEPT !.pos = @ + 1]
  ELSE IF l.blocks[l.pos].size = 0
  THEN [l EXCEPT !.blocks[l.pos].state = "MERGED", !.merged = @ + 1,
                 !.phase = "scan", !.other = l.pos + 1]
  ELSE [l EXCEPT !.phase = "scan", !.other = l.pos + 1]

\* Entry i moved to the place of entry j, and j's to i.
Exchange(blocks, i, j) == [blocks EXCEPT ![i] = blocks[j], ![j] = blocks[i]]

\* Faulty: the size of the entry swallowed is forgotten.
SwallowOffsetOnly(blocks, i, j) ==
  [blocks EXCEPT ![i].offset = blocks[j].offset, ![j].state = "MERGED"]

\* Entry i swallows entry j, which ends where i starts.
Swallow(blocks, i, j) ==
  [blocks EXCEPT ![i].offset = blocks[j].offset,
                 ![i].size = @ + blocks[j].size,
                 ![j].state = "MERGED"]

\* Faulty: sorts by rising offset.
ScanOtherRising(l) ==
  LET entry == l.blocks[l.pos]
      cand  == l.blocks[l.other]
  IN IF l.other > l.count
     THEN [l EXCEPT !.phase = "position", !.pos = @ + 1]
     ELSE IF cand.state = "MERGED"
     THEN [l EXCEPT !.other = @ + 1]
     ELSE IF cand.offset < entry.offset
     THEN [l EXCEPT !.blocks = Exchange(@, l.pos, l.other),
                    !.other = l.pos + 1]
     ELSE IF EndOf(cand) = entry.offset
     THEN [l EXCEPT !.blocks = Swallow(@, l.pos, l.other),
                    !.merged = @ + 1, !.other = @ + 1]
     ELSE [l EXCEPT !.other = @ + 1]

\* Faulty: swaps blocks of equal offset, too.
ScanOtherTies(l) ==
  LET entry == l.blocks[l.pos]
      cand  == l.blocks[l.other]
  IN IF l.other > l.count
     THEN [l EXCEPT !.phase = "position", !.pos = @ + 1]
     ELSE IF cand.state = "MERGED"
     THEN [l EXCEPT !.other = @ + 1]
     ELSE IF cand.offset >= entry.offset
     THEN [l EXCEPT !.blocks = Exchange(@, l.pos, l.other),
                    !.other = l.pos + 1]
     ELSE IF EndOf(cand) = entry.offset
     THEN [l EXCEPT !.blocks = Swallow(@, l.pos, l.other),
                    !.merged = @ + 1, !.other = @ + 1]
     ELSE [l EXCEPT !.other = @ + 1]

ScanOther(l) ==
  LET entry == l.blocks[l.pos]
      cand  == l.blocks[l.other]
  IN IF l.other > l.count
     THEN [l EXCEPT !.phase = "position", !.pos = @ + 1]
     ELSE IF cand.state = "MERGED"
     THEN [l EXCEPT !.other = @ + 1]
     ELSE IF cand.offset > entry.offset          \* not sorted: swap and redo
     THEN [l EXCEPT !.blocks = Exchange(@, l.pos, l.other),
                    !.other = l.pos + 1]
     ELSE IF EndOf(cand) = entry.offset
     THEN [l EXCEPT !.blocks = Swallow(@, l.pos, l.other),
                    !.merged = @ + 1, !.other = @ + 1]
     ELSE [l EXCEPT !.other = @ + 1]

-----------------------------------------------------------------------------
(***************************************************************************)
(* Removal of the merged entries, and the last loop                        *)
(***************************************************************************)

\* Faulty: the last loop starts one entry too far behind.
EnterMergeTooFar(l) ==
  [l EXCEPT !.phase = "merge", !.count = @ - l.merged,
            !.pos = l.count - l.merged + 1]

\* The last loop begins, from behind the kept entries.
EnterMerge(l) ==
  [l EXCEPT !.phase = "merge", !.count = @ - l.merged,
            !.pos = l.count - l.merged]

\* Faulty: the merged entries stay in the array.
CompactNothing(l) ==
  IF l.other > l.count
  THEN EnterMerge(l)
  ELSE IF l.blocks[l.other].state = "MERGED"
  THEN [l EXCEPT !.other = @ + 1]
  ELSE [l EXCEPT !.pos = @ + 1, !.other = @ + 1]

\* Entry j copied to the place of entry i.
Copy(blocks, i, j) == [blocks EXCEPT ![i] = blocks[j]]

\* The kept entries move to the front, one at a time; what lies behind them
\* stays behind.
Compact(l) ==
  IF l.other > l.count
  THEN EnterMerge(l)
  ELSE IF l.blocks[l.other].state = "MERGED"
  THEN [l EXCEPT !.other = @ + 1]
  ELSE [l EXCEPT !.blocks = Copy(@, l.pos, l.other),
                 !.pos = @ + 1, !.other = @ + 1]

\* Entry i takes the memory of the entry behind it, which stays as it is.
TakeNext(blocks, i) ==
  [blocks EXCEPT ![i].offset = blocks[i + 1].offset,
                 ![i].size = @ + blocks[i + 1].size]

\* blocks[i - 1] against blocks[i], i counting down from block_cnt: the
\* first `this' read is the entry just behind the kept ones.
MergeBack(l) ==
  LET upper == l.blocks[l.pos]
      lower == l.blocks[l.pos + 1]
  IN IF l.pos = 0
     THEN [l EXCEPT !.phase = "done"]
     ELSE IF upper.offset # EndOf(lower)
     THEN [l EXCEPT !.pos = @ - 1]
     ELSE [l EXCEPT !.blocks = TakeNext(@, l.pos),
                    !.merged = @ + 1, !.pos = @ - 1]

Step(l) ==
  CASE l.phase = "position" -> EnterPosition(l)
    [] l.phase = "scan"     -> ScanOther(l)
    [] l.phase = "compact"  -> Compact(l)
    [] l.phase = "merge"    -> MergeBack(l)
    [] l.phase = "done"     -> l

Run[l \in Locals] == IF l.phase = "done" THEN l ELSE Run[Step(l)]
=============================================================================
