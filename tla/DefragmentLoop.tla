--------------------------- MODULE DefragmentLoop ---------------------------
(***************************************************************************)
(* memory_block_array_defragment as a machine, one step per turn of its    *)
(* loops, started on every small array of free blocks the allocator can    *)
(* hand it: blocks apart from one another, in any order, save that the     *)
(* last one, the first block, is the leftmost and may be empty.            *)
(***************************************************************************)
EXTENDS BlockArrayDefragment, Integers, Sequences, FiniteSets

CONSTANTS
  Places,     \* the offsets of blocks
  Sizes,      \* and their sizes
  MaxBlocks   \* length of the longest array

ASSUME DefragmentAssumption ==
  /\ Places \subseteq Nat
  /\ Sizes \subseteq Nat
  /\ MaxBlocks \in Nat

VARIABLES
  input,      \* the array as it was passed
  locals      \* the function's local variables

vars == << input, locals >>

FreeBlocks == [offset : Places, size : Sizes, state : {"FREE"}]

\* No two blocks share memory, and an empty one lies within none.
Apart(blocks, indices) ==
  \A i, j \in indices :
    i # j => \/ EndOf(blocks[i]) <= blocks[j].offset
             \/ EndOf(blocks[j]) <= blocks[i].offset

\* Only the last block, which is the first of the memory, may be empty: when
\* the table has just reached its neighbour.
LastIsFirstBlock(blocks) ==
  \A i \in 1 .. Len(blocks) - 1 :
    blocks[i].size > 0 /\ blocks[Len(blocks)].offset <= blocks[i].offset

\* The code returns at once when there is one block.
Init ==
  /\ \E n \in 2 .. MaxBlocks : input \in [1 .. n -> FreeBlocks]
  /\ Apart(input, 1 .. Len(input))
  /\ LastIsFirstBlock(input)
  /\ locals = Start(input)

Turn ==
  /\ locals.phase # "done"
  /\ locals' = Step(locals)
  /\ UNCHANGED input

Next == Turn

Spec == Init /\ [][Next]_vars /\ WF_vars(Turn)

-----------------------------------------------------------------------------

Entries == 1 .. Len(locals.blocks)

\* The entries that stand for a block: not those merged, nor, while the kept
\* ones move to the front, those that have moved.
Kept ==
  {i \in Entries : /\ locals.blocks[i].state # "MERGED"
                   /\ locals.phase = "compact" => \/ i < locals.pos
                                                  \/ i >= locals.other}

\* The addresses of a block, and of the blocks at some indices of an array.
Bytes(block) == block.offset .. EndOf(block) - 1
Covered(blocks, indices) == UNION {Bytes(blocks[i]) : i \in indices}

NonEmpty(blocks) == \A i \in 1 .. Len(blocks) : blocks[i].size > 0

\* Every variable has its type, and no index leaves the array.
TypeOK ==
  /\ locals \in Locals
  /\ locals.phase \in {"scan", "compact"} =>
       /\ locals.pos \in 1 .. Len(input) + 1
       /\ locals.other \in locals.pos .. Len(input) + 1
  /\ locals.phase = "merge" => locals.pos \in 0 .. Len(input) - 1

\* Until the last loop no memory is lost, none appears twice, and the count
\* of merged entries is exact, however far the kept ones have moved.
ScanKeepsMemory ==
  locals.phase \in {"position", "scan", "compact"} =>
    /\ Covered(locals.blocks, Kept) = Covered(input, 1 .. Len(input))
    /\ \A i, j \in Kept : i # j => Bytes(locals.blocks[i])
                                     \cap Bytes(locals.blocks[j]) = {}
    /\ locals.merged = Len(input) - Cardinality(Kept)

\* The first loop leaves what it keeps sorted by falling offset, the order
\* the last loop counts on.
SortedAfterScan ==
  locals.phase = "compact" =>
    \A i, j \in Kept :
      i < j => locals.blocks[i].offset >= EndOf(locals.blocks[j])

\* What the caller gets: the first entries, as many as were not merged.
Result == 1 .. Len(input) - locals.merged

\* Whether a block ends where another one starts.
Touches(low, high) == EndOf(low) = high.offset

\* Where an empty leftmost block touches the one to its right, and that one no
\* other: the scan merges the two, and the last loop merges them again, for it
\* begins with the entry behind the kept ones, which is the one just merged.
MergedTwice(blocks) ==
  LET leftmost == blocks[Len(blocks)]
      others == 1 .. Len(blocks) - 1
  IN {i \in others : /\ leftmost.size = 0
                     /\ Touches(leftmost, blocks[i])
                     /\ ~\E j \in others : Touches(blocks[i], blocks[j])}

\* Of three free blocks or fewer all memory is handed back, none of it twice,
\* and the leftmost block last, but for what a block that is merged twice
\* holds: that is lost.
SmallArraysExact ==
  locals.phase = "done" /\ Len(input) <= 3 =>
    /\ Covered(locals.blocks, Result)
         = Covered(input, (1 .. Len(input)) \ MergedTwice(input))
    /\ \A i, j \in Result : i # j => Bytes(locals.blocks[i])
                                       \cap Bytes(locals.blocks[j]) = {}
    /\ \A i \in Result :
         locals.blocks[Len(input) - locals.merged].offset
           <= locals.blocks[i].offset

\* The loops end, though the scan starts over after every swap.
Terminates == <>(locals.phase = "done")
=============================================================================
