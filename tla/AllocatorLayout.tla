--------------------------- MODULE AllocatorLayout ---------------------------
(***************************************************************************)
(* The plumbing every allocator of cutl shares (allocator_internal.h): how *)
(* a request is rounded to a block, and where in a block the memory handed *)
(* to the caller lies.                                                     *)
(*                                                                         *)
(*   block start                                                block end  *)
(*   | front guard | usable memory ...                     | rear guard |  *)
(*                 ^ the pointer the caller gets                           *)
(***************************************************************************)
EXTENDS Integers

CONSTANTS
  Alignment,    \* ALLOCATOR_ALIGNMENT
  GuardBytes,   \* ALLOCATOR_GUARD_BYTES, already rounded up to the alignment
  SizeLimit     \* number of values of a size_t, 2^64 in the code

ASSUME LayoutAssumption ==
  /\ Alignment \in Nat \ {0}
  /\ GuardBytes \in Nat
  /\ SizeLimit \in Nat \ {0}

-----------------------------------------------------------------------------

\* ALLOCATOR_GUARD_TOTAL
GuardTotal == 2 * GuardBytes

\* allocator_round_down
RoundDown(size) == size - (size % Alignment)

\* allocator_round_up: the addition is done in a size_t, and wraps.
RoundUp(size) == RoundDown((size + Alignment - 1) % SizeLimit)

\* allocator_block_size
BlockSize(usable) == (RoundUp(usable) + GuardTotal) % SizeLimit

\* allocator_usable_size
UsableSize(total) == total - GuardTotal

\* allocator_user_offset
UserOffset == GuardBytes
=============================================================================
