------------------------- MODULE MCDefaultAllocators -------------------------
(***************************************************************************)
(* The default allocators, to be model-checked: neither the threads nor    *)
(* the allocators differ from each other.                                  *)
(***************************************************************************)
EXTENDS DefaultAllocators, TLC

MCSymmetry == Permutations(Threads) \cup Permutations(Allocators)
=============================================================================
