------------------------ MODULE MCFixedSizeAllocator ------------------------
(***************************************************************************)
(* Instances of FixedSizeAllocator for TLC.                                *)
(***************************************************************************)
EXTENDS FixedSizeAllocator

\* Every aligned address of the memory, and the one behind it.
AlignedAddresses == {Alignment * k : k \in 0 .. TotalSize \div Alignment}
=============================================================================
