-------------------------- MODULE MCArenaAllocator --------------------------
(***************************************************************************)
(* Instances of ArenaAllocator for TLC.                                    *)
(***************************************************************************)
EXTENDS ArenaAllocator

\* What the next steps depend on: TLC tells states apart by this alone, and
\* checks the properties of steps on every step it finds.
StateBeforeNext == << this, live, returned, Defined >>
=============================================================================
