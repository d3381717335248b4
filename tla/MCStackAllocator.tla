-------------------------- MODULE MCStackAllocator --------------------------
(***************************************************************************)
(* Instances of StackAllocator for TLC.                                    *)
(***************************************************************************)
EXTENDS StackAllocator

\* What the next steps depend on: TLC tells states apart by this alone, and
\* checks the properties of steps on every step it finds.
StateBeforeNext == << top, info, live, returned, damaged, marks, Defined >>
=============================================================================
