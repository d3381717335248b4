-------------------------- MODULE MCTextAndIterators --------------------------
(***************************************************************************)
(* The parts of Text and the iterators, to be model-checked: they share no *)
(* state, and each behaviour follows one of them.                          *)
(***************************************************************************)
EXTENDS MCText, MCIterators

vars == << textVars, iteratorsVars >>

NoText ==
  /\ which = "none"
  /\ StringInit /\ OutputInit /\ NoInteger /\ NoSplit

NoIterator ==
  /\ iterator = "none"
  /\ n = 0 /\ r = 0 /\ steps = 0
  /\ NoCombination /\ NoPermutation /\ NoMultidim

Init ==
  \/ TextInit /\ NoIterator
  \/ IteratorsInit /\ NoText

Next ==
  \/ TextNext /\ UNCHANGED iteratorsVars
  \/ IteratorsNext /\ UNCHANGED textVars

Spec == Init /\ [][Next]_vars
=============================================================================
