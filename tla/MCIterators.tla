----------------------------- MODULE MCIterators -----------------------------
(***************************************************************************)
(* The three iterators, to be model-checked: they share no state, and each *)
(* behaviour follows one.  Combinations and permutations use the same      *)
(* sizes, the permutations of as many elements as all.                     *)
(***************************************************************************)
EXTENDS Combinations, Permutations, MultidimIndex

VARIABLE iterator    \* the one that is followed

iteratorsVars ==
  << iterator, n, r, steps, counters, indices, cycles, value, defined,
     multidimVars >>

MCCombinationSizes ==
  {s \in (0 .. 6) \X (0 .. 6) : s[2] <= s[1]} \cup {<< 7, 3 >>}

MCPermutationSizes ==
  {s \in (1 .. 4) \X (1 .. 4) : s[2] <= s[1]} \cup {<< 5, 2 >>, << 5, 3 >>}

MCShapes ==
  [0 .. 0 -> 1 .. 3] \cup [0 .. 1 -> 1 .. 3] \cup [0 .. 2 -> 1 .. 2]
  \cup {[d \in 0 .. 2 |-> 3 - d], [d \in 0 .. 2 |-> d + 1]}

NoCombination == counters = << 0 >>
NoPermutation ==
  indices = << >> /\ cycles = << >> /\ value = << >> /\ defined = TRUE
NoMultidim ==
  /\ shape = [d \in 0 .. 0 |-> 1] /\ ndims = 0 /\ cells = << >>
  /\ that = << >> /\ move = Moved("allocate", 0, 0)

IteratorsInit ==
  \/ /\ iterator = "combination"
     /\ CombinationInit /\ NoPermutation /\ NoMultidim
  \/ /\ iterator = "permutation"
     /\ PermutationInit /\ NoCombination /\ NoMultidim
  \/ /\ iterator = "multidim"
     /\ n = 0 /\ r = 0 /\ steps = 0
     /\ MultidimInit /\ NoCombination /\ NoPermutation

IteratorsNext ==
  /\ UNCHANGED iterator
  /\ \/ /\ iterator = "combination" /\ CombinationNext
        /\ UNCHANGED << indices, cycles, value, defined, multidimVars >>
     \/ /\ iterator = "permutation" /\ PermutationNext
        /\ UNCHANGED << counters, multidimVars >>
     \/ /\ iterator = "multidim" /\ MultidimNext
        /\ UNCHANGED << n, r, steps, counters, indices, cycles, value, defined >>

IteratorsSpec == IteratorsInit /\ [][IteratorsNext]_iteratorsVars


CombinationsRanked == iterator = "combination" => CombinationRanked
CombinationsIndexed == iterator = "combination" => CombinationIndices
=============================================================================
