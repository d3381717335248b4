---------------------------- MODULE Combinations ----------------------------
(***************************************************************************)
(* The combination iterator (combination_iterator.c): its selections are   *)
(* in ascending order.  Positions count from 1 here, elements from 0.      *)
(***************************************************************************)
EXTENDS Selections

CONSTANTS
  CombinationSizes   \* the sizes <<n, r>> that iterators are made with

\* The assertion of combination_iterator_init.
ASSUME CombinationAssumption ==
  CombinationSizes \subseteq {s \in Nat \X Nat : s[2] <= s[1]}

VARIABLES
  counters    \* the counters, at least one

combinationVars == << n, r, steps, counters >>

-----------------------------------------------------------------------------
(***************************************************************************)
(* Counts and indices                                                      *)
(***************************************************************************)

\* calculate_combination_count
CombinationCount(m, k) ==
  LET quotient[i \in Nat \ {0}] ==
        IF i = 1 THEN Falling(m, k) ELSE quotient[i - 1] \div i
  IN IF m = k \/ k = 0 THEN 1 ELSE IF k = 1 THEN m ELSE quotient[k]

\* How many selections have one of low .. high - 1 at position i, after given
\* entries in front of it.
CountBetween(low, high, i) ==
  MapThenSumSet(LAMBDA j : CombinationCount(n - 1 - j, r - i), low .. high - 1)

\* min_v, the least value of a position
Least(vals, i) == IF i = 1 THEN 0 ELSE vals[i - 1] + 1

\* combination_get_index
GetIndex(vals) ==
  MapThenSumSet(LAMBDA i : CountBetween(Least(vals, i), vals[i], i), 1 .. r)

\* combination_get_index_difference: from the first position where they differ
\* the counts of one are taken off those of the other.  There, both begin at 0.
GetIndexDifference(vals_1, vals_2) ==
  LET differ == {i \in 1 .. r : vals_1[i] # vals_2[i]}
      From(vals, i) ==
        CountBetween(IF i = Min(differ) THEN 0 ELSE Least(vals, i), vals[i], i)
  IN IF differ = {} THEN 0
     ELSE MapThenSumSet(LAMBDA i : From(vals_2, i) - From(vals_1, i),
                        Min(differ) .. r)

\* combination_set_to_index: position after position, the counts of the values
\* passed over are taken off the index; the last one takes what remains.
SetToIndex(index) ==
  LET place[i \in 0 .. r] ==
        IF i = 0 THEN [vals |-> << >>, remaining |-> index]
        ELSE
          LET before == place[i - 1]
              low == Least(before.vals, i)
              Stops(j) ==
                \/ j = n - r + i - 1
                \/ before.remaining < CountBetween(low, j + 1, i)
              v == IF i = r THEN low + before.remaining
                   ELSE Min({j \in low .. n - r + i - 1 : Stops(j)})
          IN [vals |-> Append(before.vals, v),
              remaining |-> before.remaining - CountBetween(low, v, i)]
  IN place[r].vals

-----------------------------------------------------------------------------

\* combination_iterator_reset
FirstCombination ==
  IF r = 0 THEN << 0 >> ELSE [i \in 1 .. r |-> i - 1]

CombinationInit ==
  /\ \E s \in CombinationSizes : n = s[1] /\ r = s[2]
  /\ counters = FirstCombination
  /\ steps = 0

\* combination_iterator_is_done
CombinationDone == IF r = 0 THEN counters[1] = 1 ELSE counters[r] = n

\* Faulty: the last counter may roll over one short of its end.
MayAdvanceShort(i) == counters[i] + 2 + (r - i) # n

\* A counter that is not at its last value, for the counters behind it.
MayAdvance(i) == counters[i] + 1 + (r - i) # n


\* Counter p is advanced and those behind it follow.
RolledOver(p) ==
  [j \in 1 .. r |-> IF j < p THEN counters[j] ELSE counters[p] + 1 + j - p]

\* combination_iterator_next: the last counter that may is advanced; when none
\* may, all were, and the iterator is done.
NextCombination ==
  IF r = 0 THEN counters' = << 1 >>
  ELSE \/ \E p \in 1 .. r :
            /\ MayAdvance(p)
            /\ \A i \in p + 1 .. r : ~MayAdvance(i)
            /\ counters' = RolledOver(p)
       \/ /\ \A i \in 1 .. r : ~MayAdvance(i)
          /\ counters' = [i \in 1 .. r |-> counters[i] + 1]

AdvanceCombination ==
  /\ IF CombinationDone THEN UNCHANGED << counters, steps >>
     ELSE NextCombination /\ steps' = steps + 1
  /\ UNCHANGED << n, r >>

ResetCombination ==
  /\ counters' = FirstCombination
  /\ steps' = 0
  /\ UNCHANGED << n, r >>

\* combination_iterator_set_to_index, which does nothing when r is 0.
SetCombination(index) ==
  /\ r # 0
  /\ counters' = SetToIndex(index)
  /\ steps' = index
  /\ UNCHANGED << n, r >>

CombinationNext ==
  \/ AdvanceCombination
  \/ ResetCombination
  \/ \E index \in 0 .. CombinationCount(n, r) - 1 : SetCombination(index)

CombinationSpec == CombinationInit /\ [][CombinationNext]_combinationVars

-----------------------------------------------------------------------------
(***************************************************************************)
(* Properties                                                              *)
(***************************************************************************)

\* The selections of r of n elements, by their definition.
AllCombinations ==
  {c \in [1 .. r -> 0 .. n - 1] : \A i \in 1 .. r - 1 : c[i] < c[i + 1]}

\* The counters are a selection, or the iterator is done.
CombinationTypeOK ==
  IF r = 0 THEN counters \in {<< 0 >>, << 1 >>}
  ELSE CombinationDone \/ counters \in AllCombinations

\* After as many steps as there are selections, and as the count says, and not
\* before, the iterator is done; until then the current one is that which as many precede as steps were
\* taken: all are visited, each once, in order.
CombinationRanked ==
  IF CombinationDone
  THEN steps = CombinationCount(n, r) /\ steps = Cardinality(AllCombinations)
  ELSE r # 0 => Rank(counters, AllCombinations) = steps

\* The index of the current selection is how many precede it, setting the
\* iterator to this index leads to it, and its difference to any other selection
\* is the difference of their indices.
CombinationIndices ==
  r # 0 /\ ~CombinationDone =>
    /\ GetIndex(counters) = steps
    /\ SetToIndex(steps) = counters
    /\ \A index \in 0 .. CombinationCount(n, r) - 1 :
         GetIndexDifference(SetToIndex(index), counters) = steps - index
=============================================================================
