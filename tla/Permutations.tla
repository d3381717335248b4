---------------------------- MODULE Permutations ----------------------------
(***************************************************************************)
(* The permutation iterator (permutation_iterator.c): its selections are   *)
(* the first r of all elements, which are rotated and exchanged; a cycle   *)
(* for each position counts the exchanges that are left for it.            *)
(*                                                                         *)
(* Positions count from 1 here, elements from 0.  Without any position,    *)
(* the iterator uses a cycle that is not there: r is at least 1.           *)
(***************************************************************************)
EXTENDS Selections

CONSTANTS
  PermutationSizes   \* the sizes <<n, r>> that iterators are made with

\* The assertion of permutation_iterator_init.
ASSUME PermutationAssumption ==
  PermutationSizes \subseteq {s \in Nat \X Nat : 1 <= s[2] /\ s[2] <= s[1]}

VARIABLES
  indices,    \* all elements
  cycles,     \* the cycles
  value,      \* the current selection
  defined     \* whether no index has left the arrays

permutationVars == << n, r, steps, indices, cycles, value, defined >>

-----------------------------------------------------------------------------

\* calculate_permutation_count
PermutationCount ==
  IF r = 0 THEN 1 ELSE IF r = 1 THEN n ELSE Falling(n, r)

InOrder(k) == [i \in 1 .. k |-> i - 1]
FullCycles == [i \in 1 .. r |-> n - i + 1]

PermutationInit ==
  /\ \E s \in PermutationSizes : n = s[1] /\ r = s[2]
  /\ indices = InOrder(n)
  /\ cycles = FullCycles
  /\ value = InOrder(r)
  /\ steps = 0
  /\ defined = TRUE

\* permutation_iterator_reset
ResetPermutation ==
  /\ indices' = InOrder(n)
  /\ cycles' = FullCycles
  /\ value' = InOrder(r)
  /\ steps' = 0
  /\ UNCHANGED defined

\* permutation_iterator_is_done
PermutationDone == cycles[1] = 0

\* The entries from position k on move up by one, the k-th to the end.  The
\* entry the code reads past the end is overwritten at once.
RotatedFrom(all, k) ==
  [i \in 1 .. n |-> IF i < k THEN all[i] ELSE IF i = n THEN all[k]
                    ELSE all[i + 1]]

\* All positions behind k have been rotated.
RotatedBehind(k) ==
  LET rotated[i \in 1 .. r + 1] ==
        IF i = r + 1 THEN indices ELSE RotatedFrom(rotated[i + 1], i)
  IN rotated[k + 1]


\* cycles[k] = n - k
RestartedBehind(k) ==
  [i \in 1 .. r |-> IF i > k THEN FullCycles[i] ELSE cycles[i]]

Exchanged(all, i, j) ==
  [h \in DOMAIN all |-> IF h = i THEN all[j] ELSE IF h = j THEN all[i]
                        ELSE all[h]]

\* The last position with exchanges left.
IsPivot(k) == cycles[k] # 1 /\ \A i \in k + 1 .. r : cycles[i] = 1

\* permutation_iterator_next, when some position has exchanges left
ExchangeAt(k) ==
  /\ IsPivot(k)
  /\ cycles[k] # 0
  /\ indices' = Exchanged(RotatedBehind(k), k, n - (cycles[k] - 1) + 1)
  /\ cycles' = [RestartedBehind(k) EXCEPT ![k] = @ - 1]
  /\ value' = [i \in 1 .. r |-> indices'[i]]
  /\ steps' = IF PermutationDone THEN steps ELSE steps + 1
  /\ UNCHANGED defined

\* No position has: the iterator is done.
Finish ==
  /\ \A k \in 1 .. r : cycles[k] = 1
  /\ indices' = RotatedBehind(0)
  /\ cycles' = [RestartedBehind(0) EXCEPT ![1] = 0]
  /\ steps' = steps + 1
  /\ UNCHANGED << value, defined >>

\* The iterator is done, and the callers go on until its first cycle, 0, wraps
\* around: the exchange leaves the array.
AdvanceUndefined ==
  /\ IsPivot(1)
  /\ cycles[1] = 0
  /\ defined' = FALSE
  /\ UNCHANGED << indices, cycles, value, steps >>

PermutationNext ==
  /\ defined
  /\ UNCHANGED << n, r >>
  /\ \/ \E k \in 1 .. r : ExchangeAt(k)
     \/ Finish
     \/ AdvanceUndefined
     \/ ResetPermutation

PermutationSpec == PermutationInit /\ [][PermutationNext]_permutationVars

-----------------------------------------------------------------------------

\* permutation_iterator_current_sign
Inversions(v) ==
  {p \in (1 .. r) \X (1 .. r) : p[2] < p[1] /\ v[p[1]] < v[p[2]]}
CurrentSign(v) == Cardinality(Inversions(v)) % 2

(***************************************************************************)
(* Properties                                                              *)
(***************************************************************************)

\* The arrangements of r of n elements, by their definition.
AllArrangements ==
  {a \in [1 .. r -> 0 .. n - 1] : \A i, j \in 1 .. r : i # j => a[i] # a[j]}

\* The elements remain a permutation, whose cycles never count past its end,
\* and exchanging any two entries of a selection would flip its sign.
PermutationTypeOK ==
  /\ indices \in [1 .. n -> 0 .. n - 1]
  /\ \A i, j \in 1 .. n : i # j => indices[i] # indices[j]
  /\ \A k \in 1 .. r : cycles[k] \in 0 .. n - k + 1
  /\ value \in AllArrangements
  /\ \A i, j \in 1 .. r :
       i # j => CurrentSign(Exchanged(value, i, j)) # CurrentSign(value)

\* After as many steps as there are arrangements, and not before, the iterator
\* is done, and stays so if it is advanced still; until then the current one is
\* that which as many precede as steps were taken.
PermutationRanked ==
  IF PermutationDone
  THEN steps = PermutationCount /\ steps = Cardinality(AllArrangements)
  ELSE Rank(value, AllArrangements) = steps
=============================================================================
