----------------------------- MODULE Selections -----------------------------
(***************************************************************************)
(* What the combination and the permutation iterator have in common: they  *)
(* select r of the elements 0 .. n - 1, in lexicographical order, and      *)
(* count their selections by products that wrap around.                    *)
(***************************************************************************)
EXTENDS Integers, Sequences, FiniteSetsExt

CONSTANTS
  CountLimit    \* what counts wrap around at, 2^64 in the code

ASSUME SelectionsAssumption == CountLimit \in Nat \ {0}

VARIABLES
  n, r,    \* the sizes
  steps    \* how many selections precede the current one

\* A tuple of numbers comes before another one in lexicographical order.
Precedes(a, b) ==
  \E i \in 1 .. r : /\ a[i] < b[i]
                    /\ \A j \in 1 .. i - 1 : a[j] = b[j]

\* The place of a selection among all there are.
Rank(selection, all) == Cardinality({s \in all : Precedes(s, selection)})

\* Faulty: the last factor is left out.
FallingShort(m, k) ==
  LET product[i \in Nat] ==
        IF i <= 1 THEN 1 ELSE (product[i - 1] * (m - i + 2)) % CountLimit
  IN product[k]

\* m * (m - 1) * ..., of k factors
Falling(m, k) ==
  LET product[i \in Nat] ==
        IF i = 0 THEN 1 ELSE (product[i - 1] * (m - i + 1)) % CountLimit
  IN product[k]
=============================================================================
