---------------------------- MODULE MultidimIndex ----------------------------
(***************************************************************************)
(* The multi-dimensional iterator (multidim_iteration.c): an offset in     *)
(* each of some dimensions, the last of which varies fastest.              *)
(*                                                                         *)
(* The dimensions and the offsets lie one behind the other in the array    *)
(* dims_and_offsets, where the offsets move as dimensions are added one by *)
(* one.  The position behind the last one has all offsets at their last    *)
(* but that of the last dimension, which is one more.                      *)
(***************************************************************************)
EXTENDS Integers, FiniteSets

CONSTANTS
  Shapes,    \* the sizes of the dimensions, from 0
  MaxStep,   \* bound: how far callers move at once
  Junk       \* what was in memory before

\* A dimension of no size is divided by; without dimensions there is no last.
ASSUME MultidimAssumption ==
  /\ MaxStep \in Nat
  /\ \A s \in Shapes :
       /\ Cardinality(DOMAIN s) \in Nat \ {0}
       /\ s \in [0 .. Cardinality(DOMAIN s) - 1 -> Nat \ {0}]

VARIABLES
  shape,    \* the sizes the iterator is made for
  ndims,    \* how many of them it has been given
  cells,    \* dims_and_offsets
  that,     \* that of another iterator, which it is copied to and from
  move      \* the last call: its name, dimension and step

multidimVars == << shape, ndims, cells, that, move >>

Moved(op, dim, step) == [op |-> op, dim |-> dim, step |-> step]

-----------------------------------------------------------------------------

Dims == DOMAIN shape
LastDim == ndims - 1

Dim(d) == cells[d]
Offset(d) == cells[ndims + d]

\* All dimensions were given.
Complete == ndims = Cardinality(Dims)

\* The cells, with the offsets given.
WithOffsets(offset) ==
  [c \in DOMAIN cells |->
     IF c - ndims \in Dims THEN offset[c - ndims] ELSE cells[c]]

Start == [d \in Dims |-> 0]

\* multidim_iterator_set_to_end
AtLast == [d \in Dims |-> IF d = LastDim THEN Dim(d) ELSE Dim(d) - 1]

\* Memory for all the dimensions, not written yet.
MultidimInit ==
  /\ shape \in Shapes
  /\ ndims = 0
  /\ cells = [c \in 0 .. 2 * Cardinality(Dims) - 1 |-> Junk]
  /\ that = Start
  /\ move = Moved("allocate", 0, 0)

\* The cells of the offsets that multidim_iterator_init_dim sets.
OffsetsSet(dim) == {2 * dim + 1} \cup (IF dim > 0 THEN {2 * dim} ELSE {})

\* multidim_iterator_init_dim, called for each dimension from the first
InitDim ==
  /\ ndims \in Dims
  /\ ndims' = ndims + 1
  /\ cells' = [c \in DOMAIN cells |->
                 IF c = ndims THEN shape[ndims]
                 ELSE IF c \in OffsetsSet(ndims) THEN 0 ELSE cells[c]]
  /\ move' = Moved("init", ndims, 0)
  /\ UNCHANGED << shape, that >>

\* multidim_iterator_init
InitAll ==
  /\ ndims' = Cardinality(Dims)
  /\ cells' = [c \in DOMAIN cells |-> IF c \in Dims THEN shape[c] ELSE 0]
  /\ move' = Moved("init", LastDim', 0)
  /\ UNCHANGED << shape, that >>

-----------------------------------------------------------------------------

\* How far each dimension up to dim is advanced: the carry out of the next.
Carry(dim, step) ==
  LET carry[d \in 0 .. dim] ==
        IF d = dim THEN step ELSE (Offset(d + 1) + carry[d + 1]) \div Dim(d + 1)
  IN carry

\* Faulty: what is carried is lost.
AdvancedUncarried(dim, step) ==
  [d \in Dims |->
     IF d = dim THEN (Offset(d) + step) % Dim(d) ELSE Offset(d)]

AdvancedBy(dim, step) ==
  LET carry == Carry(dim, step)
  IN IF Offset(0) + carry[0] >= Dim(0) THEN AtLast
     ELSE [d \in Dims |-> IF d > dim THEN Offset(d)
                          ELSE (Offset(d) + carry[d]) % Dim(d)]

\* multidim_iterator_advance
Advance(dim, step) ==
  /\ Complete
  /\ cells' = WithOffsets(AdvancedBy(dim, step))
  /\ move' = Moved("advance", dim, step)
  /\ UNCHANGED << shape, ndims, that >>

CeilingDiv(a, b) == (a + b - 1) \div b

\* How far each dimension up to dim recedes: what the next one borrows.
Borrow(dim, step) ==
  LET borrow[d \in 0 .. dim] ==
        IF d = dim THEN step
        ELSE IF borrow[d + 1] <= Offset(d + 1) THEN 0
             ELSE CeilingDiv(borrow[d + 1] - Offset(d + 1), Dim(d + 1))
  IN borrow

RecededBy(dim, step) ==
  LET borrow == Borrow(dim, step)
      Borrowed(d) == IF d = 0 THEN 0 ELSE borrow[d - 1] * Dim(d)
  IN IF borrow[0] > Offset(0) THEN Start
     ELSE [d \in Dims |-> IF d > dim THEN Offset(d)
                          ELSE Offset(d) + Borrowed(d) - borrow[d]]

\* multidim_iterator_recede
Recede(dim, step) ==
  /\ Complete
  /\ cells' = WithOffsets(RecededBy(dim, step))
  /\ move' = Moved("recede", dim, step)
  /\ UNCHANGED << shape, ndims, that >>

\* multidim_iterator_set_to_start, multidim_iterator_set_to_end
SetTo(op, offset) ==
  /\ Complete
  /\ cells' = WithOffsets(offset)
  /\ move' = Moved(op, 0, 0)
  /\ UNCHANGED << shape, ndims, that >>

\* multidim_iterator_copy, to an iterator of the same dimensions
CopyTo ==
  /\ Complete
  /\ that' = [d \in Dims |-> Offset(d)]
  /\ move' = Moved("copy", 0, 0)
  /\ UNCHANGED << shape, ndims, cells >>

MultidimNext ==
  \/ InitDim
  \/ InitAll
  \/ \E dim \in Dims, step \in 0 .. MaxStep :
       Advance(dim, step) \/ Recede(dim, step)
  \/ SetTo("start", Start)
  \/ SetTo("end", AtLast)
  \/ CopyTo
  \/ SetTo("copy back", that)

MultidimSpec == MultidimInit /\ [][MultidimNext]_multidimVars

-----------------------------------------------------------------------------
(***************************************************************************)
(* Properties                                                              *)
(***************************************************************************)

\* multidim_iterator_get_flat_index
FlatIndexOf(offset) ==
  LET index[i \in 0 .. ndims] ==
        IF i = 0 THEN 0 ELSE index[i - 1] * Dim(i - 1) + offset[i - 1]
  IN index[ndims]

FlatIndex == FlatIndexOf([d \in Dims |-> Offset(d)])

\* multidim_iterator_total_size
TotalSize ==
  LET size[i \in 0 .. ndims] == IF i = 0 THEN 1 ELSE size[i - 1] * Dim(i - 1)
  IN size[ndims]

\* How much the flat index grows by a step in a dimension.
Stride(dim) ==
  LET stride[d \in 0 .. LastDim] ==
        IF d = LastDim THEN 1 ELSE stride[d + 1] * Dim(d + 1)
  IN stride[dim]

\* multidim_iterator_is_at_start, multidim_iterator_is_at_end
IsAtStart == \A d \in Dims : Offset(d) = 0
IsAtEnd == \A d \in Dims : Offset(d) = AtLast[d]

\* However the dimensions were given, they are those that were asked for, and
\* each offset lies within its dimension; only that of the last may be behind
\* it, as the end is, and as what recedes from the end in another dimension.
MultidimTypeOK ==
  Complete =>
    \A d \in Dims :
      /\ Dim(d) = shape[d]
      /\ Offset(d) \in 0 .. (IF d = LastDim THEN Dim(d) ELSE Dim(d) - 1)

\* Advancing and receding, in whatever dimensions and across however many of
\* them, is adding and subtracting in the flat index, which stops at the ends;
\* it is at an end just when the iterator says so.
MultidimMoves ==
  [][Complete' =>
       /\ FlatIndex' =
            CASE move'.op = "advance" ->
                   LET to == FlatIndex + move'.step * Stride(move'.dim)
                   IN IF to > TotalSize THEN TotalSize ELSE to
              [] move'.op = "recede" ->
                   LET to == FlatIndex - move'.step * Stride(move'.dim)
                   IN IF to < 0 THEN 0 ELSE to
              [] move'.op \in {"init", "start"} -> 0
              [] move'.op = "end" -> TotalSize
              [] move'.op = "copy" -> FlatIndex
              [] move'.op = "copy back" -> FlatIndexOf(that)
       /\ IsAtStart' = (FlatIndex' = 0)
       /\ IsAtEnd' = (FlatIndex' = TotalSize')
    ]_multidimVars
=============================================================================
