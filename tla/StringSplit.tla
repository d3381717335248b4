---------------------------- MODULE StringSplit ----------------------------
(***************************************************************************)
(* Splitting a string at each occurrence of a delimiter (string8_split of  *)
(* strings.c), section by section.  All sections are counted, those that   *)
(* the array has room for are kept.                                        *)
(***************************************************************************)
EXTENDS Integers, SequencesExt

CONSTANTS
  Characters,     \* the bytes of strings
  SplitTexts,     \* the strings that are split
  Delimiters,     \* the delimiters
  MaxSections     \* bound: the room in arrays

\* An empty delimiter is found at once, and the split never ends.
ASSUME StringSplitAssumption ==
  /\ MaxSections \in Nat
  /\ SplitTexts \cup Delimiters \subseteq Seq(Characters)
  /\ \A delim \in Delimiters : Len(delim) \in Nat \ {0}

VARIABLES
  str,          \* what remains of the string
  delimiter,
  room_count,   \* max_output_count
  output,       \* output_array
  count,        \* output_count
  splitOf       \* the string that is split, and whether it has been

splitVars == << str, delimiter, room_count, output, count, splitOf >>

SplitInit ==
  /\ str \in SplitTexts
  /\ delimiter \in Delimiters
  /\ room_count \in 0 .. MaxSections
  /\ output = << >>
  /\ count = 0
  /\ splitOf = [text |-> str, done |-> FALSE]

-----------------------------------------------------------------------------

NotFound == -1

Occurrences(string, substr) ==
  {p \in 0 .. Len(string) - Len(substr) :
     SubSeq(string, p + 1, p + Len(substr)) = substr}

\* Faulty: the loop ends before the last place.
HasSubstringShort(string, substr) ==
  LET found == Occurrences(string, substr) \ {Len(string) - Len(substr)}
  IN IF found = {} THEN NotFound ELSE Min(found)

\* string8_has_substring
HasSubstring(string, substr) ==
  LET found == Occurrences(string, substr)
  IN IF found = {} THEN NotFound ELSE Min(found)

\* string8_advance
Advanced(string, n) == SubSeq(string, n + 1, Len(string))

Outputs(section) ==
  /\ output' = IF count < room_count THEN Append(output, section) ELSE output
  /\ count' = count + 1
  /\ UNCHANGED << delimiter, room_count >>

\* Whether the loop goes on.
IsFound == str # << >> /\ HasSubstring(str, delimiter) # NotFound

SplitSlice ==
  /\ ~splitOf.done
  /\ IsFound
  /\ LET at == HasSubstring(str, delimiter)
     IN /\ Outputs(SubSeq(str, 1, at))
        /\ str' = Advanced(str, at + Len(delimiter))
  /\ UNCHANGED splitOf

SplitLast ==
  /\ ~splitOf.done
  /\ ~IsFound
  /\ Outputs(str)
  /\ splitOf' = [splitOf EXCEPT !.done = TRUE]
  /\ UNCHANGED str

SplitNext == SplitSlice \/ SplitLast

SplitSpec == SplitInit /\ [][SplitNext]_splitVars

-----------------------------------------------------------------------------
(***************************************************************************)
(* Properties                                                              *)
(***************************************************************************)

\* The sections, each with a delimiter behind it.
Rejoined ==
  FlattenSeq([i \in DOMAIN output |-> output[i] \o delimiter])

\* Places of a delimiter, no two of which overlap.
IsApart(places, delim) ==
  \A p, q \in places : p < q => q - p >= Len(delim)

\* How many delimiters there are, no two overlapping, at most.
MostDelimiters ==
  LET all == Occurrences(splitOf.text, delimiter)
  IN Max({Cardinality(s) : s \in {t \in SUBSET all : IsApart(t, delimiter)}})

\* The sections and the delimiters between them are the string, as far as the
\* array has room; no section has a delimiter in it; and "one more than the
\* number of delimiters" (strings.h) is counted, room or not.
SplitExact ==
  splitOf.done =>
    /\ count = MostDelimiters + 1
    /\ Len(output) = Min({count, room_count})
    /\ \A i \in DOMAIN output : Occurrences(output[i], delimiter) = {}
    /\ IF count <= room_count THEN Rejoined = splitOf.text \o delimiter
                              ELSE IsPrefix(Rejoined, splitOf.text)
=============================================================================
