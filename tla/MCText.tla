------------------------------- MODULE MCText -------------------------------
(***************************************************************************)
(* The texts that are written, formatted and split in the runs.            *)
(***************************************************************************)
EXTENDS Text

CONSTANTS A, B    \* bytes

MCStringValues ==
  [kind : {"s8", "number", "custom"},
   text : {<< A >>, << B, A >>, << A, B, A, B >>}, fails : {FALSE}]
  \cup [kind : {"cstr"}, text : {<< >>, << B >>, << B, B >>}, fails : {FALSE}]
  \cup [kind : {"custom"}, text : {<< A >>, << A, A >>}, fails : {TRUE}]
  \cup [kind : {"number"}, text : {<< A, Skipped, B >>}, fails : {FALSE}]

MCStringArgs ==
  {[kind |-> "s8", text |-> << A, A >>, fails |-> FALSE],
   [kind |-> "number", text |-> << B, B >>, fails |-> FALSE],
   [kind |-> "custom", text |-> << B >>, fails |-> TRUE],
   [kind |-> "number", text |-> << A, B, A, B >>, fails |-> FALSE],
   Unknown}

MCOutputValues ==
  [kind : Strings, length : {0, 1, 2, 3, 4, 5}, fails : {FALSE}]
  \cup [kind : {"number"}, length : {1, 2, 3}, fails : {FALSE}]
  \cup [kind : {"custom"}, length : {2, 4}, fails : BOOLEAN]

MCOutputArgs ==
  {[kind |-> "s8", length |-> 2, fails |-> FALSE],
   [kind |-> "cstr", length |-> 2, fails |-> FALSE],
   [kind |-> "number", length |-> 2, fails |-> FALSE],
   [kind |-> "custom", length |-> 1, fails |-> TRUE],
   Unknown}

\* Two digits of a byte, and two of more.
MCDigitBytes == [d \in 0 .. 3 |-> IF d < 2 THEN 1 ELSE d]

MCIntegerSpecs ==
  [minimum_digits : 0 .. 6, always_sign : BOOLEAN, plus : {1}, minus : {2},
   separator_distance : 0 .. 3, minor_separator : {0, 2},
   padding_max : {0, 5, 9}, padding : {1}]

MCNumbers == {-70, -5, 0, 3, 6, 16, 27, 65, 255, 256}

\* All strings of up to six bytes, and delimiters that overlap themselves.
MCSplitTexts == UNION {[1 .. n -> {A, B}] : n \in 0 .. 6}

MCDelimiters == {<< A >>, << A, A >>, << A, B >>, << A, B, A >>}
=============================================================================
