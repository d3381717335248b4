------------------------------- MODULE TextLog -------------------------------
(***************************************************************************)
(* What a stream of cutl promises the code that writes to it: the text is  *)
(* all that was written with success, in the order it was written; a write *)
(* that fails leaves no part of itself; and only the caller takes text     *)
(* back, by rolling a string stream back to a position it was at           *)
(* (string_stream.h, output_stream.h).  What stands where a number skipped *)
(* a byte is not promised.                                                 *)
(***************************************************************************)
EXTENDS Sequences, Integers

CONSTANT Skipped    \* a byte that is not written, though there is space for it

VARIABLES
  text,   \* what was written to the stream
  ret     \* the last call: its name, the text or position it was given, and
          \* its status

Init == text = << >>

-----------------------------------------------------------------------------

Writes == {"s8", "cstr", "number", "custom"}

Appends(bytes) ==
  /\ Len(text') = Len(text) + Len(bytes)
  /\ \A i \in 1 .. Len(text) : text'[i] = text[i]
  /\ \A i \in 1 .. Len(bytes) :
       bytes[i] # Skipped => text'[Len(text) + i] = bytes[i]

Write ==
  /\ ret'.op \in Writes
  /\ IF ret'.status = "SUCCESS" THEN Appends(ret'.arg) ELSE UNCHANGED text

RollBack ==
  /\ ret'.op = "set_pos"
  /\ text' = IF ret'.status = "SUCCESS" THEN SubSeq(text, 1, ret'.arg)
                                        ELSE text

\* Beginning and ending a call of format, and flushing, write nothing.
Observe ==
  /\ ret'.op \in {"format", "flush"}
  /\ UNCHANGED text

\* Behaviour that C leaves undefined promises nothing.
Fails == ret'.status = "UNDEFINED"

Next == Write \/ RollBack \/ Observe \/ Fails

Spec == Init /\ [][Next]_<< text, ret >>
=============================================================================
