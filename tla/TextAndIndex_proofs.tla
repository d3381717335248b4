------------------------ MODULE TextAndIndex_proofs ------------------------
(***************************************************************************)
(* The two streams, the formatting of an integer and the splitting of a    *)
(* string, whatever the sizes of the buffers, the values, the formats, the *)
(* strings and the failures of the file.                                   *)
(*                                                                         *)
(* The string stream keeps its log.  Its inductive invariant adds to the   *)
(* types that the list of a format call which is under way ends with       *)
(* FMT_END, so that what the loop takes from it is a value that a caller   *)
(* gave.                                                                   *)
(*                                                                         *)
(* Every outcome of an operation of the output stream keeps all that was   *)
(* in the file and in the buffer, and unless the file fails appends an end *)
(* of what was given to them: the whole of it if the write succeeds, but   *)
(* for a string8_t that does not fit.  Its invariants follow from that.    *)
(*                                                                         *)
(* An integer is written backwards from the end of the space that its      *)
(* length function asks for.  The inductive invariant says, of every step, *)
(* that the space left is what the digits, the separators and the zeros    *)
(* that are still to come need, counted as the length function counts      *)
(* them; the counter is what the place of a digit in its group says.       *)
(*                                                                         *)
(* The sections of a string and the delimiters between them are the string *)
(* (Kept), and no choice of delimiters that do not overlap has more of     *)
(* them so far than the split has found (Greedy): taking the first that    *)
(* occurs is taking the most.                                              *)
(*                                                                         *)
(* Last, the multi-dimensional iterator, whatever its dimensions and the   *)
(* steps.  What the offsets count is added up dimension by dimension; a    *)
(* carry, or a borrow, in a dimension counts what is added, or taken, in   *)
(* the one behind it and in all those behind that.                         *)
(***************************************************************************)
EXTENDS Text, MultidimIndex, SequenceTheorems, FiniteSetTheorems, TLAPS

Lemmas == INSTANCE AllocatorLayout_proofs
            WITH Alignment <- 1, GuardBytes <- 0, SizeLimit <- 1

LEMMA SameEnd ==
  ASSUME NEW m \in Nat, NEW n \in Nat, 1 .. m = 1 .. n
  PROVE  m = n
<1>1. m <= n
  <2>1. m = 0 \/ m \in 1 .. n
    OBVIOUS
  <2> QED
    BY <2>1
<1>2. n <= m
  <2>1. n = 0 \/ n \in 1 .. m
    OBVIOUS
  <2> QED
    BY <2>1
<1> QED
  BY <1>1, <1>2

-----------------------------------------------------------------------------
(***************************************************************************)
(* The string stream                                                       *)
(***************************************************************************)

BufferBytes == Bytes \cup {Garbage}

StringListEnds ==
  \/ call = Idle
  \/ \E args \in Seq(StringArgs) : call.args = Append(args, End)

StringInv == StringTypeOK /\ StringListEnds

\* A value whose text the streams write.
Textual(value) ==
  value.kind \in Strings \cup Formatted
    => value.text \in Seq(Bytes \cup {Skipped})

\* The buffer and the position once text is written, within the buffer or not.
Appended(text) ==
  /\ buffer' = Copied(text)
  /\ pos' = pos + Len(text)

-----------------------------------------------------------------------------

\* The loop of format takes values that callers gave, and leaves the list
\* ending with FMT_END.
LEMMA StringFormatLoop ==
  ASSUME StringInv, IsLooping(call)
  PROVE  /\ Head(call.args) \in StringArgs
         /\ \E args \in Seq(StringArgs) : Tail(call.args) = Append(args, End)
<1>1. PICK args \in Seq(StringArgs) : call.args = Append(args, End)
  BY DEF StringInv, StringListEnds, IsLooping
<1>2. /\ Head(call.args) = IF args = << >> THEN End ELSE Head(args)
      /\ Tail(call.args) = IF args = << >> THEN << >>
                                           ELSE Append(Tail(args), End)
  BY <1>1, HeadTailAppend
<1>3. args # << >>
  BY <1>2 DEF IsLooping
<1>4. Head(args) \in StringArgs /\ Tail(args) \in Seq(StringArgs)
  BY <1>3, HeadTailProperties
<1> QED
  BY <1>2, <1>3, <1>4

LEMMA SingleTextual ==
  ASSUME NEW value \in StringValues \cup StringArgs
  PROVE  Textual(value)
<1>1. CASE value \in StringWritable
  BY <1>1 DEF StringWritable, Textual
<1>2. CASE value = Unknown
  BY <1>2 DEF Unknown, Textual, Strings, Formatted
<1> QED
  BY <1>1, <1>2, StringStreamAssumption

\* The first elements of a function are a sequence.
LEMMA PrefixType ==
  ASSUME NEW S, NEW n \in Nat, NEW f, \A i \in 1 .. n : f[i] \in S
  PROVE  /\ [i \in 1 .. n |-> f[i]] \in Seq(S)
         /\ Len([i \in 1 .. n |-> f[i]]) = n
<1> DEFINE s == [i \in 1 .. n |-> f[i]]
<1>1. s \in [1 .. n -> S]
  OBVIOUS
<1>2. s \in Seq(S)
  BY <1>1, SeqDef
<1>3. DOMAIN s = 1 .. Len(s) /\ Len(s) \in Nat
  BY <1>2, LenProperties
<1>4. DOMAIN s = 1 .. n
  OBVIOUS
<1> HIDE DEF s
<1>5. Len(s) = n
  BY <1>3, <1>4, SameEnd
<1> QED
  BY <1>2, <1>5 DEF s

\* The text is a sequence of bytes as long as the position.
LEMMA TextType ==
  ASSUME StringTypeOK
  PROVE  /\ pos \in Nat
         /\ Text \in Seq(BufferBytes)
         /\ Len(Text) = pos
<1> DEFINE byte == [i \in 1 .. pos |-> IF i \in DOMAIN buffer THEN buffer[i]
                                                           ELSE Garbage]
<1>1. pos \in Nat /\ \A i \in DOMAIN buffer : buffer[i] \in BufferBytes
  BY StringStreamAssumption DEF StringTypeOK, BufferBytes
<1>2. \A i \in 1 .. pos : byte[i] \in BufferBytes
  BY <1>1 DEF BufferBytes
<1>3. Text = [i \in 1 .. pos |-> byte[i]]
  BY DEF Text
<1> HIDE DEF byte
<1> QED
  BY <1>1, <1>2, <1>3, PrefixType

\* Within the buffer, the text is what the buffer holds.
LEMMA TextElements ==
  ASSUME StringTypeOK, pos <= StringSize
  PROVE  \A i \in 1 .. pos : Text[i] = buffer[i]
<1>1. DOMAIN buffer = 1 .. StringSize
  BY DEF StringTypeOK
<1>2. \A i \in 1 .. pos : i \in DOMAIN buffer
  BY <1>1, StringStreamAssumption DEF StringTypeOK
<1> QED
  BY <1>2 DEF Text

\* What is written leaves bytes in the buffer, wherever it ends.
LEMMA CopiedType ==
  ASSUME StringTypeOK, NEW text \in Seq(BufferBytes \cup {Skipped})
  PROVE  /\ Copied(text) \in [1 .. StringSize -> BufferBytes]
         /\ pos + Len(text) \in Nat
<1>1. Len(text) \in Nat /\ pos \in Nat /\ StringSize \in Nat
  BY LenProperties, StringStreamAssumption DEF StringTypeOK
<1>2. \A i \in 1 .. Len(text) : text[i] \in BufferBytes \cup {Skipped}
  BY ElementOfSeq
<1>3. ASSUME NEW i \in 1 .. StringSize, i \in pos + 1 .. pos + Len(text),
             text[i - pos] # Skipped
      PROVE  text[i - pos] \in BufferBytes
  <2>1. i - pos \in 1 .. Len(text)
    BY <1>1, <1>3
  <2> QED
    BY <2>1, <1>2, <1>3
<1>4. Copied(text) \in [1 .. StringSize -> BufferBytes]
  BY <1>3 DEF Copied, StringTypeOK, BufferBytes
<1> QED
  BY <1>1, <1>4

\* Writing text at the position and moving the position past it appends it.
LEMMA AppendsText ==
  ASSUME StringTypeOK, StringTypeOK', pos' <= StringSize,
         NEW text \in Seq(Bytes \cup {Skipped}), Appended(text)
  PROVE  Log!Appends(text)
<1>1. /\ pos \in Nat /\ StringSize \in Nat /\ Len(text) \in Nat
      /\ pos' = pos + Len(text) /\ pos' <= StringSize
  BY LenProperties, StringStreamAssumption DEF StringTypeOK, Appended
<1>2. pos <= StringSize
  BY <1>1
<1>3. Len(Text) = pos /\ \A i \in 1 .. pos : Text[i] = buffer[i]
  BY <1>2, TextType, TextElements
<1>4. Len(Text') = pos' /\ \A i \in 1 .. pos' : Text'[i] = buffer'[i]
  <2>1. DOMAIN buffer' = 1 .. StringSize
    BY DEF StringTypeOK
  <2>2. \A i \in 1 .. pos' : i \in DOMAIN buffer'
    BY <2>1, <1>1
  <2>3. \A i \in 1 .. pos' : buffer'[i] \in BufferBytes
    BY <1>1, <2>2 DEF StringTypeOK, BufferBytes
  <2>4. Text' = [i \in 1 .. pos' |-> buffer'[i]]
    BY <2>2 DEF Text
  <2>5. pos' \in Nat
    BY <1>1
  <2> QED
    BY <2>3, <2>4, <2>5, PrefixType
<1>5. ASSUME NEW i \in 1 .. StringSize
      PROVE  buffer'[i] = IF /\ i \in pos + 1 .. pos + Len(text)
                             /\ text[i - pos] # Skipped
                          THEN text[i - pos] ELSE buffer[i]
  BY DEF Appended, Copied
<1>6. Len(Text') = Len(Text) + Len(text)
  BY <1>1, <1>3, <1>4
<1>7. ASSUME NEW i \in 1 .. pos
      PROVE  Text'[i] = Text[i]
  <2>1. i \in 1 .. StringSize /\ i \in 1 .. pos' /\ i \notin pos + 1 .. pos + Len(text)
    BY <1>1
  <2> QED
    BY <2>1, <1>3, <1>4, <1>5
<1>8. ASSUME NEW i \in 1 .. Len(text), text[i] # Skipped
      PROVE  Text'[pos + i] = text[i]
  <2>1. /\ pos + i \in 1 .. StringSize /\ pos + i \in 1 .. pos'
        /\ pos + i \in pos + 1 .. pos + Len(text) /\ (pos + i) - pos = i
    BY <1>1
  <2> QED
    BY <2>1, <1>4, <1>5, <1>8
<1> QED
  BY <1>3, <1>6, <1>7, <1>8 DEF Log!Appends

-----------------------------------------------------------------------------

\* A call of format that is under way stays one of values that were given.
LEMMA ReturnsKeepsCall ==
  ASSUME StringInv, NEW value, NEW status, Returns(value, status),
         call = Idle \/ IsLooping(call)
  PROVE  StringListEnds'
<1>1. CASE call = Idle
  BY <1>1 DEF Returns, StringListEnds
<1>2. CASE call # Idle /\ IsLooping(call)
  <2>1. call'.args = Tail(call.args)
    BY <1>2 DEF Returns, Progress
  <2>2. \E args \in Seq(StringArgs) : Tail(call.args) = Append(args, End)
    BY <1>2, StringFormatLoop
  <2> QED
    BY <2>1, <2>2 DEF StringListEnds
<1> QED
  BY <1>1, <1>2

\* A write that leaves the text alone, and is not answered with success, keeps
\* the invariant and is a step of the log.
LEMMA RefusedStep ==
  ASSUME StringInv, ret.status # "UNDEFINED",
         NEW value, value.kind \in Strings \cup Formatted,
         NEW status, status # "SUCCESS", Refused(value, status),
         call = Idle \/ IsLooping(call)
  PROVE  StringInv' /\ Log!Next
<1>1. StringTypeOK' /\ Text' = Text
  BY DEF StringInv, Refused, StringTypeOK, Text
<1>2. StringListEnds'
  BY ReturnsKeepsCall DEF Refused
<1>3. ret'.op = value.kind /\ ret'.status = status
  BY DEF Refused, Returns, Answer
<1>4. Log!Write
  BY <1>1, <1>3 DEF Log!Write, Log!Writes, Strings, Formatted
<1> QED
  BY <1>1, <1>2, <1>4 DEF StringInv, Log!Next

\* A write that does not fail keeps the invariant and is a step of the log,
\* also one that overflows, after which nothing is promised.
LEMMA WrittenStep ==
  ASSUME StringInv, NEW value, Textual(value), value.kind \in Strings \cup Formatted,
         Written(value), call = Idle \/ IsLooping(call)
  PROVE  StringInv' /\ Log!Next
<1>1. /\ value.text \in Seq(Bytes \cup {Skipped})
      /\ value.text \in Seq(BufferBytes \cup {Skipped})
  BY SeqMonotonic DEF Textual, BufferBytes
<1>2. /\ buffer' = Copied(value.text) /\ pos' = pos + Len(value.text)
      /\ ret'.op = value.kind /\ ret'.arg = value.text
      /\ ret'.status = Unless(value, "SUCCESS")
  BY DEF Written, Returns, Answer
<1>3. pos \in Nat /\ StringSize \in Nat /\ Len(value.text) \in Nat
  BY <1>1, LenProperties, StringStreamAssumption DEF StringInv, StringTypeOK
<1>4. ret'.status # "UNDEFINED" => pos' <= StringSize
  BY <1>2, <1>3 DEF Unless, Overflows, Remaining
<1>5. StringTypeOK'
  BY <1>1, <1>2, <1>4, CopiedType DEF StringInv, StringTypeOK, BufferBytes
<1>6. StringListEnds'
  BY ReturnsKeepsCall DEF Written
<1>7. CASE Overflows(value)
  <2>1. Log!Fails
    BY <1>2, <1>7 DEF Log!Fails, Unless
  <2> QED
    BY <1>5, <1>6, <2>1 DEF StringInv, Log!Next
<1>8. CASE ~Overflows(value)
  <2>1. ret'.status = "SUCCESS"
    BY <1>2, <1>8 DEF Unless
  <2>2. pos' <= StringSize
    BY <1>4, <2>1
  <2>3. Log!Appends(value.text)
    BY <1>1, <1>2, <1>5, <2>2, AppendsText DEF StringInv, Appended
  <2>4. Log!Write
    BY <1>2, <2>1, <2>3 DEF Log!Write, Log!Writes, Strings, Formatted
  <2> QED
    BY <1>5, <1>6, <2>4 DEF StringInv, Log!Next
<1> QED
  BY <1>7, <1>8

\* A formatter that fails may have written past the position, and leaves the
\* text before it alone.
LEMMA FailsStep ==
  ASSUME StringInv, ret.status # "UNDEFINED", NEW value, Textual(value),
         WriteFails(value), call = Idle \/ IsLooping(call)
  PROVE  StringInv' /\ Log!Next
<1> DEFINE scraps == [i \in 1 .. Len(value.text) |-> Garbage]
<1>1. value.kind \in Strings \cup Formatted /\ Len(value.text) \in Nat
  BY LenProperties DEF WriteFails, Textual
<1>2. scraps \in Seq(BufferBytes \cup {Skipped})
  <2>1. scraps \in [1 .. Len(value.text) -> BufferBytes \cup {Skipped}]
    BY DEF BufferBytes
  <2> QED
    BY <1>1, <2>1, SeqDef
<1> HIDE DEF scraps
<1>3. buffer' = Copied(scraps) /\ pos' = pos
  BY DEF WriteFails, PositionAfterFailure, scraps
<1>4. pos \in Nat /\ pos <= StringSize /\ StringSize \in Nat
  BY StringStreamAssumption DEF StringInv, StringTypeOK
<1>5. StringTypeOK'
  BY <1>2, <1>3, <1>4, CopiedType DEF StringInv, StringTypeOK, BufferBytes
<1>6. Text' = Text
  <2>1. DOMAIN buffer' = 1 .. StringSize /\ DOMAIN buffer = 1 .. StringSize
    BY <1>5 DEF StringInv, StringTypeOK
  <2>2. \A i \in 1 .. pos : i \in 1 .. StringSize /\ buffer'[i] = buffer[i]
    BY <1>3, <1>4 DEF Copied
  <2> QED
    BY <1>3, <2>1, <2>2 DEF Text
<1>7. ret'.op = value.kind /\ ret'.status = Unless(value, "CALLBACK_FAILURE")
  BY DEF WriteFails, Returns, Answer
<1>8. StringListEnds'
  BY ReturnsKeepsCall DEF WriteFails
<1>9. Log!Write
  BY <1>1, <1>6, <1>7 DEF Log!Write, Log!Writes, Strings, Formatted, Unless
<1> QED
  BY <1>5, <1>8, <1>9 DEF StringInv, Log!Next

LEMMA StringWriteStep ==
  ASSUME StringInv, ret.status # "UNDEFINED", NEW value, Textual(value),
         Write(value), call = Idle \/ IsLooping(call)
  PROVE  StringInv' /\ Log!Next
<1>1. CASE WriteString(value)
  <2>1. value.kind \in Strings \cup Formatted
    BY <1>1 DEF WriteString
  <2>2. CASE Remaining < Len(value.text)
    BY <1>1, <2>1, <2>2, RefusedStep DEF WriteString
  <2>3. CASE ~(Remaining < Len(value.text))
    BY <1>1, <2>1, <2>3, WrittenStep DEF WriteString
  <2> QED
    BY <2>2, <2>3
<1>2. CASE WriteRefused(value)
  BY <1>2, RefusedStep DEF WriteRefused
<1>3. CASE WriteFormatted(value)
  BY <1>3, WrittenStep DEF WriteFormatted
<1>4. CASE WriteFails(value)
  BY <1>4, FailsStep
<1> QED
  BY <1>1, <1>2, <1>3, <1>4 DEF Write

-----------------------------------------------------------------------------

\* A call, a return and a value of unknown type leave the text alone.
LEMMA StringObserveStep ==
  ASSUME StringInv, ret.status # "UNDEFINED", UNCHANGED << buffer, pos >>, NEW status,
         ret' = Answer("format", << >>, status)
  PROVE  StringTypeOK' /\ Log!Next
<1>1. StringTypeOK' /\ Text' = Text
  BY DEF StringInv, StringTypeOK, Text
<1>2. Log!Observe
  BY <1>1 DEF Log!Observe, Answer
<1> QED
  BY <1>1, <1>2 DEF Log!Next

LEMMA SetPosStep ==
  ASSUME StringInv, ret.status # "UNDEFINED", NEW p \in 0 .. StringSize, SetPos(p)
  PROVE  StringInv' /\ Log!Next
<1>1. pos \in Nat /\ pos <= StringSize /\ StringSize \in Nat
  BY StringStreamAssumption DEF StringInv, StringTypeOK
<1>2. StringListEnds'
  BY DEF StringInv, StringListEnds, SetPos
<1>3. CASE p > pos
  <2>1. StringTypeOK' /\ Text' = Text
    BY <1>3 DEF StringInv, StringTypeOK, Text, SetPos
  <2>2. Log!RollBack
    BY <1>3, <2>1 DEF Log!RollBack, SetPos, Answer
  <2> QED
    BY <1>2, <2>1, <2>2 DEF StringInv, Log!Next
<1>4. CASE ~(p > pos)
  <2>1. p \in 0 .. pos /\ pos' = p /\ buffer' = buffer
    BY <1>1, <1>4 DEF SetPos
  <2>2. StringTypeOK'
    BY <1>1, <2>1 DEF StringInv, StringTypeOK
  <2>3. Text' = SubSeq(Text, 1, p)
    <3>1. /\ Text \in Seq(BufferBytes) /\ Len(Text) = pos
          /\ \A i \in 1 .. pos : Text[i] = buffer[i]
      BY <1>1, TextType, TextElements DEF StringInv
    <3>2. /\ Text' \in Seq(BufferBytes) /\ Len(Text') = p
          /\ \A i \in 1 .. p : Text'[i] = buffer[i]
      <4>1. p \in Nat /\ \A i \in 1 .. p : buffer[i] \in BufferBytes
        BY <1>1, <2>1 DEF StringInv, StringTypeOK, BufferBytes
      <4>2. \A i \in 1 .. p : i \in DOMAIN buffer
        BY <1>1, <2>1 DEF StringInv, StringTypeOK
      <4>3. Text' = [i \in 1 .. p |-> buffer[i]]
        BY <2>1, <4>2 DEF Text
      <4> QED
        BY <4>1, <4>3, PrefixType
    <3>3. \A i \in 1 .. p : Text[i] \in BufferBytes
      BY <1>1, <2>1, <3>1 DEF StringInv, StringTypeOK, BufferBytes
    <3>4. /\ SubSeq(Text, 1, p) \in Seq(BufferBytes)
          /\ Len(SubSeq(Text, 1, p)) = IF 1 <= p THEN p - 1 + 1 ELSE 0
          /\ \A i \in 1 .. p - 1 + 1 : SubSeq(Text, 1, p)[i] = Text[1 + i - 1]
      BY <3>3, SubSeqProperties
    <3>5. Len(Text') = Len(SubSeq(Text, 1, p))
      BY <2>1, <3>2, <3>4, <1>1
    <3>6. ASSUME NEW i \in 1 .. p
          PROVE  Text'[i] = SubSeq(Text, 1, p)[i]
      BY <1>1, <2>1, <3>1, <3>2, <3>4
    <3> QED
      BY <3>2, <3>4, <3>5, <3>6, SeqEqual
  <2>4. Log!RollBack
    BY <1>4, <2>3 DEF Log!RollBack, SetPos, Answer
  <2> QED
    BY <1>2, <2>2, <2>4 DEF StringInv, Log!Next
<1> QED
  BY <1>3, <1>4

\* Calling format puts FMT_END behind the values that were given.
LEMMA FormatStep ==
  ASSUME StringInv, ret.status # "UNDEFINED", NEW args \in Seq(StringArgs), Format(args)
  PROVE  StringInv' /\ Log!Next
<1>1. StringListEnds'
  BY DEF StringListEnds, Format, Called
<1>2. StringTypeOK' /\ Log!Next
  BY StringObserveStep DEF Format
<1> QED
  BY <1>1, <1>2 DEF StringInv

LEMMA StringNextStep ==
  ASSUME StringInv, StringNext
  PROVE  StringInv' /\ Log!Next
<1> ret.status # "UNDEFINED"
  BY DEF StringNext
<1>1. ASSUME call = Idle, NEW value \in StringValues, Write(value)
      PROVE  StringInv' /\ Log!Next
  BY <1>1, SingleTextual, StringWriteStep
<1>2. ASSUME NEW a \in StringArgs, NEW b \in StringArgs,
             NEW args \in {<< >>, << a >>, << a, b >>}, Format(args)
      PROVE  StringInv' /\ Log!Next
  <2>1. << >> \in Seq(StringArgs)
    BY EmptySeq
  <2>2. << a >> \in Seq(StringArgs) /\ << a, b >> \in Seq(StringArgs)
    OBVIOUS
  <2>3. args \in Seq(StringArgs)
    BY <1>2, <2>1, <2>2
  <2> QED
    BY <1>2, <2>3, FormatStep
<1>3. ASSUME NEW p \in 0 .. StringSize, SetPos(p)
      PROVE  StringInv' /\ Log!Next
  BY <1>3, SetPosStep
<1>4. CASE FormatValue
  BY <1>4, StringFormatLoop, SingleTextual, StringWriteStep DEF FormatValue
<1>5. CASE FormatUnknown
  <2>1. StringListEnds'
    BY <1>5 DEF FormatUnknown, StringListEnds
  <2> QED
    BY <1>5, <2>1, StringObserveStep DEF FormatUnknown, StringInv
<1>6. CASE FormatReturns
  <2>1. StringListEnds'
    BY <1>6 DEF FormatReturns, StringListEnds
  <2> QED
    BY <1>6, <2>1, StringObserveStep DEF FormatReturns, StringInv
<1> QED
  BY <1>1, <1>2, <1>3, <1>4, <1>5, <1>6 DEF StringNext

LEMMA StringInitInv == StringInit => StringInv /\ Text = << >>
<1> SUFFICES ASSUME StringInit PROVE StringInv /\ Text = << >>
  OBVIOUS
<1>1. StringTypeOK
  BY StringStreamAssumption DEF StringInit, StringTypeOK
<1>2. StringListEnds
  BY DEF StringInit, StringListEnds
<1>3. Text \in Seq(BufferBytes) /\ Len(Text) = 0
  BY <1>1, TextType DEF StringInit
<1>4. Text = << >>
  BY <1>3, EmptySeq
<1> QED
  BY <1>1, <1>2, <1>4 DEF StringInv

LEMMA StringStuttering ==
  ASSUME StringInv, UNCHANGED stringVars
  PROVE  StringInv' /\ UNCHANGED << Text, ret >>
  BY DEF StringInv, StringTypeOK, StringListEnds, Text, stringVars

-----------------------------------------------------------------------------

\* The buffer holds bytes and the position lies within it, whatever the callers
\* write and whatever fails, until a number or a custom value is written that
\* fits the whole buffer but not what remains of it: the call answers with
\* behaviour C leaves undefined, and is the last that is followed.
THEOREM StringTypeCorrect == StringSpec => []StringTypeOK
<1>1. StringInit => StringInv
  BY StringInitInv
<1>2. StringInv /\ [StringNext]_stringVars => StringInv'
  BY StringNextStep, StringStuttering
<1>3. StringInv => StringTypeOK
  BY DEF StringInv
<1> QED
  BY <1>1, <1>2, <1>3, PTL DEF StringSpec

\* The string stream implements the log: its text is what was written with
\* success and not taken back, in order, but for the bytes that numbers skipped,
\* up to a write that overflows the buffer.
THEOREM StringKeepsItsLog == StringSpec => StringKeepsLog
<1>1. StringInit => StringInv /\ Log!Init
  BY StringInitInv DEF Log!Init
<1>2. StringInv /\ [StringNext]_stringVars => StringInv'
  BY StringNextStep, StringStuttering
<1>3. StringInv /\ [StringNext]_stringVars => [Log!Next]_<< Text, ret >>
  BY StringNextStep, StringStuttering
<1> QED
  BY <1>1, <1>2, <1>3, PTL DEF StringSpec, StringKeepsLog, Log!Spec

-----------------------------------------------------------------------------
(***************************************************************************)
(* The output stream                                                       *)
(***************************************************************************)

\* What the stream holds.
Held(inFile, inBuffer) == Range(inFile) \cup Range(inBuffer)

IsOutcome(o, S) ==
  /\ o.file \in Seq(S)
  /\ o.pending \in Seq(S)
  /\ Len(o.pending) <= OutputSize

\* An outcome keeps what was in the file and in the buffer.
Keeps(o, inFile, inBuffer) ==
  Held(inFile, inBuffer) \subseteq Held(o.file, o.pending)

\* An outcome appends bytes to the file and the buffer.
Appends(o, inFile, inBuffer, bytes) ==
  o.file \o o.pending = (inFile \o inBuffer) \o bytes

\* What every outcome of writing a value does.
Sound(o, value, bytes, S) ==
  /\ IsOutcome(o, S)
  /\ Keeps(o, file, pending)
  /\ ~Failed(o) => Owed(value, bytes) \subseteq Held(o.file, o.pending)
  /\ ~FileFailed(o) =>
       \E m \in 0 .. Len(bytes) : Appends(o, file, pending, Rest(bytes, m))

-----------------------------------------------------------------------------
(***************************************************************************)
(* Beginnings and ends of sequences                                        *)
(***************************************************************************)

LEMMA Split ==
  ASSUME NEW S, NEW s \in Seq(S), NEW n \in 0 .. Len(s)
  PROVE  /\ First(s, n) \in Seq(S) /\ Len(First(s, n)) = n
         /\ Rest(s, n) \in Seq(S) /\ Len(Rest(s, n)) = Len(s) - n
         /\ First(s, n) \o Rest(s, n) = s
         /\ Range(s) = Range(First(s, n)) \cup Range(Rest(s, n))
<1>1. Len(s) \in Nat /\ n \in Nat /\ n <= Len(s)
  BY LenProperties
<1>2. \A i \in 1 .. Len(s) : s[i] \in S
  BY ElementOfSeq
<1>3. First(s, n) \in Seq(S) /\ Len(First(s, n)) = n
  <2>1. \A i \in 1 .. n : s[i] \in S
    BY <1>1, <1>2
  <2>2. /\ SubSeq(s, 1, n) \in Seq(S)
        /\ Len(SubSeq(s, 1, n)) = IF 1 <= n THEN n - 1 + 1 ELSE 0
    BY <1>1, <2>1, SubSeqProperties
  <2> QED
    BY <1>1, <2>2 DEF First
<1>4. Rest(s, n) \in Seq(S) /\ Len(Rest(s, n)) = Len(s) - n
  <2>1. \A i \in n + 1 .. Len(s) : s[i] \in S
    BY <1>1, <1>2
  <2>2. /\ SubSeq(s, n + 1, Len(s)) \in Seq(S)
        /\ Len(SubSeq(s, n + 1, Len(s))) =
             IF n + 1 <= Len(s) THEN Len(s) - (n + 1) + 1 ELSE 0
    BY <1>1, <2>1, SubSeqProperties
  <2> QED
    BY <1>1, <2>2 DEF Rest
<1>5. First(s, n) \o Rest(s, n) = s
  <2>1. SubSeq(s, 1, n) \o SubSeq(s, n + 1, Len(s)) = SubSeq(s, 1, Len(s))
    <3>1. 1 \in 1 .. Len(s) + 1 /\ n \in 1 - 1 .. Len(s) /\ Len(s) \in n .. Len(s)
      BY <1>1
    <3> QED
      BY <3>1, ConcatAdjacentSubSeq
  <2> QED
    BY <2>1, SubSeqFull DEF First, Rest
<1>6. Range(s) = Range(First(s, n)) \cup Range(Rest(s, n))
  <2> DEFINE front == First(s, n)
             back == Rest(s, n)
  <2>1. front \in Seq(S) /\ back \in Seq(S) /\ s = front \o back
    BY <1>3, <1>4, <1>5
  <2> HIDE DEF front, back
  <2>2. Range(front \o back) = Range(front) \cup Range(back)
    BY <2>1, RangeConcatenation
  <2> QED
    BY <2>1, <2>2 DEF front, back
<1> QED
  BY <1>3, <1>4, <1>5, <1>6

LEMMA RangeEmpty == Range(<< >>) = {}
  BY DEF Range

LEMMA RestNothing ==
  ASSUME NEW S, NEW s \in Seq(S)
  PROVE  Rest(s, 0) = s /\ Rest(s, Len(s)) = << >>
<1>1. Len(s) \in Nat
  BY LenProperties
<1>2. Rest(s, 0) = s
  BY SubSeqFull DEF Rest
<1>3. Rest(s, Len(s)) = << >>
  BY <1>1, SubSeqEmpty DEF Rest
<1> QED
  BY <1>2, <1>3

LEMMA Regroup ==
  \A S : \A s, t, u \in Seq(S) : (s \o t) \o u = s \o (t \o u)
  BY ConcatAssociative

LEMMA NotEmpty ==
  ASSUME NEW S, NEW s \in Seq(S), s # << >>
  PROVE  Len(s) \in Nat \ {0}
  BY EmptySeq

-----------------------------------------------------------------------------
(***************************************************************************)
(* The file                                                                *)
(***************************************************************************)

LEMMA FileWritesSound ==
  ASSUME NEW S, NEW inFile \in Seq(S), NEW bytes \in Seq(S),
         NEW kept \in Seq(S), NEW o \in FileWrites(inFile, bytes, kept)
  PROVE  /\ o.file \in Seq(S)
         /\ o.pending \in {<< >>, kept}
         /\ Range(inFile) \subseteq Range(o.file)
         /\ FileFailed(o) <=> Failed(o)
         /\ Failed(o) => o.pending = kept
         /\ ~Failed(o) => o.pending = << >> /\ o.file = inFile \o bytes
<1>1. Len(bytes) \in Nat
  BY LenProperties
<1>2. CASE o = Outcome(inFile \o bytes, << >>, "SUCCESS")
  <2>1. inFile \o bytes \in Seq(S)
    BY ConcatProperties
  <2>2. Range(inFile) \subseteq Range(inFile \o bytes)
    BY RangeConcatenation
  <2> QED
    BY <1>2, <2>1, <2>2 DEF Outcome, FileFailed, Failed
<1>3. ASSUME NEW n \in 0 .. Len(bytes) - 1,
             o = Outcome(inFile \o First(bytes, n), kept, "FILE_IO_FAILURE")
      PROVE  /\ o.file \in Seq(S)
             /\ o.pending = kept
             /\ Range(inFile) \subseteq Range(o.file)
             /\ FileFailed(o) /\ Failed(o)
  <2>1. n \in 0 .. Len(bytes)
    BY <1>1
  <2>2. First(bytes, n) \in Seq(S)
    BY <2>1, Split
  <2>3. /\ inFile \o First(bytes, n) \in Seq(S)
        /\ Range(inFile) \subseteq Range(inFile \o First(bytes, n))
    BY <2>2, ConcatProperties, RangeConcatenation
  <2> QED
    BY <1>3, <2>3 DEF Outcome, FileFailed, Failed
<1> QED
  BY <1>2, <1>3 DEF FileWrites

LEMMA FileWritesNothing ==
  ASSUME NEW S, NEW inFile \in Seq(S), NEW bytes \in Seq(S),
         NEW o \in FileWrites(inFile, bytes, << >>)
  PROVE  /\ o.file \in Seq(S)
         /\ o.pending = << >>
         /\ Range(inFile) \subseteq Range(o.file)
         /\ FileFailed(o) <=> Failed(o)
         /\ ~Failed(o) => o.file = inFile \o bytes
<1> DEFINE kept == << >>
<1>1. kept \in Seq(S)
  BY EmptySeq
<1>2. o \in FileWrites(inFile, bytes, kept)
  OBVIOUS
<1> HIDE DEF kept
<1>3. /\ o.file \in Seq(S)
      /\ o.pending \in {<< >>, kept}
      /\ Range(inFile) \subseteq Range(o.file)
      /\ FileFailed(o) <=> Failed(o)
      /\ ~Failed(o) => o.file = inFile \o bytes
  BY <1>1, <1>2, FileWritesSound
<1> QED
  BY <1>3 DEF kept

LEMMA FlushedSound ==
  ASSUME NEW S, NEW inFile \in Seq(S), NEW bytes \in Seq(S),
         NEW o \in Flushed(inFile, bytes)
  PROVE  /\ o.file \in Seq(S)
         /\ o.pending \in {<< >>, bytes}
         /\ Keeps(o, inFile, bytes)
         /\ FileFailed(o) <=> Failed(o)
         /\ ~Failed(o) => o.pending = << >> /\ o.file = inFile \o bytes
<1>0. << >> \in Seq(S)
  BY EmptySeq
<1>1. inFile \o bytes \in Seq(S)
  BY ConcatProperties
<1>2. Range(inFile \o bytes) = Range(inFile) \cup Range(bytes)
  BY RangeConcatenation
<1>3. CASE bytes = << >>
  <2>1. o = Outcome(inFile, << >>, "SUCCESS")
    BY <1>3 DEF Flushed
  <2>2. inFile \o bytes = inFile
    BY <1>3, ConcatEmptySeq
  <2> QED
    BY <1>3, <2>1, <2>2, RangeEmpty
       DEF Outcome, FileFailed, Failed, Keeps, Held
<1>4. CASE o \in FileWrites(inFile, bytes, bytes)
  <2>1. /\ o.file \in Seq(S)
        /\ o.pending \in {<< >>, bytes}
        /\ Range(inFile) \subseteq Range(o.file)
        /\ FileFailed(o) <=> Failed(o)
        /\ Failed(o) => o.pending = bytes
        /\ ~Failed(o) => o.pending = << >> /\ o.file = inFile \o bytes
    BY <1>4, FileWritesSound
  <2>2. Keeps(o, inFile, bytes)
    BY <1>2, <2>1 DEF Keeps, Held
  <2> QED
    BY <2>1, <2>2
<1>5. ASSUME NEW status \in {"FILE_IO_FAILURE", "FAILURE"},
             o = Outcome(inFile \o bytes, << >>, status)
      PROVE  /\ o.file = inFile \o bytes
             /\ o.pending = << >>
             /\ FileFailed(o) /\ Failed(o)
  BY <1>5 DEF Outcome, FileFailed, Failed
<1>6. ASSUME NEW status \in {"FILE_IO_FAILURE", "FAILURE"},
             o = Outcome(inFile \o bytes, << >>, status)
      PROVE  /\ o.file \in Seq(S)
             /\ o.pending = << >>
             /\ Keeps(o, inFile, bytes)
             /\ FileFailed(o) /\ Failed(o)
  BY <1>1, <1>2, <1>5, <1>6 DEF Keeps, Held
<1> QED
  BY <1>3, <1>4, <1>6 DEF Flushed

-----------------------------------------------------------------------------
(***************************************************************************)
(* Writing                                                                 *)
(***************************************************************************)

\* A buffer and a file of bytes of S, and a value of S to write.
Writing(value, bytes, S) ==
  /\ file \in Seq(S) /\ pending \in Seq(S) /\ Len(pending) <= OutputSize
  /\ bytes \in Seq(S)
  /\ Len(bytes) = value.length

LEMMA WritingType ==
  ASSUME NEW value, NEW bytes, NEW S, Writing(value, bytes, S)
  PROVE  /\ Len(pending) \in Nat /\ Len(bytes) \in Nat
         /\ OutputSize \in Nat \ {0}
         /\ Room \in Nat /\ Room = OutputSize - Len(pending)
         /\ file \o pending \in Seq(S)
         /\ Range(file \o pending) = Held(file, pending)
<1>1. Len(pending) \in Nat /\ Len(bytes) \in Nat
  BY LenProperties DEF Writing
<1>2. file \o pending \in Seq(S)
  BY ConcatProperties DEF Writing
<1>3. Range(file \o pending) = Held(file, pending)
  BY RangeConcatenation DEF Writing, Held
<1> QED
  BY <1>1, <1>2, <1>3, OutputStreamAssumption DEF Writing, Room

LEMMA HeldOutcome ==
  ASSUME NEW S, NEW inFile \in Seq(S), NEW inBuffer \in Seq(S)
  PROVE  Range(inFile \o inBuffer) = Held(inFile, inBuffer)
  BY RangeConcatenation DEF Held

\* Nothing is written: what failed was not the file.
LEMMA NothingSound ==
  ASSUME NEW value, NEW bytes, NEW S, Writing(value, bytes, S), NEW o,
         o.file \in Seq(S), o.pending \in Seq(S), Len(o.pending) <= OutputSize,
         o.file \o o.pending = file \o pending, Failed(o)
  PROVE  Sound(o, value, bytes, S)
<1>1. Range(o.file \o o.pending) = Held(o.file, o.pending)
  BY HeldOutcome
<1>2. Keeps(o, file, pending)
  BY <1>1, WritingType DEF Keeps
<1>3. Len(bytes) \in 0 .. Len(bytes) /\ Rest(bytes, Len(bytes)) = << >>
  BY WritingType, RestNothing DEF Writing
<1>4. Appends(o, file, pending, Rest(bytes, Len(bytes)))
  BY <1>3, WritingType, ConcatEmptySeq DEF Appends
<1> QED
  BY <1>2, <1>3, <1>4 DEF Sound, IsOutcome

\* The whole of the bytes is appended.
LEMMA WholeSound ==
  ASSUME NEW value, NEW bytes, NEW S, Writing(value, bytes, S), NEW o,
         o.file \in Seq(S), o.pending \in Seq(S), Len(o.pending) <= OutputSize,
         Appends(o, file, pending, bytes)
  PROVE  Sound(o, value, bytes, S)
<1>1. Range(o.file \o o.pending) = Held(o.file, o.pending)
  BY HeldOutcome
<1>2. Range((file \o pending) \o bytes) = Held(file, pending) \cup Range(bytes)
  <2> DEFINE held == file \o pending
  <2>1. held \in Seq(S) /\ bytes \in Seq(S) /\ Range(held) = Held(file, pending)
    BY WritingType DEF Writing
  <2> HIDE DEF held
  <2>2. Range(held \o bytes) = Range(held) \cup Range(bytes)
    BY <2>1, RangeConcatenation
  <2> QED
    BY <2>1, <2>2 DEF held
<1>3. Keeps(o, file, pending)
  BY <1>1, <1>2 DEF Keeps, Appends
<1>4. Owed(value, bytes) \subseteq Held(o.file, o.pending)
  BY <1>1, <1>2 DEF Owed, Appends
<1>5. 0 \in 0 .. Len(bytes) /\ Rest(bytes, 0) = bytes
  BY WritingType, RestNothing DEF Writing
<1> QED
  BY <1>3, <1>4, <1>5 DEF Sound, IsOutcome

\* The file fails, and what was held is kept.
LEMMA FileFailsSound ==
  ASSUME NEW value, NEW bytes, NEW S, NEW o, FileFailed(o), Failed(o),
         IsOutcome(o, S), Keeps(o, file, pending)
  PROVE  Sound(o, value, bytes, S)
  BY DEF Sound

\* An outcome is made of its parts.
IsRecord(o) == o = Outcome(o.file, o.pending, o.status)

\* Buffering bytes behind those in the buffer.
LEMMA BufferedBehind ==
  ASSUME NEW value, NEW bytes, NEW S, Writing(value, bytes, S),
         Len(pending) + Len(bytes) <= OutputSize
  PROVE  /\ pending \o bytes \in Seq(S)
         /\ Len(pending \o bytes) <= OutputSize
         /\ file \o (pending \o bytes) = (file \o pending) \o bytes
<1>1. file \in Seq(S) /\ pending \in Seq(S) /\ bytes \in Seq(S)
  BY DEF Writing
<1>2. /\ pending \o bytes \in Seq(S)
      /\ Len(pending \o bytes) = Len(pending) + Len(bytes)
  BY <1>1, ConcatProperties
<1>3. (file \o pending) \o bytes = file \o (pending \o bytes)
  BY <1>1, Regroup
<1> QED
  BY <1>2, <1>3

LEMMA OutcomeRecord ==
  ASSUME NEW f, NEW p, NEW st, NEW o, o = Outcome(f, p, st)
  PROVE  /\ IsRecord(o) /\ o.file = f /\ o.pending = p /\ o.status = st
         /\ Failed(o) <=> st # "SUCCESS"
  BY DEF IsRecord, Outcome, Failed

LEMMA FlushedRecord ==
  ASSUME NEW S, NEW inFile \in Seq(S), NEW bytes \in Seq(S),
         NEW o \in Flushed(inFile, bytes)
  PROVE  IsRecord(o) /\ o.file \in Seq(S) /\ o.pending \in Seq(S)
<1>1. o.file \in Seq(S) /\ o.pending \in {<< >>, bytes}
  BY FlushedSound
<1>2. o.pending \in Seq(S)
  BY <1>1, EmptySeq
<1>3. CASE bytes = << >>
  <2>1. o = Outcome(inFile, << >>, "SUCCESS")
    BY <1>3 DEF Flushed
  <2> QED
    BY <1>1, <1>2, <2>1, OutcomeRecord
<1>4. CASE o = Outcome(inFile \o bytes, << >>, "SUCCESS")
  BY <1>1, <1>2, <1>4, OutcomeRecord
<1>5. ASSUME NEW n \in 0 .. Len(bytes) - 1,
             o = Outcome(inFile \o First(bytes, n), bytes, "FILE_IO_FAILURE")
      PROVE  IsRecord(o)
  BY <1>5, OutcomeRecord
<1>6. ASSUME NEW status \in {"FILE_IO_FAILURE", "FAILURE"},
             o = Outcome(inFile \o bytes, << >>, status)
      PROVE  IsRecord(o)
  BY <1>6, OutcomeRecord
<1> QED
  BY <1>1, <1>2, <1>3, <1>4, <1>5, <1>6 DEF Flushed, FileWrites

LEMMA UnflushedSound ==
  ASSUME NEW o \in Unflushed
  PROVE  /\ IsRecord(o)
         /\ o.file = file /\ o.pending = pending /\ ~Failed(o)
<1>1. o = Outcome(file, pending, "SUCCESS")
  BY DEF Unflushed
<1> QED
  BY <1>1, OutcomeRecord

\* Bytes that are buffered without a flush, and after one.
LEMMA BufferedUnflushed ==
  ASSUME NEW u \in Unflushed, NEW more, NEW o, o = Buffered(u, more)
  PROVE  o.file = file /\ o.pending = pending \o more
<1>1. u = Outcome(file, pending, "SUCCESS")
  BY DEF Unflushed
<1> QED
  BY <1>1 DEF Outcome, Buffered

LEMMA BufferedFlushed ==
  ASSUME NEW value, NEW bytes, NEW S, Writing(value, bytes, S),
         NEW f \in Flushed(file, pending), ~Failed(f),
         NEW more \in Seq(S), NEW o, o = Buffered(f, more)
  PROVE  o.file = file \o pending /\ o.pending = more
<1>0. file \in Seq(S) /\ pending \in Seq(S)
  BY DEF Writing
<1>1. f.file = file \o pending /\ f.pending = << >>
  BY <1>0, FlushedSound
<1>2. IsRecord(f)
  BY <1>0, FlushedRecord
<1>3. o.file = f.file /\ o.pending = f.pending \o more
  BY <1>2 DEF Buffered, IsRecord, Outcome
<1>4. << >> \o more = more
  BY ConcatEmptySeq
<1> QED
  BY <1>1, <1>3, <1>4

\* The whole of the bytes is buffered.
LEMMA UnflushedSoundly ==
  ASSUME NEW value, NEW bytes, NEW S, Writing(value, bytes, S),
         Len(pending) + Len(bytes) <= OutputSize,
         NEW u \in Unflushed, NEW o, o = Buffered(u, bytes)
  PROVE  Sound(o, value, bytes, S)
<1>1. file \in Seq(S) /\ pending \in Seq(S) /\ bytes \in Seq(S)
  BY DEF Writing
<1>2. o.file = file /\ o.pending = pending \o bytes
  BY BufferedUnflushed
<1>3. /\ pending \o bytes \in Seq(S)
      /\ Len(pending \o bytes) <= OutputSize
      /\ file \o (pending \o bytes) = (file \o pending) \o bytes
  BY BufferedBehind
<1> QED
  BY <1>1, <1>2, <1>3, WholeSound DEF Appends

LEMMA FlushedSoundly ==
  ASSUME NEW value, NEW bytes, NEW S, Writing(value, bytes, S),
         Len(bytes) <= OutputSize, NEW f \in Flushed(file, pending), ~Failed(f),
         NEW o, o = Buffered(f, bytes)
  PROVE  Sound(o, value, bytes, S)
<1>1. bytes \in Seq(S) /\ file \o pending \in Seq(S)
  BY WritingType DEF Writing
<1>2. o.file = file \o pending /\ o.pending = bytes
  BY <1>1, BufferedFlushed
<1> QED
  BY <1>1, <1>2, WholeSound DEF Appends

\* output_stream_write_u8
LEMMA WriteU8Sound ==
  ASSUME NEW value, NEW bytes, NEW S, Writing(value, bytes, S),
         value.kind = "s8", NEW o \in WriteU8(bytes)
  PROVE  Sound(o, value, bytes, S)
<1>1. CASE Len(bytes) <= Room
  <2>1. PICK u \in Unflushed : o = Buffered(u, bytes)
    BY <1>1 DEF WriteU8
  <2>2. Len(pending) + Len(bytes) <= OutputSize
    BY <1>1, WritingType
  <2> QED
    BY <2>1, <2>2, UnflushedSoundly
<1>2. CASE ~(Len(bytes) <= Room)
  <2> DEFINE over == Rest(bytes, Room)
  <2>1. PICK f \in Flushed(file, pending) :
          o \in IF Failed(f) THEN {f}
                ELSE IF Len(over) >= OutputSize
                     THEN FileWrites(f.file, over, << >>)
                     ELSE {Buffered(f, over)}
    BY <1>2 DEF WriteU8
  <2>2. Room \in 0 .. Len(bytes)
    BY <1>2, WritingType
  <2>3. over \in Seq(S) /\ Len(over) \in Nat
    BY <2>2, Split, LenProperties DEF Writing
  <2>4. /\ f.file \in Seq(S) /\ f.pending \in {<< >>, pending}
        /\ Keeps(f, file, pending)
        /\ FileFailed(f) <=> Failed(f)
        /\ ~Failed(f) => f.pending = << >> /\ f.file = file \o pending
    BY FlushedSound DEF Writing
  <2>5. << >> \in Seq(S) /\ Len(<< >>) = 0
    BY EmptySeq
  <2>6. Owed(value, bytes) = {}
    BY <1>2, WritingType DEF Owed
  <2> HIDE DEF over
  <2>7. CASE Failed(f)
    <3>1. o = f
      BY <2>1, <2>7
    <3>2. f.pending \in Seq(S) /\ Len(f.pending) <= OutputSize
      <4>1. CASE f.pending = << >>
        BY <4>1, <2>5, WritingType
      <4>2. CASE f.pending = pending
        BY <4>2 DEF Writing
      <4> QED
        BY <2>4, <4>1, <4>2
    <3>3. IsOutcome(f, S)
      BY <2>4, <3>2 DEF IsOutcome
    <3> QED
      BY <2>4, <2>7, <3>1, <3>3, FileFailsSound
  <2>8. CASE ~Failed(f) /\ Len(over) >= OutputSize
    <3>1. o \in FileWrites(f.file, over, << >>)
      BY <2>1, <2>8
    <3>2. /\ o.file \in Seq(S) /\ o.pending = << >>
          /\ Range(f.file) \subseteq Range(o.file)
          /\ FileFailed(o) <=> Failed(o)
          /\ ~Failed(o) => o.file = f.file \o over
      <4>1. /\ o.file \in Seq(S) /\ o.pending = << >>
            /\ Range(f.file) \subseteq Range(o.file)
            /\ FileFailed(o) <=> Failed(o)
            /\ ~Failed(o) => o.file = f.file \o over
        <5> DEFINE inFile == f.file
        <5>1. inFile \in Seq(S) /\ o \in FileWrites(inFile, over, << >>)
          BY <2>4, <3>1
        <5> HIDE DEF inFile
        <5>2. /\ o.file \in Seq(S) /\ o.pending = << >>
              /\ Range(inFile) \subseteq Range(o.file)
              /\ FileFailed(o) <=> Failed(o)
              /\ ~Failed(o) => o.file = inFile \o over
          BY <2>3, <5>1, FileWritesNothing
        <5> QED
          BY <5>2 DEF inFile
      <4> QED
        BY <4>1
    <3>3. IsOutcome(o, S)
      BY <2>5, <3>2, WritingType DEF IsOutcome
    <3>4. Keeps(o, file, pending)
      BY <2>4, <2>8, <3>2, WritingType DEF Keeps, Held
    <3>5. ~FileFailed(o) => Appends(o, file, pending, Rest(bytes, Room))
      <4>1. SUFFICES ASSUME ~FileFailed(o)
                     PROVE  Appends(o, file, pending, Rest(bytes, Room))
        OBVIOUS
      <4>2. o.file = (file \o pending) \o over /\ o.pending = << >>
        BY <2>4, <2>8, <3>2, <4>1
      <4>3. o.file \o o.pending = o.file
        BY <3>2, <4>2, ConcatEmptySeq
      <4> QED
        BY <4>2, <4>3 DEF Appends, over
    <3> QED
      BY <2>2, <2>6, <3>3, <3>4, <3>5 DEF Sound
  <2>9. CASE ~Failed(f) /\ ~(Len(over) >= OutputSize)
    <3>1. o = Buffered(f, over)
      BY <2>1, <2>9
    <3>2. o.file = file \o pending /\ o.pending = over
      BY <2>3, <2>9, <3>1, BufferedFlushed
    <3>3. Len(over) <= OutputSize
      BY <2>3, <2>9, WritingType
    <3>4. IsOutcome(o, S)
      BY <2>3, <3>2, <3>3, WritingType DEF IsOutcome
    <3>6. Keeps(o, file, pending)
      BY <3>2, WritingType DEF Keeps, Held
    <3>7. Appends(o, file, pending, Rest(bytes, Room))
      BY <3>2 DEF Appends, over
    <3> QED
      BY <2>2, <2>6, <3>4, <3>6, <3>7 DEF Sound
  <2> QED
    BY <2>7, <2>8, <2>9
<1> QED
  BY <1>1, <1>2

-----------------------------------------------------------------------------
(***************************************************************************)
(* The chunks in which output_stream_write_cstr fills the buffer           *)
(***************************************************************************)

LEMMA TimesBelow ==
  ASSUME NEW a \in Nat, NEW b \in Nat, NEW d \in Nat, a < b
  PROVE  a * d + d <= b * d
<1>1. (a + 1) * d <= b * d
  BY Lemmas!TimesMonotone
<1>2. (a + 1) * d = a * d + d
  OBVIOUS
<1> QED
  BY <1>1, <1>2

LEMMA Division ==
  ASSUME NEW a \in Nat, NEW d \in Nat \ {0}
  PROVE  /\ a \div d \in Nat
         /\ a % d \in 0 .. d - 1
         /\ a = (a \div d) * d + (a % d)
<1>1. a \div d \in Nat
  BY Lemmas!Division
<1>2. a % d \in 0 .. d - 1
  BY Lemmas!Division
<1>3. a = (a \div d) * d + (a % d)
  BY Lemmas!Division
<1> QED
  BY <1>1, <1>2, <1>3

\* Before the last chunk, whole buffers are flushed; the last one is not empty
\* and no larger than the buffer.
LEMMA ChunkBounds ==
  ASSUME NEW S, NEW all \in Seq(S)
  PROVE  /\ ChunkCount(all) \in Nat
         /\ ChunkCount(all) * OutputSize \in 0 .. Len(all)
         /\ Len(all) - ChunkCount(all) * OutputSize <= OutputSize
         /\ \A k \in 0 .. ChunkCount(all) - 1 :
              /\ k * OutputSize \in Nat
              /\ (k + 1) * OutputSize = k * OutputSize + OutputSize
              /\ k * OutputSize + OutputSize <= Len(all)
<1> DEFINE n == ChunkCount(all)
<1>1. OutputSize \in Nat \ {0}
  BY OutputStreamAssumption
<1>2. CASE all = << >>
  <2>1. n = 0 /\ Len(all) = 0
    BY <1>2, EmptySeq DEF ChunkCount
  <2> QED
    BY <1>1, <2>1
<1>3. CASE all # << >>
  <2> DEFINE a == Len(all) - 1
             r == a % OutputSize
  <2>1. Len(all) \in Nat \ {0} /\ a \in Nat
    BY <1>3, NotEmpty
  <2>2. n = a \div OutputSize
    BY <1>3 DEF ChunkCount
  <2> HIDE DEF n, a
  <2>3. n \in Nat /\ r \in 0 .. OutputSize - 1 /\ a = n * OutputSize + r
    BY <1>1, <2>1, <2>2, Division
  <2>4. n * OutputSize \in Nat
    BY <1>1, <2>3
  <2> HIDE DEF r
  <2>5. /\ n * OutputSize \in 0 .. Len(all)
        /\ Len(all) - n * OutputSize <= OutputSize
    BY <1>1, <2>1, <2>3, <2>4 DEF a
  <2>6. ASSUME NEW k \in 0 .. n - 1
        PROVE  /\ k * OutputSize \in Nat
               /\ (k + 1) * OutputSize = k * OutputSize + OutputSize
               /\ k * OutputSize + OutputSize <= Len(all)
    <3>1. k \in Nat /\ k < n
      BY <2>3
    <3>2. k * OutputSize + OutputSize <= n * OutputSize
      BY <1>1, <2>3, <3>1, TimesBelow
    <3>3. k * OutputSize \in Nat
      BY <1>1, <3>1
    <3>4. (k + 1) * OutputSize = k * OutputSize + OutputSize
      BY <1>1, <3>1
    <3> QED
      BY <1>1, <2>4, <2>5, <3>2, <3>3, <3>4
  <2> QED
    BY <2>3, <2>5, <2>6 DEF n
<1> QED
  BY <1>2, <1>3

\* A chunk is as large as the buffer, and follows those before it.
LEMMA ChunkType ==
  ASSUME NEW S, NEW all \in Seq(S), NEW k \in 0 .. ChunkCount(all) - 1
  PROVE  /\ First(all, k * OutputSize) \in Seq(S)
         /\ Chunk(all, k) \in Seq(S) /\ Len(Chunk(all, k)) = OutputSize
         /\ First(all, k * OutputSize) \o Chunk(all, k) =
              First(all, k * OutputSize + OutputSize)
<1> DEFINE from == k * OutputSize
           to == k * OutputSize + OutputSize
<1>1. /\ from \in Nat /\ to \in Nat /\ to <= Len(all) /\ Len(all) \in Nat
      /\ (k + 1) * OutputSize = to /\ OutputSize \in Nat \ {0}
  BY ChunkBounds, LenProperties, OutputStreamAssumption
<1>2. to = from + OutputSize
  OBVIOUS
<1>3. Chunk(all, k) = SubSeq(all, from + 1, to)
  BY <1>1 DEF Chunk
<1> HIDE DEF from, to
<1>4. First(all, from) \in Seq(S)
  <2>1. from \in 0 .. Len(all)
    BY <1>1, <1>2
  <2> QED
    BY <2>1, Split
<1>5. SubSeq(all, from + 1, to) \in Seq(S)
      /\ Len(SubSeq(all, from + 1, to)) = OutputSize
  <2>1. \A i \in from + 1 .. to : all[i] \in S
    BY <1>1, <1>2, ElementOfSeq
  <2>2. from + 1 \in Int /\ to \in Int
    BY <1>1
  <2>3. /\ SubSeq(all, from + 1, to) \in Seq(S)
        /\ Len(SubSeq(all, from + 1, to)) =
             IF from + 1 <= to THEN to - (from + 1) + 1 ELSE 0
    BY <2>1, <2>2, SubSeqProperties
  <2> QED
    BY <1>1, <1>2, <2>3
<1>6. SubSeq(all, 1, from) \o SubSeq(all, from + 1, to) = SubSeq(all, 1, to)
  <2>1. /\ 1 \in 1 .. Len(all) + 1 /\ from \in 1 - 1 .. Len(all)
        /\ to \in from .. Len(all)
    BY <1>1, <1>2
  <2> QED
    BY <2>1, ConcatAdjacentSubSeq
<1> QED
  BY <1>3, <1>4, <1>5, <1>6 DEF First, from, to

\* What was buffered is in the beginning of the chunks.
LEMMA BufferedFirst ==
  ASSUME NEW S, NEW s \in Seq(S), NEW t \in Seq(S),
         NEW n \in Len(s) .. Len(s \o t)
  PROVE  Range(s) \subseteq Range(First(s \o t, n))
<1>1. /\ Len(s) \in Nat /\ Len(t) \in Nat
      /\ Len(s \o t) = Len(s) + Len(t) /\ s \o t \in Seq(S)
      /\ \A i \in 1 .. Len(s) + Len(t) :
           (s \o t)[i] = IF i <= Len(s) THEN s[i] ELSE t[i - Len(s)]
  BY LenProperties, ConcatProperties
<1>2. n \in 0 .. Len(s \o t)
  BY <1>1
<1>3. First(s \o t, n) \in Seq(S) /\ Len(First(s \o t, n)) = n
  <2> DEFINE all == s \o t
  <2>1. all \in Seq(S) /\ n \in 0 .. Len(all)
    BY <1>1, <1>2
  <2> HIDE DEF all
  <2>2. First(all, n) \in Seq(S) /\ Len(First(all, n)) = n
    BY <2>1, Split
  <2> QED
    BY <2>2 DEF all
<1>4. ASSUME NEW i \in 1 .. Len(s)
      PROVE  s[i] \in Range(First(s \o t, n))
  <2>1. i \in 1 .. n /\ i \in 1 .. Len(s) + Len(t) /\ n \in Nat
    BY <1>1, <1>2
  <2>2. \A j \in 1 .. n : (s \o t)[j] \in S
    BY <1>1, <1>2, ElementOfSeq
  <2>3. \A j \in 1 .. n - 1 + 1 :
          SubSeq(s \o t, 1, n)[j] = (s \o t)[1 + j - 1]
    BY <2>1, <2>2, SubSeqProperties
  <2>4. First(s \o t, n)[i] = (s \o t)[1 + i - 1]
    BY <2>1, <2>3 DEF First
  <2>5. 1 + i - 1 = i
    BY <2>1
  <2>6. (s \o t)[i] = s[i]
    BY <1>1, <2>1
  <2> QED
    BY <1>3, <2>1, <2>4, <2>5, <2>6, RangeEquality
<1> QED
  BY <1>4, RangeEquality

-----------------------------------------------------------------------------

\* output_stream_write_cstr
LEMMA WriteCstrSound ==
  ASSUME NEW value, NEW bytes, NEW S, Writing(value, bytes, S),
         NEW o \in WriteCstr(bytes)
  PROVE  Sound(o, value, bytes, S)
<1> DEFINE all == pending \o bytes
           n == ChunkCount(all)
           Upto(k) == file \o First(all, k * OutputSize)
<1>1. /\ pending \in Seq(S) /\ bytes \in Seq(S) /\ file \in Seq(S)
      /\ all \in Seq(S) /\ Len(all) \in Nat
      /\ Len(pending) \in Nat /\ Len(pending) <= OutputSize
      /\ OutputSize \in Nat \ {0}
  BY WritingType, ConcatProperties, LenProperties DEF Writing
<1>2. \/ o = Outcome(Upto(n), Rest(all, n * OutputSize), "SUCCESS")
      \/ \E k \in 0 .. n - 1 : o \in Flushed(Upto(k), Chunk(all, k)) /\ Failed(o)
  BY DEF WriteCstr
<1>3. (file \o pending) \o bytes = file \o all
  BY <1>1, ConcatAssociative, SMTT(30)
<1> HIDE DEF all
<1>4. CASE o = Outcome(Upto(n), Rest(all, n * OutputSize), "SUCCESS")
  <2> DEFINE m == n * OutputSize
             front == First(all, m)
             back == Rest(all, m)
  <2>1. m \in 0 .. Len(all) /\ Len(all) - m <= OutputSize
    BY <1>1, ChunkBounds
  <2>2. o = Outcome(file \o front, back, "SUCCESS")
    BY <1>4
  <2> HIDE DEF m
  <2>3. /\ front \in Seq(S) /\ back \in Seq(S)
        /\ Len(back) = Len(all) - m /\ front \o back = all
    BY <1>1, <2>1, Split
  <2> HIDE DEF front, back
  <2>4. /\ o.file = file \o front /\ o.pending = back
    BY <2>2 DEF Outcome
  <2>5. file \o front \in Seq(S)
    BY <1>1, <2>3, ConcatProperties
  <2>6. (file \o front) \o back = file \o (front \o back)
    <3>1. file \in Seq(S) /\ front \in Seq(S) /\ back \in Seq(S)
      BY <1>1, <2>3
    <3> HIDE DEF n, Upto
    <3> QED
      BY <3>1, Regroup
  <2>7. Appends(o, file, pending, bytes)
    BY <1>3, <2>3, <2>4, <2>6 DEF Appends
  <2>8. o.file \in Seq(S) /\ o.pending \in Seq(S) /\ Len(o.pending) <= OutputSize
    BY <2>1, <2>3, <2>4, <2>5
  <2> QED
    BY <2>7, <2>8, WholeSound
<1>5. ASSUME NEW k \in 0 .. n - 1, o \in Flushed(Upto(k), Chunk(all, k)),
             Failed(o)
      PROVE  Sound(o, value, bytes, S)
  <2> DEFINE from == k * OutputSize
             to == from + OutputSize
             front == First(all, from)
             chunk == Chunk(all, k)
             inFile == file \o front
  <2>1. /\ front \in Seq(S) /\ chunk \in Seq(S) /\ Len(chunk) = OutputSize
        /\ front \o chunk = First(all, to)
    BY <1>1, ChunkType
  <2>2. from \in Nat /\ to <= Len(all)
    BY <1>1, ChunkBounds
  <2>4. o \in Flushed(inFile, chunk)
    BY <1>5
  <2> HIDE DEF from
  <2>3. to \in Len(pending) .. Len(all)
    BY <1>1, <2>2
  <2> HIDE DEF to, front, chunk
  <2>5. Range(pending) \subseteq Range(First(all, to))
    BY <1>1, <2>3, BufferedFirst DEF all
  <2>6. inFile \in Seq(S) /\ Range(inFile) = Range(file) \cup Range(front)
    BY <1>1, <2>1, ConcatProperties, RangeConcatenation
  <2>7. Range(First(all, to)) = Range(front) \cup Range(chunk)
    <3>1. front \in Seq(S) /\ chunk \in Seq(S)
      BY <2>1
    <3>2. Range(front \o chunk) = Range(front) \cup Range(chunk)
      BY <3>1, RangeConcatenation
    <3> QED
      BY <2>1, <3>2
  <2> HIDE DEF inFile
  <2>8. /\ o.file \in Seq(S) /\ o.pending \in {<< >>, chunk}
        /\ Keeps(o, inFile, chunk)
        /\ FileFailed(o) <=> Failed(o)
    BY <2>1, <2>4, <2>6, FlushedSound
  <2>9. Keeps(o, file, pending)
    BY <2>5, <2>6, <2>7, <2>8 DEF Keeps, Held
  <2>10. o.pending \in Seq(S) /\ Len(o.pending) <= OutputSize
    <3>1. CASE o.pending = << >>
      BY <1>1, <3>1, EmptySeq
    <3>2. CASE o.pending = chunk
      BY <1>1, <2>1, <3>2
    <3> QED
      BY <2>8, <3>1, <3>2
  <2>11. IsOutcome(o, S)
    BY <2>8, <2>10 DEF IsOutcome
  <2> QED
    BY <1>5, <2>8, <2>9, <2>11, FileFailsSound
<1> QED
  BY <1>2, <1>4, <1>5

\* Values that are formatted in place.
LEMMA PlaceSound ==
  ASSUME NEW value, NEW bytes, NEW S, Writing(value, bytes, S),
         NEW o \in PlaceFormatted(value, bytes)
  PROVE  Sound(o, value, bytes, S)
<1>1. /\ pending \in Seq(S) /\ bytes \in Seq(S) /\ file \in Seq(S)
      /\ Len(pending) \in Nat /\ Len(pending) <= OutputSize
      /\ Len(bytes) \in Nat /\ Len(bytes) = value.length
      /\ OutputSize \in Nat \ {0}
  BY WritingType DEF Writing
<1>2. CASE value.length > OutputSize
  <2>1. o = Outcome(file, pending, "INSUFFICIENT_BUFFER")
    BY <1>2 DEF PlaceFormatted
  <2>2. o.file = file /\ o.pending = pending /\ Failed(o)
    BY <2>1, OutcomeRecord
  <2>3. /\ o.file \in Seq(S) /\ o.pending \in Seq(S)
        /\ Len(o.pending) <= OutputSize /\ o.file \o o.pending = file \o pending
    BY <1>1, <2>2
  <2> QED
    BY <2>2, <2>3, NothingSound
<1>3. CASE ~(value.length > OutputSize)
  <2>1. PICK p \in Places(value.length) :
          o = IF Failed(p) THEN p
              ELSE IF value.fails THEN [p EXCEPT !.status = "CALLBACK_FAILURE"]
              ELSE Buffered(p, bytes)
    BY <1>3 DEF PlaceFormatted
  <2>2. /\ IsRecord(p) /\ p.file \in Seq(S) /\ p.pending \in Seq(S)
        /\ Len(p.pending) <= OutputSize
        /\ Keeps(p, file, pending)
        /\ Failed(p) => FileFailed(p)
        /\ ~Failed(p) => p.file \o p.pending = file \o pending
        /\ ~Failed(p) => \/ /\ Len(pending) + Len(bytes) <= OutputSize
                             /\ p \in Unflushed
                          \/ /\ Len(bytes) <= OutputSize
                             /\ p \in Flushed(file, pending)
    <3>1. CASE p \in Unflushed /\ ~(Room < value.length)
      <4>1. IsRecord(p) /\ p.file = file /\ p.pending = pending /\ ~Failed(p)
        BY <3>1, UnflushedSound
      <4>2. Len(pending) + Len(bytes) <= OutputSize
        BY <1>1, <3>1 DEF Room
      <4> QED
        BY <1>1, <3>1, <4>1, <4>2 DEF Keeps
    <3>2. CASE p \in Flushed(file, pending)
      <4>1. /\ p.file \in Seq(S) /\ p.pending \in {<< >>, pending}
            /\ Keeps(p, file, pending)
            /\ FileFailed(p) <=> Failed(p)
            /\ ~Failed(p) => p.pending = << >> /\ p.file = file \o pending
        BY <1>1, <3>2, FlushedSound
      <4>2. IsRecord(p) /\ p.pending \in Seq(S)
        BY <1>1, <3>2, FlushedRecord
      <4>3. Len(p.pending) <= OutputSize
        BY <1>1, <4>1, EmptySeq
      <4>4. ASSUME ~Failed(p)
            PROVE  p.file \o p.pending = file \o pending
        <5>1. p.pending = << >> /\ p.file = file \o pending
          BY <4>1, <4>4
        <5>2. (file \o pending) \o << >> = file \o pending
          BY WritingType, ConcatEmptySeq
        <5> QED
          BY <5>1, <5>2
      <4>5. Len(bytes) <= OutputSize
        BY <1>1, <1>3
      <4> QED
        BY <3>2, <4>1, <4>2, <4>3, <4>4, <4>5
    <3> QED
      BY <3>1, <3>2 DEF Places
  <2>3. CASE Failed(p)
    <3>1. o = p /\ IsOutcome(p, S)
      BY <2>1, <2>2, <2>3 DEF IsOutcome
    <3> QED
      BY <2>2, <2>3, <3>1, FileFailsSound
  <2>4. CASE ~Failed(p) /\ value.fails
    <3>1. o = [p EXCEPT !.status = "CALLBACK_FAILURE"]
      BY <2>1, <2>4
    <3>2. o.file = p.file /\ o.pending = p.pending
          /\ o.status = "CALLBACK_FAILURE"
      BY <2>2, <3>1 DEF IsRecord, Outcome
    <3>3. /\ o.file \in Seq(S) /\ o.pending \in Seq(S)
          /\ Len(o.pending) <= OutputSize
          /\ o.file \o o.pending = file \o pending /\ Failed(o)
      BY <2>2, <2>4, <3>2 DEF Failed
    <3> QED
      BY <3>3, NothingSound
  <2>5. CASE ~Failed(p) /\ ~value.fails
    <3>1. o = Buffered(p, bytes)
      BY <2>1, <2>5
    <3> QED
      BY <2>2, <2>5, <3>1, UnflushedSoundly, FlushedSoundly
  <2> QED
    BY <2>3, <2>4, <2>5
<1> QED
  BY <1>2, <1>3

LEMMA OutcomesSound ==
  ASSUME NEW value, NEW bytes, NEW S, Writing(value, bytes, S),
         NEW o \in Outcomes(value, bytes)
  PROVE  Sound(o, value, bytes, S)
<1>1. CASE value.kind = "s8"
  BY <1>1, WriteU8Sound DEF Outcomes
<1>2. CASE value.kind = "cstr"
  BY <1>2, WriteCstrSound DEF Outcomes
<1>3. CASE value.kind \notin {"s8", "cstr"}
  BY <1>3, PlaceSound DEF Outcomes
<1> QED
  BY <1>1, <1>2, <1>3

-----------------------------------------------------------------------------
(***************************************************************************)
(* The invariant                                                           *)
(***************************************************************************)

OutputListEnds ==
  \/ outCall = Idle
  \/ \E args \in Seq(OutputArgs) : outCall.args = Append(args, End)

OutputInv ==
  /\ OutputTypeOK
  /\ OutputKeepsPromised
  /\ OutputFlushDelivers
  /\ OutputInOrder
  /\ OutputListEnds

Increasing(s) == \A i, j \in 1 .. Len(s) : i < j => s[i] < s[j]

LEMMA InOrderIncreasing ==
  OutputInOrder <=> (failures = 0 => Increasing(file \o pending))
  BY DEF OutputInOrder, Increasing

\* Bytes that callers give later are larger.
LEMMA IncreasingConcat ==
  ASSUME NEW g \in Nat, NEW s \in Seq(1 .. g), Increasing(s),
         NEW t \in Seq(Nat), Increasing(t), \A i \in 1 .. Len(t) : t[i] > g
  PROVE  Increasing(s \o t)
<1>1. s \in Seq(Nat)
  <2>1. 1 .. g \subseteq Nat
    OBVIOUS
  <2> QED
    BY <2>1, SeqMonotonic
<1>2. /\ Len(s) \in Nat /\ Len(t) \in Nat
      /\ Len(s \o t) = Len(s) + Len(t)
      /\ \A i \in 1 .. Len(s) + Len(t) :
           (s \o t)[i] = IF i <= Len(s) THEN s[i] ELSE t[i - Len(s)]
  BY <1>1, LenProperties, ConcatProperties
<1>3. \A i \in 1 .. Len(s) : s[i] \in 1 .. g
  BY ElementOfSeq
<1>4. \A i \in 1 .. Len(t) : t[i] \in Nat
  BY ElementOfSeq
<1>5. SUFFICES ASSUME NEW i \in 1 .. Len(s) + Len(t),
                      NEW j \in 1 .. Len(s) + Len(t), i < j
               PROVE  (s \o t)[i] < (s \o t)[j]
  BY <1>2 DEF Increasing
<1>6. CASE j <= Len(s)
  <2>1. i \in 1 .. Len(s) /\ j \in 1 .. Len(s)
    BY <1>2, <1>5, <1>6
  <2>2. (s \o t)[i] = s[i] /\ (s \o t)[j] = s[j]
    BY <1>2, <2>1
  <2> QED
    BY <1>5, <2>1, <2>2 DEF Increasing
<1>7. CASE i <= Len(s) /\ ~(j <= Len(s))
  <2>1. i \in 1 .. Len(s) /\ j - Len(s) \in 1 .. Len(t)
    BY <1>2, <1>5, <1>7
  <2>2. (s \o t)[i] = s[i] /\ (s \o t)[j] = t[j - Len(s)]
    BY <1>2, <1>7, <2>1
  <2>3. s[i] \in Nat /\ s[i] <= g
    BY <1>3, <2>1
  <2>4. t[j - Len(s)] \in Nat /\ t[j - Len(s)] > g
    BY <1>4, <2>1
  <2> QED
    BY <2>2, <2>3, <2>4
<1>8. CASE ~(i <= Len(s))
  <2>1. /\ i - Len(s) \in 1 .. Len(t) /\ j - Len(s) \in 1 .. Len(t)
        /\ i - Len(s) < j - Len(s) /\ ~(j <= Len(s))
    BY <1>2, <1>5, <1>8
  <2>2. (s \o t)[i] = t[i - Len(s)] /\ (s \o t)[j] = t[j - Len(s)]
    BY <1>2, <1>8, <2>1
  <2> QED
    BY <2>1, <2>2 DEF Increasing
<1> QED
  BY <1>2, <1>5, <1>6, <1>7, <1>8

\* The bytes of a value are numbered from the last that was given.
LEMMA FreshType ==
  ASSUME given \in Nat, NEW length \in Nat
  PROVE  /\ Fresh(length) \in Seq(1 .. given + length)
         /\ Len(Fresh(length)) = length
<1> DEFINE bytes == Fresh(length)
<1>1. bytes \in [1 .. length -> 1 .. given + length]
  BY DEF Fresh
<1>2. bytes \in Seq(1 .. given + length)
  BY <1>1, SeqDef
<1>3. DOMAIN bytes = 1 .. Len(bytes) /\ Len(bytes) \in Nat
  BY <1>2, LenProperties
<1>4. DOMAIN bytes = 1 .. length
  BY DEF Fresh
<1> HIDE DEF bytes
<1>5. Len(bytes) = length
  BY <1>3, <1>4, SameEnd
<1> QED
  BY <1>2, <1>5 DEF bytes

\* Any end of them is increasing, and past what was given.
LEMMA FreshIncreasing ==
  ASSUME given \in Nat, NEW length \in Nat, NEW m \in 0 .. length
  PROVE  /\ Rest(Fresh(length), m) \in Seq(Nat)
         /\ Increasing(Rest(Fresh(length), m))
         /\ \A i \in 1 .. Len(Rest(Fresh(length), m)) :
              Rest(Fresh(length), m)[i] > given
<1> DEFINE bytes == Fresh(length)
           t == Rest(bytes, m)
<1>1. bytes \in Seq(Nat) /\ Len(bytes) = length
  <2>1. 1 .. given + length \subseteq Nat
    OBVIOUS
  <2> QED
    BY <2>1, FreshType, SeqMonotonic
<1>2. \A i \in 1 .. length : bytes[i] = given + i
  BY DEF Fresh
<1> HIDE DEF bytes
<1>3. t \in Seq(Nat) /\ Len(t) = length - m
  BY <1>1, Split
<1>4. \A i \in 1 .. length - (m + 1) + 1 : t[i] = bytes[m + 1 + i - 1]
  <2>1. \A i \in m + 1 .. length : bytes[i] \in Nat
    BY <1>1, ElementOfSeq
  <2> QED
    BY <1>1, <2>1, SubSeqProperties DEF Rest
<1> HIDE DEF t
<1>5. ASSUME NEW i \in 1 .. Len(t)
      PROVE  t[i] = given + m + i
  <2>1. /\ i \in 1 .. length - (m + 1) + 1 /\ m + 1 + i - 1 = m + i
        /\ m + i \in 1 .. length
    BY <1>3
  <2> QED
    BY <1>2, <1>4, <2>1
<1>6. Increasing(t)
  BY <1>3, <1>5 DEF Increasing
<1>7. \A i \in 1 .. Len(t) : t[i] > given
  BY <1>3, <1>5
<1> QED
  BY <1>3, <1>6, <1>7 DEF t, bytes

-----------------------------------------------------------------------------
(***************************************************************************)
(* The steps                                                               *)
(***************************************************************************)

\* The types of an outcome that Meets takes.
LEMMA MeetsType ==
  ASSUME OutputInv, NEW o, Meets(o)
  PROVE  /\ failures' \in 0 .. MaxFailures
         /\ failures' = 0 => failures = 0 /\ ~FileFailed(o)
         /\ file' = o.file /\ pending' = o.pending
<1>1. failures \in Nat /\ MaxFailures \in Nat
  BY OutputStreamAssumption DEF OutputInv, OutputTypeOK
<1>2. CASE FileFailed(o)
  BY <1>1, <1>2 DEF Meets
<1>3. CASE ~FileFailed(o)
  BY <1>1, <1>3 DEF Meets
<1> QED
  BY <1>2, <1>3

LEMMA OutputWriteStep ==
  ASSUME OutputInv, NEW value \in OutputWritable, OutputWrite(value),
         outCall = Idle \/ IsLooping(outCall)
  PROVE  /\ OutputTypeOK' /\ OutputKeepsPromised'
         /\ OutputFlushDelivers' /\ OutputInOrder'
<1> DEFINE bytes == Fresh(value.length)
           g == given + value.length
           S == 1 .. g
<1>1. /\ value.length \in Nat /\ value.kind \in Strings \cup Formatted
      /\ given \in Nat /\ MaxGiven \in Nat /\ g \in Nat
  BY OutputStreamAssumption DEF OutputWritable, OutputInv, OutputTypeOK
<1>2. given' = g /\ g <= MaxGiven
  BY DEF OutputWrite
<1>3. bytes \in Seq(S) /\ Len(bytes) = value.length
  BY <1>1, FreshType
<1>4. 1 .. given \subseteq S
  BY <1>1
<1>5. PICK o \in Outcomes(value, bytes) :
        /\ Meets(o)
        /\ promised' = IF Failed(o) THEN promised
                       ELSE promised \cup Owed(value, bytes)
        /\ outRet' = Answer(value.kind, bytes, o.status)
  BY DEF OutputWrite
<1>6. Range(bytes) \subseteq S
  BY <1>3, RangeOfSeq
<1>7. \A m \in 0 .. value.length :
        /\ Rest(bytes, m) \in Seq(Nat)
        /\ Increasing(Rest(bytes, m))
        /\ \A i \in 1 .. Len(Rest(bytes, m)) : Rest(bytes, m)[i] > given
  BY <1>1, FreshIncreasing
<1> HIDE DEF bytes, g
<1>8. Writing(value, bytes, S)
  <2>1. file \in Seq(1 .. given) /\ pending \in Seq(1 .. given)
        /\ Len(pending) <= OutputSize
    BY DEF OutputInv, OutputTypeOK
  <2>2. file \in Seq(S) /\ pending \in Seq(S)
    BY <1>4, <2>1, SeqMonotonic
  <2> QED
    BY <1>3, <2>1, <2>2 DEF Writing
<1>9. Sound(o, value, bytes, S)
  BY <1>5, <1>8, OutcomesSound
<1>10. /\ failures' \in 0 .. MaxFailures
       /\ failures' = 0 => failures = 0 /\ ~FileFailed(o)
       /\ file' = o.file /\ pending' = o.pending
  BY <1>5, MeetsType
<1>11. promised \subseteq 1 .. given /\ promised \subseteq Held(file, pending)
  BY DEF OutputInv, OutputTypeOK, OutputKeepsPromised, Held
<1>12. OutputTypeOK'
  <2>1. promised' \subseteq S
    BY <1>4, <1>5, <1>6, <1>11 DEF Owed
  <2>2. given' \in 0 .. MaxGiven
    BY <1>1, <1>2
  <2> QED
    BY <1>2, <1>9, <1>10, <2>1, <2>2 DEF OutputTypeOK, Sound, IsOutcome
<1>13. OutputKeepsPromised'
  <2>1. Held(file, pending) \subseteq Held(o.file, o.pending)
    BY <1>9 DEF Sound, Keeps
  <2>2. promised' \subseteq Held(o.file, o.pending)
    BY <1>5, <1>9, <1>11, <2>1 DEF Sound
  <2> QED
    BY <1>10, <2>2 DEF OutputKeepsPromised, Held
<1>14. OutputFlushDelivers'
  <2>1. outRet'.op \in Strings \cup Formatted
    BY <1>1, <1>5 DEF Answer
  <2> QED
    BY <2>1 DEF OutputFlushDelivers, Strings, Formatted
<1>15. OutputInOrder'
  <2>1. SUFFICES ASSUME failures' = 0 PROVE Increasing(file' \o pending')
    BY DEF OutputInOrder, Increasing
  <2>2. failures = 0 /\ ~FileFailed(o)
    BY <1>10, <2>1
  <2>3. Increasing(file \o pending)
    BY <2>2, InOrderIncreasing DEF OutputInv
  <2>4. PICK m \in 0 .. Len(bytes) : Appends(o, file, pending, Rest(bytes, m))
    BY <1>9, <2>2 DEF Sound
  <2>5. file \o pending \in Seq(1 .. given)
    BY ConcatProperties DEF OutputInv, OutputTypeOK
  <2>6. /\ Rest(bytes, m) \in Seq(Nat)
        /\ Increasing(Rest(bytes, m))
        /\ \A i \in 1 .. Len(Rest(bytes, m)) : Rest(bytes, m)[i] > given
    BY <1>3, <1>7
  <2>7. Increasing((file \o pending) \o Rest(bytes, m))
    BY <1>1, <2>3, <2>5, <2>6, IncreasingConcat
  <2> QED
    BY <1>10, <2>4, <2>7 DEF Appends
<1> QED
  BY <1>12, <1>13, <1>14, <1>15

LEMMA FlushStep ==
  ASSUME OutputInv, OutputFlush
  PROVE  OutputInv'
<1>1. PICK o \in Flushed(file, pending) :
        Meets(o) /\ outRet' = Answer("flush", << >>, o.status)
  BY DEF OutputFlush
<1>2. UNCHANGED << given, promised, outCall >>
  BY DEF OutputFlush
<1>3. /\ file \in Seq(1 .. given) /\ pending \in Seq(1 .. given)
      /\ Len(pending) <= OutputSize
      /\ promised \subseteq Held(file, pending)
      /\ OutputSize \in Nat
  BY OutputStreamAssumption DEF OutputInv, OutputTypeOK, OutputKeepsPromised, Held
<1>4. /\ o.file \in Seq(1 .. given)
      /\ o.pending \in {<< >>, pending}
      /\ Keeps(o, file, pending)
      /\ FileFailed(o) <=> Failed(o)
      /\ ~Failed(o) => o.pending = << >> /\ o.file = file \o pending
  BY <1>3, FlushedSound
<1>5. /\ failures' \in 0 .. MaxFailures
      /\ failures' = 0 => failures = 0 /\ ~FileFailed(o)
      /\ file' = o.file /\ pending' = o.pending
  BY <1>1, MeetsType
<1>6. OutputTypeOK'
  <2>1. o.pending \in Seq(1 .. given) /\ Len(o.pending) <= OutputSize
    <3>1. CASE o.pending = << >>
      BY <1>3, <3>1, EmptySeq
    <3>2. CASE o.pending = pending
      BY <1>3, <3>2
    <3> QED
      BY <1>4, <3>1, <3>2
  <2> QED
    BY <1>2, <1>4, <1>5, <2>1 DEF OutputInv, OutputTypeOK
<1>7. OutputKeepsPromised'
  BY <1>2, <1>3, <1>4, <1>5 DEF OutputKeepsPromised, Keeps, Held
<1>8. OutputFlushDelivers'
  <2>1. SUFFICES ASSUME outRet'.status = "SUCCESS"
                 PROVE  promised' \subseteq Range(file')
    BY DEF OutputFlushDelivers
  <2>2. ~Failed(o)
    BY <1>1, <2>1 DEF Answer, Failed
  <2>3. o.file = file \o pending
    BY <1>4, <2>2
  <2>4. Range(file \o pending) = Held(file, pending)
    BY <1>3, HeldOutcome
  <2> QED
    BY <1>2, <1>3, <1>5, <2>3, <2>4
<1>9. OutputInOrder'
  <2>1. SUFFICES ASSUME failures' = 0 PROVE Increasing(file' \o pending')
    BY DEF OutputInOrder, Increasing
  <2>2. Increasing(file \o pending)
    BY <1>5, <2>1, InOrderIncreasing DEF OutputInv
  <2>3. o.pending = << >> /\ o.file = file \o pending
    BY <1>4, <1>5, <2>1
  <2>4. (file \o pending) \o << >> = file \o pending
    <3>1. file \o pending \in Seq(1 .. given)
      BY <1>3, ConcatProperties
    <3> QED
      BY <3>1, ConcatEmptySeq
  <2> QED
    BY <1>5, <2>2, <2>3, <2>4
<1>10. OutputListEnds'
  BY <1>2 DEF OutputInv, OutputListEnds
<1> QED
  BY <1>6, <1>7, <1>8, <1>9, <1>10 DEF OutputInv

\* A call, a return and a value of unknown type leave the stream alone.
LEMMA OutputObserveStep ==
  ASSUME OutputInv, UNCHANGED << file, pending, given, promised, failures >>,
         NEW status, outRet' = Answer("format", << >>, status), OutputListEnds'
  PROVE  OutputInv'
<1>1. outRet'.op = "format"
  BY DEF Answer
<1> QED
  BY <1>1 DEF OutputInv, OutputTypeOK, OutputKeepsPromised, OutputFlushDelivers,
              OutputInOrder

\* The loop of format takes values that callers gave, and leaves the list
\* ending with FMT_END.
LEMMA OutputFormatLoop ==
  ASSUME OutputInv, IsLooping(outCall)
  PROVE  /\ Head(outCall.args) \in OutputArgs
         /\ \E args \in Seq(OutputArgs) : Tail(outCall.args) = Append(args, End)
<1>1. PICK args \in Seq(OutputArgs) : outCall.args = Append(args, End)
  BY DEF OutputInv, OutputListEnds, IsLooping
<1>2. /\ Head(outCall.args) = IF args = << >> THEN End ELSE Head(args)
      /\ Tail(outCall.args) = IF args = << >> THEN << >>
                                              ELSE Append(Tail(args), End)
  BY <1>1, HeadTailAppend
<1>3. args # << >>
  BY <1>2 DEF IsLooping
<1>4. Head(args) \in OutputArgs /\ Tail(args) \in Seq(OutputArgs)
  BY <1>3, HeadTailProperties
<1> QED
  BY <1>2, <1>3, <1>4

LEMMA FormatValueStep ==
  ASSUME OutputInv, OutputFormatValue
  PROVE  OutputInv'
<1> DEFINE value == Head(outCall.args)
<1>1. /\ value \in OutputArgs
      /\ \E args \in Seq(OutputArgs) : Tail(outCall.args) = Append(args, End)
  BY OutputFormatLoop DEF OutputFormatValue
<1>2. OutputWrite(value) /\ IsLooping(outCall) /\ outCall # Idle
  BY DEF OutputFormatValue, IsLooping
<1>3. value \in OutputWritable
  <2>1. value # Unknown
    BY <1>2 DEF OutputWrite, Unknown, Strings, Formatted
  <2> QED
    BY <1>1, <2>1, OutputStreamAssumption
<1>4. outCall'.args = Tail(outCall.args)
  BY <1>2 DEF OutputWrite, Progress
<1>5. OutputListEnds'
  BY <1>1, <1>4 DEF OutputListEnds
<1> HIDE DEF value
<1>6. /\ OutputTypeOK' /\ OutputKeepsPromised'
      /\ OutputFlushDelivers' /\ OutputInOrder'
  BY <1>2, <1>3, OutputWriteStep
<1> QED
  BY <1>5, <1>6 DEF OutputInv

LEMMA OutputNextStep ==
  ASSUME OutputInv, OutputNext
  PROVE  OutputInv'
<1>1. ASSUME outCall = Idle, NEW value \in OutputValues, OutputWrite(value)
      PROVE  OutputInv'
  <2>1. outCall' = Idle
    BY <1>1 DEF OutputWrite
  <2>2. value \in OutputWritable
    BY OutputStreamAssumption
  <2> QED
    BY <1>1, <2>1, <2>2, OutputWriteStep DEF OutputInv, OutputListEnds
<1>2. ASSUME NEW a \in OutputArgs, NEW b \in OutputArgs,
             OutputFormat(<< a, b >>)
      PROVE  OutputInv'
  <2>1. << a, b >> \in Seq(OutputArgs)
    OBVIOUS
  <2>2. outCall'.args = Append(<< a, b >>, End)
    BY <1>2 DEF OutputFormat, Called
  <2>3. OutputListEnds'
    BY <2>1, <2>2 DEF OutputListEnds
  <2> QED
    BY <1>2, <2>3, OutputObserveStep DEF OutputFormat
<1>3. CASE OutputFlush
  BY <1>3, FlushStep
<1>4. CASE OutputFormatValue
  BY <1>4, FormatValueStep
<1>5. CASE OutputFormatUnknown
  <2>1. OutputListEnds'
    BY <1>5 DEF OutputFormatUnknown, OutputListEnds
  <2> QED
    BY <1>5, <2>1, OutputObserveStep DEF OutputFormatUnknown
<1>6. CASE OutputFormatReturns
  <2>1. OutputListEnds'
    BY <1>6 DEF OutputFormatReturns, OutputListEnds
  <2> QED
    BY <1>6, <2>1, OutputObserveStep DEF OutputFormatReturns
<1> QED
  BY <1>1, <1>2, <1>3, <1>4, <1>5, <1>6 DEF OutputNext

LEMMA OutputInitInv == OutputInit => OutputInv
<1> SUFFICES ASSUME OutputInit PROVE OutputInv
  OBVIOUS
<1>1. file = << >> /\ pending = << >> /\ given = 0 /\ promised = {}
      /\ failures = 0 /\ outCall = Idle
  BY DEF OutputInit
<1>2. << >> \in Seq(1 .. 0) /\ Len(<< >>) = 0 /\ << >> \o << >> = << >>
  BY EmptySeq, ConcatEmptySeq
<1>3. OutputTypeOK
  BY <1>1, <1>2, OutputStreamAssumption DEF OutputTypeOK
<1>4. OutputKeepsPromised /\ OutputFlushDelivers /\ OutputListEnds
  BY <1>1 DEF OutputKeepsPromised, OutputFlushDelivers, OutputListEnds
<1>5. OutputInOrder
  <2>1. Len(file \o pending) = 0
    BY <1>1, <1>2
  <2> QED
    BY <2>1 DEF OutputInOrder
<1> QED
  BY <1>3, <1>4, <1>5 DEF OutputInv

LEMMA OutputStep == OutputInv /\ [OutputNext]_outputVars => OutputInv'
<1>1. OutputInv /\ UNCHANGED outputVars => OutputInv'
  BY DEF OutputInv, OutputTypeOK, OutputKeepsPromised, OutputFlushDelivers,
         OutputInOrder, OutputListEnds, outputVars
<1> QED
  BY <1>1, OutputNextStep

LEMMA OutputInvariant == OutputSpec => []OutputInv
  BY OutputStep, OutputInitInv, PTL DEF OutputSpec

-----------------------------------------------------------------------------

\* The buffer is never fuller than its size, whatever is written.
THEOREM OutputTypeCorrect == OutputSpec => []OutputTypeOK
<1>1. OutputInv => OutputTypeOK
  BY DEF OutputInv
<1> QED
  BY <1>1, OutputInvariant, PTL

\* What a write took and owes is in the file or in the buffer, whatever the
\* file does.
THEOREM OutputKeepsAllPromised == OutputSpec => []OutputKeepsPromised
<1>1. OutputInv => OutputKeepsPromised
  BY DEF OutputInv
<1> QED
  BY <1>1, OutputInvariant, PTL

\* A flush with success has put all of it in the file.
THEOREM OutputFlushDeliversAll == OutputSpec => []OutputFlushDelivers
<1>1. OutputInv => OutputFlushDelivers
  BY DEF OutputInv
<1> QED
  BY <1>1, OutputInvariant, PTL

\* A file that does not fail receives the bytes in order, and none twice.
THEOREM OutputStaysInOrder == OutputSpec => []OutputInOrder
<1>1. OutputInv => OutputInOrder
  BY DEF OutputInv
<1> QED
  BY <1>1, OutputInvariant, PTL

-----------------------------------------------------------------------------
(***************************************************************************)
(* The digits of a number.  DigitsOf is a recursive function: there is one *)
(* that solves its equation.                                               *)
(***************************************************************************)

\* The requirements of v, given those of smaller numbers.
DigitsAt(f, v) ==
  IF v = 0 THEN Require(0, 0)
  ELSE Both(f[v \div Base], Require(DigitBytes[v % Base], 1))

Solves(f, n) == f = [v \in 0 .. n |-> DigitsAt(f, v)]

LEMMA DigitsIs == DigitsOf = CHOOSE f : f = [v \in Nat |-> DigitsAt(f, v)]
BY DEF DigitsOf, DigitsAt

LEMMA Divided ==
  ASSUME NEW n \in Nat, NEW d \in Nat, d # 0
  PROVE  \E q, r \in Nat : /\ q = n \div d /\ r = n % d
                           /\ n = q * d + r /\ r < d /\ r \in 0 .. d - 1
<1>1. d \in Nat \ {0}
  OBVIOUS
<1>2. n \div d \in Nat
  BY <1>1, Lemmas!Division
<1>3. n % d \in 0 .. d - 1
  BY <1>1, Lemmas!Division
<1>4. n = (n \div d) * d + (n % d)
  BY <1>1, Lemmas!Division
<1> QED
  BY <1>2, <1>3, <1>4

LEMMA DividedUnique ==
  ASSUME NEW n \in Nat, NEW q \in Nat, NEW r \in Nat, NEW d \in Nat,
         r < d, n = q * d + r
  PROVE  n \div d = q /\ n % d = r
<1>1. d \in Nat \ {0}
  OBVIOUS
<1> QED
  BY <1>1, Lemmas!DivisionUnique

LEMMA TwiceIsMore ==
  ASSUME NEW q \in Nat, NEW r \in Nat, NEW v \in Nat, NEW b \in Nat,
         b >= 2, v = q * b + r, v > 0
  PROVE  q < v
<1>1. 2 * q <= b * q
  BY Lemmas!TimesMonotone
<1>2. b * q = q * b /\ q * b \in Nat
  OBVIOUS
<1> QED
  BY <1>1, <1>2

LEMMA QuotientBelow ==
  ASSUME NEW v \in Nat, v # 0
  PROVE  v \div Base \in Nat /\ v \div Base < v /\ v % Base \in 0 .. Base - 1
<1>1. Base \in Nat \ {0} /\ Base >= 2
  BY IntegerFormatAssumption
<1>2. PICK q \in Nat, r \in Nat : /\ q = v \div Base /\ r = v % Base
                                  /\ v = q * Base + r /\ r \in 0 .. Base - 1
  BY <1>1, Divided
<1>3. q < v
  BY <1>1, <1>2, TwiceIsMore
<1> QED
  BY <1>2, <1>3

LEMMA DigitsAtLocal ==
  ASSUME NEW v \in Nat, NEW f, NEW g, \A u \in Nat : u < v => f[u] = g[u]
  PROVE  DigitsAt(f, v) = DigitsAt(g, v)
BY QuotientBelow DEF DigitsAt

LEMMA SolvesUpTo ==
  ASSUME NEW k \in Nat
  PROVE  \E f : Solves(f, k)
<1> DEFINE N == {n \in Nat : \E f : Solves(f, n)}
<1>1. 0 \in N
  <2>1. PICK f : f = [v \in 0 .. 0 |-> DigitsAt(<< >>, v)]
    OBVIOUS
  <2>2. ASSUME NEW v \in 0 .. 0
        PROVE  DigitsAt(<< >>, v) = DigitsAt(f, v)
    BY DEF DigitsAt
  <2>3. f = [v \in 0 .. 0 |-> DigitsAt(f, v)]
    BY <2>1, <2>2, Zenon
  <2> QED
    BY <2>3 DEF Solves
<1>2. ASSUME NEW n \in Nat, n \in N PROVE n + 1 \in N
  <2>1. PICK f : Solves(f, n)
    BY <1>2
  <2>2. PICK g : g = [v \in 0 .. n + 1 |-> DigitsAt(f, v)]
    OBVIOUS
  <2>3. ASSUME NEW u \in Nat, u <= n PROVE f[u] = g[u]
    <3>1. f[u] = DigitsAt(f, u)
      BY <2>1, <2>3 DEF Solves
    <3>2. g[u] = DigitsAt(f, u)
      BY <2>2, <2>3
    <3> QED
      BY <3>1, <3>2
  <2>4. ASSUME NEW v \in 0 .. n + 1
        PROVE  DigitsAt(f, v) = DigitsAt(g, v)
    <3>1. \A u \in Nat : u < v => f[u] = g[u]
      BY <2>3
    <3> QED
      BY <3>1, DigitsAtLocal
  <2>5. g = [v \in 0 .. n + 1 |-> DigitsAt(g, v)]
    BY <2>2, <2>4, Zenon
  <2> QED
    BY <2>5 DEF Solves
<1> HIDE DEF N
<1>3. Nat \subseteq N
  BY <1>1, <1>2, Lemmas!NatSets
<1> QED
  BY <1>3 DEF N

\* Solutions agree where both are defined.
LEMMA SolutionsAgree ==
  ASSUME NEW m \in Nat, NEW f, Solves(f, m), NEW n \in Nat, NEW g, Solves(g, n)
  PROVE  \A v \in Nat : v <= m /\ v <= n => f[v] = g[v]
<1> DEFINE N == {k \in Nat : \A v \in Nat :
                               v <= k /\ v <= m /\ v <= n => f[v] = g[v]}
<1>1. \A v \in 0 .. m : f[v] = DigitsAt(f, v)
  BY DEF Solves
<1>2. \A v \in 0 .. n : g[v] = DigitsAt(g, v)
  BY DEF Solves
<1>3. ASSUME NEW v \in Nat, v <= m, v <= n,
             \A u \in Nat : u < v => f[u] = g[u]
      PROVE  f[v] = g[v]
  <2>1. DigitsAt(f, v) = DigitsAt(g, v)
    BY <1>3, DigitsAtLocal
  <2> QED
    BY <1>1, <1>2, <1>3, <2>1
<1>4. 0 \in N
  BY <1>3
<1>5. ASSUME NEW k \in Nat, k \in N PROVE k + 1 \in N
  <2>1. \A v \in Nat : v <= k /\ v <= m /\ v <= n => f[v] = g[v]
    BY <1>5
  <2>2. ASSUME NEW v \in Nat, v <= k + 1, v <= m, v <= n PROVE f[v] = g[v]
    <3>1. \A u \in Nat : u < v => f[u] = g[u]
      BY <2>1, <2>2
    <3> QED
      BY <1>3, <2>2, <3>1
  <2> QED
    BY <2>2
<1>6. Nat \subseteq N
  <2> HIDE DEF N
  <2> QED
    BY <1>4, <1>5, Lemmas!NatSets
<1> QED
  BY <1>6

\* The equation of DigitsOf.
LEMMA DigitsEquation ==
  \A v \in Nat : DigitsOf[v] = DigitsAt(DigitsOf, v)
<1> DEFINE Part(n) == CHOOSE f : Solves(f, n)
           h == [v \in Nat |-> Part(v)[v]]
<1>1. \A n \in Nat : Solves(Part(n), n)
  BY SolvesUpTo
<1> HIDE DEF Part
<1>2. ASSUME NEW v \in Nat PROVE Part(v)[v] = DigitsAt(h, v)
  <2>1. Part(v)[v] = DigitsAt(Part(v), v)
    <3>1. Solves(Part(v), v) /\ v \in 0 .. v
      BY <1>1
    <3> QED
      BY <3>1 DEF Solves
  <2>2. ASSUME NEW u \in Nat, u < v PROVE Part(v)[u] = h[u]
    <3>1. u <= u /\ u <= v
      BY <2>2
    <3>2. Part(v)[u] = Part(u)[u]
      BY <1>1, <3>1, SolutionsAgree
    <3> QED
      BY <3>2
  <2> HIDE DEF h
  <2>3. DigitsAt(Part(v), v) = DigitsAt(h, v)
    BY <2>2, DigitsAtLocal
  <2> QED
    BY <2>1, <2>3
<1>3. h = [v \in Nat |-> DigitsAt(h, v)]
  <2>1. PICK k : k = h
    OBVIOUS
  <2>2. k = [v \in Nat |-> Part(v)[v]]
    BY <2>1
  <2>3. \A v \in Nat : Part(v)[v] = DigitsAt(k, v)
    BY <1>2, <2>1
  <2>4. k = [v \in Nat |-> DigitsAt(k, v)]
    BY <2>2, <2>3, Zenon
  <2> QED
    BY <2>1, <2>4
<1>4. DigitsOf = [v \in Nat |-> DigitsAt(DigitsOf, v)]
  <2> HIDE DEF h
  <2> QED
    BY <1>3, DigitsIs
<1>5. PICK d : d = DigitsOf
  OBVIOUS
<1> QED
  BY <1>4, <1>5

Requirement == [bytes : Nat, units : Nat]

LEMMA BothType ==
  ASSUME NEW a \in Requirement, NEW b \in Requirement
  PROVE  /\ Both(a, b) \in Requirement
         /\ Both(a, b).bytes = a.bytes + b.bytes
         /\ Both(a, b).units = a.units + b.units
BY DEF Requirement, Both, Require

\* Each digit of a number has its bytes and counts as one; zero has none.
LEMMA DigitsFacts ==
  \A v \in Nat :
    /\ DigitsOf[v] \in Requirement
    /\ v = 0 => DigitsOf[v].bytes = 0 /\ DigitsOf[v].units = 0
    /\ v # 0 => LET fewer == DigitsOf[v \div Base]
                IN /\ v \div Base \in Nat /\ v % Base \in 0 .. Base - 1
                   /\ DigitsOf[v].bytes = fewer.bytes + DigitBytes[v % Base]
                   /\ DigitsOf[v].units = fewer.units + 1
<1> DEFINE N == {n \in Nat : \A v \in Nat :
                               v <= n => DigitsOf[v] \in Requirement}
<1>1. ASSUME NEW v \in Nat, v = 0
      PROVE  /\ DigitsOf[v] \in Requirement
             /\ DigitsOf[v].bytes = 0 /\ DigitsOf[v].units = 0
  <2>1. DigitsOf[v] = Require(0, 0)
    BY <1>1, DigitsEquation DEF DigitsAt
  <2> QED
    BY <2>1 DEF Require, Requirement
<1>2. ASSUME NEW v \in Nat, v # 0, DigitsOf[v \div Base] \in Requirement
      PROVE  /\ DigitsOf[v] \in Requirement
             /\ DigitsOf[v].bytes
                  = DigitsOf[v \div Base].bytes + DigitBytes[v % Base]
             /\ DigitsOf[v].units = DigitsOf[v \div Base].units + 1
  <2>1. PICK one : one = Require(DigitBytes[v % Base], 1)
    OBVIOUS
  <2>2. /\ one \in Requirement /\ one.units = 1
        /\ one.bytes = DigitBytes[v % Base]
    BY <1>2, <2>1, QuotientBelow, IntegerFormatAssumption
       DEF Require, Requirement
  <2>3. DigitsOf[v] = Both(DigitsOf[v \div Base], one)
    BY <1>2, <2>1, DigitsEquation DEF DigitsAt
  <2> QED
    BY <1>2, <2>2, <2>3, BothType
<1>3. 0 \in N
  BY <1>1
<1>4. ASSUME NEW n \in Nat, n \in N PROVE n + 1 \in N
  <2>1. ASSUME NEW v \in Nat, v <= n + 1, v # 0
        PROVE  DigitsOf[v] \in Requirement
    <3>1. v \div Base \in Nat /\ v \div Base <= n
      BY <2>1, QuotientBelow
    <3>2. DigitsOf[v \div Base] \in Requirement
      BY <1>4, <3>1
    <3> QED
      BY <1>2, <2>1, <3>2
  <2> QED
    BY <1>1, <2>1
<1>5. Nat \subseteq N
  <2> HIDE DEF N
  <2> QED
    BY <1>3, <1>4, Lemmas!NatSets
<1>6. \A v \in Nat : DigitsOf[v] \in Requirement
  BY <1>5
<1> QED
  BY <1>1, <1>2, <1>6, QuotientBelow

-----------------------------------------------------------------------------
(***************************************************************************)
(* Digits in groups, and how many separators end one                       *)
(***************************************************************************)

\* Of n digits written from the right, those since the last separator, and the
\* groups that are complete.
InGroup(n, d) == IF d = 0 THEN n ELSE n % d
GroupsEnded(n, d) == IF d = 0 THEN 0 ELSE n \div d

LEMMA GroupTypes ==
  ASSUME NEW n \in Nat, NEW d \in Nat
  PROVE  InGroup(n, d) \in Nat /\ GroupsEnded(n, d) \in Nat
<1>1. CASE d # 0
  <2>1. n \div d \in Nat /\ n % d \in Nat
    BY <1>1, Divided
  <2> QED
    BY <1>1, <2>1 DEF InGroup, GroupsEnded
<1> QED
  BY <1>1 DEF InGroup, GroupsEnded

LEMMA NextQuotient ==
  ASSUME NEW q \in Nat, NEW d \in Nat
  PROVE  q * d + d = (q + 1) * d + 0
OBVIOUS

\* One digit more, or the one that completes a group.
LEMMA GroupStep ==
  ASSUME NEW n \in Nat, NEW d \in Nat
  PROVE  IF InGroup(n, d) + 1 = d
         THEN /\ GroupsEnded(n + 1, d) = GroupsEnded(n, d) + 1
              /\ InGroup(n + 1, d) = 0
         ELSE /\ GroupsEnded(n + 1, d) = GroupsEnded(n, d)
              /\ InGroup(n + 1, d) = InGroup(n, d) + 1
<1>1. CASE d = 0
  BY <1>1 DEF InGroup, GroupsEnded
<1>2. CASE d # 0
  <2>1. PICK q \in Nat, r \in Nat : /\ q = n \div d /\ r = n % d
                                    /\ n = q * d + r /\ r < d
    BY <1>2, Divided
  <2>2. InGroup(n, d) = r /\ GroupsEnded(n, d) = q
    BY <1>2, <2>1 DEF InGroup, GroupsEnded
  <2>3. CASE r + 1 = d
    <3>1. q * d \in Nat
      OBVIOUS
    <3>2. n + 1 = q * d + d
      BY <2>1, <2>3, <3>1
    <3>3. n + 1 = (q + 1) * d + 0
      BY <3>2, NextQuotient
    <3>4. n + 1 \in Nat /\ q + 1 \in Nat /\ 0 \in Nat /\ 0 < d
      BY <1>2
    <3>5. (n + 1) \div d = q + 1 /\ (n + 1) % d = 0
      BY <3>3, <3>4, DividedUnique
    <3> QED
      BY <1>2, <2>2, <2>3, <3>5 DEF InGroup, GroupsEnded
  <2>4. CASE r + 1 # d
    <3>1. q * d \in Nat
      OBVIOUS
    <3>2. n + 1 = q * d + (r + 1) /\ r + 1 < d
      BY <2>1, <2>4, <3>1
    <3>3. (n + 1) \div d = q /\ (n + 1) % d = r + 1
      BY <1>2, <3>2, DividedUnique
    <3> QED
      BY <1>2, <2>2, <2>4, <3>3 DEF InGroup, GroupsEnded
  <2> QED
    BY <2>3, <2>4
<1> QED
  BY <1>1, <1>2

LEMMA NoneGrouped ==
  ASSUME NEW d \in Nat
  PROVE  GroupsEnded(0, d) = 0 /\ InGroup(0, d) = 0
<1>1. CASE d # 0
  <2>1. 0 = 0 * d + 0 /\ 0 < d /\ 0 \in Nat
    BY <1>1
  <2>2. 0 \div d = 0 /\ 0 % d = 0
    BY <2>1, DividedUnique
  <2> QED
    BY <1>1, <2>2 DEF GroupsEnded, InGroup
<1> QED
  BY <1>1 DEF GroupsEnded, InGroup

\* Digits that do not complete the group they are written to.
LEMMA SameGroup ==
  ASSUME NEW n \in Nat, NEW k \in Nat, NEW d \in Nat \ {0},
         InGroup(n, d) + k < d
  PROVE  GroupsEnded(n + k, d) = GroupsEnded(n, d)
<1>1. PICK q \in Nat, r \in Nat : /\ q = n \div d /\ r = n % d
                                  /\ n = q * d + r /\ r < d
  BY Divided
<1>2. q * d \in Nat
  OBVIOUS
<1>3. n + k = q * d + (r + k) /\ r + k < d
  BY <1>1, <1>2 DEF InGroup
<1>4. (n + k) \div d = q
  BY <1>3, DividedUnique
<1> QED
  BY <1>1, <1>4 DEF GroupsEnded

LEMMA GroupsMonotone ==
  ASSUME NEW m \in Nat, NEW n \in Nat, NEW d \in Nat, m <= n
  PROVE  GroupsEnded(m, d) <= GroupsEnded(n, d)
BY Lemmas!DivisionMonotone DEF GroupsEnded

\* A group that has just been completed.
LEMMA GroupFull ==
  ASSUME NEW n \in Nat, NEW d \in Nat \ {0}, InGroup(n, d) + 1 = d
  PROVE  (n + 1) % d = 0
BY GroupStep DEF InGroup

\* There is a separator between each group and the next.
LEMMA SeparatorsBetween ==
  ASSUME NEW units \in Nat, NEW d \in Nat
  PROVE  /\ SeparatorCount(units, d) \in Nat
         /\ units > 0 => SeparatorCount(units, d) = GroupsEnded(units - 1, d)
         /\ units = 0 => SeparatorCount(units, d) = 0
         /\ d = 0 => SeparatorCount(units, d) = 0
<1>1. CASE units > 0
  <2>1. SeparatorCount(units, d) = GroupsEnded(units - 1, d)
    BY <1>1 DEF SeparatorCount, GroupsEnded
  <2>2. units - 1 \in Nat
    BY <1>1
  <2> QED
    BY <1>1, <2>1, <2>2, GroupTypes DEF SeparatorCount
<1>2. CASE units = 0
  BY <1>2 DEF SeparatorCount
<1> QED
  BY <1>1, <1>2

-----------------------------------------------------------------------------
(***************************************************************************)
(* The output that is left is what the rest needs                          *)
(***************************************************************************)

Digits == DigitsOf[Absolute(Value)]

\* The zeros in front of the digits.
Missing ==
  IF IntegerSpec.minimum_digits > Digits.units
  THEN IntegerSpec.minimum_digits - Digits.units ELSE 0

Total == Digits.units + Missing

\* Bytes of so many zeros and of the separators that are not written yet.
Needed(units, separators) ==
  units * DigitBytes[0]
    + (SeparatorCount(Total, Distance) - separators)
        * IntegerSpec.minor_separator

\* The last digit ends no group: none follows it, as far as the loop that
\* writes the digits can tell.
GroupsWritten ==
  IF rest = 0 /\ written > 0 THEN GroupsEnded(written - 1, Distance)
                             ELSE GroupsEnded(written, Distance)

DigitsCounted ==
  IF rest = 0 /\ written > 0 THEN InGroup(written - 1, Distance) + 1
                             ELSE InGroup(written, Distance)

IntegerTyped ==
  /\ number \in [value : Numbers, spec : IntegerSpecs]
  /\ phase \in {"called", "refused", "sign", "digits", "zeros", "end"}
  /\ room \in Int
  /\ rest \in Nat /\ counter \in Nat /\ written \in Nat /\ zeros \in Nat

\* While the digits are written, and while the zeros are.
DigitsInv ==
  /\ Digits.units = written + DigitsOf[rest].units
  /\ counter = DigitsCounted
  /\ room = DigitsOf[rest].bytes + Needed(Missing, GroupsWritten)

ZerosInv ==
  /\ written = Digits.units
  /\ Distance > 0
  /\ zeros \in 1 .. Missing
  /\ \/ /\ MissesSeparators
        /\ counter >= Distance
        /\ room = Needed(zeros, GroupsEnded(written - 1, Distance))
     \/ /\ counter = InGroup(Total - zeros, Distance)
        /\ room = Needed(zeros, GroupsEnded(Total - zeros, Distance))

\* The inductive invariant for IntegerFillsOutput.
IntegerInv ==
  /\ IntegerTyped
  /\ phase = "called" => room = 0 /\ counter = 0 /\ written = 0
  /\ phase = "refused" => room = 0
  /\ phase = "sign" =>
       /\ counter = 0 /\ written = 0
       /\ room = SignRequirements(Value, IntegerSpec).bytes
                   + (Digits.bytes + Needed(Missing, 0))
  /\ phase = "digits" => DigitsInv
  /\ phase = "zeros" => ZerosInv
  /\ phase = "end" => room >= 0 /\ (room = 0 \/ MissesSeparators)

\* What is known of the number and how it is written.
LEMMA SpecFacts ==
  ASSUME IntegerTyped
  PROVE  /\ Value \in Int /\ Absolute(Value) \in Nat
         /\ IntegerSpec \in [minimum_digits : Nat, always_sign : BOOLEAN,
              plus : Nat, minus : Nat, separator_distance : Nat,
              minor_separator : Nat, padding_max : Nat, padding : Nat]
         /\ IntegerSpec.minimum_digits \in Nat
         /\ Distance \in Nat
         /\ IntegerSpec.minor_separator \in Nat
         /\ \A d \in 0 .. Base - 1 : DigitBytes[d] \in Nat
         /\ DigitBytes[0] \in Nat
         /\ Digits.units \in Nat /\ Digits.bytes \in Nat
         /\ Missing \in Nat /\ Total \in Nat
         /\ Total = Digits.units + Missing
         /\ SignRequirements(Value, IntegerSpec).bytes \in Nat
<1>1. Value \in Int /\ IntegerSpec \in IntegerSpecs
  BY IntegerFormatAssumption DEF IntegerTyped, Value, IntegerSpec
<1>2. IntegerSpec \in [minimum_digits : Nat, always_sign : BOOLEAN,
              plus : Nat, minus : Nat, separator_distance : Nat,
              minor_separator : Nat, padding_max : Nat, padding : Nat]
  BY <1>1, IntegerFormatAssumption
<1>3. /\ IntegerSpec.minimum_digits \in Nat /\ Distance \in Nat
      /\ IntegerSpec.minor_separator \in Nat
      /\ IntegerSpec.plus \in Nat /\ IntegerSpec.minus \in Nat
  BY <1>2 DEF Distance
<1>4. Absolute(Value) \in Nat
  BY <1>1 DEF Absolute
<1>5. Digits.units \in Nat /\ Digits.bytes \in Nat
  BY <1>4, DigitsFacts DEF Digits, Requirement
<1>6. Missing \in Nat /\ Total \in Nat /\ Total = Digits.units + Missing
  BY <1>3, <1>5 DEF Missing, Total
<1>7. /\ \A d \in 0 .. Base - 1 : DigitBytes[d] \in Nat
      /\ DigitBytes[0] \in Nat
  BY IntegerFormatAssumption
<1>8. SignRequirements(Value, IntegerSpec).bytes \in Nat
  BY <1>1, <1>3 DEF SignRequirements, Require
<1> QED
  BY <1>1, <1>2, <1>3, <1>4, <1>5, <1>6, <1>7, <1>8

-----------------------------------------------------------------------------
(***************************************************************************)
(* The steps                                                               *)
(***************************************************************************)

LEMMA NumberKept ==
  ASSUME number' = number
  PROVE  /\ Value' = Value /\ IntegerSpec' = IntegerSpec
         /\ Distance' = Distance /\ Digits' = Digits
         /\ Missing' = Missing /\ Total' = Total
         /\ SignRequirements(Value, IntegerSpec)'
              = SignRequirements(Value, IntegerSpec)
         /\ \A u, s : Needed(u, s)' = Needed(u, s)
BY DEF Value, IntegerSpec, Distance, Digits, Missing, Total, Needed

\* What one separator, and one zero, take of what is needed.
LEMMA SeparatorTaken ==
  ASSUME NEW u \in Nat, NEW z \in Nat, NEW s \in Nat, NEW g \in Nat,
         NEW b \in Nat
  PROVE  u * z + (s - (g + 1)) * b = u * z + (s - g) * b - b
OBVIOUS

LEMMA ZeroTaken ==
  ASSUME NEW u \in Nat, u > 0, NEW z \in Nat, NEW x \in Int
  PROVE  (u - 1) * z + x = u * z + x - z
<1>1. u * z = (u - 1) * z + z
  OBVIOUS
<1> QED
  BY <1>1

LEMMA RoomLeft ==
  ASSUME NEW u \in Nat, NEW z \in Nat, NEW s \in Nat, NEW g \in Nat,
         NEW b \in Nat
  PROVE  /\ u * z + (s - g) * b \in Int
         /\ g <= s => u * z + (s - g) * b \in Nat /\ (s - g) * b \in Nat
<1>1. u * z \in Nat
  OBVIOUS
<1>2. (s - g) * b \in Int
  OBVIOUS
<1>3. ASSUME g <= s PROVE (s - g) * b \in Nat
  <2>1. PICK k \in Nat : k = s - g
    BY <1>3
  <2>2. k * b \in Nat
    OBVIOUS
  <2> QED
    BY <2>1, <2>2
<1> QED
  BY <1>1, <1>2, <1>3

LEMMA NeededFacts ==
  ASSUME IntegerTyped, NEW u \in Nat, NEW g \in Nat
  PROVE  /\ Needed(u, g) \in Int
         /\ Needed(u, g + 1) = Needed(u, g) - IntegerSpec.minor_separator
         /\ u > 0 => Needed(u - 1, g) = Needed(u, g) - DigitBytes[0]
         /\ g <= SeparatorCount(Total, Distance) =>
              Needed(u, g) \in Nat /\ Needed(0, g) \in Nat
         /\ g = SeparatorCount(Total, Distance) => Needed(0, g) = 0
         /\ Needed(u, g) - u * DigitBytes[0] = Needed(0, g)
<1>1. PICK z \in Nat, b \in Nat, s \in Nat :
        /\ z = DigitBytes[0] /\ b = IntegerSpec.minor_separator
        /\ s = SeparatorCount(Total, Distance)
  BY SpecFacts, SeparatorsBetween
<1>2. \A v \in Nat, h \in Nat : Needed(v, h) = v * z + (s - h) * b
  BY <1>1 DEF Needed
<1>3. Needed(u, g) \in Int /\ (g <= s => Needed(u, g) \in Nat)
  <2>1. /\ u * z + (s - g) * b \in Int
        /\ g <= s => u * z + (s - g) * b \in Nat
    BY RoomLeft
  <2>2. Needed(u, g) = u * z + (s - g) * b
    BY <1>2
  <2> QED
    BY <2>1, <2>2
<1>4. Needed(u, g + 1) = Needed(u, g) - b
  BY <1>2, SeparatorTaken
<1>5. ASSUME u > 0 PROVE Needed(u - 1, g) = Needed(u, g) - z
  <2>1. (s - g) * b \in Int
    OBVIOUS
  <2>2. (u - 1) * z + (s - g) * b = u * z + (s - g) * b - z
    BY <1>5, <2>1, ZeroTaken
  <2>3. u - 1 \in Nat
    BY <1>5
  <2> QED
    BY <1>2, <2>2, <2>3
<1>6. Needed(0, g) = (s - g) * b
  <2>1. 0 * z = 0 /\ (s - g) * b \in Int
    OBVIOUS
  <2> QED
    BY <1>2, <2>1
<1>7. g <= s => Needed(0, g) \in Nat
  BY <1>6, RoomLeft
<1>8. g = s => Needed(0, g) = 0
  <2>1. 0 * b = 0 /\ s - s = 0
    OBVIOUS
  <2> QED
    BY <1>6, <2>1
<1>9. Needed(u, g) - u * z = Needed(0, g)
  <2>1. u * z \in Nat /\ (s - g) * b \in Int
    OBVIOUS
  <2> QED
    BY <1>2, <1>6, <2>1
<1> QED
  BY <1>1, <1>3, <1>4, <1>5, <1>7, <1>8, <1>9

\* The number of digits, the groups they end and the zeros that are needed.
LEMMA InitIntegerInv == IntegerInit => IntegerInv
BY DEF IntegerInit, IntegerInv, IntegerTyped

\* The length that is refused or taken is made up of the sign, the digits, the
\* zeros, the separators and the padding.
LEMMA LengthIs ==
  ASSUME IntegerTyped
  PROVE  IntegerLength(Value, IntegerSpec)
             - PaddingUnits(Value, IntegerSpec) * IntegerSpec.padding
           = SignRequirements(Value, IntegerSpec).bytes
               + (Digits.bytes + Needed(Missing, 0))
<1> DEFINE sign == SignRequirements(Value, IntegerSpec)
           digits == DigitRequirements(Absolute(Value), IntegerSpec)
           sep == IntegerSpec.minor_separator
           z == DigitBytes[0]
           s == SeparatorCount(Total, Distance)
<1>1. /\ digits.bytes = Digits.bytes + Missing * z
      /\ digits.units = Total
  <2>1. CASE IntegerSpec.minimum_digits > Digits.units
    <3>1. IntegerSpec.minimum_digits - Digits.units > 0
      BY <2>1, SpecFacts
    <3>2. digits = Both(Digits, Times(Missing, z))
      BY <2>1, <3>1 DEF DigitRequirements, Digits, Missing
    <3> QED
      BY <3>2 DEF Both, Times, Require, Total
  <2>2. CASE ~(IntegerSpec.minimum_digits > Digits.units)
    <3>1. ~(IntegerSpec.minimum_digits - Digits.units > 0)
      BY <2>2, SpecFacts
    <3>2. digits = Digits
      BY <3>1 DEF DigitRequirements, Digits
    <3>3. Missing = 0
      BY <2>2 DEF Missing
    <3>4. Missing * z = 0
      BY <3>3, SpecFacts
    <3> QED
      BY <3>2, <3>3, <3>4, SpecFacts
  <2> QED
    BY <2>1, <2>2
<1>2. IntegerRequirements(Value, IntegerSpec).bytes
        = sign.bytes + digits.bytes + s * sep
  BY <1>1 DEF IntegerRequirements, Both, Times, Require, Distance
<1>3. PaddingUnits(Value, IntegerSpec) * IntegerSpec.padding \in Int
  <2>1. /\ IntegerSpec.padding \in Nat /\ IntegerSpec.padding_max \in Nat
    BY SpecFacts
  <2>2. IntegerRequirements(Value, IntegerSpec).units \in Int
    <3>1. IntegerRequirements(Value, IntegerSpec).units
            = sign.units + digits.units + s
      BY <1>1 DEF IntegerRequirements, Both, Times, Require, Distance
    <3>2. sign.units \in Nat
      BY SpecFacts DEF SignRequirements, Require
    <3>3. s \in Nat
      BY SpecFacts, SeparatorsBetween
    <3> HIDE DEF s, sign, digits
    <3> QED
      BY <1>1, <3>1, <3>2, <3>3, SpecFacts
  <2>3. PaddingUnits(Value, IntegerSpec) \in Int
    BY <2>1, <2>2 DEF PaddingUnits
  <2> QED
    BY <2>1, <2>3
<1>4. Needed(Missing, 0) = Missing * z + s * sep
  <2>1. s \in Nat
    BY SpecFacts, SeparatorsBetween
  <2> QED
    BY <2>1 DEF Needed
<1>5. PICK a \in Nat, b \in Nat, c \in Nat, e \in Nat, p \in Int :
        /\ a = sign.bytes /\ b = Digits.bytes /\ c = Missing * z /\ e = s * sep
        /\ p = PaddingUnits(Value, IntegerSpec) * IntegerSpec.padding
  <2>1. s \in Nat /\ sep \in Nat /\ Missing \in Nat /\ z \in Nat
    BY SpecFacts, SeparatorsBetween
  <2> HIDE DEF s, sep, z
  <2>2. s * sep \in Nat /\ Missing * z \in Nat
    BY <2>1
  <2> QED
    BY <1>3, <2>2, SpecFacts
<1>6. IntegerLength(Value, IntegerSpec) = a + (b + c) + e + p
  BY <1>1, <1>2, <1>5 DEF IntegerLength
<1> HIDE DEF sign, digits, sep, z, s
<1>7. IntegerLength(Value, IntegerSpec) - p = a + (b + (c + e))
  BY <1>6
<1> QED
  BY <1>4, <1>5, <1>7 DEF sign

LEMMA FormatKeeps ==
  ASSUME IntegerInv, NEW extra \in {0, 1},
         FormatInteger(IntegerLength(Value, IntegerSpec) + extra)
  PROVE  IntegerInv'
<1> DEFINE length == IntegerLength(Value, IntegerSpec) + extra
<1>1. /\ phase = "called" /\ room = 0 /\ counter = 0 /\ written = 0
      /\ IntegerTyped
  BY DEF FormatInteger, IntegerInv
<1>2. /\ number' = number /\ rest' = rest /\ counter' = counter
      /\ written' = written /\ zeros' = zeros
  BY DEF FormatInteger
<1>3. CASE length # IntegerLength(Value, IntegerSpec)
  <2>1. phase' = "refused" /\ room' = room
    BY <1>3 DEF FormatInteger
  <2> QED
    BY <1>1, <1>2, <2>1 DEF IntegerInv, IntegerTyped
<1>4. CASE length = IntegerLength(Value, IntegerSpec)
  <2>1. /\ phase' = "sign"
        /\ room' = IntegerLength(Value, IntegerSpec)
             - PaddingUnits(Value, IntegerSpec) * IntegerSpec.padding
    BY <1>4 DEF FormatInteger
  <2>2. room' = SignRequirements(Value, IntegerSpec).bytes
                  + (Digits.bytes + Needed(Missing, 0))
    BY <1>1, <2>1, LengthIs
  <2>3. room' \in Int
    <3>1. Needed(Missing, 0) \in Int
      BY <1>1, SpecFacts, NeededFacts
    <3> QED
      BY <1>1, <2>2, <3>1, SpecFacts
  <2>4. room' = (SignRequirements(Value, IntegerSpec).bytes
                  + (Digits.bytes + Needed(Missing, 0)))'
    BY <1>2, <2>2, NumberKept
  <2> QED
    BY <1>1, <1>2, <2>1, <2>3, <2>4 DEF IntegerInv, IntegerTyped
<1> QED
  BY <1>3, <1>4

LEMMA SignKeeps ==
  ASSUME IntegerInv, WriteSign
  PROVE  IntegerInv'
<1>1. /\ phase = "sign" /\ IntegerTyped /\ counter = 0 /\ written = 0
      /\ room = SignRequirements(Value, IntegerSpec).bytes
                  + (Digits.bytes + Needed(Missing, 0))
  BY DEF WriteSign, IntegerInv
<1>2. /\ number' = number /\ counter' = counter /\ written' = written
      /\ zeros' = zeros /\ phase' = "digits" /\ rest' = Absolute(Value)
      /\ room' = room - SignRequirements(Value, IntegerSpec).bytes
  BY DEF WriteSign
<1>3. DigitsOf[rest'] = Digits /\ rest' \in Nat
  BY <1>1, <1>2, SpecFacts DEF Digits
<1>4. GroupsEnded(0, Distance) = 0 /\ InGroup(0, Distance) = 0
  BY <1>1, SpecFacts, NoneGrouped
<1>5. DigitsCounted' = 0 /\ GroupsWritten' = 0
  BY <1>1, <1>2, <1>4, NumberKept DEF DigitsCounted, GroupsWritten
<1>6. Needed(Missing, 0) \in Int
  BY <1>1, SpecFacts, NeededFacts
<1>7. room' = Digits.bytes + Needed(Missing, 0)
  BY <1>1, <1>2, <1>6, SpecFacts
<1>8. Needed(Missing, GroupsWritten)' = Needed(Missing, 0)
  BY <1>2, <1>5, NumberKept DEF Needed
<1>9. DigitsInv'
  <2>1. Digits' = Digits
    BY <1>2, NumberKept
  <2>2. Digits.units = 0 + Digits.units
    BY <1>1, SpecFacts
  <2> QED
    BY <1>1, <1>2, <1>3, <1>5, <1>7, <1>8, <2>1, <2>2 DEF DigitsInv
<1>10. IntegerTyped'
  BY <1>1, <1>2, <1>3, <1>6, <1>7, SpecFacts DEF IntegerTyped
<1> QED
  BY <1>2, <1>9, <1>10 DEF IntegerInv

LEMMA DigitKeeps ==
  ASSUME IntegerInv, WriteDigit
  PROVE  IntegerInv'
<1> DEFINE c == DigitBytes[rest % Base]
           left == rest \div Base
           sep == IntegerSpec.minor_separator
<1>1. /\ phase = "digits" /\ rest # 0 /\ IntegerTyped /\ DigitsInv
  BY DEF WriteDigit, IntegerInv
<1>2. /\ number' = number /\ phase' = "digits" /\ zeros' = zeros
      /\ rest' = left /\ written' = written + 1
      /\ WriteWithSeparator(rest % Base, left = 0)
  BY <1>1 DEF WriteDigit
<1>3. /\ rest \in Nat /\ written \in Nat /\ counter \in Nat /\ room \in Int
  BY <1>1 DEF IntegerTyped
<1>4. /\ left \in Nat /\ rest % Base \in 0 .. Base - 1
      /\ DigitsOf[rest].bytes = DigitsOf[left].bytes + c
      /\ DigitsOf[rest].units = DigitsOf[left].units + 1
      /\ DigitsOf[left].bytes \in Nat /\ DigitsOf[left].units \in Nat
  BY <1>1, <1>3, DigitsFacts DEF Requirement
<1>5. c \in Nat /\ sep \in Nat /\ Distance \in Nat /\ Missing \in Nat
  BY <1>1, <1>4, SpecFacts
<1> DEFINE g == GroupsEnded(written, Distance)
           i == InGroup(written, Distance)
<1>6. g \in Nat /\ i \in Nat
  BY <1>3, <1>5, GroupTypes
<1>7. /\ counter = i
      /\ room = DigitsOf[rest].bytes + Needed(Missing, g)
      /\ Digits.units = written + DigitsOf[rest].units
  BY <1>1 DEF DigitsInv, DigitsCounted, GroupsWritten
<1>8. /\ Digits' = Digits /\ Missing' = Missing /\ Distance' = Distance
      /\ \A u, s : Needed(u, s)' = Needed(u, s)
  BY <1>2, NumberKept
<1>9. Needed(Missing, g) \in Int /\ Needed(Missing, g + 1) = Needed(Missing, g) - sep
  BY <1>1, <1>5, <1>6, NeededFacts
<1>10. CASE left = 0
  <2>1. counter' = counter + 1 /\ room' = room - c - 0
    BY <1>2, <1>10 DEF WriteWithSeparator, SeparatorDue
  <2>2. GroupsWritten' = g /\ DigitsCounted' = i + 1
    <3>1. rest' = 0 /\ written' > 0 /\ written' - 1 = written
      BY <1>2, <1>3, <1>10
    <3> QED
      BY <1>8, <3>1 DEF GroupsWritten, DigitsCounted
  <2> HIDE DEF left, c, sep, g, i
  <2>3. room' = DigitsOf[left].bytes + Needed(Missing, g)
    BY <1>4, <1>5, <1>7, <1>9, <2>1
  <2>4. Digits.units = written' + DigitsOf[left].units
    BY <1>2, <1>3, <1>4, <1>7
  <2>5. DigitsInv'
    <3>1. Needed(Missing, GroupsWritten)' = Needed(Missing, g)
      BY <1>8, <2>2 DEF Needed
    <3> QED
      BY <1>2, <1>7, <1>8, <2>1, <2>2, <2>3, <2>4, <3>1 DEF DigitsInv
  <2>6. IntegerTyped'
    BY <1>1, <1>2, <1>3, <1>4, <1>9, <2>1, <2>3 DEF IntegerTyped
  <2> QED
    BY <1>2, <2>5, <2>6 DEF IntegerInv
<1>11. CASE left # 0
  <2>1. /\ counter + 1 = Distance => counter' = 0 /\ room' = room - c - sep
        /\ counter + 1 # Distance => counter' = counter + 1 /\ room' = room - c - 0
    BY <1>2, <1>11 DEF WriteWithSeparator, SeparatorDue
  <2>2. /\ GroupsWritten' = GroupsEnded(written + 1, Distance)
        /\ DigitsCounted' = InGroup(written + 1, Distance)
    BY <1>2, <1>8, <1>11 DEF GroupsWritten, DigitsCounted
  <2>3. /\ i + 1 = Distance => /\ GroupsEnded(written + 1, Distance) = g + 1
                               /\ InGroup(written + 1, Distance) = 0
        /\ i + 1 # Distance => /\ GroupsEnded(written + 1, Distance) = g
                               /\ InGroup(written + 1, Distance) = i + 1
    BY <1>3, <1>5, GroupStep
  <2> HIDE DEF left, c, sep, g, i
  <2>4. counter' = DigitsCounted' /\ counter' \in Nat
    BY <1>3, <1>7, <2>1, <2>2, <2>3
  <2>5. room' = DigitsOf[left].bytes + Needed(Missing, GroupsWritten')
    <3>1. CASE i + 1 = Distance
      <4>1. room' = DigitsOf[left].bytes + (Needed(Missing, g) - sep)
        BY <1>4, <1>5, <1>7, <1>9, <2>1, <3>1
      <4> QED
        BY <1>9, <2>2, <2>3, <3>1, <4>1
    <3>2. CASE i + 1 # Distance
      <4>1. room' = DigitsOf[left].bytes + Needed(Missing, g)
        BY <1>4, <1>5, <1>7, <1>9, <2>1, <3>2
      <4> QED
        BY <2>2, <2>3, <3>2, <4>1
    <3> QED
      BY <3>1, <3>2
  <2>6. room' \in Int
    BY <1>3, <1>5, <2>1
  <2>7. Digits.units = written' + DigitsOf[left].units
    BY <1>2, <1>3, <1>4, <1>7
  <2>8. DigitsInv'
    <3>1. Needed(Missing, GroupsWritten)' = Needed(Missing, GroupsWritten')
      BY <1>2, NumberKept DEF Needed
    <3> QED
      BY <1>2, <1>8, <2>4, <2>5, <2>7, <3>1 DEF DigitsInv
  <2>9. IntegerTyped'
    BY <1>1, <1>2, <1>3, <1>4, <2>4, <2>6 DEF IntegerTyped
  <2> QED
    BY <1>2, <2>8, <2>9 DEF IntegerInv
<1> QED
  BY <1>10, <1>11

\* What holds when all digits are written.
LEMMA DigitsDone ==
  ASSUME IntegerInv, phase = "digits", rest = 0
  PROVE  /\ IntegerTyped /\ written = Digits.units /\ written \in Nat
         /\ LeadingZeros = Missing
         /\ counter = DigitsCounted
         /\ GroupsWritten \in Nat
         /\ room = Needed(Missing, GroupsWritten)
<1>1. IntegerTyped /\ DigitsInv
  BY DEF IntegerInv
<1>2. DigitsOf[0].bytes = 0 /\ DigitsOf[0].units = 0
  BY DigitsFacts
<1>3. written \in Nat /\ Digits.units \in Nat /\ Distance \in Nat
  BY <1>1, SpecFacts DEF IntegerTyped
<1>4. written = Digits.units
  BY <1>1, <1>2, <1>3 DEF DigitsInv
<1>5. LeadingZeros = Missing
  BY <1>1, <1>3, <1>4, SpecFacts DEF LeadingZeros, Missing
<1>6. GroupsWritten \in Nat
  <2>1. written > 0 => written - 1 \in Nat
    BY <1>3
  <2> QED
    BY <1>3, <2>1, GroupTypes DEF GroupsWritten
<1>7. room = Needed(Missing, GroupsWritten)
  <2>1. Needed(Missing, GroupsWritten) \in Int
    BY <1>1, <1>6, SpecFacts, NeededFacts
  <2> QED
    BY <1>1, <1>2, <2>1 DEF DigitsInv
<1> QED
  BY <1>1, <1>3, <1>4, <1>5, <1>6, <1>7 DEF DigitsInv

\* When the loop of the zeros is left out, no separator is due among them.
LEMMA NoneDue ==
  ASSUME IntegerInv, phase = "digits", rest = 0, LeadingZeros = 0 \/ NeedNoSeparators
  PROVE  SeparatorCount(Total, Distance) = GroupsWritten
<1> DEFINE w == written
           D == Distance
           M == Missing
<1>1. /\ w \in Nat /\ D \in Nat /\ M \in Nat /\ Total = w + M
      /\ M = 0 \/ D = 0 \/ D >= DigitsCounted + M
  BY DigitsDone, SpecFacts DEF NeedNoSeparators
<1>2. /\ w > 0 => /\ GroupsWritten = GroupsEnded(w - 1, D)
                  /\ DigitsCounted = InGroup(w - 1, D) + 1
      /\ w = 0 => /\ GroupsWritten = 0 /\ DigitsCounted = 0
  <2>1. GroupsEnded(0, D) = 0 /\ InGroup(0, D) = 0
    BY <1>1, NoneGrouped
  <2> QED
    BY <2>1 DEF GroupsWritten, DigitsCounted
<1>3. /\ w + M \in Nat
      /\ w + M > 0 => SeparatorCount(Total, D) = GroupsEnded(w + M - 1, D)
      /\ w + M = 0 => SeparatorCount(Total, D) = 0
      /\ D = 0 => SeparatorCount(Total, D) = 0
  <2>1. w + M \in Nat
    BY <1>1
  <2> QED
    BY <1>1, <2>1, SeparatorsBetween
<1>4. CASE D = 0
  <2>1. \A n : GroupsEnded(n, D) = 0
    BY <1>4 DEF GroupsEnded
  <2>2. GroupsWritten = 0
    BY <2>1 DEF GroupsWritten
  <2> QED
    BY <1>3, <1>4, <2>2
<1> HIDE DEF w, D, M
<1>5. CASE M = 0
  <2>1. w + M = w
    BY <1>1, <1>5
  <2> QED
    BY <1>1, <1>2, <1>3, <2>1 DEF D
<1>6. CASE D # 0 /\ M # 0 /\ D >= DigitsCounted + M
  <2>1. CASE w > 0
    <3>1. w - 1 \in Nat /\ D \in Nat \ {0}
      BY <1>1, <2>1, <1>6
    <3>5. InGroup(w - 1, D) \in Nat
      BY <3>1, GroupTypes
    <3>2. InGroup(w - 1, D) + M < D
      BY <1>1, <1>2, <1>6, <2>1, <3>1, <3>5
    <3>3. GroupsEnded((w - 1) + M, D) = GroupsEnded(w - 1, D)
      BY <1>1, <3>1, <3>2, SameGroup
    <3>4. (w - 1) + M = w + M - 1 /\ w + M > 0
      BY <1>1, <2>1
    <3> QED
      BY <1>2, <1>3, <2>1, <3>3, <3>4 DEF D
  <2>2. CASE w = 0
    <3>1. M - 1 \in Nat /\ D \in Nat \ {0}
      BY <1>1, <1>6
    <3>2. InGroup(0, D) + (M - 1) < D /\ GroupsEnded(0, D) = 0
      BY <1>1, <1>2, <1>6, <2>2, <3>1, NoneGrouped
    <3>3. GroupsEnded(0 + (M - 1), D) = GroupsEnded(0, D)
      BY <3>1, <3>2, SameGroup
    <3>4. 0 + (M - 1) = w + M - 1 /\ w + M > 0
      BY <1>1, <1>6, <2>2
    <3> QED
      BY <1>2, <1>3, <2>2, <3>2, <3>3, <3>4 DEF D
  <2> QED
    BY <1>1, <2>1, <2>2
<1> QED
  BY <1>1, <1>4, <1>5, <1>6 DEF D

LEMMA ZerosAtOnceKeeps ==
  ASSUME IntegerInv, WriteZerosAtOnce
  PROVE  IntegerInv'
<1>1. /\ phase = "digits" /\ rest = 0 /\ (LeadingZeros = 0 \/ NeedNoSeparators)
      /\ phase' = "end" /\ number' = number /\ rest' = rest
      /\ counter' = counter /\ written' = written /\ zeros' = zeros
      /\ room' = room - LeadingZeros * DigitBytes[0]
  BY DEF WriteZerosAtOnce
<1>2. /\ IntegerTyped /\ LeadingZeros = Missing /\ GroupsWritten \in Nat
      /\ room = Needed(Missing, GroupsWritten)
  BY <1>1, DigitsDone
<1>3. SeparatorCount(Total, Distance) = GroupsWritten
  BY <1>1, NoneDue
<1>4. room' = 0
  <2>1. Missing \in Nat
    BY <1>2, SpecFacts
  <2> QED
    BY <1>1, <1>2, <1>3, <2>1, NeededFacts
<1>5. IntegerTyped'
  BY <1>1, <1>2, <1>4 DEF IntegerTyped
<1> QED
  BY <1>1, <1>4, <1>5 DEF IntegerInv

LEMMA BeginZerosKeeps ==
  ASSUME IntegerInv, BeginZeros
  PROVE  IntegerInv'
<1>1. /\ phase = "digits" /\ rest = 0 /\ LeadingZeros # 0 /\ ~NeedNoSeparators
      /\ zeros' = LeadingZeros /\ phase' = "zeros" /\ number' = number
      /\ room' = room /\ rest' = rest /\ counter' = counter
      /\ written' = written
  BY DEF BeginZeros
<1>2. /\ IntegerTyped /\ written = Digits.units /\ written \in Nat
      /\ LeadingZeros = Missing /\ counter = DigitsCounted
      /\ room = Needed(Missing, GroupsWritten)
  BY <1>1, DigitsDone
<1>3. /\ Missing \in Nat /\ Missing # 0 /\ Distance \in Nat /\ Distance # 0
      /\ Total = written + Missing /\ IntegerSpec.minimum_digits \in Nat
  BY <1>1, <1>2, SpecFacts DEF NeedNoSeparators
<1>4. /\ Total - zeros' = written /\ zeros' \in 1 .. Missing
      /\ Distance > 0 /\ Distance \in Nat \ {0}
  BY <1>1, <1>2, <1>3
<1>5. IntegerSpec.minimum_digits > written
  BY <1>2, <1>3 DEF Missing
<1>6. \/ /\ MissesSeparators
         /\ counter >= Distance
         /\ room = Needed(zeros', GroupsEnded(written - 1, Distance))
      \/ /\ counter = InGroup(Total - zeros', Distance)
         /\ room = Needed(zeros', GroupsEnded(Total - zeros', Distance))
  <2>1. CASE written = 0
    BY <1>1, <1>2, <1>4, <2>1 DEF DigitsCounted, GroupsWritten
  <2>2. CASE written > 0 /\ InGroup(written - 1, Distance) + 1 = Distance
    <3>1. written - 1 \in Nat /\ (written - 1) + 1 = written
      BY <1>2, <2>2
    <3>2. written % Distance = 0
      BY <1>4, <2>2, <3>1, GroupFull
    <3>3. counter = Distance
      BY <1>1, <1>2, <2>2 DEF DigitsCounted
    <3>4. counter >= Distance
      BY <1>3, <3>3
    <3> QED
      BY <1>1, <1>2, <1>4, <1>5, <2>2, <3>2, <3>4
         DEF MissesSeparators, GroupsWritten
  <2>3. CASE written > 0 /\ InGroup(written - 1, Distance) + 1 # Distance
    <3>1. written - 1 \in Nat /\ (written - 1) + 1 = written
      BY <1>2, <2>3
    <3>2. /\ GroupsEnded((written - 1) + 1, Distance)
               = GroupsEnded(written - 1, Distance)
          /\ InGroup((written - 1) + 1, Distance)
               = InGroup(written - 1, Distance) + 1
      BY <1>3, <2>3, <3>1, GroupStep
    <3> QED
      BY <1>1, <1>2, <1>4, <2>3, <3>1, <3>2 DEF DigitsCounted, GroupsWritten
  <2> QED
    BY <1>2, <2>1, <2>2, <2>3
<1>7. ZerosInv'
  BY <1>1, <1>2, <1>4, <1>6, NumberKept DEF ZerosInv, MissesSeparators
<1>8. IntegerTyped'
  BY <1>1, <1>2, <1>3 DEF IntegerTyped
<1> QED
  BY <1>1, <1>7, <1>8 DEF IntegerInv

LEMMA ZeroKeeps ==
  ASSUME IntegerInv, WriteZero
  PROVE  IntegerInv'
<1> DEFINE z == DigitBytes[0]
           sep == IntegerSpec.minor_separator
           done == Total - zeros
           behind == GroupsEnded(written - 1, Distance)
<1>1. /\ phase = "zeros" /\ IntegerTyped /\ ZerosInv
      /\ number' = number /\ rest' = rest /\ written' = written
      /\ zeros' = zeros - 1
      /\ phase' = IF zeros = 1 THEN "end" ELSE "zeros"
      /\ WriteWithSeparator(0, zeros = 1)
  BY DEF WriteZero, IntegerInv
<1>2. /\ z \in Nat /\ sep \in Nat /\ Distance \in Nat /\ Missing \in Nat
      /\ Total = written + Missing /\ Total \in Nat
      /\ written \in Nat /\ counter \in Nat /\ room \in Int /\ rest \in Nat
      /\ zeros \in Nat
  BY <1>1, SpecFacts DEF IntegerTyped, ZerosInv
<1>3. zeros > 0 /\ zeros <= Missing /\ Distance > 0
  BY <1>1, <1>2 DEF ZerosInv
<1>4. done \in Nat /\ done + 1 = Total - zeros' /\ zeros - 1 \in Nat
  BY <1>1, <1>2, <1>3
<1>5. /\ Missing' = Missing /\ Distance' = Distance /\ Digits' = Digits
      /\ Total' = Total /\ \A u, s : Needed(u, s)' = Needed(u, s)
      /\ MissesSeparators' = MissesSeparators
  BY <1>1, NumberKept DEF MissesSeparators
<1>6. CASE zeros = 1
  <2>1. counter' = counter + 1 /\ room' = room - z - 0 /\ phase' = "end"
    BY <1>1, <1>6 DEF WriteWithSeparator, SeparatorDue
  <2>2. \A g \in Nat : /\ Needed(1, g) \in Int
                       /\ Needed(1, g) - z = Needed(0, g)
    <3>1. ASSUME NEW g \in Nat
          PROVE  Needed(1, g) \in Int /\ Needed(1, g) - 1 * z = Needed(0, g)
      BY <1>1, NeededFacts
    <3>2. 1 * z = z
      BY <1>2
    <3> QED
      BY <3>1, <3>2
  <2>3. SeparatorCount(Total, Distance) = GroupsEnded(Total - 1, Distance)
    BY <1>2, <1>3, SeparatorsBetween
  <2>4. room' >= 0 /\ (room' = 0 \/ MissesSeparators)
    <3>1. CASE MissesSeparators /\ room = Needed(zeros, behind)
      <4>1. written - 1 \in Nat /\ Total - 1 \in Nat /\ written - 1 <= Total - 1
        BY <1>2, <1>3, <3>1 DEF MissesSeparators
      <4>2. behind \in Nat /\ behind <= GroupsEnded(Total - 1, Distance)
        BY <1>2, <4>1, GroupTypes, GroupsMonotone
      <4>3. Needed(0, behind) \in Nat
        BY <1>1, <1>2, <2>3, <4>2, NeededFacts
      <4>4. room' = Needed(0, behind)
        BY <1>6, <2>1, <2>2, <3>1, <4>2, <1>2
      <4> QED
        BY <3>1, <4>3, <4>4
    <3>2. CASE room = Needed(zeros, GroupsEnded(done, Distance))
      <4>1. done = Total - 1
        BY <1>6
      <4>2. GroupsEnded(done, Distance) \in Nat
        BY <1>2, <1>4, GroupTypes
      <4>3. Needed(0, GroupsEnded(done, Distance)) = 0
        BY <1>1, <1>2, <2>3, <4>1, <4>2, NeededFacts
      <4>4. room' = 0
        <5>1. room = Needed(1, GroupsEnded(done, Distance))
          BY <1>6, <3>2
        <5> HIDE DEF done, z
        <5> QED
          BY <1>2, <2>1, <2>2, <4>2, <4>3, <5>1
      <4> QED
        BY <4>4
    <3> QED
      BY <1>1, <3>1, <3>2 DEF ZerosInv
  <2>5. IntegerTyped'
    BY <1>1, <1>2, <1>4, <2>1 DEF IntegerTyped
  <2> QED
    BY <1>5, <2>1, <2>4, <2>5 DEF IntegerInv
<1>7. CASE zeros # 1
  <2>1. /\ phase' = "zeros" /\ zeros' \in 1 .. Missing
    BY <1>1, <1>2, <1>3, <1>7
  <2>2. /\ counter + 1 = Distance => counter' = 0 /\ room' = room - z - sep
        /\ counter + 1 # Distance => counter' = counter + 1 /\ room' = room - z - 0
    BY <1>1, <1>7 DEF WriteWithSeparator, SeparatorDue
  <2>3. \A g \in Nat : /\ Needed(zeros, g) \in Int
                       /\ Needed(zeros - 1, g) = Needed(zeros, g) - z
                       /\ Needed(zeros - 1, g + 1) = Needed(zeros - 1, g) - sep
    BY <1>1, <1>2, <1>3, <1>4, NeededFacts
  <2>4. \/ /\ MissesSeparators
           /\ counter' >= Distance
           /\ room' = Needed(zeros - 1, behind)
        \/ /\ counter' = InGroup(done + 1, Distance)
           /\ room' = Needed(zeros - 1, GroupsEnded(done + 1, Distance))
    <3>1. CASE MissesSeparators /\ counter >= Distance
               /\ room = Needed(zeros, behind)
      <4>1. counter' >= Distance /\ room' = room - z - 0
        BY <1>2, <2>2, <3>1
      <4>2. written - 1 \in Nat
        BY <1>2, <3>1 DEF MissesSeparators
      <4>3. behind \in Nat
        BY <1>2, <4>2, GroupTypes
      <4>4. room' = Needed(zeros - 1, behind)
        <5> HIDE DEF behind, z
        <5> QED
          BY <1>2, <2>3, <3>1, <4>1, <4>3
      <4> QED
        BY <3>1, <4>1, <4>4
    <3>2. CASE /\ counter = InGroup(done, Distance)
               /\ room = Needed(zeros, GroupsEnded(done, Distance))
      <4>1. PICK g \in Nat, i \in Nat : /\ g = GroupsEnded(done, Distance)
                                        /\ i = InGroup(done, Distance)
        BY <1>2, <1>4, GroupTypes
      <4>2. /\ i + 1 = Distance => /\ GroupsEnded(done + 1, Distance) = g + 1
                                   /\ InGroup(done + 1, Distance) = 0
            /\ i + 1 # Distance => /\ GroupsEnded(done + 1, Distance) = g
                                   /\ InGroup(done + 1, Distance) = i + 1
        BY <1>2, <1>4, <4>1, GroupStep
      <4> HIDE DEF done, behind, z, sep
      <4>3. counter' = InGroup(done + 1, Distance)
        BY <2>2, <3>2, <4>1, <4>2
      <4>4. room' = Needed(zeros - 1, GroupsEnded(done + 1, Distance))
        <5>1. /\ Needed(zeros, g) \in Int
              /\ Needed(zeros - 1, g) = Needed(zeros, g) - z
              /\ Needed(zeros - 1, g + 1) = Needed(zeros - 1, g) - sep
          BY <2>3
        <5>2. room = Needed(zeros, g) /\ counter = i
          BY <3>2, <4>1
        <5>3. CASE i + 1 = Distance
          BY <1>2, <2>2, <4>2, <5>1, <5>2, <5>3
        <5>4. CASE i + 1 # Distance
          BY <1>2, <2>2, <4>2, <5>1, <5>2, <5>4
        <5> QED
          BY <5>3, <5>4
      <4> QED
        BY <4>3, <4>4
    <3> QED
      BY <1>1, <3>1, <3>2 DEF ZerosInv
  <2>5. ZerosInv'
    <3>1. written' = Digits.units /\ Distance > 0
      BY <1>1 DEF ZerosInv
    <3>2. zeros' = zeros - 1 /\ done + 1 = Total - zeros'
      BY <1>1, <1>4
    <3> HIDE DEF done
    <3> QED
      BY <1>1, <1>5, <2>1, <2>4, <3>1, <3>2 DEF ZerosInv
  <2>6. IntegerTyped'
    <3>1. counter' \in Nat /\ room' \in Int
      BY <1>2, <2>2
    <3> QED
      BY <1>1, <1>2, <1>4, <2>1, <3>1 DEF IntegerTyped
  <2> QED
    BY <2>1, <2>5, <2>6 DEF IntegerInv
<1> QED
  BY <1>6, <1>7

LEMMA NextIntegerInv == IntegerInv /\ [IntegerNext]_integerVars => IntegerInv'
<1> SUFFICES ASSUME IntegerInv, [IntegerNext]_integerVars
             PROVE  IntegerInv'
  OBVIOUS
<1>1. ASSUME NEW extra \in {0, 1},
             FormatInteger(IntegerLength(Value, IntegerSpec) + extra)
      PROVE  IntegerInv'
  BY <1>1, FormatKeeps
<1>2. CASE WriteSign
  BY <1>2, SignKeeps
<1>3. CASE WriteDigit
  BY <1>3, DigitKeeps
<1>4. CASE WriteZerosAtOnce
  BY <1>4, ZerosAtOnceKeeps
<1>5. CASE BeginZeros
  BY <1>5, BeginZerosKeeps
<1>6. CASE WriteZero
  BY <1>6, ZeroKeeps
<1>7. CASE UNCHANGED integerVars
  <2>1. /\ number' = number /\ phase' = phase /\ room' = room /\ rest' = rest
        /\ counter' = counter /\ written' = written /\ zeros' = zeros
    BY <1>7 DEF integerVars
  <2>2. IntegerTyped' = IntegerTyped
    BY <2>1 DEF IntegerTyped
  <2>3. /\ DigitsInv' = DigitsInv /\ ZerosInv' = ZerosInv
        /\ MissesSeparators' = MissesSeparators
    BY <2>1, NumberKept
       DEF DigitsInv, ZerosInv, MissesSeparators, DigitsCounted, GroupsWritten
  <2> QED
    BY <2>1, <2>2, <2>3, NumberKept DEF IntegerInv
<1> QED
  BY <1>1, <1>2, <1>3, <1>4, <1>5, <1>6, <1>7 DEF IntegerNext

LEMMA InvFillsOutput == IntegerInv => IntegerFillsOutput
<1> SUFFICES ASSUME IntegerInv PROVE IntegerFillsOutput
  OBVIOUS
<1>1. /\ IntegerTyped /\ Distance \in Nat /\ Missing \in Nat
      /\ Total = Digits.units + Missing /\ Total \in Nat
      /\ written \in Nat /\ rest \in Nat
  BY SpecFacts DEF IntegerInv, IntegerTyped
<1>2. ASSUME NEW n \in Nat, n < Total
      PROVE  GroupsEnded(n, Distance) \in Nat
             /\ GroupsEnded(n, Distance) <= SeparatorCount(Total, Distance)
  <2>1. Total - 1 \in Nat /\ n <= Total - 1 /\ Total > 0
    BY <1>1, <1>2
  <2>2. SeparatorCount(Total, Distance) = GroupsEnded(Total - 1, Distance)
    BY <1>1, <2>1, SeparatorsBetween
  <2>3. GroupsEnded(n, Distance) <= GroupsEnded(Total - 1, Distance)
    BY <1>1, <1>2, <2>1, GroupsMonotone
  <2> QED
    BY <1>1, <1>2, <2>2, <2>3, GroupTypes
<1>3. CASE phase = "sign"
  <2>1. 0 <= SeparatorCount(Total, Distance)
    BY <1>1, SeparatorsBetween
  <2>2. Needed(Missing, 0) \in Nat
    BY <1>1, <2>1, NeededFacts
  <2>3. room >= 0
    BY <1>1, <1>3, <2>2, SpecFacts DEF IntegerInv
  <2> QED
    BY <1>3, <2>3 DEF IntegerFillsOutput
<1>4. CASE phase = "digits"
  <2>1. /\ DigitsOf[rest].units \in Nat /\ DigitsOf[rest].bytes \in Nat
        /\ rest # 0 => DigitsOf[rest].units > 0
    <3>1. DigitsOf[rest] \in Requirement
      BY <1>1, DigitsFacts
    <3>2. ASSUME rest # 0 PROVE DigitsOf[rest].units > 0
      <4>1. /\ DigitsOf[rest \div Base] \in Requirement
            /\ DigitsOf[rest].units = DigitsOf[rest \div Base].units + 1
        BY <1>1, <3>2, DigitsFacts
      <4> QED
        BY <4>1 DEF Requirement
    <3> QED
      BY <3>1, <3>2 DEF Requirement
  <2>2. /\ Digits.units = written + DigitsOf[rest].units
        /\ room = DigitsOf[rest].bytes + Needed(Missing, GroupsWritten)
    BY <1>4 DEF IntegerInv, DigitsInv
  <2>3. GroupsWritten \in Nat /\ GroupsWritten <= SeparatorCount(Total, Distance)
    <3>1. CASE rest = 0 /\ written > 0
      <4>1. written - 1 \in Nat /\ written - 1 < Total
        BY <1>1, <2>1, <2>2, <3>1
      <4> QED
        BY <1>2, <3>1, <4>1 DEF GroupsWritten
    <3>2. CASE rest = 0 /\ written = 0
      <4>1. GroupsWritten = 0
        BY <1>1, <3>2, NoneGrouped DEF GroupsWritten
      <4>2. SeparatorCount(Total, Distance) \in Nat
        BY <1>1, SeparatorsBetween
      <4> QED
        BY <4>1, <4>2
    <3>3. CASE rest # 0
      <4>1. written < Total
        BY <1>1, <2>1, <2>2, <3>3
      <4> QED
        BY <1>1, <1>2, <3>3, <4>1 DEF GroupsWritten
    <3> QED
      BY <1>1, <3>1, <3>2, <3>3
  <2>4. Needed(Missing, GroupsWritten) \in Nat
    BY <1>1, <2>3, NeededFacts
  <2>5. room >= 0
    BY <2>1, <2>2, <2>4
  <2> QED
    BY <1>4, <2>5 DEF IntegerFillsOutput
<1>5. CASE phase = "zeros"
  <2>1. /\ written = Digits.units /\ zeros \in 1 .. Missing /\ zeros \in Nat
        /\ \/ /\ MissesSeparators
              /\ room = Needed(zeros, GroupsEnded(written - 1, Distance))
           \/ room = Needed(zeros, GroupsEnded(Total - zeros, Distance))
    BY <1>1, <1>5 DEF IntegerInv, ZerosInv, IntegerTyped
  <2>2. PICK n \in Nat : /\ n < Total
                         /\ room = Needed(zeros, GroupsEnded(n, Distance))
    <3>1. Total - zeros \in Nat /\ Total - zeros < Total
      BY <1>1, <2>1
    <3>2. MissesSeparators => written - 1 \in Nat /\ written - 1 < Total
      BY <1>1, <2>1 DEF MissesSeparators
    <3> QED
      BY <2>1, <3>1, <3>2
  <2>3. room \in Nat
    BY <1>1, <1>2, <2>1, <2>2, NeededFacts
  <2> QED
    BY <1>5, <2>3 DEF IntegerFillsOutput
<1>6. CASE phase \in {"called", "refused", "end"}
  BY <1>6 DEF IntegerInv, IntegerFillsOutput
<1> QED
  BY <1>1, <1>3, <1>4, <1>5, <1>6 DEF IntegerTyped

\* Digits, separators and zeros fill the space that the length function asks
\* for, whatever the base, the number and the format.
THEOREM FormatFillsOutput == IntegerFormatSpec => []IntegerFillsOutput
<1>1. IntegerFormatSpec => []IntegerInv
  BY InitIntegerInv, NextIntegerInv, PTL DEF IntegerFormatSpec
<1> QED
  BY <1>1, InvFillsOutput, PTL

-----------------------------------------------------------------------------
(***************************************************************************)
(* Ends, beginnings and sections of a string                               *)
(***************************************************************************)

LEMMA PieceType ==
  ASSUME NEW C, NEW t \in Seq(C), NEW i \in Nat, NEW j \in Nat, j <= Len(t)
  PROVE  /\ SubSeq(t, i + 1, j) \in Seq(C)
         /\ i <= j => Len(SubSeq(t, i + 1, j)) = j - i
         /\ \A k \in 1 .. j - i : SubSeq(t, i + 1, j)[k] = t[i + k]
<1>1. Len(t) \in Nat
  OBVIOUS
<1>2. \A k \in i + 1 .. j : t[k] \in C
  <2>1. \A k \in i + 1 .. j : k \in 1 .. Len(t)
    BY <1>1
  <2> QED
    BY <2>1, ElementOfSeq
<1>3. i + 1 \in Int /\ j \in Int
  OBVIOUS
<1>4. /\ SubSeq(t, i + 1, j) \in Seq(C)
      /\ Len(SubSeq(t, i + 1, j)) = IF i + 1 <= j THEN j - (i + 1) + 1 ELSE 0
      /\ \A k \in 1 .. j - (i + 1) + 1 :
           SubSeq(t, i + 1, j)[k] = t[(i + 1) + k - 1]
  BY <1>2, <1>3, SubSeqProperties
<1>5. j - (i + 1) + 1 = j - i /\ (i <= j => (IF i + 1 <= j THEN j - (i + 1) + 1 ELSE 0) = j - i)
  OBVIOUS
<1>6. \A k \in 1 .. j - i : (i + 1) + k - 1 = i + k
  OBVIOUS
<1> QED
  BY <1>4, <1>5, <1>6

LEMMA AdvancedType ==
  ASSUME NEW C, NEW t \in Seq(C), NEW n \in 0 .. Len(t)
  PROVE  /\ Advanced(t, n) \in Seq(C)
         /\ Len(Advanced(t, n)) = Len(t) - n
         /\ \A k \in 1 .. Len(t) - n : Advanced(t, n)[k] = t[n + k]
<1>1. n \in Nat /\ Len(t) \in Nat /\ n <= Len(t)
  OBVIOUS
<1> QED
  BY <1>1, PieceType DEF Advanced

LEMMA AdvancedNone ==
  ASSUME NEW C, NEW t \in Seq(C)
  PROVE  Advanced(t, 0) = t
BY SubSeqFull DEF Advanced

LEMMA AdvancedTwice ==
  ASSUME NEW C, NEW t \in Seq(C), NEW n \in Nat, NEW k \in Nat,
         n + k <= Len(t)
  PROVE  Advanced(Advanced(t, n), k) = Advanced(t, n + k)
<1>1. /\ Len(t) \in Nat /\ n \in 0 .. Len(t) /\ n + k \in 0 .. Len(t)
      /\ k \in 0 .. Len(t) - n
  OBVIOUS
<1>2. PICK a \in Seq(C) : /\ a = Advanced(t, n) /\ Len(a) = Len(t) - n
                          /\ \A i \in 1 .. Len(t) - n : a[i] = t[n + i]
  <2>1. /\ Advanced(t, n) \in Seq(C) /\ Len(Advanced(t, n)) = Len(t) - n
        /\ \A i \in 1 .. Len(t) - n : Advanced(t, n)[i] = t[n + i]
    BY <1>1, AdvancedType
  <2> QED
    BY <2>1
<1>6. k \in 0 .. Len(a)
  BY <1>1, <1>2
<1>7. PICK b \in Seq(C) : /\ b = Advanced(a, k) /\ Len(b) = Len(a) - k
                          /\ \A i \in 1 .. Len(a) - k : b[i] = a[k + i]
  BY <1>6, AdvancedType
<1>8. PICK c \in Seq(C) :
        /\ c = Advanced(t, n + k) /\ Len(c) = Len(t) - (n + k)
        /\ \A i \in 1 .. Len(t) - (n + k) : c[i] = t[(n + k) + i]
  <2>1. PICK m \in 0 .. Len(t) : m = n + k
    BY <1>1
  <2>2. /\ Advanced(t, m) \in Seq(C) /\ Len(Advanced(t, m)) = Len(t) - m
        /\ \A i \in 1 .. Len(t) - m : Advanced(t, m)[i] = t[m + i]
    BY AdvancedType
  <2> QED
    BY <2>1, <2>2
<1>3. Len(b) = Len(c)
  <2>1. (Len(t) - n) - k = Len(t) - (n + k)
    BY <1>1
  <2> QED
    BY <1>2, <1>7, <1>8, <2>1
<1>4. ASSUME NEW i \in 1 .. Len(b) PROVE b[i] = c[i]
  <2>1. /\ i \in 1 .. Len(a) - k /\ k + i \in 1 .. Len(t) - n
        /\ i \in 1 .. Len(t) - (n + k) /\ n + (k + i) = (n + k) + i
    BY <1>1, <1>2, <1>7
  <2> QED
    BY <1>2, <1>7, <1>8, <2>1
<1>5. b = c
  BY <1>3, <1>4, SeqEqual
<1> QED
  BY <1>2, <1>5, <1>7, <1>8

LEMMA BeginningAndRest ==
  ASSUME NEW C, NEW t \in Seq(C), NEW n \in 0 .. Len(t)
  PROVE  /\ SubSeq(t, 1, n) \in Seq(C) /\ Len(SubSeq(t, 1, n)) = n
         /\ \A k \in 1 .. n : SubSeq(t, 1, n)[k] = t[k]
         /\ SubSeq(t, 1, n) \o Advanced(t, n) = t
<1>1. n \in Nat /\ Len(t) \in Nat /\ n <= Len(t) /\ 0 + 1 = 1 /\ 0 \in Nat
  OBVIOUS
<1>2. /\ SubSeq(t, 1, n) \in Seq(C) /\ Len(SubSeq(t, 1, n)) = n - 0
      /\ \A k \in 1 .. n - 0 : SubSeq(t, 1, n)[k] = t[0 + k]
  BY <1>1, PieceType
<1>3. SubSeq(t, 1, n) \o SubSeq(t, n + 1, Len(t)) = SubSeq(t, 1, Len(t))
  <2>1. 1 \in 1 .. Len(t) + 1 /\ n \in 1 - 1 .. Len(t) /\ Len(t) \in n .. Len(t)
    BY <1>1
  <2> QED
    BY <2>1, ConcatAdjacentSubSeq
<1>4. n - 0 = n /\ \A k \in 1 .. n : 0 + k = k
  BY <1>1
<1> QED
  BY <1>2, <1>3, <1>4, SubSeqFull DEF Advanced

-----------------------------------------------------------------------------
(***************************************************************************)
(* Where a delimiter is                                                    *)
(***************************************************************************)

LEMMA OccursAt ==
  ASSUME NEW C, NEW t \in Seq(C), NEW d \in Seq(C), Len(d) # 0, NEW p
  PROVE  p \in Occurrences(t, d) <=>
           /\ p \in Nat /\ p + Len(d) <= Len(t)
           /\ SubSeq(t, p + 1, p + Len(d)) = d
BY SMTT(30) DEF Occurrences

\* The bytes of t behind p are those of d.
Matches(t, d, p) == \A k \in 1 .. Len(d) : t[p + k] = d[k]

\* The delimiter is where its bytes are.
LEMMA OccursBytes ==
  ASSUME NEW C, NEW t \in Seq(C), NEW d \in Seq(C), Len(d) # 0, NEW p \in Nat,
         p + Len(d) <= Len(t)
  PROVE  p \in Occurrences(t, d) <=> Matches(t, d, p)
<1>1. PICK s \in Seq(C) :
        /\ s = SubSeq(t, p + 1, p + Len(d)) /\ Len(s) = Len(d)
        /\ \A k \in 1 .. Len(d) : s[k] = t[p + k]
  <2>1. /\ Len(d) \in Nat /\ p + Len(d) \in Nat /\ p <= p + Len(d)
        /\ (p + Len(d)) - p = Len(d)
    OBVIOUS
  <2>2. PICK j \in Nat : j = p + Len(d)
    BY <2>1
  <2>3. /\ SubSeq(t, p + 1, j) \in Seq(C)
        /\ Len(SubSeq(t, p + 1, j)) = j - p
        /\ \A k \in 1 .. j - p : SubSeq(t, p + 1, j)[k] = t[p + k]
    BY <2>1, <2>2, PieceType
  <2> QED
    BY <2>1, <2>2, <2>3
<1>2. p \in Occurrences(t, d) <=> s = d
  <2>1. p \in Occurrences(t, d) <=>
          /\ p \in Nat /\ p + Len(d) <= Len(t)
          /\ SubSeq(t, p + 1, p + Len(d)) = d
    BY OccursAt
  <2> QED
    BY <1>1, <2>1
<1>3. s = d <=> \A k \in 1 .. Len(d) : s[k] = d[k]
  BY <1>1, SeqEqual
<1> QED
  BY <1>1, <1>2, <1>3 DEF Matches

LEMMA OccurrencesFinite ==
  ASSUME NEW C, NEW t \in Seq(C), NEW d \in Seq(C), Len(d) # 0
  PROVE  /\ Occurrences(t, d) \subseteq Nat
         /\ IsFiniteSet(Occurrences(t, d))
         /\ \A s \in SUBSET Occurrences(t, d) :
              IsFiniteSet(s) /\ Cardinality(s) \in Nat
<1>1. Occurrences(t, d) \subseteq Nat
  BY OccursAt, SMTT(30)
<1>2. PICK n \in Int : n = Len(t) - Len(d)
  OBVIOUS
<1>3. Occurrences(t, d) \in SUBSET (0 .. n)
  BY <1>2 DEF Occurrences
<1>4. IsFiniteSet(0 .. n)
  BY <1>2, FS_Interval
<1>5. IsFiniteSet(Occurrences(t, d))
  BY <1>3, <1>4, FS_Subset
<1> QED
  BY <1>1, <1>5, FS_Subset, FS_CardinalityType

\* What occurs in the remains of a string occurs in the string, further on.
LEMMA OccursBehind ==
  ASSUME NEW C, NEW t \in Seq(C), NEW d \in Seq(C), Len(d) # 0,
         NEW n \in 0 .. Len(t), NEW p \in Nat
  PROVE  p \in Occurrences(Advanced(t, n), d) <=> n + p \in Occurrences(t, d)
<1>1. PICK a \in Seq(C) :
        /\ a = Advanced(t, n) /\ Len(a) = Len(t) - n
        /\ \A k \in 1 .. Len(t) - n : a[k] = t[n + k]
  <2>1. /\ Advanced(t, n) \in Seq(C) /\ Len(Advanced(t, n)) = Len(t) - n
        /\ \A k \in 1 .. Len(t) - n : Advanced(t, n)[k] = t[n + k]
    BY AdvancedType
  <2> QED
    BY <2>1
<1>2. Len(t) \in Nat /\ Len(d) \in Nat /\ n \in Nat /\ n <= Len(t)
  OBVIOUS
<1>3. p + Len(d) <= Len(a) <=> (n + p) + Len(d) <= Len(t)
  BY <1>1, <1>2
<1>4. CASE p + Len(d) <= Len(a)
  <2>1. p \in Occurrences(a, d) <=> Matches(a, d, p)
    BY <1>4, OccursBytes
  <2>2. PICK q \in Nat : q = n + p /\ q + Len(d) <= Len(t)
    BY <1>2, <1>3, <1>4
  <2>3. q \in Occurrences(t, d) <=> Matches(t, d, q)
    BY <2>2, OccursBytes
  <2>4. ASSUME NEW k \in 1 .. Len(d) PROVE a[p + k] = t[q + k]
    <3>1. p + k \in 1 .. Len(t) - n /\ n + (p + k) = q + k
      BY <1>1, <1>2, <1>4, <2>2
    <3> QED
      BY <1>1, <3>1
  <2>5. Matches(a, d, p) <=> Matches(t, d, q)
    BY <2>4 DEF Matches
  <2> QED
    BY <1>1, <2>1, <2>2, <2>3, <2>5
<1>5. CASE ~(p + Len(d) <= Len(a))
  <2>1. p \notin Occurrences(a, d)
    BY <1>5, OccursAt
  <2>2. n + p \notin Occurrences(t, d)
    BY <1>3, <1>5, OccursAt
  <2> QED
    BY <1>1, <2>1, <2>2
<1> QED
  BY <1>4, <1>5

\* What occurs in the beginning of a string occurs in the string.
LEMMA OccursBefore ==
  ASSUME NEW C, NEW t \in Seq(C), NEW d \in Seq(C), Len(d) # 0,
         NEW n \in 0 .. Len(t), NEW p \in Occurrences(SubSeq(t, 1, n), d)
  PROVE  p \in Occurrences(t, d) /\ p + Len(d) <= n
<1>1. PICK a \in Seq(C) :
        /\ a = SubSeq(t, 1, n) /\ Len(a) = n
        /\ \A k \in 1 .. n : a[k] = t[k]
  <2>1. /\ SubSeq(t, 1, n) \in Seq(C) /\ Len(SubSeq(t, 1, n)) = n
        /\ \A k \in 1 .. n : SubSeq(t, 1, n)[k] = t[k]
    BY BeginningAndRest
  <2> QED
    BY <2>1
<1>2. /\ Len(t) \in Nat /\ Len(d) \in Nat /\ n \in Nat /\ n <= Len(t)
      /\ p \in Nat /\ p + Len(d) <= n
  <2>1. p \in Occurrences(a, d)
    BY <1>1
  <2>2. p \in Nat /\ p + Len(d) <= Len(a)
    BY <2>1, OccursAt
  <2> QED
    BY <1>1, <2>2
<1>3. p + Len(d) <= Len(t) /\ p + Len(d) <= Len(a)
  BY <1>1, <1>2
<1>4. \A k \in 1 .. Len(d) : a[p + k] = d[k]
  <2>1. p \in Occurrences(a, d)
    BY <1>1
  <2>2. Matches(a, d, p)
    BY <1>2, <1>3, <2>1, OccursBytes
  <2> QED
    BY <2>2 DEF Matches
<1>5. ASSUME NEW k \in 1 .. Len(d) PROVE t[p + k] = d[k]
  <2>1. p + k \in 1 .. n
    BY <1>2
  <2> QED
    BY <1>1, <1>4, <2>1
<1>6. Matches(t, d, p)
  BY <1>5 DEF Matches
<1> QED
  BY <1>2, <1>3, <1>6, OccursBytes

\* A string around one of its occurrences.
LEMMA AroundOccurrence ==
  ASSUME NEW C, NEW t \in Seq(C), NEW d \in Seq(C), Len(d) # 0,
         NEW p \in Occurrences(t, d)
  PROVE  /\ p \in 0 .. Len(t) /\ p + Len(d) \in 0 .. Len(t)
         /\ SubSeq(t, 1, p) \o (d \o Advanced(t, p + Len(d))) = t
<1>1. /\ Len(t) \in Nat /\ Len(d) \in Nat /\ p \in Nat
      /\ p + Len(d) <= Len(t) /\ SubSeq(t, p + 1, p + Len(d)) = d
  BY OccursAt
<1>2. p \in 0 .. Len(t) /\ p + Len(d) \in 0 .. Len(t)
  BY <1>1
<1>3. SubSeq(t, 1, p) \o Advanced(t, p) = t
  BY <1>2, BeginningAndRest
<1>4. PICK e \in Nat : e = p + Len(d)
  BY <1>1
<1>5. p + 1 \in 1 .. Len(t) + 1 /\ e \in (p + 1) - 1 .. Len(t) /\ Len(t) \in e .. Len(t)
  BY <1>1, <1>4
<1>6. SubSeq(t, p + 1, e) \o SubSeq(t, e + 1, Len(t)) = SubSeq(t, p + 1, Len(t))
  BY <1>5, ConcatAdjacentSubSeq
<1> QED
  BY <1>1, <1>2, <1>3, <1>4, <1>6 DEF Advanced

LEMMA FoundFirst ==
  ASSUME NEW C, NEW t \in Seq(C), NEW d \in Seq(C), Len(d) # 0
  PROVE  /\ Occurrences(t, d) = {} => HasSubstring(t, d) = NotFound
         /\ Occurrences(t, d) # {} =>
              /\ HasSubstring(t, d) \in Occurrences(t, d)
              /\ HasSubstring(t, d) # NotFound
              /\ \A p \in Occurrences(t, d) : HasSubstring(t, d) <= p
<1>1. Occurrences(t, d) \subseteq Nat
  BY OccurrencesFinite
<1>2. ASSUME Occurrences(t, d) # {}
      PROVE  /\ HasSubstring(t, d) \in Occurrences(t, d)
             /\ HasSubstring(t, d) # NotFound
             /\ \A p \in Occurrences(t, d) : HasSubstring(t, d) <= p
  <2>1. \E n \in Occurrences(t, d) : \A m \in Occurrences(t, d) : n <= m
    BY <1>1, <1>2, Lemmas!LeastOf
  <2>2. HasSubstring(t, d)
          = CHOOSE x \in Occurrences(t, d) : \A y \in Occurrences(t, d) : x <= y
    BY <1>2 DEF HasSubstring, Min
  <2>3. /\ HasSubstring(t, d) \in Occurrences(t, d)
        /\ \A p \in Occurrences(t, d) : HasSubstring(t, d) <= p
    BY <2>1, <2>2
  <2> QED
    BY <1>1, <2>3 DEF NotFound
<1>3. Occurrences(t, d) = {} => HasSubstring(t, d) = NotFound
  BY DEF HasSubstring
<1> QED
  BY <1>2, <1>3

-----------------------------------------------------------------------------
(***************************************************************************)
(* The sections joined again.  FlattenSeq is defined by a recursive        *)
(* function: there is one that solves its equation.                        *)
(***************************************************************************)

FlattenedAt(f, s, i) == IF i = 1 THEN s[i] ELSE f[i - 1] \o s[i]

Flattens(f, s, n) == f = [i \in 1 .. n |-> FlattenedAt(f, s, i)]

LEMMA FlattensUpTo ==
  ASSUME NEW s, NEW k \in Nat
  PROVE  \E f : Flattens(f, s, k)
<1> DEFINE N == {n \in Nat : \E f : Flattens(f, s, n)}
<1>1. 0 \in N
  <2>1. PICK f : f = [i \in 1 .. 0 |-> FlattenedAt(<< >>, s, i)]
    OBVIOUS
  <2>2. \A i \in 1 .. 0 : FlattenedAt(<< >>, s, i) = FlattenedAt(f, s, i)
    OBVIOUS
  <2>3. f = [i \in 1 .. 0 |-> FlattenedAt(f, s, i)]
    BY <2>1, <2>2, Zenon
  <2> QED
    BY <2>3 DEF Flattens
<1>2. ASSUME NEW n \in Nat, n \in N PROVE n + 1 \in N
  <2>1. PICK f : Flattens(f, s, n)
    BY <1>2
  <2>2. PICK g : g = [i \in 1 .. n + 1 |-> FlattenedAt(f, s, i)]
    OBVIOUS
  <2>3. ASSUME NEW i \in 1 .. n PROVE f[i] = g[i]
    <3>1. f[i] = FlattenedAt(f, s, i)
      BY <2>1 DEF Flattens
    <3>2. g[i] = FlattenedAt(f, s, i)
      BY <2>2
    <3> QED
      BY <3>1, <3>2
  <2>4. ASSUME NEW i \in 1 .. n + 1
        PROVE  FlattenedAt(f, s, i) = FlattenedAt(g, s, i)
    <3>1. i # 1 => i - 1 \in 1 .. n
      OBVIOUS
    <3> QED
      BY <2>3, <3>1 DEF FlattenedAt
  <2>5. g = [i \in 1 .. n + 1 |-> FlattenedAt(g, s, i)]
    BY <2>2, <2>4, Zenon
  <2> QED
    BY <2>5 DEF Flattens
<1> HIDE DEF N
<1>3. Nat \subseteq N
  BY <1>1, <1>2, Lemmas!NatSets
<1> QED
  BY <1>3 DEF N

Alike(s, t, n) == \A i \in 1 .. n : s[i] = t[i]

LEMMA LastIn == \A n \in Nat : n # 0 => n \in 1 .. n /\ n <= n
OBVIOUS

\* What is flattened of the first elements depends on no others.
LEMMA FlattensAlike ==
  ASSUME NEW n \in Nat, NEW s, NEW t, Alike(s, t, n),
         NEW f, Flattens(f, s, n), NEW m, m = n + 1, NEW g, Flattens(g, t, m)
  PROVE  n # 0 => f[n] = g[n]
<1> DEFINE N == {k \in Nat : \A i \in 1 .. n : i <= k => f[i] = g[i]}
<1>1. \A i \in 1 .. n : f[i] = FlattenedAt(f, s, i)
  BY DEF Flattens
<1>2. \A i \in 1 .. n + 1 : g[i] = FlattenedAt(g, t, i)
  BY DEF Flattens
<1>3. 0 \in N
  OBVIOUS
<1>4. ASSUME NEW k \in Nat, k \in N PROVE k + 1 \in N
  <2>1. ASSUME NEW i \in 1 .. n, i <= k + 1 PROVE f[i] = g[i]
    <3>1. i # 1 => i - 1 \in 1 .. n /\ i - 1 <= k
      BY <2>1
    <3>2. i # 1 => f[i - 1] = g[i - 1]
      BY <1>4, <3>1
    <3>3. FlattenedAt(f, s, i) = FlattenedAt(g, t, i)
      BY <2>1, <3>2 DEF FlattenedAt, Alike
    <3>4. i \in 1 .. n + 1
      OBVIOUS
    <3> QED
      BY <1>1, <1>2, <3>3, <3>4
  <2> QED
    BY <2>1
<1>5. Nat \subseteq N
  <2> HIDE DEF N
  <2> QED
    BY <1>3, <1>4, Lemmas!NatSets
<1> QED
  BY <1>5, LastIn

LEMMA FlattenSeqIs ==
  ASSUME NEW n \in Nat, NEW s, Len(s) = n, n # 0
  PROVE  \E f : Flattens(f, s, n) /\ FlattenSeq(s) = f[n]
<1>1. FlattenSeq(s) = (CHOOSE f : Flattens(f, s, n))[n]
  BY DEF FlattenSeq, Flattens, FlattenedAt
<1>2. Flattens(CHOOSE f : Flattens(f, s, n), s, n)
  BY FlattensUpTo
<1> QED
  BY <1>1, <1>2

LEMMA FlattenAppend ==
  ASSUME NEW C, NEW s \in Seq(Seq(C)), NEW e \in Seq(C)
  PROVE  FlattenSeq(Append(s, e)) = FlattenSeq(s) \o e
<1> DEFINE t == Append(s, e)
<1>1. PICK n \in Nat : n = Len(s)
  OBVIOUS
<1>2. /\ t \in Seq(Seq(C)) /\ Len(t) = n + 1 /\ t[n + 1] = e
      /\ \A i \in 1 .. n : s[i] = t[i]
  BY <1>1
<1> HIDE DEF t
<1>3. n + 1 \in Nat /\ n + 1 # 0 /\ (n + 1) - 1 = n /\ n + 1 \in 1 .. n + 1
  OBVIOUS
<1>4. PICK g : Flattens(g, t, n + 1) /\ FlattenSeq(t) = g[n + 1]
  BY <1>2, <1>3, FlattenSeqIs
<1>5. g[n + 1] = FlattenedAt(g, t, n + 1)
  BY <1>3, <1>4 DEF Flattens
<1>6. CASE n = 0
  <2>1. FlattenSeq(t) = e
    BY <1>2, <1>4, <1>5, <1>6 DEF FlattenedAt
  <2>2. s = << >>
    BY <1>1, <1>6, EmptySeq
  <2>3. FlattenSeq(s) = << >>
    BY <1>1, <1>6, <2>2 DEF FlattenSeq
  <2>4. << >> \o e = e
    BY ConcatEmptySeq
  <2> QED
    BY <2>1, <2>3, <2>4 DEF t
<1>7. CASE n # 0
  <2>1. PICK f : Flattens(f, s, n) /\ FlattenSeq(s) = f[n]
    BY <1>1, <1>7, FlattenSeqIs
  <2>2. n \in 1 .. n
    BY <1>7
  <2>3. f[n] = g[n]
    <3>1. Alike(s, t, n)
      BY <1>2 DEF Alike
    <3>2. Flattens(f, s, n) /\ Flattens(g, t, n + 1)
      BY <1>4, <2>1
    <3> QED
      BY <1>7, <3>1, <3>2, FlattensAlike
  <2>4. n + 1 # 1
    BY <1>7
  <2>5. g[n + 1] = g[n] \o e
    BY <1>2, <1>3, <1>5, <2>4 DEF FlattenedAt
  <2> QED
    BY <1>4, <2>1, <2>3, <2>5 DEF t
<1> QED
  BY <1>6, <1>7

\* The sections, each with a delimiter behind it.
Rejoining(sections, delim) ==
  FlattenSeq([i \in DOMAIN sections |-> sections[i] \o delim])

LEMMA LastOrBefore ==
  ASSUME NEW n \in Nat, NEW i \in 1 .. n + 1
  PROVE  i \in 1 .. n \/ i = n + 1
OBVIOUS

LEMMA RejoiningNone == \A d : Rejoining(<< >>, d) = << >>
BY DEF Rejoining, FlattenSeq

LEMMA RejoiningAppend ==
  ASSUME NEW C, NEW o \in Seq(Seq(C)), NEW e \in Seq(C), NEW d \in Seq(C)
  PROVE  Rejoining(Append(o, e), d) = Rejoining(o, d) \o (e \o d)
<1>1. PICK n \in Nat : n = Len(o)
  OBVIOUS
<1>2. /\ DOMAIN o = 1 .. n /\ \A i \in 1 .. n : o[i] \in Seq(C)
      /\ DOMAIN Append(o, e) = 1 .. n + 1
      /\ Append(o, e)[n + 1] = e
      /\ \A i \in 1 .. n : Append(o, e)[i] = o[i]
  BY <1>1
<1>3. PICK p : p = [i \in 1 .. n |-> o[i] \o d]
  OBVIOUS
<1>4. p \in Seq(Seq(C)) /\ Len(p) = n
  <2>1. \A i \in 1 .. n : o[i] \o d \in Seq(C)
    BY <1>2, ConcatProperties
  <2>2. p \in [1 .. n -> Seq(C)]
    BY <1>3, <2>1
  <2> QED
    BY <2>2
<1>5. PICK q : q = [i \in 1 .. n + 1 |-> Append(o, e)[i] \o d]
  OBVIOUS
<1>6. q = Append(p, e \o d)
  <2>1. /\ Append(p, e \o d) \in Seq(Seq(C)) /\ Len(Append(p, e \o d)) = n + 1
        /\ \A i \in 1 .. n : Append(p, e \o d)[i] = p[i]
        /\ Append(p, e \o d)[n + 1] = e \o d
    <3>1. e \o d \in Seq(C)
      BY ConcatProperties, SMTT(30)
    <3> QED
      BY <1>4, <3>1, SMTT(30)
  <2>2. \A i \in 1 .. n + 1 : Append(o, e)[i] \o d \in Seq(C)
    <3>1. \A i \in 1 .. n + 1 : Append(o, e)[i] \in Seq(C)
      BY <1>2
    <3> QED
      BY <3>1, ConcatProperties
  <2>3. q \in [1 .. n + 1 -> Seq(C)]
    BY <1>5, <2>2
  <2>4. q \in Seq(Seq(C)) /\ Len(q) = n + 1
    BY <2>3
  <2>5. ASSUME NEW i \in 1 .. n + 1 PROVE q[i] = Append(p, e \o d)[i]
    <3>1. CASE i \in 1 .. n
      BY <1>2, <1>3, <1>5, <2>1, <3>1
    <3>2. CASE i = n + 1
      BY <1>2, <1>5, <2>1, <3>2
    <3> QED
      BY <3>1, <3>2, LastOrBefore
  <2> QED
    BY <2>1, <2>4, <2>5, SeqEqual
<1>7. e \o d \in Seq(C)
  BY ConcatProperties, SMTT(30)
<1>8. FlattenSeq(Append(p, e \o d)) = FlattenSeq(p) \o (e \o d)
  BY <1>4, <1>7, FlattenAppend
<1>9. Rejoining(o, d) = FlattenSeq(p) /\ Rejoining(Append(o, e), d) = FlattenSeq(q)
  BY <1>2, <1>3, <1>5 DEF Rejoining
<1> QED
  BY <1>6, <1>8, <1>9

-----------------------------------------------------------------------------
(***************************************************************************)
(* Taking the first delimiter each time takes as many as there are         *)
(***************************************************************************)

LEMMA FirstTakesOne ==
  ASSUME NEW s \in SUBSET Nat, IsFiniteSet(s), NEW m \in Nat, m # 0,
         \A a, b \in s : a < b => b - a >= m,
         NEW reach \in Nat, NEW q \in Nat, reach <= q,
         \A p \in s : p >= reach => p >= q
  PROVE  Cardinality({p \in s : p < q + m})
           <= Cardinality({p \in s : p < reach}) + 1
<1> DEFINE A == {p \in s : p < reach}
           B == {p \in s : p < q + m}
<1>1. IsFiniteSet(A) /\ Cardinality(A) \in Nat
  BY FS_Subset, FS_CardinalityType
<1>2. A \subseteq B
  <2>1. ASSUME NEW p \in s, p < reach PROVE p < q + m
    BY <2>1
  <2> QED
    BY <2>1
<1>3. CASE B \subseteq A
  <2>1. A = B
    BY <1>2, <1>3
  <2> HIDE DEF A, B
  <2>2. Cardinality(B) <= Cardinality(A) + 1
    BY <1>1, <2>1
  <2> QED
    BY <2>2 DEF A, B
<1>4. CASE \E b \in B : b \notin A
  <2>1. PICK b \in s : b < q + m /\ b >= reach
    BY <1>4
  <2>2. b >= q
    BY <2>1
  <2>3. ASSUME NEW c \in s, c < q + m, c >= reach PROVE c = b
    <3>1. c >= q
      BY <2>3
    <3>2. ~(b < c) /\ ~(c < b)
      BY <2>1, <2>2, <2>3, <3>1
    <3> QED
      BY <3>2
  <2>4. B = A \cup {b}
    <3>1. ASSUME NEW c \in B PROVE c \in A \cup {b}
      <4>1. CASE c < reach
        BY <4>1
      <4>2. CASE c >= reach
        BY <2>3, <4>2
      <4> QED
        BY <4>1, <4>2
    <3>2. A \cup {b} \subseteq B
      BY <1>2, <2>1
    <3> QED
      BY <3>1, <3>2
  <2> HIDE DEF A, B
  <2>5. Cardinality(A \cup {b})
          = IF b \in A THEN Cardinality(A) ELSE Cardinality(A) + 1
    BY <1>1, FS_AddElement
  <2>6. Cardinality(A \cup {b}) <= Cardinality(A) + 1
    BY <1>1, <2>5
  <2> QED
    BY <2>4, <2>6 DEF A, B
<1> QED
  BY <1>3, <1>4

\* How far the split of t has come: so many delimiters were found in front of
\* the remains, which begins at reach, and no choice of them has more there.
Greedy(t, d, remains, reach, found) ==
  /\ reach \in 0 .. Len(t)
  /\ remains = Advanced(t, reach)
  /\ \E s \in SUBSET Occurrences(t, d) :
       /\ IsApart(s, d)
       /\ \A p \in s : p + Len(d) <= reach
       /\ Cardinality(s) = found
  /\ \A s \in SUBSET Occurrences(t, d) :
       IsApart(s, d) => Cardinality({p \in s : p < reach}) <= found

LEMMA GreedyStart ==
  ASSUME NEW t \in Seq(Characters), NEW d \in Seq(Characters), Len(d) # 0
  PROVE  Greedy(t, d, t, 0, 0)
<1>1. 0 \in 0 .. Len(t)
  OBVIOUS
<1>2. t = Advanced(t, 0)
  BY AdvancedNone
<1>3. /\ {} \in SUBSET Occurrences(t, d) /\ IsApart({}, d) /\ Cardinality({}) = 0
  BY FS_EmptySet DEF IsApart
<1>4. ASSUME NEW s \in SUBSET Occurrences(t, d)
      PROVE  Cardinality({p \in s : p < 0}) <= 0
  <2>1. s \subseteq Nat
    BY OccurrencesFinite
  <2>5. \A p \in s : ~(p < 0)
    BY <2>1
  <2>2. {p \in s : p < 0} = {}
    BY <2>5
  <2>3. PICK c : c = Cardinality({p \in s : p < 0})
    OBVIOUS
  <2>4. c = 0
    BY <2>2, <2>3, FS_EmptySet
  <2>6. c <= 0
    BY <2>4
  <2> QED
    BY <2>3, <2>6
<1>5. \A p \in {} : p + Len(d) <= 0
  OBVIOUS
<1> QED
  BY <1>1, <1>2, <1>3, <1>4, <1>5 DEF Greedy

LEMMA GreedyStep ==
  ASSUME NEW t \in Seq(Characters), NEW d \in Seq(Characters), Len(d) # 0,
         NEW remains, NEW reach, NEW found \in Nat,
         Greedy(t, d, remains, reach, found),
         NEW at \in Occurrences(remains, d),
         \A p \in Occurrences(remains, d) : at <= p
  PROVE  Greedy(t, d, Advanced(remains, at + Len(d)), reach + (at + Len(d)),
                  found + 1)
<1>1. PICK m \in Nat, l \in Nat : m = Len(d) /\ l = Len(t) /\ m # 0
  OBVIOUS
<1>2. /\ reach \in 0 .. Len(t) /\ reach \in Nat /\ reach <= l
      /\ remains = Advanced(t, reach)
  BY <1>1 DEF Greedy
<1>3. remains \in Seq(Characters) /\ Len(remains) = l - reach
  BY <1>1, <1>2, AdvancedType
<1>4. at \in Nat /\ at + m <= l - reach
  BY <1>1, <1>3, OccursAt
<1>5. PICK q \in Nat : q = reach + at
  BY <1>2, <1>4
<1>13. /\ q + m <= l /\ reach <= q /\ q + m = reach + (at + m)
       /\ at + m \in Nat /\ q + m \in 0 .. l
  BY <1>1, <1>2, <1>4, <1>5
<1>6. q \in Occurrences(t, d)
  <2>1. at \in Occurrences(Advanced(t, reach), d)
    BY <1>2
  <2> QED
    BY <1>2, <1>4, <1>5, <2>1, OccursBehind
<1>7. ASSUME NEW p \in Occurrences(t, d), p >= reach PROVE p >= q
  <2>1. p \in Nat
    BY OccurrencesFinite
  <2>2. PICK k \in Nat : k = p - reach
    BY <1>2, <1>7, <2>1
  <2>5. reach + k = p
    BY <1>2, <2>1, <2>2
  <2>3. k \in Occurrences(Advanced(t, reach), d)
    BY <1>2, <2>5, OccursBehind
  <2>4. at <= k
    BY <1>2, <2>3
  <2> QED
    BY <1>2, <1>4, <1>5, <2>4, <2>5
<1>9. Advanced(remains, at + m) = Advanced(t, q + m)
  <2>1. reach + (at + m) <= Len(t)
    BY <1>1, <1>13
  <2>2. Advanced(Advanced(t, reach), at + m) = Advanced(t, reach + (at + m))
    BY <1>2, <1>13, <2>1, AdvancedTwice
  <2> QED
    BY <1>2, <1>13, <2>2
<1>10. \E s \in SUBSET Occurrences(t, d) :
         /\ IsApart(s, d)
         /\ \A p \in s : p + m <= q + m
         /\ Cardinality(s) = found + 1
  <2>1. PICK s \in SUBSET Occurrences(t, d) :
          IsApart(s, d) /\ (\A p \in s : p + m <= reach) /\ Cardinality(s) = found
    BY <1>1 DEF Greedy
  <2>2. s \subseteq Nat /\ IsFiniteSet(s)
    BY OccurrencesFinite
  <2>5. ASSUME NEW p \in s PROVE q - p >= m /\ p < q /\ p + m <= q + m
    <3>1. p \in Nat /\ p + m <= reach
      BY <2>1, <2>2
    <3> QED
      BY <1>1, <1>2, <1>13, <3>1
  <2>3. q \notin s
    BY <2>5
  <2>4. Cardinality(s \cup {q}) = found + 1
    BY <2>1, <2>2, <2>3, FS_AddElement
  <2>6. IsApart(s \cup {q}, d)
    <3>1. ASSUME NEW a \in s \cup {q}, NEW b \in s \cup {q}, a < b
          PROVE  b - a >= m
      <4>1. CASE a \in s /\ b \in s
        BY <1>1, <2>1, <3>1, <4>1 DEF IsApart
      <4>2. CASE a \in s /\ b = q
        BY <2>5, <4>2
      <4>3. CASE a = q /\ b \in s
        <5>1. b < a /\ b \in Nat
          BY <2>2, <2>5, <4>3
        <5> QED
          BY <3>1, <4>3, <5>1
      <4>4. CASE a = q /\ b = q
        BY <3>1, <4>4
      <4> QED
        BY <4>1, <4>2, <4>3, <4>4
    <3> QED
      BY <1>1, <3>1 DEF IsApart
  <2>7. s \cup {q} \in SUBSET Occurrences(t, d)
    BY <1>6
  <2>8. \A p \in s \cup {q} : p + m <= q + m
    <3>1. q + m <= q + m
      BY <1>1
    <3> QED
      BY <2>5, <3>1
  <2> QED
    BY <2>4, <2>6, <2>7, <2>8
<1>11. ASSUME NEW s \in SUBSET Occurrences(t, d), IsApart(s, d)
       PROVE  Cardinality({p \in s : p < q + m}) <= found + 1
  <2>1. s \in SUBSET Nat /\ IsFiniteSet(s)
    BY OccurrencesFinite
  <2>2. \A p \in s : p >= reach => p >= q
    BY <1>7
  <2>6. \A a, b \in s : a < b => b - a >= m
    BY <1>1, <1>11 DEF IsApart
  <2>3. Cardinality({p \in s : p < q + m})
          <= Cardinality({p \in s : p < reach}) + 1
    BY <1>1, <1>2, <1>13, <2>1, <2>2, <2>6, FirstTakesOne
  <2>4. Cardinality({p \in s : p < reach}) <= found
    BY <1>11 DEF Greedy
  <2>5. /\ Cardinality({p \in s : p < reach}) \in Nat
        /\ Cardinality({p \in s : p < q + m}) \in Nat
    BY <2>1, FS_Subset, FS_CardinalityType
  <2> QED
    BY <2>3, <2>4, <2>5
<1>12. Greedy(t, d, Advanced(remains, at + m), q + m, found + 1)
  BY <1>1, <1>9, <1>10, <1>11, <1>13 DEF Greedy
<1> QED
  BY <1>1, <1>12, <1>13

LEMMA GreedyEnd ==
  ASSUME NEW t \in Seq(Characters), NEW d \in Seq(Characters), Len(d) # 0,
         NEW remains, NEW reach, NEW found \in Nat,
         Greedy(t, d, remains, reach, found),
         Occurrences(remains, d) = {}
  PROVE  Max({Cardinality(s) : s \in {u \in SUBSET Occurrences(t, d) :
                                        IsApart(u, d)}}) = found
<1>1. reach \in Nat /\ reach \in 0 .. Len(t) /\ remains = Advanced(t, reach)
  BY DEF Greedy
<1>2. ASSUME NEW s \in SUBSET Occurrences(t, d), IsApart(s, d)
      PROVE  Cardinality(s) <= found /\ Cardinality(s) \in Nat
  <2>1. ASSUME NEW p \in s PROVE p < reach
    <3>1. p \in Nat /\ p \in Occurrences(t, d)
      BY OccurrencesFinite
    <3>2. SUFFICES ASSUME ~(p < reach) PROVE FALSE
      OBVIOUS
    <3>3. PICK k \in Nat : reach + k = p
      <4>1. p - reach \in Nat /\ reach + (p - reach) = p
        BY <1>1, <3>1, <3>2
      <4> QED
        BY <4>1
    <3>4. k \in Occurrences(Advanced(t, reach), d)
      BY <1>1, <3>1, <3>3, OccursBehind
    <3> QED
      BY <1>1, <3>4
  <2>2. {p \in s : p < reach} = s
    BY <2>1
  <2>3. Cardinality({p \in s : p < reach}) <= found
    BY <1>2 DEF Greedy
  <2> QED
    BY <2>2, <2>3, OccurrencesFinite
<1> DEFINE S == {Cardinality(s) : s \in {u \in SUBSET Occurrences(t, d) :
                                           IsApart(u, d)}}
<1>3. found \in S
  BY DEF Greedy
<1>4. \A k \in S : k \in Nat /\ k <= found
  BY <1>2
<1> HIDE DEF S
<1>5. Max(S) = found
  <2>1. \A y \in S : found >= y
    BY <1>4
  <2>2. Max(S) \in S /\ \A y \in S : Max(S) >= y
    BY <1>3, <2>1 DEF Max
  <2>3. Max(S) \in Nat /\ Max(S) <= found /\ Max(S) >= found
    BY <1>3, <1>4, <2>2
  <2> QED
    BY <2>3
<1> QED
  BY <1>5 DEF S

-----------------------------------------------------------------------------
(***************************************************************************)
(* The sections that are kept                                              *)
(***************************************************************************)

LEMMA AppendFacts ==
  ASSUME NEW S, NEW o \in Seq(S), NEW e \in S, NEW n \in Nat, n = Len(o)
  PROVE  /\ Append(o, e) \in Seq(S) /\ Len(Append(o, e)) = n + 1
         /\ DOMAIN Append(o, e) = 1 .. n + 1 /\ DOMAIN o = 1 .. n
         /\ Append(o, e)[n + 1] = e
         /\ \A i \in 1 .. n : Append(o, e)[i] = o[i]
OBVIOUS

LEMMA LesserOf ==
  ASSUME NEW a \in Nat, NEW b \in Nat
  PROVE  Min({a, b}) = IF a <= b THEN a ELSE b
<1>1. \E x \in {a, b} : \A y \in {a, b} : x <= y
  OBVIOUS
<1>2. Min({a, b}) \in {a, b} /\ \A y \in {a, b} : Min({a, b}) <= y
  BY <1>1 DEF Min
<1> QED
  BY <1>2

LEMMA PrefixOfJoined ==
  ASSUME NEW C, NEW s \in Seq(C), NEW e \in Seq(C)
  PROVE  IsPrefix(s, s \o e)
<1>1. PICK t \in Seq(C) : t = s \o e
  BY ConcatProperties
<1>2. /\ Len(t) = Len(s) + Len(e) /\ Len(s) \in 0 .. Len(t)
      /\ \A i \in 1 .. Len(s) : t[i] = s[i]
  <2>1. /\ Len(t) = Len(s) + Len(e)
        /\ \A i \in 1 .. Len(s) + Len(e) :
             t[i] = IF i <= Len(s) THEN s[i] ELSE e[i - Len(s)]
    BY <1>1, ConcatProperties
  <2>2. Len(s) \in Nat /\ Len(e) \in Nat
    OBVIOUS
  <2> QED
    BY <2>1, <2>2
<1>3. /\ SubSeq(t, 1, Len(s)) \in Seq(C) /\ Len(SubSeq(t, 1, Len(s))) = Len(s)
      /\ \A i \in 1 .. Len(s) : SubSeq(t, 1, Len(s))[i] = t[i]
  BY <1>2, BeginningAndRest
<1>4. SubSeq(t, 1, Len(s)) = s
  <2>1. \A i \in 1 .. Len(s) : s[i] = SubSeq(t, 1, Len(s))[i]
    BY <1>2, <1>3
  <2> QED
    BY <1>3, <2>1, SeqEqual
<1>5. SubSeq(s, 1, Len(s)) = s
  BY SubSeqFull
<1>6. Len(s) <= Len(t)
  BY <1>2
<1> QED
  BY <1>1, <1>4, <1>5, <1>6 DEF IsPrefix

\* The array holds the first sections, as many as it has most for, and none of
\* them holds a delimiter.  With most for all so far, nothing is lost.
Kept(t, d, remains, o, most, found) ==
  /\ remains \in Seq(Characters)
  /\ o \in Seq(Seq(Characters))
  /\ Rejoining(o, d) \in Seq(Characters)
  /\ Len(o) = IF found <= most THEN found ELSE most
  /\ \A i \in DOMAIN o : Occurrences(o[i], d) = {}
  /\ IF found <= most THEN Rejoining(o, d) \o remains = t
                      ELSE IsPrefix(Rejoining(o, d), t)

\* One more section e is put out, before the remains is shortened.
KeptMore(t, d, remains, o, e, more, most, found) ==
  /\ more \in Seq(Seq(Characters))
  /\ Rejoining(more, d) \in Seq(Characters)
  /\ Len(more) = IF found <= most THEN found ELSE most
  /\ \A i \in DOMAIN more : Occurrences(more[i], d) = {}
  /\ IF found <= most
     THEN /\ Rejoining(more, d) = Rejoining(o, d) \o (e \o d)
          /\ Rejoining(o, d) \o remains = t
     ELSE IsPrefix(Rejoining(more, d), t)

LEMMA KeptStep ==
  ASSUME NEW t, NEW d \in Seq(Characters),
         NEW remains, NEW o, NEW most \in Nat, NEW found \in Nat,
         Kept(t, d, remains, o, most, found),
         NEW e \in Seq(Characters), Occurrences(e, d) = {},
         NEW more, more = IF found < most THEN Append(o, e) ELSE o
  PROVE  KeptMore(t, d, remains, o, e, more, most, found + 1)
<1>1. /\ remains \in Seq(Characters)
      /\ o \in Seq(Seq(Characters)) /\ Rejoining(o, d) \in Seq(Characters)
      /\ Len(o) = IF found <= most THEN found ELSE most
      /\ \A i \in DOMAIN o : Occurrences(o[i], d) = {}
      /\ IF found <= most THEN Rejoining(o, d) \o remains = t
                          ELSE IsPrefix(Rejoining(o, d), t)
  BY DEF Kept
<1>2. CASE found < most
  <2>1. found <= most /\ found + 1 <= most
    BY <1>2
  <2>2. PICK n \in Nat : n = Len(o) /\ n = found
    BY <1>1, <2>1
  <2>3. more = Append(o, e)
    BY <1>2
  <2>4. /\ more \in Seq(Seq(Characters)) /\ Len(more) = n + 1
        /\ DOMAIN more = 1 .. n + 1 /\ DOMAIN o = 1 .. n
        /\ more[n + 1] = e /\ \A i \in 1 .. n : more[i] = o[i]
    BY <1>1, <2>2, <2>3, AppendFacts, SMTT(30)
  <2>5. ASSUME NEW i \in DOMAIN more PROVE Occurrences(more[i], d) = {}
    <3>1. i \in 1 .. n \/ i = n + 1
      BY <2>2, <2>4, LastOrBefore
    <3>2. CASE i \in 1 .. n
      BY <1>1, <2>4, <3>2
    <3>3. CASE i = n + 1
      BY <2>4, <3>3
    <3> QED
      BY <3>1, <3>2, <3>3
  <2>6. Rejoining(more, d) = Rejoining(o, d) \o (e \o d)
    <3>1. o \in Seq(Seq(Characters))
      BY <1>1
    <3>2. Rejoining(Append(o, e), d) = Rejoining(o, d) \o (e \o d)
      BY <3>1, RejoiningAppend
    <3> QED
      BY <2>3, <3>2, Zenon
  <2>7. Rejoining(more, d) \in Seq(Characters)
    <3>1. e \o d \in Seq(Characters)
      BY ConcatProperties
    <3> QED
      BY <1>1, <2>6, <3>1, ConcatProperties
  <2>8. Rejoining(o, d) \o remains = t
    BY <1>1, <2>1
  <2> QED
    BY <2>1, <2>2, <2>4, <2>5, <2>6, <2>7, <2>8 DEF KeptMore
<1>3. CASE ~(found < most)
  <2>1. ~(found + 1 <= most)
    BY <1>3
  <2>2. Len(o) = most
    BY <1>1, <1>3
  <2>3. IsPrefix(Rejoining(o, d), t)
    <3>1. CASE found <= most
      <4>1. Rejoining(o, d) \o remains = t
        BY <1>1, <3>1
      <4> QED
        BY <1>1, <4>1, PrefixOfJoined
    <3>2. CASE ~(found <= most)
      BY <1>1, <3>2
    <3> QED
      BY <3>1, <3>2
  <2>4. more = o
    BY <1>3
  <2> QED
    BY <1>1, <2>1, <2>2, <2>3, <2>4 DEF KeptMore
<1> QED
  BY <1>2, <1>3

\* Joining a section, the delimiter and what is left gives the remains.
LEMMA RegroupSections ==
  ASSUME NEW C, NEW a \in Seq(C), NEW e \in Seq(C), NEW d \in Seq(C),
         NEW left \in Seq(C)
  PROVE  (a \o (e \o d)) \o left = a \o (e \o (d \o left))
<1>1. e \o d \in Seq(C)
  BY ConcatProperties
<1>2. (a \o (e \o d)) \o left = a \o ((e \o d) \o left)
  BY <1>1, ConcatAssociative, SMTT(30)
<1>3. (e \o d) \o left = e \o (d \o left)
  BY ConcatAssociative, SMTT(30)
<1> QED
  BY <1>2, <1>3

-----------------------------------------------------------------------------
(***************************************************************************)
(* The split                                                               *)
(***************************************************************************)

\* The inductive invariant for SplitExact.
SplitInv ==
  /\ splitOf \in [text : Seq(Characters), done : BOOLEAN]
  /\ str \in Seq(Characters) /\ room_count \in Nat /\ count \in Nat
  /\ delimiter \in Seq(Characters) /\ Len(delimiter) # 0
  /\ ~splitOf.done =>
       /\ \E reach : Greedy(splitOf.text, delimiter, str, reach, count)
       /\ Kept(splitOf.text, delimiter, str, output, room_count, count)
  /\ SplitExact

LEMMA InitSplitInv == SplitInit => SplitInv
<1> SUFFICES ASSUME SplitInit PROVE SplitInv
  OBVIOUS
<1>1. /\ str \in Seq(Characters) /\ delimiter \in Seq(Characters)
      /\ Len(delimiter) # 0 /\ room_count \in Nat /\ count = 0
      /\ output = << >> /\ splitOf = [text |-> str, done |-> FALSE]
  BY StringSplitAssumption DEF SplitInit
<1>2. Greedy(str, delimiter, str, 0, 0)
  BY <1>1, GreedyStart
<1>3. Kept(str, delimiter, str, << >>, room_count, 0)
  <2>1. /\ << >> \in Seq(Seq(Characters)) /\ << >> \in Seq(Characters)
        /\ Len(<< >>) = 0 /\ DOMAIN << >> = {}
    BY EmptySeq
  <2>2. << >> \o str = str
    BY <1>1, ConcatEmptySeq
  <2>3. 0 <= room_count
    BY <1>1
  <2>4. Rejoining(<< >>, delimiter) = << >>
    BY RejoiningNone
  <2>5. Len(<< >>) = IF 0 <= room_count THEN 0 ELSE room_count
    BY <2>1, <2>3
  <2>6. \A i \in DOMAIN << >> : Occurrences(<< >>[i], delimiter) = {}
    BY <2>1
  <2> QED
    BY <1>1, <2>1, <2>2, <2>3, <2>4, <2>5, <2>6 DEF Kept
<1>4. /\ splitOf \in [text : Seq(Characters), done : BOOLEAN]
      /\ splitOf.text = str /\ splitOf.done = FALSE
  BY <1>1
<1> QED
  BY <1>1, <1>2, <1>3, <1>4 DEF SplitInv, SplitExact

\* The loop goes on while the delimiter occurs.
LEMMA FoundWhen ==
  ASSUME SplitInv
  PROVE  IsFound <=> Occurrences(str, delimiter) # {}
<1>1. /\ str \in Seq(Characters) /\ delimiter \in Seq(Characters)
      /\ Len(delimiter) # 0
  BY DEF SplitInv
<1>2. ASSUME str = << >> PROVE Occurrences(str, delimiter) = {}
  <2>1. Len(str) = 0 /\ Len(delimiter) \in Nat
    BY <1>1, <1>2, EmptySeq
  <2>2. ASSUME NEW p \in Occurrences(str, delimiter) PROVE FALSE
    <3>1. p \in Nat /\ p + Len(delimiter) <= Len(str)
      BY <1>1, OccursAt
    <3> QED
      BY <1>1, <2>1, <3>1
  <2> QED
    BY <2>2
<1> QED
  BY <1>1, <1>2, FoundFirst DEF IsFound

LEMMA SliceKeeps ==
  ASSUME SplitInv, SplitSlice
  PROVE  SplitInv'
<1> DEFINE t == splitOf.text
           d == delimiter
           at == HasSubstring(str, d)
           e == SubSeq(str, 1, at)
           left == Advanced(str, at + Len(d))
<1>1. /\ t \in Seq(Characters) /\ splitOf.done = FALSE /\ d \in Seq(Characters)
      /\ Len(d) # 0 /\ str \in Seq(Characters) /\ room_count \in Nat
      /\ count \in Nat /\ splitOf \in [text : Seq(Characters), done : BOOLEAN]
      /\ Kept(t, d, str, output, room_count, count)
  BY DEF SplitInv, SplitSlice
<1>2. PICK reach : Greedy(t, d, str, reach, count)
  BY <1>1 DEF SplitInv
<1>3. /\ splitOf' = splitOf /\ delimiter' = delimiter
      /\ room_count' = room_count /\ count' = count + 1
      /\ output' = (IF count < room_count THEN Append(output, e) ELSE output)
      /\ str' = left
  BY DEF SplitSlice, Outputs
<1>4. /\ at \in Occurrences(str, d)
      /\ \A p \in Occurrences(str, d) : at <= p
  <2>1. Occurrences(str, d) # {}
    BY FoundWhen DEF SplitSlice
  <2> QED
    BY <1>1, <2>1, FoundFirst
<1>5. /\ at \in 0 .. Len(str) /\ at + Len(d) \in 0 .. Len(str)
      /\ str = e \o (d \o left)
  BY <1>1, <1>4, AroundOccurrence
<1> HIDE DEF at
<1>6. e \in Seq(Characters) /\ left \in Seq(Characters)
  BY <1>1, <1>5, BeginningAndRest, AdvancedType
<1>7. Occurrences(e, d) = {}
  <2>1. ASSUME NEW p \in Occurrences(e, d) PROVE FALSE
    <3>1. p \in Occurrences(str, d) /\ p + Len(d) <= at
      BY <1>1, <1>5, <2>1, OccursBefore
    <3>2. at <= p /\ p \in Nat /\ at \in Nat /\ Len(d) \in Nat
      BY <1>1, <1>4, <1>5, <3>1, OccurrencesFinite
    <3> HIDE DEF d
    <3> QED
      BY <1>1, <3>1, <3>2
  <2> QED
    BY <2>1
<1>8. Greedy(t, d, left, reach + (at + Len(d)), count + 1)
  BY <1>1, <1>2, <1>4, GreedyStep
<1>9. Kept(t, d, left, output', room_count, count + 1)
  <2> HIDE DEF t, d, e, left
  <2>1. PICK more : more = IF count < room_count THEN Append(output, e) ELSE output
    OBVIOUS
  <2>2. KeptMore(t, d, str, output, e, more, room_count, count + 1)
    BY <1>1, <1>6, <1>7, <2>1, KeptStep
  <2>3. Rejoining(output, d) \in Seq(Characters)
    BY <1>1 DEF Kept
  <2>4. count + 1 <= room_count => Rejoining(more, d) \o left = t
    <3>1. ASSUME count + 1 <= room_count
          PROVE  Rejoining(more, d) = Rejoining(output, d) \o (e \o d)
                 /\ t = Rejoining(output, d) \o str
      BY <2>2, <3>1 DEF KeptMore
    <3>2. (Rejoining(output, d) \o (e \o d)) \o left
            = Rejoining(output, d) \o (e \o (d \o left))
      <4>1. d \in Seq(Characters)
        BY <1>1
      <4> QED
        BY <1>6, <2>3, <4>1, RegroupSections, SMTT(60)
    <3> QED
      BY <1>5, <3>1, <3>2, Zenon
  <2>5. Kept(t, d, left, more, room_count, count + 1)
    BY <1>6, <2>2, <2>4 DEF Kept, KeptMore
  <2> QED
    BY <1>3, <2>1, <2>5
<1>10. SplitExact'
  BY <1>1, <1>3 DEF SplitExact
<1>11. count + 1 \in Nat
  BY <1>1
<1> HIDE DEF left
<1> QED
  BY <1>1, <1>3, <1>6, <1>8, <1>9, <1>10, <1>11 DEF SplitInv

LEMMA LastKeeps ==
  ASSUME SplitInv, SplitLast
  PROVE  SplitInv'
<1> DEFINE t == splitOf.text
           d == delimiter
<1>1. /\ t \in Seq(Characters) /\ splitOf.done = FALSE /\ d \in Seq(Characters)
      /\ Len(d) # 0 /\ str \in Seq(Characters) /\ room_count \in Nat
      /\ count \in Nat /\ splitOf \in [text : Seq(Characters), done : BOOLEAN]
      /\ Kept(t, d, str, output, room_count, count)
  BY DEF SplitInv, SplitLast
<1>2. PICK reach : Greedy(t, d, str, reach, count)
  BY <1>1 DEF SplitInv
<1>3. /\ splitOf' = [splitOf EXCEPT !.done = TRUE] /\ delimiter' = delimiter
      /\ room_count' = room_count /\ count' = count + 1 /\ str' = str
      /\ output' = (IF count < room_count THEN Append(output, str) ELSE output)
  BY DEF SplitLast, Outputs
<1>4. /\ splitOf' \in [text : Seq(Characters), done : BOOLEAN]
      /\ splitOf'.text = t /\ splitOf'.done = TRUE
  BY <1>1, <1>3
<1>5. Occurrences(str, d) = {}
  BY FoundWhen DEF SplitLast
<1>6. Max({Cardinality(s) : s \in {u \in SUBSET Occurrences(t, d) :
                                     IsApart(u, d)}}) = count
  BY <1>1, <1>2, <1>5, GreedyEnd
<1>7. MostDelimiters' = count
  BY <1>3, <1>4, <1>6 DEF MostDelimiters
<1>8. PICK more : more = IF count < room_count THEN Append(output, str) ELSE output
  OBVIOUS
<1>9. KeptMore(t, d, str, output, str, more, room_count, count + 1)
  <2> HIDE DEF t, d
  <2> QED
    BY <1>1, <1>5, <1>8, KeptStep
<1>10. count + 1 <= room_count => Rejoining(more, d) = t \o d
  <2>1. Rejoining(output, d) \in Seq(Characters)
    BY <1>1 DEF Kept
  <2>2. (Rejoining(output, d) \o str) \o d = Rejoining(output, d) \o (str \o d)
    BY <1>1, <2>1, ConcatAssociative, SMTT(30)
  <2>3. ASSUME count + 1 <= room_count
        PROVE  /\ Rejoining(more, d) = Rejoining(output, d) \o (str \o d)
               /\ Rejoining(output, d) \o str = t
    BY <1>9, <2>3 DEF KeptMore
  <2> QED
    BY <2>2, <2>3, Zenon
<1>11. count + 1 \in Nat
  BY <1>1
<1>12. Min({count + 1, room_count})
         = IF count + 1 <= room_count THEN count + 1 ELSE room_count
  BY <1>1, <1>11, LesserOf
<1>13. /\ count' = MostDelimiters' + 1
       /\ Len(more) = Min({count', room_count'})
       /\ \A i \in DOMAIN more : Occurrences(more[i], delimiter') = {}
       /\ IF count' <= room_count'
          THEN Rejoining(more, delimiter') = splitOf'.text \o delimiter'
          ELSE IsPrefix(Rejoining(more, delimiter'), splitOf'.text)
  BY <1>3, <1>4, <1>7, <1>9, <1>10, <1>12 DEF KeptMore
<1>14. output' = more
  BY <1>3, <1>8
<1>15. SplitExact'
  BY <1>13, <1>14 DEF SplitExact, Rejoined, Rejoining
<1> QED
  BY <1>1, <1>3, <1>4, <1>11, <1>15 DEF SplitInv

LEMMA NextSplitInv == SplitInv /\ [SplitNext]_splitVars => SplitInv'
<1> SUFFICES ASSUME SplitInv, [SplitNext]_splitVars PROVE SplitInv'
  OBVIOUS
<1>1. CASE SplitSlice
  BY <1>1, SliceKeeps
<1>2. CASE SplitLast
  BY <1>2, LastKeeps
<1>3. CASE UNCHANGED splitVars
  BY <1>3 DEF splitVars, SplitInv, SplitExact, Rejoined, MostDelimiters
<1> QED
  BY <1>1, <1>2, <1>3 DEF SplitNext

\* A split finds as many delimiters as can be found without overlap, and keeps
\* sections that rejoin to the string, whatever the string and the delimiter.
THEOREM SplitIsExact == SplitSpec => []SplitExact
<1>1. SplitSpec => []SplitInv
  BY InitSplitInv, NextSplitInv, PTL DEF SplitSpec
<1>2. SplitInv => SplitExact
  BY DEF SplitInv
<1> QED
  BY <1>1, <1>2, PTL

-----------------------------------------------------------------------------
(***************************************************************************)
(* All four together                                                       *)
(***************************************************************************)

TextInv ==
  /\ StringInv /\ OutputInv
  /\ IF which = "integer" THEN IntegerInv ELSE phase = "refused" /\ room = 0
  /\ IF which = "split" THEN SplitInv ELSE ~splitOf.done

LEMMA InitTextInv == TextInit => TextInv
BY StringInitInv, OutputInitInv, InitIntegerInv, InitSplitInv
   DEF TextInit, NoInteger, NoSplit, TextInv

LEMMA IntegerIdle ==
  ASSUME phase = "refused", room = 0 PROVE IntegerFillsOutput
  BY DEF IntegerFillsOutput

LEMMA NextTextInv == TextInv /\ [TextNext]_textVars => TextInv'
<1> SUFFICES ASSUME TextInv, [TextNext]_textVars PROVE TextInv'
  OBVIOUS
<1>1. /\ [StringNext]_stringVars /\ [OutputNext]_outputVars
      /\ which' = which
      /\ IF which = "integer" THEN [IntegerNext]_integerVars
                              ELSE UNCHANGED integerVars
      /\ IF which = "split" THEN [SplitNext]_splitVars ELSE UNCHANGED splitVars
  BY DEF TextNext, textVars
<1>2. StringInv'
  BY <1>1, StringNextStep, StringStuttering DEF TextInv
<1>3. OutputInv'
  BY <1>1, OutputStep DEF TextInv
<1>4. IF which = "integer" THEN IntegerInv' ELSE phase' = "refused" /\ room' = 0
  BY <1>1, NextIntegerInv DEF TextInv, integerVars
<1>5. IF which = "split" THEN SplitInv' ELSE ~splitOf.done'
  BY <1>1, NextSplitInv DEF TextInv, splitVars
<1> QED
  BY <1>1, <1>2, <1>3, <1>4, <1>5 DEF TextInv

LEMMA TextInvariant == TextSpec => []TextInv
BY InitTextInv, NextTextInv, PTL DEF TextSpec

\* The streams' variables have their types, whichever of the four parts runs:
\* the output stream never holds more than its buffer, the string stream not
\* before a write overflows it, which is the last step that is followed.
THEOREM TextTypeCorrect == TextSpec => []TextTypeOK
<1>1. TextInv => TextTypeOK
  BY DEF TextInv, StringInv, OutputInv, TextTypeOK
<1> QED
  BY <1>1, TextInvariant, PTL

\* What is written, formatted and split arrives whole, in order and once,
\* whichever of the four runs.
THEOREM TextCorrect ==
  TextSpec => [](/\ OutputKeepsPromised
             /\ OutputInOrder
             /\ IntegerFillsOutput
             /\ SplitExact)
<1>1. TextInv => OutputKeepsPromised /\ OutputInOrder
  BY DEF TextInv, OutputInv
<1>2. TextInv => IntegerFillsOutput
  BY InvFillsOutput, IntegerIdle DEF TextInv
<1>3. TextInv => SplitExact
  BY DEF TextInv, SplitInv, SplitExact
<1> QED
  BY <1>1, <1>2, <1>3, TextInvariant, PTL

-----------------------------------------------------------------------------
(***************************************************************************)
(* The multi-dimensional iterator                                          *)
(***************************************************************************)

(***************************************************************************)
(* Recursive functions over the dimensions, from the first one on and from *)
(* the last one back: one that takes given steps exists, and no two differ.*)
(***************************************************************************)

\* A step holds up to n if it holds at 0 and is passed on.
LEMMA UpTo ==
  ASSUME NEW n \in Nat, NEW P, 0 \in P,
         \A i \in 0 .. n - 1 : i \in P => i + 1 \in P
  PROVE  \A i \in 0 .. n : i \in P
<1> DEFINE N == {i \in Nat : i <= n => i \in P}
<1>1. 0 \in N
  OBVIOUS
<1>2. ASSUME NEW i \in Nat, i \in N PROVE i + 1 \in N
  <2> SUFFICES ASSUME i + 1 <= n PROVE i + 1 \in P
    OBVIOUS
  <2>1. i \in 0 .. n - 1 /\ i \in P
    BY <1>2
  <2> QED
    BY <2>1
<1> HIDE DEF N
<1>3. Nat \subseteq N
  BY <1>1, <1>2, Lemmas!NatSets
<1> QED
  <2> SUFFICES ASSUME NEW i \in 0 .. n PROVE i \in P
    OBVIOUS
  <2>1. i \in N /\ i <= n
    BY <1>3
  <2> QED
    BY <2>1 DEF N

LEMMA DownFrom ==
  ASSUME NEW n \in Nat, NEW P, n \in P,
         \A i \in 0 .. n - 1 : i + 1 \in P => i \in P
  PROVE  \A i \in 0 .. n : i \in P
<1> DEFINE Q == {i \in Nat : n - i \in P}
<1>1. 0 \in Q
  OBVIOUS
<1>2. ASSUME NEW i \in 0 .. n - 1, i \in Q PROVE i + 1 \in Q
  <2>1. n - (i + 1) \in 0 .. n - 1 /\ (n - (i + 1)) + 1 = n - i
    OBVIOUS
  <2>2. n - (i + 1) \in P
    BY <1>2, <2>1
  <2> QED
    BY <2>2
<1> HIDE DEF Q
<1>3. \A i \in 0 .. n : i \in Q
  BY <1>1, <1>2, UpTo
<1> QED
  <2> SUFFICES ASSUME NEW i \in 0 .. n PROVE i \in P
    OBVIOUS
  <2>1. n - i \in 0 .. n /\ n - (n - i) = i
    OBVIOUS
  <2>2. n - i \in Q
    BY <1>3, <2>1
  <2> QED
    BY <2>1, <2>2 DEF Q

LEMMA SameUp ==
  ASSUME NEW n \in Nat, NEW f, NEW g, f[0] = g[0],
         \A i \in 0 .. n - 1 : f[i] = g[i] => f[i + 1] = g[i + 1]
  PROVE  f[n] = g[n] /\ \A i \in 0 .. n : f[i] = g[i]
<1> DEFINE P == {i \in 0 .. n : f[i] = g[i]}
<1>1. 0 \in P
  OBVIOUS
<1>2. ASSUME NEW i \in 0 .. n - 1, i \in P PROVE i + 1 \in P
  BY <1>2
<1> HIDE DEF P
<1>3. \A i \in 0 .. n : i \in P
  BY <1>1, <1>2, UpTo
<1>4. n \in 0 .. n
  OBVIOUS
<1> QED
  BY <1>3, <1>4 DEF P

LEMMA SameDown ==
  ASSUME NEW n \in Nat, NEW f, NEW g, f[n] = g[n],
         \A i \in 0 .. n - 1 : f[i + 1] = g[i + 1] => f[i] = g[i]
  PROVE  \A i \in 0 .. n : f[i] = g[i]
<1> DEFINE P == {i \in 0 .. n : f[i] = g[i]}
<1>1. n \in P
  OBVIOUS
<1>2. ASSUME NEW i \in 0 .. n - 1, i + 1 \in P PROVE i \in P
  BY <1>2
<1> HIDE DEF P
<1>3. \A i \in 0 .. n : i \in P
  BY <1>1, <1>2, DownFrom
<1> QED
  BY <1>3 DEF P

\* The values of f from a on, by the steps of G.
Ascends(f, n, a, G) ==
  f[0] = a /\ \A i \in 0 .. n - 1 : f[i + 1] = G[<< i, f[i] >>]

Descends(f, n, a, G) ==
  f[n] = a /\ \A i \in 0 .. n - 1 : f[i] = G[<< i, f[i + 1] >>]

LEMMA StepsUp ==
  ASSUME NEW k \in Nat, NEW a \in Nat, NEW G \in [(0 .. k - 1) \X Nat -> Nat]
  PROVE  \E f \in [0 .. k -> Nat] : Ascends(f, k, a, G)
<1> DEFINE P == {n \in 0 .. k : \E f \in [0 .. n -> Nat] : Ascends(f, n, a, G)}
<1>1. 0 \in P
  <2>1. [i \in 0 .. 0 |-> a] \in [0 .. 0 -> Nat]
    OBVIOUS
  <2>2. Ascends([i \in 0 .. 0 |-> a], 0, a, G)
    BY DEF Ascends
  <2> QED
    BY <2>1, <2>2
<1>2. ASSUME NEW n \in 0 .. k - 1, n \in P PROVE n + 1 \in P
  <2>1. PICK f \in [0 .. n -> Nat] : Ascends(f, n, a, G)
    BY <1>2
  <2>2. PICK e \in Nat : e = G[<< n, f[n] >>]
    <3>1. << n, f[n] >> \in (0 .. k - 1) \X Nat
      OBVIOUS
    <3> QED
      BY <3>1
  <2>3. PICK g : g = [i \in 0 .. n + 1 |-> IF i <= n THEN f[i] ELSE e]
    OBVIOUS
  <2>4. g \in [0 .. n + 1 -> Nat] /\ g[n + 1] = e
        /\ \A i \in 0 .. n : g[i] = f[i]
    BY <2>3
  <2>5. g[0] = a
    BY <2>1, <2>4 DEF Ascends
  <2>6. ASSUME NEW i \in 0 .. n PROVE g[i + 1] = G[<< i, g[i] >>]
    <3>1. CASE i \in 0 .. n - 1
      <4>1. i \in 0 .. n /\ i + 1 \in 0 .. n
        BY <3>1
      <4> QED
        BY <2>1, <2>4, <3>1, <4>1 DEF Ascends
    <3>2. CASE i = n
      BY <2>2, <2>4, <3>2
    <3> QED
      BY <3>1, <3>2
  <2>7. Ascends(g, n + 1, a, G)
    BY <2>5, <2>6 DEF Ascends
  <2> QED
    BY <2>4, <2>7
<1> HIDE DEF P
<1>3. k \in P
  BY <1>1, <1>2, UpTo
<1> QED
  BY <1>3 DEF P

LEMMA StepsDown ==
  ASSUME NEW k \in Nat, NEW a \in Nat, NEW G \in [(0 .. k - 1) \X Nat -> Nat]
  PROVE  \E f \in [0 .. k -> Nat] : Descends(f, k, a, G)
<1>1. PICK H : H = [x \in (0 .. k - 1) \X Nat |-> G[<< k - 1 - x[1], x[2] >>]]
  OBVIOUS
<1>2. /\ H \in [(0 .. k - 1) \X Nat -> Nat]
      /\ \A i \in 0 .. k - 1, v \in Nat : H[<< i, v >>] = G[<< k - 1 - i, v >>]
  <2>1. ASSUME NEW x \in (0 .. k - 1) \X Nat
        PROVE  G[<< k - 1 - x[1], x[2] >>] \in Nat
    <3>1. << k - 1 - x[1], x[2] >> \in (0 .. k - 1) \X Nat
      OBVIOUS
    <3> QED
      BY <3>1
  <2> QED
    BY <1>1, <2>1
<1>3. PICK h \in [0 .. k -> Nat] : Ascends(h, k, a, H)
  BY <1>2, StepsUp
<1>4. PICK f : f = [i \in 0 .. k |-> h[k - i]]
  OBVIOUS
<1>5. f \in [0 .. k -> Nat] /\ \A i \in 0 .. k : f[i] = h[k - i]
  BY <1>4
<1>6. f[k] = a
  <2>1. k \in 0 .. k /\ k - k = 0
    OBVIOUS
  <2> QED
    BY <1>3, <1>5, <2>1 DEF Ascends
<1>7. ASSUME NEW i \in 0 .. k - 1 PROVE f[i] = G[<< i, f[i + 1] >>]
  <2>1. PICK j \in 0 .. k - 1 : j = k - 1 - i
    OBVIOUS
  <2>2. /\ j + 1 = k - i /\ j = k - (i + 1) /\ k - 1 - j = i
        /\ i \in 0 .. k /\ i + 1 \in 0 .. k
    BY <2>1
  <2>3. h[j + 1] = H[<< j, h[j] >>]
    BY <1>3 DEF Ascends
  <2>4. h[j] = f[i + 1] /\ f[i + 1] \in Nat /\ f[i] = h[j + 1]
    BY <1>5, <2>2
  <2>5. H[<< j, f[i + 1] >>] = G[<< i, f[i + 1] >>]
    BY <1>2, <2>2, <2>4
  <2> QED
    BY <2>3, <2>4, <2>5
<1>8. Descends(f, k, a, G)
  BY <1>6, <1>7 DEF Descends
<1> QED
  BY <1>5, <1>8

-----------------------------------------------------------------------------
(***************************************************************************)
(* The recursive functions of the model                                    *)
(***************************************************************************)

\* What the first digits of o come to, in the bases c.
IsIndex(f, n, c, o) ==
  /\ f \in [0 .. n -> Nat]
  /\ f[0] = 0
  /\ \A i \in 0 .. n - 1 : f[i + 1] = f[i] * c[i] + o[i]

\* How many numbers the first digits have.
IsSize(f, n, c) ==
  /\ f \in [0 .. n -> Nat]
  /\ f[0] = 1
  /\ \A i \in 0 .. n - 1 : f[i + 1] = f[i] * c[i]

\* What the number of the first digits weighs.
IsWeight(f, n, c) ==
  /\ f \in [0 .. n -> Nat]
  /\ f[n] = 1
  /\ \A i \in 0 .. n - 1 : f[i] = f[i + 1] * c[i]

HornerOf(n, c, o) ==
  LET index[i \in 0 .. n] ==
        IF i = 0 THEN 0 ELSE index[i - 1] * c[i - 1] + o[i - 1]
  IN index[n]

SizeOf(n, c) ==
  LET size[i \in 0 .. n] == IF i = 0 THEN 1 ELSE size[i - 1] * c[i - 1]
  IN size[n]

SolvesIndex(f, n, c, o) ==
  f = [i \in 0 .. n |-> IF i = 0 THEN 0 ELSE f[i - 1] * c[i - 1] + o[i - 1]]

SolvesSize(f, n, c) ==
  f = [i \in 0 .. n |-> IF i = 0 THEN 1 ELSE f[i - 1] * c[i - 1]]

SolvesStride(f, last, c) ==
  f = [d \in 0 .. last |-> IF d = last THEN 1 ELSE f[d + 1] * c[d + 1]]

LEMMA HornerIs ==
  ASSUME NEW n, NEW c, NEW o
  PROVE  HornerOf(n, c, o) = (CHOOSE f : SolvesIndex(f, n, c, o))[n]
BY DEF HornerOf, SolvesIndex

LEMMA SizeIs ==
  ASSUME NEW n, NEW c
  PROVE  SizeOf(n, c) = (CHOOSE f : SolvesSize(f, n, c))[n]
BY DEF SizeOf, SolvesSize

LEMMA StrideIs ==
  ASSUME NEW dim
  PROVE  Stride(dim) = (CHOOSE f : SolvesStride(f, ndims - 1, cells))[dim]
BY DEF Stride, SolvesStride, LastDim, Dim

LEMMA IndexExists ==
  ASSUME NEW n \in Nat, NEW c, NEW o,
         \A i \in 0 .. n - 1 : c[i] \in Nat /\ o[i] \in Nat
  PROVE  \E f : IsIndex(f, n, c, o) /\ HornerOf(n, c, o) = f[n]
<1>1. PICK G : G = [x \in (0 .. n - 1) \X Nat |-> x[2] * c[x[1]] + o[x[1]]]
  OBVIOUS
<1>2. /\ G \in [(0 .. n - 1) \X Nat -> Nat]
      /\ \A i \in 0 .. n - 1, v \in Nat : G[<< i, v >>] = v * c[i] + o[i]
  <2>1. ASSUME NEW x \in (0 .. n - 1) \X Nat
        PROVE  x[2] * c[x[1]] + o[x[1]] \in Nat
    <3>1. x[1] \in 0 .. n - 1 /\ x[2] \in Nat
      OBVIOUS
    <3>2. PICK p \in Nat, q \in Nat, r \in Nat :
            p = x[2] /\ q = c[x[1]] /\ r = o[x[1]]
      BY <3>1
    <3>3. p * q + r \in Nat
      OBVIOUS
    <3> QED
      BY <3>2, <3>3
  <2>2. ASSUME NEW i \in 0 .. n - 1, NEW v \in Nat
        PROVE  G[<< i, v >>] = v * c[i] + o[i]
    <3>1. << i, v >> \in (0 .. n - 1) \X Nat
      OBVIOUS
    <3> QED
      BY <1>1, <3>1
  <2> QED
    BY <1>1, <2>1, <2>2
<1>3. PICK f \in [0 .. n -> Nat] : Ascends(f, n, 0, G)
  BY <1>2, StepsUp
<1>4. IsIndex(f, n, c, o)
  <2>1. ASSUME NEW i \in 0 .. n - 1 PROVE f[i + 1] = f[i] * c[i] + o[i]
    <3>1. f[i] \in Nat
      OBVIOUS
    <3> QED
      BY <1>2, <1>3, <3>1 DEF Ascends
  <2> QED
    BY <1>3, <2>1 DEF IsIndex, Ascends
<1>5. SolvesIndex(f, n, c, o)
  <2>1. ASSUME NEW i \in 0 .. n, i # 0
        PROVE  f[i] = f[i - 1] * c[i - 1] + o[i - 1]
    <3>1. i - 1 \in 0 .. n - 1 /\ (i - 1) + 1 = i
      BY <2>1
    <3> QED
      BY <1>4, <3>1 DEF IsIndex
  <2> QED
    BY <1>4, <2>1 DEF IsIndex, SolvesIndex
<1>6. PICK g : g = CHOOSE h : SolvesIndex(h, n, c, o)
  OBVIOUS
<1>7. SolvesIndex(g, n, c, o)
  BY <1>5, <1>6
<1>8. f[0] = g[0]
  BY <1>4, <1>7 DEF IsIndex, SolvesIndex
<1>9. ASSUME NEW i \in 0 .. n - 1, f[i] = g[i] PROVE f[i + 1] = g[i + 1]
  <2>1. i + 1 \in 0 .. n /\ i + 1 # 0 /\ (i + 1) - 1 = i
    OBVIOUS
  <2>2. g[i + 1] = g[i] * c[i] + o[i]
    BY <1>7, <2>1 DEF SolvesIndex
  <2> QED
    BY <1>4, <1>9, <2>1, <2>2 DEF IsIndex
<1>10. f[n] = g[n]
  BY <1>8, <1>9, SameUp
<1> QED
  BY <1>4, <1>6, <1>10, HornerIs

LEMMA SizeExists ==
  ASSUME NEW n \in Nat, NEW c, \A i \in 0 .. n - 1 : c[i] \in Nat
  PROVE  \E f : IsSize(f, n, c) /\ SizeOf(n, c) = f[n]
<1>1. PICK G : G = [x \in (0 .. n - 1) \X Nat |-> x[2] * c[x[1]]]
  OBVIOUS
<1>2. /\ G \in [(0 .. n - 1) \X Nat -> Nat]
      /\ \A i \in 0 .. n - 1, v \in Nat : G[<< i, v >>] = v * c[i]
  <2>1. ASSUME NEW x \in (0 .. n - 1) \X Nat
        PROVE  x[2] * c[x[1]] \in Nat
    <3>1. x[1] \in 0 .. n - 1 /\ x[2] \in Nat
      OBVIOUS
    <3>2. PICK p \in Nat, q \in Nat : p = x[2] /\ q = c[x[1]]
      BY <3>1
    <3>3. p * q \in Nat
      OBVIOUS
    <3> QED
      BY <3>2, <3>3
  <2>2. ASSUME NEW i \in 0 .. n - 1, NEW v \in Nat
        PROVE  G[<< i, v >>] = v * c[i]
    <3>1. << i, v >> \in (0 .. n - 1) \X Nat
      OBVIOUS
    <3> QED
      BY <1>1, <3>1
  <2> QED
    BY <1>1, <2>1, <2>2
<1>3. PICK f \in [0 .. n -> Nat] : Ascends(f, n, 1, G)
  BY <1>2, StepsUp
<1>4. IsSize(f, n, c)
  <2>1. ASSUME NEW i \in 0 .. n - 1 PROVE f[i + 1] = f[i] * c[i]
    <3>1. f[i] \in Nat
      OBVIOUS
    <3> QED
      BY <1>2, <1>3, <3>1 DEF Ascends
  <2> QED
    BY <1>3, <2>1 DEF IsSize, Ascends
<1>5. SolvesSize(f, n, c)
  <2>1. ASSUME NEW i \in 0 .. n, i # 0 PROVE f[i] = f[i - 1] * c[i - 1]
    <3>1. i - 1 \in 0 .. n - 1 /\ (i - 1) + 1 = i
      BY <2>1
    <3> QED
      BY <1>4, <3>1 DEF IsSize
  <2> QED
    BY <1>4, <2>1 DEF IsSize, SolvesSize
<1>6. PICK g : g = CHOOSE h : SolvesSize(h, n, c)
  OBVIOUS
<1>7. SolvesSize(g, n, c)
  BY <1>5, <1>6
<1>8. f[0] = g[0]
  BY <1>4, <1>7 DEF IsSize, SolvesSize
<1>9. ASSUME NEW i \in 0 .. n - 1, f[i] = g[i] PROVE f[i + 1] = g[i + 1]
  <2>1. i + 1 \in 0 .. n /\ i + 1 # 0 /\ (i + 1) - 1 = i
    OBVIOUS
  <2>2. g[i + 1] = g[i] * c[i]
    BY <1>7, <2>1 DEF SolvesSize
  <2> QED
    BY <1>4, <1>9, <2>1, <2>2 DEF IsSize
<1>10. f[n] = g[n]
  BY <1>8, <1>9, SameUp
<1> QED
  BY <1>4, <1>6, <1>10, SizeIs

LEMMA WeightExists ==
  ASSUME NEW n \in Nat, NEW c, \A i \in 0 .. n - 1 : c[i] \in Nat
  PROVE  \E f : IsWeight(f, n, c)
<1>1. PICK G : G = [x \in (0 .. n - 1) \X Nat |-> x[2] * c[x[1]]]
  OBVIOUS
<1>2. /\ G \in [(0 .. n - 1) \X Nat -> Nat]
      /\ \A i \in 0 .. n - 1, v \in Nat : G[<< i, v >>] = v * c[i]
  <2>1. ASSUME NEW x \in (0 .. n - 1) \X Nat
        PROVE  x[2] * c[x[1]] \in Nat
    <3>1. x[1] \in 0 .. n - 1 /\ x[2] \in Nat
      OBVIOUS
    <3>2. PICK p \in Nat, q \in Nat : p = x[2] /\ q = c[x[1]]
      BY <3>1
    <3>3. p * q \in Nat
      OBVIOUS
    <3> QED
      BY <3>2, <3>3
  <2>2. ASSUME NEW i \in 0 .. n - 1, NEW v \in Nat
        PROVE  G[<< i, v >>] = v * c[i]
    <3>1. << i, v >> \in (0 .. n - 1) \X Nat
      OBVIOUS
    <3> QED
      BY <1>1, <3>1
  <2> QED
    BY <1>1, <2>1, <2>2
<1>3. PICK f \in [0 .. n -> Nat] : Descends(f, n, 1, G)
  BY <1>2, StepsDown
<1>4. ASSUME NEW i \in 0 .. n - 1 PROVE f[i] = f[i + 1] * c[i]
  <2>1. f[i + 1] \in Nat
    OBVIOUS
  <2> QED
    BY <1>2, <1>3, <2>1 DEF Descends
<1> QED
  BY <1>3, <1>4 DEF IsWeight, Descends

\* A step in a dimension counts what the number of the dimensions before and
\* itself weighs.
LEMMA StrideWeight ==
  ASSUME NEW c, ndims \in Nat \ {0},
         \A i \in 0 .. ndims - 1 : c[i] \in Nat /\ cells[i] = c[i],
         NEW W, IsWeight(W, ndims, c), NEW dim \in 0 .. ndims - 1
  PROVE  Stride(dim) = W[dim + 1]
<1>1. PICK last \in Nat : last = ndims - 1 /\ last + 1 = ndims
  OBVIOUS
<1>2. PICK f : f = [d \in 0 .. last |-> W[d + 1]]
  OBVIOUS
<1>3. SolvesStride(f, last, cells)
  <2>1. ASSUME NEW d \in 0 .. last, d # last
        PROVE  f[d] = f[d + 1] * cells[d + 1]
    <3>1. d + 1 \in 0 .. last /\ d + 1 \in 0 .. ndims - 1
      BY <1>1, <2>1
    <3>2. W[d + 1] = W[(d + 1) + 1] * c[d + 1]
      BY <3>1 DEF IsWeight
    <3> QED
      BY <1>2, <3>1, <3>2
  <2>2. f[last] = 1
    BY <1>1, <1>2 DEF IsWeight
  <2> QED
    BY <1>2, <2>1, <2>2 DEF SolvesStride
<1>4. PICK g : g = CHOOSE h : SolvesStride(h, last, cells)
  OBVIOUS
<1>5. SolvesStride(g, last, cells)
  BY <1>3, <1>4
<1>6. f[last] = g[last]
  BY <1>3, <1>5 DEF SolvesStride
<1>7. ASSUME NEW d \in 0 .. last - 1, f[d + 1] = g[d + 1] PROVE f[d] = g[d]
  <2>1. d \in 0 .. last /\ d # last
    BY <1>1
  <2>2. f[d] = f[d + 1] * cells[d + 1] /\ g[d] = g[d + 1] * cells[d + 1]
    BY <1>3, <1>5, <2>1 DEF SolvesStride
  <2> QED
    BY <1>7, <2>2
<1>8. f[dim] = g[dim]
  <2>1. \A d \in 0 .. last : f[d] = g[d]
    BY <1>6, <1>7, SameDown
  <2> QED
    BY <1>1, <2>1
<1>9. f[dim] = W[dim + 1]
  BY <1>1, <1>2
<1> QED
  BY <1>1, <1>4, <1>8, <1>9, StrideIs

-----------------------------------------------------------------------------
(***************************************************************************)
(* What an offset comes to, dimension by dimension                         *)
(***************************************************************************)

IsShape(n, c) == n \in Nat \ {0} /\ \A i \in 0 .. n - 1 : c[i] \in Nat \ {0}

AllNatural(n, o) == \A i \in 0 .. n - 1 : o[i] \in Nat

AgreeBelow(n, a, b) == \A i \in 0 .. n - 1 : a[i] = b[i]

\* What the offsets in the first dimensions count, in the flat index.
IsValue(V, n, W, o) ==
  /\ V \in [0 .. n -> Nat]
  /\ V[0] = 0
  /\ \A m \in 0 .. n - 1 : V[m + 1] = V[m] + o[m] * W[m + 1]

LEMMA WeightOf ==
  ASSUME NEW n, NEW c, IsShape(n, c)
  PROVE  \E W : IsWeight(W, n, c)
BY WeightExists DEF IsShape

LEMMA Distribute ==
  ASSUME NEW p \in Nat, NEW b \in Nat, NEW x \in Nat, NEW w \in Nat
  PROVE  (p * b + x) * w = p * (w * b) + x * w
OBVIOUS

LEMMA IndexValue ==
  ASSUME NEW n, NEW c, NEW o, NEW W, NEW f, IsShape(n, c),
         IsWeight(W, n, c), IsIndex(f, n, c, o), AllNatural(n, o)
  PROVE  IsValue([m \in 0 .. n |-> f[m] * W[m]], n, W, o)
<1>1. PICK V : V = [m \in 0 .. n |-> f[m] * W[m]]
  OBVIOUS
<1>2. n \in Nat /\ f \in [0 .. n -> Nat] /\ W \in [0 .. n -> Nat]
  BY DEF IsShape, IsIndex, IsWeight
<1>3. V \in [0 .. n -> Nat] /\ \A m \in 0 .. n : V[m] = f[m] * W[m]
  BY <1>1, <1>2
<1>4. V[0] = 0
  <2>1. 0 \in 0 .. n /\ W[0] \in Nat /\ f[0] = 0
    BY <1>2 DEF IsIndex
  <2> QED
    BY <1>3, <2>1
<1>5. ASSUME NEW m \in 0 .. n - 1 PROVE V[m + 1] = V[m] + o[m] * W[m + 1]
  <2>1. m \in 0 .. n /\ m + 1 \in 0 .. n
    BY <1>2
  <2>2. PICK p \in Nat, b \in Nat, x \in Nat, w \in Nat :
          p = f[m] /\ b = c[m] /\ x = o[m] /\ w = W[m + 1]
    BY <1>2, <2>1 DEF IsShape, AllNatural
  <2>3. f[m + 1] = p * b + x /\ W[m] = w * b
    BY <2>2 DEF IsIndex, IsWeight
  <2>4. (p * b + x) * w = p * (w * b) + x * w
    BY Distribute
  <2> QED
    BY <1>3, <2>1, <2>2, <2>3, <2>4
<1> QED
  BY <1>1, <1>3, <1>4, <1>5 DEF IsValue

LEMMA ValueExists ==
  ASSUME NEW n, NEW c, NEW o, NEW W, IsShape(n, c), IsWeight(W, n, c),
         AllNatural(n, o)
  PROVE  \E V : IsValue(V, n, W, o)
<1>1. PICK f : IsIndex(f, n, c, o)
  BY IndexExists DEF IsShape, AllNatural
<1> QED
  BY <1>1, IndexValue

\* The flat index is what the offsets in all dimensions count.
LEMMA ValueOf ==
  ASSUME NEW n, NEW c, NEW o, NEW W, NEW V, IsShape(n, c),
         IsWeight(W, n, c), AllNatural(n, o), IsValue(V, n, W, o),
         NEW cc, NEW oo, AgreeBelow(n, cc, c), AgreeBelow(n, oo, o)
  PROVE  HornerOf(n, cc, oo) = V[n]
<1>0. n \in Nat /\ n \in 0 .. n
  BY DEF IsShape
<1>1. PICK f : IsIndex(f, n, cc, oo) /\ HornerOf(n, cc, oo) = f[n]
  <2>1. \A i \in 0 .. n - 1 : cc[i] \in Nat /\ oo[i] \in Nat
    BY DEF IsShape, AllNatural, AgreeBelow
  <2> QED
    BY <1>0, <2>1, IndexExists
<1>2. IsIndex(f, n, c, o)
  BY <1>1 DEF IsIndex, AgreeBelow
<1>3. PICK U : U = [m \in 0 .. n |-> f[m] * W[m]]
  OBVIOUS
<1>4. IsValue(U, n, W, o)
  BY <1>2, <1>3, IndexValue
<1>5. U[n] = V[n]
  <2>1. U[0] = V[0]
    BY <1>4 DEF IsValue
  <2>2. ASSUME NEW i \in 0 .. n - 1, U[i] = V[i] PROVE U[i + 1] = V[i + 1]
    BY <1>4, <2>2 DEF IsValue
  <2> QED
    BY <1>0, <2>1, <2>2, SameUp
<1>6. f[n] \in Nat /\ W[n] = 1
  BY <1>0, <1>2 DEF IsIndex, IsWeight
<1>7. U[n] = f[n]
  BY <1>0, <1>3, <1>6
<1> QED
  BY <1>1, <1>5, <1>7

LEMMA Reassociate ==
  ASSUME NEW s \in Nat, NEW b \in Nat, NEW w \in Nat
  PROVE  (s * b) * w = s * (w * b)
OBVIOUS

\* The number of flat indices is the weight of all dimensions.
LEMMA SizeWeight ==
  ASSUME NEW n, NEW c, NEW W, IsShape(n, c), IsWeight(W, n, c),
         NEW cc, AgreeBelow(n, cc, c)
  PROVE  SizeOf(n, cc) = W[0]
<1>0. n \in Nat /\ n \in 0 .. n /\ 0 \in 0 .. n
  BY DEF IsShape
<1>1. PICK f : IsSize(f, n, cc) /\ SizeOf(n, cc) = f[n]
  <2>1. \A i \in 0 .. n - 1 : cc[i] \in Nat
    BY DEF IsShape, AgreeBelow
  <2> QED
    BY <1>0, <2>1, SizeExists
<1>2. f \in [0 .. n -> Nat] /\ W \in [0 .. n -> Nat]
  BY <1>1 DEF IsSize, IsWeight
<1>3. PICK U : U = [m \in 0 .. n |-> f[m] * W[m]]
  OBVIOUS
<1>4. PICK T : T = [m \in 0 .. n |-> W[0]]
  OBVIOUS
<1>5. U[0] = T[0]
  <2>1. f[0] = 1 /\ W[0] \in Nat
    BY <1>0, <1>1, <1>2 DEF IsSize
  <2> QED
    BY <1>0, <1>3, <1>4, <2>1
<1>6. ASSUME NEW i \in 0 .. n - 1, U[i] = T[i] PROVE U[i + 1] = T[i + 1]
  <2>1. i \in 0 .. n /\ i + 1 \in 0 .. n
    BY <1>0
  <2>2. PICK s \in Nat, b \in Nat, w \in Nat :
          s = f[i] /\ b = c[i] /\ w = W[i + 1]
    BY <1>2, <2>1 DEF IsShape
  <2>3. f[i + 1] = s * b /\ W[i] = w * b
    BY <1>1, <2>2 DEF IsSize, IsWeight, AgreeBelow
  <2>4. (s * b) * w = s * (w * b)
    BY Reassociate
  <2>5. U[i + 1] = U[i]
    BY <1>3, <2>1, <2>2, <2>3, <2>4
  <2> QED
    BY <1>4, <1>6, <2>1, <2>5
<1>7. U[n] = T[n]
  BY <1>0, <1>5, <1>6, SameUp
<1>8. f[n] \in Nat /\ W[n] = 1
  BY <1>0, <1>2 DEF IsWeight
<1> QED
  BY <1>0, <1>1, <1>3, <1>4, <1>7, <1>8

\* The offset in dimension d is at most its last; only that in the last
\* dimension may lie behind it.
Highest(n, c, d) == IF d = n - 1 THEN c[d] ELSE c[d] - 1

IsOffset(n, c, o) == \A d \in 0 .. n - 1 : o[d] \in 0 .. Highest(n, c, d)

LEMMA OffsetNatural ==
  ASSUME NEW n, NEW c, NEW o, IsShape(n, c), IsOffset(n, c, o)
  PROVE  AllNatural(n, o)
BY DEF IsShape, IsOffset, AllNatural, Highest

LEMMA Positive ==
  ASSUME NEW a \in Nat, NEW b \in Nat \ {0}, a # 0
  PROVE  a * b # 0
OBVIOUS

LEMMA WeightPositive ==
  ASSUME NEW n, NEW c, NEW W, IsShape(n, c), IsWeight(W, n, c)
  PROVE  \A m \in 0 .. n : W[m] \in Nat \ {0}
<1>0. n \in Nat /\ W \in [0 .. n -> Nat]
  BY DEF IsShape, IsWeight
<1> DEFINE P == {m \in 0 .. n : W[m] # 0}
<1>1. n \in P
  BY <1>0 DEF IsWeight
<1>2. ASSUME NEW i \in 0 .. n - 1, i + 1 \in P PROVE i \in P
  <2>1. i \in 0 .. n /\ i + 1 \in 0 .. n
    BY <1>0
  <2>2. PICK a \in Nat, b \in Nat \ {0} : a = W[i + 1] /\ b = c[i]
    BY <1>0, <2>1 DEF IsShape
  <2>3. a # 0 /\ W[i] = a * b
    BY <1>2, <2>2 DEF IsWeight
  <2> QED
    BY <2>1, <2>2, <2>3, Positive
<1> HIDE DEF P
<1>3. \A i \in 0 .. n : i \in P
  BY <1>0, <1>1, <1>2, DownFrom
<1> QED
  BY <1>0, <1>3 DEF P

\* Behind the offsets in the first m dimensions, whatever the others are.
EndOf(V, W, n, m) == IF m = n THEN V[n] ELSE V[m] + W[m]

LEMMA FullTimes ==
  ASSUME NEW b \in Nat, NEW x \in 0 .. b, NEW w \in Nat \ {0}
  PROVE  x * w <= w * b /\ (x * w = w * b <=> x = b)
<1>1. PICK y \in Nat : b = x + y
  <2>1. b - x \in Nat /\ b = x + (b - x)
    OBVIOUS
  <2> QED
    BY <2>1
<1>2. w * b = x * w + y * w
  BY <1>1
<1>3. y * w \in Nat /\ x * w \in Nat /\ (y # 0 => y * w # 0)
  BY <1>1, Positive
<1>4. y = 0 => y * w = 0
  OBVIOUS
<1> QED
  BY <1>1, <1>2, <1>3, <1>4

LEMMA OneMore ==
  ASSUME NEW x \in Nat, NEW w \in Nat
  PROVE  (x + 1) * w = x * w + w
OBVIOUS

LEMMA EndStep ==
  ASSUME NEW n, NEW c, NEW o, NEW W, NEW V, IsShape(n, c),
         IsWeight(W, n, c), IsOffset(n, c, o), IsValue(V, n, W, o),
         NEW m \in 0 .. n - 1
  PROVE  /\ EndOf(V, W, n, m) \in Nat /\ EndOf(V, W, n, m + 1) \in Nat
         /\ EndOf(V, W, n, m + 1) <= EndOf(V, W, n, m)
         /\ EndOf(V, W, n, m + 1) = EndOf(V, W, n, m)
              <=> o[m] = Highest(n, c, m)
<1>0. n \in Nat /\ m \in 0 .. n /\ m + 1 \in 0 .. n /\ m # n
  BY DEF IsShape
<1>1. PICK b \in Nat \ {0}, w \in Nat \ {0}, v \in Nat :
        b = c[m] /\ w = W[m + 1] /\ v = V[m]
  BY <1>0, WeightPositive DEF IsShape, IsValue
<1>2. W[m] = w * b /\ V[m + 1] = v + o[m] * w
  BY <1>1 DEF IsWeight, IsValue
<1>3. EndOf(V, W, n, m) = v + w * b
  BY <1>0, <1>1, <1>2 DEF EndOf
<1>4. w * b \in Nat
  BY <1>1
<1>5. CASE m = n - 1
  <2>1. PICK x \in 0 .. b : x = o[m]
    BY <1>1, <1>5 DEF IsOffset, Highest
  <2>2. m + 1 = n /\ EndOf(V, W, n, m + 1) = v + x * w
    <3>1. m + 1 = n
      BY <1>0, <1>5
    <3>2. EndOf(V, W, n, n) = V[n]
      BY DEF EndOf
    <3>3. V[m + 1] = v + x * w
      BY <1>2, <2>1
    <3> QED
      BY <3>1, <3>2, <3>3
  <2>3. x * w <= w * b /\ (x * w = w * b <=> x = b) /\ x * w \in Nat
    <3>1. x * w <= w * b /\ (x * w = w * b <=> x = b)
      BY FullTimes
    <3>2. x \in Nat /\ w \in Nat
      OBVIOUS
    <3>3. x * w \in Nat
      BY <3>2
    <3> QED
      BY <3>1, <3>3
  <2>4. Highest(n, c, m) = b
    BY <1>1, <1>5 DEF Highest
  <2>5. v + x * w \in Nat /\ v + w * b \in Nat
    BY <1>1, <1>4, <2>3
  <2>6. v + x * w <= v + w * b /\ (v + x * w = v + w * b <=> x * w = w * b)
    BY <1>1, <1>4, <2>3
  <2> QED
    BY <1>3, <2>1, <2>2, <2>3, <2>4, <2>5, <2>6
<1>6. CASE m # n - 1
  <2>1. PICK x \in Nat : x = o[m] /\ x + 1 \in 0 .. b
    <3>1. o[m] \in 0 .. b - 1
      BY <1>1, <1>6 DEF IsOffset, Highest
    <3> QED
      BY <1>1, <3>1
  <2>2. m + 1 # n /\ EndOf(V, W, n, m + 1) = (v + x * w) + w
    BY <1>0, <1>1, <1>2, <1>6, <2>1 DEF EndOf
  <2>3. /\ (x + 1) * w <= w * b /\ ((x + 1) * w = w * b <=> x + 1 = b)
        /\ (x + 1) * w \in Nat /\ x * w \in Nat
    BY <1>1, <2>1, FullTimes
  <2>4. (x + 1) * w = x * w + w
    BY <1>1, <2>1, OneMore
  <2>5. Highest(n, c, m) = b - 1
    BY <1>1, <1>6 DEF Highest
  <2>6. (v + x * w) + w = v + (x + 1) * w
    BY <1>1, <2>3, <2>4
  <2>7. v + (x + 1) * w \in Nat /\ v + w * b \in Nat
    BY <1>1, <1>4, <2>3
  <2>8. /\ v + (x + 1) * w <= v + w * b
        /\ v + (x + 1) * w = v + w * b <=> (x + 1) * w = w * b
    BY <1>1, <1>4, <2>3
  <2>9. x + 1 = b <=> x = b - 1
    BY <1>1, <2>1
  <2>10. /\ EndOf(V, W, n, m + 1) = v + (x + 1) * w
         /\ EndOf(V, W, n, m) = v + w * b
         /\ o[m] = x /\ Highest(n, c, m) = b - 1
    BY <1>3, <2>1, <2>2, <2>5, <2>6
  <2> QED
    BY <2>3, <2>7, <2>8, <2>9, <2>10
<1> QED
  BY <1>5, <1>6

\* An offset lies between the start and the end.
LEMMA Between ==
  ASSUME NEW n, NEW c, NEW o, NEW W, NEW V, IsShape(n, c),
         IsWeight(W, n, c), IsOffset(n, c, o), IsValue(V, n, W, o)
  PROVE  \A m \in 0 .. n : /\ EndOf(V, W, n, m) \in Nat
                           /\ V[n] <= EndOf(V, W, n, m)
                           /\ EndOf(V, W, n, m) <= W[0]
<1>0. n \in Nat /\ n # 0 /\ 0 \in 0 .. n /\ n \in 0 .. n
  BY DEF IsShape
<1>1. ASSUME NEW m \in 0 .. n PROVE EndOf(V, W, n, m) \in Nat
  <2>1. W[m] \in Nat /\ V[m] \in Nat /\ V[n] \in Nat
    BY <1>0, WeightPositive DEF IsValue
  <2> QED
    BY <2>1 DEF EndOf
<1>2. \A m \in 0 .. n : V[n] <= EndOf(V, W, n, m)
  <2> DEFINE P == {m \in 0 .. n : V[n] <= EndOf(V, W, n, m)}
  <2>1. n \in P
    BY <1>0, <1>1 DEF EndOf
  <2>2. ASSUME NEW i \in 0 .. n - 1, i + 1 \in P PROVE i \in P
    <3>1. /\ EndOf(V, W, n, i + 1) <= EndOf(V, W, n, i)
          /\ EndOf(V, W, n, i) \in Nat /\ EndOf(V, W, n, i + 1) \in Nat
      BY EndStep
    <3>2. V[n] <= EndOf(V, W, n, i + 1) /\ V[n] \in Nat
      BY <1>0, <2>2 DEF IsValue
    <3>3. V[n] <= EndOf(V, W, n, i)
      BY <3>1, <3>2
    <3> QED
      BY <1>0, <3>3
  <2> HIDE DEF P
  <2>3. \A i \in 0 .. n : i \in P
    BY <1>0, <2>1, <2>2, DownFrom
  <2> QED
    BY <2>3 DEF P
<1>3. \A m \in 0 .. n : EndOf(V, W, n, m) <= W[0]
  <2> DEFINE P == {m \in 0 .. n : EndOf(V, W, n, m) <= W[0]}
  <2>1. 0 \in P
    <3>1. EndOf(V, W, n, 0) = W[0] /\ W[0] \in Nat
      BY <1>0, WeightPositive DEF EndOf, IsValue
    <3> QED
      BY <1>0, <3>1
  <2>2. ASSUME NEW i \in 0 .. n - 1, i \in P PROVE i + 1 \in P
    <3>1. /\ EndOf(V, W, n, i + 1) <= EndOf(V, W, n, i)
          /\ EndOf(V, W, n, i) \in Nat /\ EndOf(V, W, n, i + 1) \in Nat
      BY EndStep
    <3>2. EndOf(V, W, n, i) <= W[0] /\ W[0] \in Nat
      BY <1>0, <2>2, WeightPositive
    <3>3. EndOf(V, W, n, i + 1) <= W[0]
      BY <3>1, <3>2
    <3> QED
      BY <1>0, <3>3
  <2> HIDE DEF P
  <2>3. \A i \in 0 .. n : i \in P
    BY <1>0, <2>1, <2>2, UpTo
  <2> QED
    BY <2>3 DEF P
<1> QED
  BY <1>1, <1>2, <1>3

LEMMA EndIsLast ==
  ASSUME NEW n, NEW c, NEW o, NEW W, NEW V, IsShape(n, c),
         IsWeight(W, n, c), IsOffset(n, c, o), IsValue(V, n, W, o)
  PROVE  V[n] = W[0] <=> \A d \in 0 .. n - 1 : o[d] = Highest(n, c, d)
<1>0. n \in Nat /\ n # 0 /\ 0 \in 0 .. n /\ n \in 0 .. n
  BY DEF IsShape
<1>1. EndOf(V, W, n, 0) = W[0] /\ EndOf(V, W, n, n) = V[n]
  BY <1>0, WeightPositive DEF EndOf, IsValue
<1>2. ASSUME V[n] = W[0], NEW d \in 0 .. n - 1 PROVE o[d] = Highest(n, c, d)
  <2>1. d \in 0 .. n /\ d + 1 \in 0 .. n
    BY <1>0
  <2>2. /\ EndOf(V, W, n, d) \in Nat /\ EndOf(V, W, n, d + 1) \in Nat
        /\ V[n] <= EndOf(V, W, n, d) /\ EndOf(V, W, n, d) <= W[0]
        /\ V[n] <= EndOf(V, W, n, d + 1) /\ EndOf(V, W, n, d + 1) <= W[0]
    BY <2>1, Between
  <2>3. W[0] \in Nat
    BY <1>0, WeightPositive
  <2>4. EndOf(V, W, n, d + 1) = EndOf(V, W, n, d)
    BY <1>2, <2>2, <2>3
  <2> QED
    BY <2>4, EndStep
<1>3. ASSUME \A d \in 0 .. n - 1 : o[d] = Highest(n, c, d) PROVE V[n] = W[0]
  <2> DEFINE P == {m \in 0 .. n : EndOf(V, W, n, m) = W[0]}
  <2>1. 0 \in P
    BY <1>0, <1>1
  <2>2. ASSUME NEW i \in 0 .. n - 1, i \in P PROVE i + 1 \in P
    <3>1. EndOf(V, W, n, i + 1) = EndOf(V, W, n, i)
      BY <1>3, EndStep
    <3> QED
      BY <1>0, <2>2, <3>1
  <2> HIDE DEF P
  <2>3. \A i \in 0 .. n : i \in P
    BY <1>0, <2>1, <2>2, UpTo
  <2> QED
    BY <1>0, <1>1, <2>3 DEF P
<1> QED
  BY <1>2, <1>3

LEMMA ValueGrows ==
  ASSUME NEW n, NEW c, NEW o, NEW W, NEW V, IsShape(n, c),
         IsWeight(W, n, c), AllNatural(n, o), IsValue(V, n, W, o),
         NEW m \in 0 .. n - 1
  PROVE  /\ V[m] \in Nat /\ V[m + 1] \in Nat /\ V[m] <= V[m + 1]
         /\ V[m + 1] = V[m] <=> o[m] = 0
<1>0. n \in Nat /\ m \in 0 .. n /\ m + 1 \in 0 .. n
  BY DEF IsShape
<1>1. PICK x \in Nat, w \in Nat \ {0}, v \in Nat :
        x = o[m] /\ w = W[m + 1] /\ v = V[m]
  BY <1>0, WeightPositive DEF AllNatural, IsValue
<1>2. V[m + 1] = v + x * w
  BY <1>1 DEF IsValue
<1>3. x * w \in Nat /\ (x # 0 => x * w # 0)
  BY <1>1, Positive
<1>4. x = 0 => x * w = 0
  BY <1>1
<1>5. v + x * w \in Nat /\ v <= v + x * w /\ (v + x * w = v <=> x * w = 0)
  BY <1>1, <1>3
<1> QED
  BY <1>1, <1>2, <1>3, <1>4, <1>5

LEMMA ValueBelow ==
  ASSUME NEW n, NEW c, NEW o, NEW W, NEW V, IsShape(n, c),
         IsWeight(W, n, c), AllNatural(n, o), IsValue(V, n, W, o)
  PROVE  \A m \in 0 .. n : V[m] <= V[n]
<1>0. n \in Nat /\ n \in 0 .. n /\ V \in [0 .. n -> Nat]
  BY DEF IsShape, IsValue
<1> DEFINE P == {m \in 0 .. n : V[m] <= V[n]}
<1>1. n \in P
  BY <1>0
<1>2. ASSUME NEW i \in 0 .. n - 1, i + 1 \in P PROVE i \in P
  <2>1. V[i] \in Nat /\ V[i + 1] \in Nat /\ V[i] <= V[i + 1]
    BY ValueGrows
  <2>2. V[i + 1] <= V[n] /\ V[n] \in Nat
    BY <1>0, <1>2
  <2>3. V[i] <= V[n]
    BY <2>1, <2>2
  <2> QED
    BY <1>0, <2>3
<1> HIDE DEF P
<1>3. \A i \in 0 .. n : i \in P
  BY <1>0, <1>1, <1>2, DownFrom
<1> QED
  BY <1>3 DEF P

LEMMA StartIsZero ==
  ASSUME NEW n, NEW c, NEW o, NEW W, NEW V, IsShape(n, c),
         IsWeight(W, n, c), AllNatural(n, o), IsValue(V, n, W, o)
  PROVE  V[n] = 0 <=> \A d \in 0 .. n - 1 : o[d] = 0
<1>0. n \in Nat /\ n \in 0 .. n /\ 0 \in 0 .. n /\ V \in [0 .. n -> Nat]
  BY DEF IsShape, IsValue
<1>1. ASSUME V[n] = 0, NEW d \in 0 .. n - 1 PROVE o[d] = 0
  <2>1. d \in 0 .. n /\ d + 1 \in 0 .. n
    BY <1>0
  <2>2. V[d] <= V[n] /\ V[d + 1] <= V[n] /\ V[d] \in Nat /\ V[d + 1] \in Nat
    BY <1>0, <2>1, ValueBelow
  <2>3. V[d] = V[d + 1]
    BY <1>1, <2>2
  <2> QED
    BY <2>3, ValueGrows
<1>2. ASSUME \A d \in 0 .. n - 1 : o[d] = 0 PROVE V[n] = 0
  <2> DEFINE P == {m \in 0 .. n : V[m] = 0}
  <2>1. 0 \in P
    BY <1>0 DEF IsValue
  <2>2. ASSUME NEW i \in 0 .. n - 1, i \in P PROVE i + 1 \in P
    <3>1. V[i + 1] = V[i]
      BY <1>2, ValueGrows
    <3> QED
      BY <1>0, <2>2, <3>1
  <2> HIDE DEF P
  <2>3. \A i \in 0 .. n : i \in P
    BY <1>0, <2>1, <2>2, UpTo
  <2> QED
    BY <1>0, <2>3 DEF P
<1> QED
  BY <1>1, <1>2

-----------------------------------------------------------------------------
(***************************************************************************)
(* Moving                                                                  *)
(***************************************************************************)

\* p is o and k[dim] more in dimension dim, where k[d] is what is carried to
\* dimension d from the next one.
IsCarried(n, c, o, p, dim, k) ==
  /\ k \in [0 .. dim -> Nat]
  /\ p[0] = o[0] + k[0]
  /\ \A d \in 0 .. dim - 1 : k[d] * c[d + 1] + p[d + 1] = o[d + 1] + k[d + 1]
  /\ \A d \in dim + 1 .. n - 1 : p[d] = o[d]

LEMMA ProductNatural ==
  ASSUME NEW a \in Nat, NEW b \in Nat
  PROVE  a * b \in Nat
OBVIOUS

LEMMA CarryStep ==
  ASSUME NEW v \in Nat, NEW w \in Nat, NEW b \in Nat, NEW j \in Nat,
         NEW l \in Nat, NEW x \in Nat, NEW y \in Nat, j * b + y = x + l
  PROVE  (v + j * (w * b)) + y * w = (v + x * w) + l * w
<1>1. (j * b + y) * w = j * (w * b) + y * w
  BY Distribute
<1>2. (x + l) * w = x * w + l * w
  OBVIOUS
<1>3. j * (w * b) \in Nat /\ y * w \in Nat /\ x * w \in Nat /\ l * w \in Nat
  OBVIOUS
<1>4. j * (w * b) + y * w = x * w + l * w
  BY <1>1, <1>2
<1> QED
  BY <1>3, <1>4

LEMMA CarryAdds ==
  ASSUME NEW n, NEW c, NEW o, NEW p, NEW W, NEW V, NEW U, NEW k,
         IsShape(n, c), IsWeight(W, n, c), AllNatural(n, o), AllNatural(n, p),
         IsValue(V, n, W, o), IsValue(U, n, W, p),
         NEW dim \in 0 .. n - 1, IsCarried(n, c, o, p, dim, k)
  PROVE  U[n] = V[n] + k[dim] * W[dim + 1]
<1>0. n \in Nat /\ dim \in Nat /\ dim + 1 \in 0 .. n /\ n \in 0 .. n
  BY DEF IsShape
<1>t. /\ V \in [0 .. n -> Nat] /\ U \in [0 .. n -> Nat] /\ k \in [0 .. dim -> Nat]
      /\ \A m \in 0 .. n : W[m] \in Nat \ {0}
  BY WeightPositive DEF IsValue, IsCarried
<1>1. U[dim + 1] = V[dim + 1] + k[dim] * W[dim + 1]
  <2> DEFINE P == {d \in 0 .. dim : U[d + 1] = V[d + 1] + k[d] * W[d + 1]}
  <2>1. 0 \in P
    <3>1. 0 \in 0 .. n - 1 /\ 0 \in 0 .. dim /\ 1 \in 0 .. n
      BY <1>0
    <3>2. PICK x \in Nat, y \in Nat, w \in Nat :
            x = o[0] /\ y = k[0] /\ w = W[1]
      BY <1>t, <3>1 DEF AllNatural
    <3>3. V[0 + 1] = x * w /\ U[0 + 1] = (x + y) * w
      <4>1. /\ V[0] = 0 /\ U[0] = 0 /\ V[0 + 1] = V[0] + o[0] * W[0 + 1]
            /\ U[0 + 1] = U[0] + p[0] * W[0 + 1] /\ p[0] = o[0] + k[0]
        BY <3>1 DEF IsValue, IsCarried
      <4>2. x * w \in Nat /\ (x + y) * w \in Nat
        BY <3>2
      <4> QED
        BY <3>2, <4>1, <4>2
    <3>4. (x + y) * w = x * w + y * w
      BY <3>2
    <3> QED
      BY <3>1, <3>2, <3>3, <3>4
  <2>2. ASSUME NEW i \in 0 .. dim - 1, i \in P PROVE i + 1 \in P
    <3>1. /\ i \in 0 .. dim /\ i + 1 \in 0 .. dim /\ i + 1 \in 0 .. n - 1
          /\ i + 1 \in 0 .. n /\ (i + 1) + 1 \in 0 .. n
      BY <1>0
    <3>2. PICK v \in Nat, w \in Nat, b \in Nat, j \in Nat, l \in Nat,
               x \in Nat, y \in Nat :
            /\ v = V[i + 1] /\ w = W[(i + 1) + 1] /\ b = c[i + 1]
            /\ j = k[i] /\ l = k[i + 1] /\ x = o[i + 1] /\ y = p[i + 1]
      BY <1>t, <3>1 DEF IsShape, AllNatural
    <3>3. j * b + y = x + l
      BY <3>2 DEF IsCarried
    <3>4. /\ W[i + 1] = w * b
          /\ V[(i + 1) + 1] = v + x * w
          /\ U[(i + 1) + 1] = U[i + 1] + y * w
      BY <3>1, <3>2 DEF IsWeight, IsValue
    <3>5. U[i + 1] = v + j * (w * b)
      BY <2>2, <3>2, <3>4
    <3>6. (v + j * (w * b)) + y * w = (v + x * w) + l * w
      BY <3>3, CarryStep
    <3> QED
      BY <3>1, <3>2, <3>4, <3>5, <3>6
  <2> HIDE DEF P
  <2>3. \A i \in 0 .. dim : i \in P
    BY <1>0, <2>1, <2>2, UpTo
  <2>4. dim \in 0 .. dim
    BY <1>0
  <2> QED
    BY <2>3, <2>4 DEF P
<1>2. PICK e \in Nat : e = k[dim] * W[dim + 1]
  <2>1. PICK j \in Nat, w \in Nat : j = k[dim] /\ w = W[dim + 1]
    BY <1>0, <1>t
  <2>2. j * w \in Nat
    BY <2>1
  <2> QED
    BY <2>1, <2>2
<1> DEFINE P == {m \in 0 .. n : m > dim => U[m] = V[m] + e}
<1>3. 0 \in P
  BY <1>0
<1>4. ASSUME NEW i \in 0 .. n - 1, i \in P PROVE i + 1 \in P
  <2>1. i + 1 \in 0 .. n
    BY <1>0
  <2>2. CASE i < dim
    BY <1>0, <2>1, <2>2
  <2>3. CASE i = dim
    BY <1>1, <1>2, <2>1, <2>3
  <2>4. CASE i > dim
    <3>1. i \in 0 .. n /\ i \in dim + 1 .. n - 1
      BY <1>0, <2>4
    <3>2. PICK x \in Nat, w \in Nat : x = o[i] /\ w = W[i + 1]
      BY <1>t, <2>1 DEF AllNatural
    <3>3. p[i] = x
      BY <3>1, <3>2 DEF IsCarried
    <3>4. V[i + 1] = V[i] + x * w /\ U[i + 1] = U[i] + x * w
      BY <3>2, <3>3 DEF IsValue
    <3>5. U[i] = V[i] + e
      BY <1>4, <2>4
    <3>6. x * w \in Nat
      BY ProductNatural
    <3>7. V[i] \in Nat
      BY <1>t, <3>1
    <3> QED
      BY <2>1, <3>4, <3>5, <3>6, <3>7
  <2> QED
    BY <1>0, <2>2, <2>3, <2>4
<1> HIDE DEF P
<1>5. \A i \in 0 .. n : i \in P
  BY <1>0, <1>3, <1>4, UpTo
<1> QED
  <2>1. n > dim
    BY <1>0
  <2> QED
    BY <1>0, <1>2, <1>5, <2>1 DEF P

LEMMA ScaledUp ==
  ASSUME NEW v \in Nat, NEW w \in Nat, NEW b \in Nat, NEW j \in Nat,
         NEW l \in Nat, NEW x \in Nat, j * b <= x + l
  PROVE  v + j * (w * b) <= (v + x * w) + l * w
<1>1. PICK y \in Nat : j * b + y = x + l
  <2>1. (x + l) - j * b \in Nat
    OBVIOUS
  <2> QED
    BY <2>1
<1>2. (v + j * (w * b)) + y * w = (v + x * w) + l * w
  BY <1>1, CarryStep
<1>3. y * w \in Nat /\ j * (w * b) \in Nat /\ x * w \in Nat /\ l * w \in Nat
  OBVIOUS
<1> QED
  BY <1>2, <1>3

\* A carry out of the first dimension reaches the end.
LEMMA CarryLeaves ==
  ASSUME NEW n, NEW c, NEW o, NEW W, NEW V, NEW k,
         IsShape(n, c), IsWeight(W, n, c), AllNatural(n, o),
         IsValue(V, n, W, o), NEW dim \in 0 .. n - 1,
         k \in [0 .. dim -> Nat], c[0] <= o[0] + k[0],
         \A d \in 0 .. dim - 1 : k[d] * c[d + 1] <= o[d + 1] + k[d + 1]
  PROVE  W[0] <= V[n] + k[dim] * W[dim + 1]
<1>0. n \in Nat /\ dim \in Nat /\ dim + 1 \in 0 .. n /\ n \in 0 .. n
      /\ 0 \in 0 .. n - 1 /\ 0 \in 0 .. dim /\ 0 \in 0 .. n /\ 1 \in 0 .. n
  BY DEF IsShape
<1>t. /\ V \in [0 .. n -> Nat] /\ \A m \in 0 .. n : W[m] \in Nat \ {0}
  BY WeightPositive DEF IsValue
<1> DEFINE P == {d \in 0 .. dim : W[0] <= V[d + 1] + k[d] * W[d + 1]}
<1>1. 0 \in P
  <2>1. PICK x \in Nat, y \in Nat, w \in Nat, b \in Nat :
          x = o[0] /\ y = k[0] /\ w = W[1] /\ b = c[0]
    BY <1>0, <1>t DEF AllNatural, IsShape
  <2>2. W[0] = w * b /\ V[0 + 1] = x * w
    <3>1. /\ V[0] = 0 /\ V[0 + 1] = V[0] + o[0] * W[0 + 1]
          /\ W[0] = W[0 + 1] * c[0]
      BY <1>0 DEF IsValue, IsWeight
    <3>2. x * w \in Nat
      BY <2>1
    <3> QED
      BY <2>1, <3>1, <3>2
  <2>3. 0 + 1 * (w * b) <= (0 + x * w) + y * w
    <3>1. 1 * b <= x + y
      BY <2>1
    <3> QED
      BY <2>1, <3>1, ScaledUp
  <2>4. w * b \in Nat /\ x * w \in Nat /\ y * w \in Nat
    BY <2>1, ProductNatural
  <2>5. w * b <= x * w + y * w
    BY <2>3, <2>4
  <2> QED
    BY <1>0, <2>1, <2>2, <2>5
<1>2. ASSUME NEW i \in 0 .. dim - 1, i \in P PROVE i + 1 \in P
  <2>1. /\ i \in 0 .. dim /\ i + 1 \in 0 .. dim /\ i + 1 \in 0 .. n - 1
        /\ i + 1 \in 0 .. n /\ (i + 1) + 1 \in 0 .. n
    BY <1>0
  <2>2. PICK v \in Nat, w \in Nat, b \in Nat, j \in Nat, l \in Nat, x \in Nat :
          /\ v = V[i + 1] /\ w = W[(i + 1) + 1] /\ b = c[i + 1]
          /\ j = k[i] /\ l = k[i + 1] /\ x = o[i + 1]
    BY <1>t, <2>1 DEF IsShape, AllNatural
  <2>3. W[i + 1] = w * b /\ V[(i + 1) + 1] = v + x * w
    BY <2>1, <2>2 DEF IsWeight, IsValue
  <2>4. W[0] <= v + j * (w * b)
    BY <1>2, <2>2, <2>3
  <2>5. v + j * (w * b) <= (v + x * w) + l * w
    <3>1. j * b <= x + l
      BY <2>2
    <3> QED
      BY <3>1, ScaledUp
  <2>6. /\ W[0] \in Nat /\ v + j * (w * b) \in Nat
        /\ (v + x * w) + l * w \in Nat
    <3>1. w * b \in Nat /\ x * w \in Nat /\ l * w \in Nat
      BY ProductNatural
    <3>2. j * (w * b) \in Nat
      BY <3>1, ProductNatural
    <3>3. W[0] \in Nat
      BY <1>0, <1>t
    <3>4. v + j * (w * b) \in Nat /\ (v + x * w) + l * w \in Nat
      <4>1. PICK q \in Nat, r \in Nat, s \in Nat :
              q = j * (w * b) /\ r = x * w /\ s = l * w
        BY <3>1, <3>2
      <4>2. v + q \in Nat /\ (v + r) + s \in Nat
        OBVIOUS
      <4> QED
        BY <4>1, <4>2
    <3> QED
      BY <3>3, <3>4
  <2>7. W[0] <= (v + x * w) + l * w
    BY <2>4, <2>5, <2>6
  <2> QED
    BY <2>1, <2>2, <2>3, <2>7
<1> HIDE DEF P
<1>3. \A i \in 0 .. dim : i \in P
  BY <1>0, <1>1, <1>2, UpTo
<1>4. W[0] <= V[dim + 1] + k[dim] * W[dim + 1]
  <2>1. dim \in 0 .. dim
    BY <1>0
  <2> QED
    BY <1>3, <2>1 DEF P
<1>5. k[dim] \in Nat /\ W[dim + 1] \in Nat
  <2>1. dim \in 0 .. dim
    BY <1>0
  <2> QED
    BY <1>0, <1>t, <2>1
<1>6. V[dim + 1] <= V[n] /\ V[dim + 1] \in Nat /\ V[n] \in Nat /\ W[0] \in Nat
  BY <1>0, <1>t, ValueBelow
<1>7. PICK a \in Nat, v \in Nat, e \in Nat, s \in Nat :
        a = W[0] /\ v = V[dim + 1] /\ e = V[n] /\ s = k[dim] * W[dim + 1]
  BY <1>5, <1>6, ProductNatural
<1>8. a <= v + s /\ v <= e
  BY <1>4, <1>6, <1>7
<1>9. a <= e + s
  BY <1>8
<1> QED
  BY <1>7, <1>9

LEMMA ScaledDown ==
  ASSUME NEW v \in Nat, NEW w \in Nat \ {0}, NEW b \in Nat, NEW j \in Nat,
         NEW l \in Nat, NEW x \in Nat,
         v <= j * (w * b), j * b + (x + 1) <= l
  PROVE  (v + x * w) + w <= l * w
<1>1. 0 + j * (w * b) <= (0 + 0 * w) + (j * b) * w
  OBVIOUS
<1>2. PICK y \in Nat : j * b + (x + 1) + y = l
  <2>1. l - (j * b + (x + 1)) \in Nat
    OBVIOUS
  <2> QED
    BY <2>1
<1>3. l * w = (j * b) * w + (x * w + w) + y * w
  <2>1. PICK q \in Nat : q = j * b
    OBVIOUS
  <2>2. (q + (x + 1) + y) * w = q * w + (x * w + w) + y * w
    BY <2>1
  <2> QED
    BY <1>2, <2>1, <2>2
<1>4. (j * b) * w = j * (w * b)
  BY Reassociate
<1>5. y * w \in Nat /\ x * w \in Nat /\ j * (w * b) \in Nat
  BY <1>2
<1> QED
  BY <1>3, <1>4, <1>5

LEMMA OneLess ==
  ASSUME NEW v \in Nat, NEW w \in Nat \ {0}, NEW l \in Nat, v + w <= l * w
  PROVE  l # 0 /\ v <= (l - 1) * w
<1>1. l # 0
  OBVIOUS
<1>2. PICK j \in Nat : l = j + 1
  <2>1. l - 1 \in Nat
    BY <1>1
  <2> QED
    BY <2>1
<1>3. (j + 1) * w = j * w + w /\ j * w \in Nat
  BY <1>2
<1>4. v <= j * w
  BY <1>2, <1>3
<1> QED
  BY <1>1, <1>2, <1>4

\* What the first dimension cannot lend reaches the start.
LEMMA BorrowLeaves ==
  ASSUME NEW n, NEW c, NEW o, NEW W, NEW V, NEW k,
         IsShape(n, c), IsWeight(W, n, c), IsOffset(n, c, o),
         IsValue(V, n, W, o), NEW dim \in 0 .. n - 1,
         k \in [0 .. dim -> Nat], o[0] < k[0],
         \A d \in 0 .. dim - 1 :
           k[d] # 0 => (k[d] - 1) * c[d + 1] + (o[d + 1] + 1) <= k[d + 1]
  PROVE  V[n] <= k[dim] * W[dim + 1]
<1>0. n \in Nat /\ dim \in Nat /\ dim + 1 \in 0 .. n /\ n \in 0 .. n
      /\ 0 \in 0 .. n - 1 /\ 0 \in 0 .. dim /\ 0 \in 0 .. n /\ 1 \in 0 .. n
  BY DEF IsShape
<1>t. /\ V \in [0 .. n -> Nat] /\ \A m \in 0 .. n : W[m] \in Nat \ {0}
      /\ AllNatural(n, o)
  BY WeightPositive, OffsetNatural DEF IsValue
<1> DEFINE P == {d \in 0 .. dim : V[d + 1] + W[d + 1] <= k[d] * W[d + 1]}
<1>1. 0 \in P
  <2>1. PICK x \in Nat, y \in Nat, w \in Nat \ {0} :
          x = o[0] /\ y = k[0] /\ w = W[1]
    BY <1>0, <1>t DEF AllNatural
  <2>2. V[0 + 1] = x * w
    <3>1. V[0] = 0 /\ V[0 + 1] = V[0] + o[0] * W[0 + 1]
      BY <1>0 DEF IsValue
    <3>2. x * w \in Nat
      BY <2>1
    <3> QED
      BY <2>1, <3>1, <3>2
  <2>3. (0 + x * w) + w <= y * w
    <3>1. 0 * 0 + (x + 1) <= y /\ 0 <= 0 * (w * 0)
      BY <2>1
    <3> QED
      BY <2>1, <3>1, ScaledDown
  <2>4. x * w \in Nat
    BY <2>1
  <2>5. x * w + w <= y * w
    BY <2>3, <2>4
  <2> QED
    BY <1>0, <2>1, <2>2, <2>5
<1>2. ASSUME NEW i \in 0 .. dim - 1, i \in P PROVE i + 1 \in P
  <2>1. /\ i \in 0 .. dim /\ i + 1 \in 0 .. dim /\ i + 1 \in 0 .. n - 1
        /\ i + 1 \in 0 .. n /\ (i + 1) + 1 \in 0 .. n
    BY <1>0
  <2>2. PICK v \in Nat, w \in Nat \ {0}, b \in Nat, j \in Nat, l \in Nat,
             x \in Nat, u \in Nat \ {0} :
          /\ v = V[i + 1] /\ w = W[(i + 1) + 1] /\ b = c[i + 1]
          /\ j = k[i] /\ l = k[i + 1] /\ x = o[i + 1] /\ u = W[i + 1]
    BY <1>t, <2>1 DEF IsShape, AllNatural
  <2>3. u = w * b /\ V[(i + 1) + 1] = v + x * w
    BY <2>1, <2>2 DEF IsWeight, IsValue
  <2>4. v + u <= j * u
    BY <1>2, <2>2
  <2>5. j # 0 /\ v <= (j - 1) * (w * b)
    BY <2>3, <2>4, OneLess
  <2>6. (j - 1) * b + (x + 1) <= l /\ j - 1 \in Nat
    <3>1. (k[i] - 1) * c[i + 1] + (o[i + 1] + 1) <= k[i + 1]
      BY <2>2, <2>5
    <3>2. (j - 1) * b + (x + 1) <= l
      BY <2>2, <3>1
    <3> QED
      BY <2>5, <3>2
  <2>7. (v + x * w) + w <= l * w
    BY <2>5, <2>6, ScaledDown
  <2> QED
    BY <2>1, <2>2, <2>3, <2>7
<1> HIDE DEF P
<1>3. \A i \in 0 .. dim : i \in P
  BY <1>0, <1>1, <1>2, UpTo
<1>4. V[dim + 1] + W[dim + 1] <= k[dim] * W[dim + 1]
  <2>1. dim \in 0 .. dim
    BY <1>0
  <2> QED
    BY <1>3, <2>1 DEF P
<1>5. PICK j \in Nat, w \in Nat, v \in Nat :
        j = k[dim] /\ w = W[dim + 1] /\ v = V[dim + 1]
  <2>1. dim \in 0 .. dim
    BY <1>0
  <2>2. k[dim] \in Nat /\ W[dim + 1] \in Nat /\ V[dim + 1] \in Nat
    BY <1>0, <1>t, <2>1
  <2> QED
    BY <2>2
<1>6. V[n] \in Nat /\ V[n] <= EndOf(V, W, n, dim + 1)
  BY <1>0, <1>t, Between
<1>7. j * w \in Nat
  BY <1>5
<1>8. CASE dim + 1 = n
  <2>1. v = V[n]
    BY <1>5, <1>8
  <2> QED
    BY <1>4, <1>5, <1>7, <2>1
<1>9. CASE dim + 1 # n
  <2>1. V[n] <= v + w
    BY <1>5, <1>6, <1>9 DEF EndOf
  <2> QED
    BY <1>4, <1>5, <1>6, <1>7, <2>1
<1> QED
  BY <1>8, <1>9

-----------------------------------------------------------------------------
(***************************************************************************)
(* Carries and borrows                                                     *)
(***************************************************************************)

IsCarry(k, dim, step, c, o) ==
  /\ k \in [0 .. dim -> Nat]
  /\ k[dim] = step
  /\ \A d \in 0 .. dim - 1 : k[d] = (o[d + 1] + k[d + 1]) \div c[d + 1]

IsBorrow(k, dim, step, c, o) ==
  /\ k \in [0 .. dim -> Nat]
  /\ k[dim] = step
  /\ \A d \in 0 .. dim - 1 :
       k[d] = IF k[d + 1] <= o[d + 1] THEN 0
              ELSE CeilingDiv(k[d + 1] - o[d + 1], c[d + 1])

\* The offsets once the carries were added, and the borrows subtracted.
IsAdvanced(p, n, c, o, dim, k) ==
  \A d \in 0 .. n - 1 :
    p[d] = IF d > dim THEN o[d] ELSE (o[d] + k[d]) % c[d]

IsReceded(p, n, c, o, dim, k) ==
  \A d \in 0 .. n - 1 :
    p[d] = IF d > dim THEN o[d]
           ELSE o[d] + (IF d = 0 THEN 0 ELSE k[d - 1] * c[d]) - k[d]

LEMMA Quotient ==
  ASSUME NEW a \in Nat, NEW b \in Nat \ {0}
  PROVE  \E q \in Nat, r \in 0 .. b - 1 :
           q = a \div b /\ r = a % b /\ a = q * b + r
<1>1. PICK q \in Nat : q = a \div b
  BY Lemmas!Division
<1>2. PICK r \in 0 .. b - 1 : r = a % b
  BY Lemmas!Division
<1>3. a = q * b + r
  BY <1>1, <1>2, Lemmas!Division
<1> QED
  BY <1>1, <1>2, <1>3

\* What a carry leaves and the carry are what is divided.
CarryExact(k, c, o, d) ==
  \E r : /\ r = (o[d + 1] + k[d + 1]) % c[d + 1]
         /\ k[d] * c[d + 1] + r = o[d + 1] + k[d + 1]

LEMMA CarryDivides ==
  ASSUME NEW n, NEW c, NEW o, NEW dim \in 0 .. n - 1, NEW step, NEW k,
         IsShape(n, c), AllNatural(n, o), IsCarry(k, dim, step, c, o),
         NEW d \in 0 .. dim - 1
  PROVE  /\ CarryExact(k, c, o, d)
         /\ k[d] * c[d + 1] <= o[d + 1] + k[d + 1]
<1>1. d + 1 \in 0 .. n - 1 /\ d + 1 \in 0 .. dim /\ d \in 0 .. dim
  BY DEF IsShape
<1>2. PICK b \in Nat \ {0}, x \in Nat, l \in Nat :
        b = c[d + 1] /\ x = o[d + 1] /\ l = k[d + 1]
  BY <1>1 DEF IsShape, AllNatural, IsCarry
<1>3. PICK a \in Nat : a = x + l
  OBVIOUS
<1>4. PICK q \in Nat, r \in 0 .. b - 1 :
        q = a \div b /\ r = a % b /\ a = q * b + r
  BY Quotient
<1>5. k[d] = q
  BY <1>2, <1>3, <1>4 DEF IsCarry
<1>6. (o[d + 1] + k[d + 1]) % c[d + 1] = r
  BY <1>2, <1>3, <1>4
<1>7. q * b \in Nat
  BY ProductNatural
<1>8. q * b + r = x + l /\ q * b <= x + l
  BY <1>3, <1>4, <1>7
<1>9. k[d] * c[d + 1] + r = o[d + 1] + k[d + 1]
  BY <1>2, <1>5, <1>8
<1>10. k[d] * c[d + 1] <= o[d + 1] + k[d + 1]
  BY <1>2, <1>5, <1>8
<1> QED
  <2>1. CarryExact(k, c, o, d)
    BY <1>6, <1>9, Zenon DEF CarryExact
  <2> QED
    BY <1>10, <2>1

LEMMA RemainderIn ==
  ASSUME NEW a \in Nat, NEW b \in Nat \ {0}
  PROVE  a % b \in 0 .. b - 1
BY Lemmas!Division

LEMMA RemainderSmall ==
  ASSUME NEW a \in Nat, NEW b \in Nat \ {0}, a < b
  PROVE  a % b = a
BY Lemmas!DivisionUnique

LEMMA AdvanceKeeps ==
  ASSUME NEW n, NEW c, NEW o, NEW dim \in 0 .. n - 1, NEW step \in Nat, NEW k,
         NEW p, IsShape(n, c), IsOffset(n, c, o),
         IsCarry(k, dim, step, c, o), IsAdvanced(p, n, c, o, dim, k)
  PROVE  IsOffset(n, c, p)
<1>0. n \in Nat /\ AllNatural(n, o) /\ k \in [0 .. dim -> Nat]
  <2>1. n \in Nat
    BY DEF IsShape
  <2>2. AllNatural(n, o)
    BY OffsetNatural
  <2>3. k \in [0 .. dim -> Nat]
    BY DEF IsCarry
  <2> QED
    BY <2>1, <2>2, <2>3
<1> SUFFICES ASSUME NEW d \in 0 .. n - 1 PROVE p[d] \in 0 .. Highest(n, c, d)
  BY DEF IsOffset
<1>1. CASE d > dim
  BY <1>1 DEF IsAdvanced, IsOffset
<1>2. CASE ~(d > dim)
  <2>1. d \in 0 .. dim
    BY <1>0, <1>2
  <2>2. PICK b \in Nat \ {0}, x \in Nat, l \in Nat :
          b = c[d] /\ x = o[d] /\ l = k[d]
    BY <1>0, <2>1 DEF IsShape, AllNatural
  <2>3. p[d] = (x + l) % b
    BY <1>2, <2>2 DEF IsAdvanced
  <2>4. (x + l) % b \in 0 .. b - 1
    <3>1. x + l \in Nat
      OBVIOUS
    <3> QED
      BY <3>1, RemainderIn
  <2> QED
    BY <2>2, <2>3, <2>4 DEF Highest
<1> QED
  BY <1>1, <1>2

LEMMA AdvanceAdds ==
  ASSUME NEW n, NEW c, NEW o, NEW W, NEW V, NEW dim \in 0 .. n - 1,
         NEW step \in Nat, NEW k, NEW p, NEW U,
         IsShape(n, c), IsWeight(W, n, c), IsOffset(n, c, o),
         IsValue(V, n, W, o), IsValue(U, n, W, p),
         IsCarry(k, dim, step, c, o), IsAdvanced(p, n, c, o, dim, k),
         o[0] + k[0] < c[0]
  PROVE  U[n] = V[n] + step * W[dim + 1]
<1>0. n \in Nat /\ n # 0 /\ dim \in Nat /\ 0 \in 0 .. n - 1 /\ 0 \in 0 .. dim
      /\ AllNatural(n, o) /\ k \in [0 .. dim -> Nat]
  <2>1. n \in Nat \ {0}
    BY DEF IsShape
  <2>2. AllNatural(n, o)
    BY OffsetNatural
  <2>3. k \in [0 .. dim -> Nat]
    BY DEF IsCarry
  <2>4. n \in Nat /\ n # 0 /\ dim \in Nat /\ 0 \in 0 .. n - 1 /\ 0 \in 0 .. dim
    BY <2>1
  <2> QED
    BY <2>2, <2>3, <2>4
<1>1. IsOffset(n, c, p)
  BY AdvanceKeeps
<1>2. p[0] = o[0] + k[0]
  <2>1. PICK b \in Nat \ {0}, x \in Nat, l \in Nat :
          b = c[0] /\ x = o[0] /\ l = k[0]
    BY <1>0 DEF IsShape, AllNatural
  <2>2. x + l < b
    BY <2>1
  <2>3. (x + l) % b = x + l
    BY <2>2, RemainderSmall
  <2>4. ~(0 > dim)
    BY <1>0
  <2>5. p[0] = (o[0] + k[0]) % c[0]
    BY <1>0, <2>4 DEF IsAdvanced
  <2> QED
    BY <2>1, <2>3, <2>5
<1>3. ASSUME NEW d \in 0 .. dim - 1
      PROVE  k[d] * c[d + 1] + p[d + 1] = o[d + 1] + k[d + 1]
  <2>1. d + 1 \in 0 .. n - 1 /\ ~(d + 1 > dim)
    BY <1>0
  <2>2. p[d + 1] = (o[d + 1] + k[d + 1]) % c[d + 1]
    BY <2>1 DEF IsAdvanced
  <2>3. PICK r : /\ r = (o[d + 1] + k[d + 1]) % c[d + 1]
                 /\ k[d] * c[d + 1] + r = o[d + 1] + k[d + 1]
    <3>1. CarryExact(k, c, o, d)
      BY <1>0, CarryDivides
    <3> QED
      BY <3>1, Zenon DEF CarryExact
  <2> QED
    BY <2>2, <2>3, Zenon
<1>4. ASSUME NEW d \in dim + 1 .. n - 1 PROVE p[d] = o[d]
  <2>1. d \in 0 .. n - 1 /\ d > dim
    BY <1>0
  <2> QED
    BY <2>1 DEF IsAdvanced
<1>5. IsCarried(n, c, o, p, dim, k)
  BY <1>0, <1>2, <1>3, <1>4 DEF IsCarried
<1>6. U[n] = V[n] + k[dim] * W[dim + 1]
  BY <1>0, <1>1, <1>5, OffsetNatural, CarryAdds
<1> QED
  BY <1>6 DEF IsCarry

LEMMA AdvanceLeaves ==
  ASSUME NEW n, NEW c, NEW o, NEW W, NEW V, NEW dim \in 0 .. n - 1,
         NEW step \in Nat, NEW k,
         IsShape(n, c), IsWeight(W, n, c), IsOffset(n, c, o),
         IsValue(V, n, W, o), IsCarry(k, dim, step, c, o),
         c[0] <= o[0] + k[0]
  PROVE  W[0] <= V[n] + step * W[dim + 1]
<1>1. AllNatural(n, o) /\ k \in [0 .. dim -> Nat] /\ k[dim] = step
  BY OffsetNatural DEF IsCarry
<1>2. \A d \in 0 .. dim - 1 : k[d] * c[d + 1] <= o[d + 1] + k[d + 1]
  BY <1>1, CarryDivides
<1>3. W[0] <= V[n] + k[dim] * W[dim + 1]
  BY <1>1, <1>2, CarryLeaves
<1> QED
  BY <1>1, <1>3

LEMMA Ceiling ==
  ASSUME NEW a \in Nat \ {0}, NEW b \in Nat \ {0}
  PROVE  /\ CeilingDiv(a, b) \in Nat
         /\ CeilingDiv(a, b) * b - a \in 0 .. b - 1
         /\ (CeilingDiv(a, b) - 1) * b + 1 <= a
<1>1. PICK e \in Nat : e = a + b - 1
  <2>1. a + b - 1 \in Nat
    OBVIOUS
  <2> QED
    BY <2>1
<1>2. PICK q \in Nat : q = e \div b
  BY Lemmas!Division
<1>3. PICK r \in 0 .. b - 1 : r = e % b
  BY Lemmas!Division
<1>4. e = q * b + r
  BY <1>2, <1>3, Lemmas!Division
<1>5. CeilingDiv(a, b) = q
  BY <1>1, <1>2 DEF CeilingDiv
<1>6. PICK s \in Nat : s = q * b
  BY ProductNatural
<1>7. s - a \in 0 .. b - 1
  BY <1>1, <1>3, <1>4, <1>6
<1>8. (q - 1) * b = s - b
  BY <1>6
<1>9. (s - b) + 1 <= a
  BY <1>1, <1>3, <1>4, <1>6
<1> QED
  BY <1>5, <1>6, <1>7, <1>8, <1>9

LEMMA BorrowDivides ==
  ASSUME NEW n, NEW c, NEW o, NEW dim \in 0 .. n - 1, NEW step, NEW k,
         IsShape(n, c), AllNatural(n, o), IsBorrow(k, dim, step, c, o),
         NEW d \in 0 .. dim - 1
  PROVE  /\ o[d + 1] + k[d] * c[d + 1] - k[d + 1] \in Nat
         /\ \/ o[d + 1] + k[d] * c[d + 1] - k[d + 1] <= c[d + 1] - 1
            \/ o[d + 1] + k[d] * c[d + 1] - k[d + 1] <= o[d + 1]
         /\ k[d] # 0 => (k[d] - 1) * c[d + 1] + (o[d + 1] + 1) <= k[d + 1]
<1>1. d + 1 \in 0 .. n - 1 /\ d + 1 \in 0 .. dim /\ d \in 0 .. dim
  BY DEF IsShape
<1>2. PICK b \in Nat \ {0}, x \in Nat, l \in Nat, q \in Nat :
        b = c[d + 1] /\ x = o[d + 1] /\ l = k[d + 1] /\ q = k[d]
  BY <1>1 DEF IsShape, AllNatural, IsBorrow
<1>3. q = IF l <= x THEN 0 ELSE CeilingDiv(l - x, b)
  BY <1>2 DEF IsBorrow
<1>4. CASE l <= x
  <2>1. q = 0 /\ q * b = 0
    BY <1>2, <1>3, <1>4
  <2>2. x + q * b - l \in Nat /\ x + q * b - l <= x
    BY <1>2, <1>4, <2>1
  <2> QED
    BY <1>2, <2>1, <2>2
<1>5. CASE ~(l <= x)
  <2>1. PICK a \in Nat \ {0} : a = l - x
    <3>1. l - x \in Nat \ {0}
      BY <1>2, <1>5
    <3> QED
      BY <3>1
  <2>2. q * b - a \in 0 .. b - 1 /\ (q - 1) * b + 1 <= a
    BY <1>2, <1>3, <1>5, <2>1, Ceiling
  <2>3. PICK s \in Nat : s = q * b
    BY <1>2, ProductNatural
  <2>4. x + s - l \in Nat /\ x + s - l <= b - 1
    BY <1>2, <2>1, <2>2, <2>3
  <2>5. PICK t \in Int : t = (q - 1) * b
    <3>1. (q - 1) * b \in Int
      BY <1>2
    <3> QED
      BY <3>1
  <2>6. t + (x + 1) <= l
    BY <1>2, <2>1, <2>2, <2>5
  <2> QED
    BY <1>2, <2>3, <2>4, <2>5, <2>6
<1> QED
  BY <1>4, <1>5

LEMMA RecedeKeeps ==
  ASSUME NEW n, NEW c, NEW o, NEW dim \in 0 .. n - 1, NEW step \in Nat, NEW k,
         NEW p, IsShape(n, c), IsOffset(n, c, o),
         IsBorrow(k, dim, step, c, o), IsReceded(p, n, c, o, dim, k),
         k[0] <= o[0]
  PROVE  IsOffset(n, c, p) /\ IsCarried(n, c, p, o, dim, k)
<1>0. n \in Nat /\ n # 0 /\ dim \in Nat /\ 0 \in 0 .. n - 1 /\ 0 \in 0 .. dim
      /\ AllNatural(n, o) /\ k \in [0 .. dim -> Nat]
  BY OffsetNatural DEF IsShape, IsBorrow
<1>1. /\ p[0] = o[0] - k[0] /\ o[0] = p[0] + k[0]
      /\ p[0] \in 0 .. Highest(n, c, 0)
  <2>1. PICK x \in Nat, l \in Nat : x = o[0] /\ l = k[0]
    BY <1>0 DEF AllNatural
  <2>2. ~(0 > dim)
    BY <1>0
  <2>3. p[0] = o[0] + 0 - k[0]
    BY <1>0, <2>2 DEF IsReceded
  <2>4. x \in 0 .. Highest(n, c, 0)
    BY <1>0, <2>1 DEF IsOffset
  <2>5. Highest(n, c, 0) \in Int
    BY <1>0 DEF Highest, IsShape
  <2>6. p[0] = x - l /\ x - l \in 0 .. x
    BY <2>1, <2>3
  <2> QED
    BY <2>1, <2>4, <2>5, <2>6
<1>2. ASSUME NEW d \in 0 .. dim - 1
      PROVE  /\ k[d] * c[d + 1] + o[d + 1] = p[d + 1] + k[d + 1]
             /\ p[d + 1] \in 0 .. Highest(n, c, d + 1)
  <2>1. /\ d + 1 \in 0 .. n - 1 /\ ~(d + 1 > dim) /\ d + 1 # 0
        /\ (d + 1) - 1 = d /\ d + 1 \in 0 .. dim /\ d \in 0 .. dim
    BY <1>0
  <2>2. p[d + 1] = o[d + 1] + k[d] * c[d + 1] - k[d + 1]
    BY <2>1 DEF IsReceded
  <2>3. PICK b \in Nat \ {0}, x \in Nat, l \in Nat, q \in Nat :
          b = c[d + 1] /\ x = o[d + 1] /\ l = k[d + 1] /\ q = k[d]
    BY <1>0, <2>1 DEF IsShape, AllNatural
  <2>4. PICK s \in Nat : s = q * b
    BY <2>3, ProductNatural
  <2>5. x + s - l \in Nat /\ (x + s - l <= b - 1 \/ x + s - l <= x)
    BY <1>0, <2>3, <2>4, BorrowDivides
  <2>6. p[d + 1] = x + s - l
    BY <2>2, <2>3, <2>4
  <2>7. /\ Highest(n, c, d + 1) \in Int /\ b - 1 <= Highest(n, c, d + 1)
        /\ x <= Highest(n, c, d + 1)
    <3>1. Highest(n, c, d + 1) \in {b, b - 1}
      BY <2>3 DEF Highest
    <3>2. x \in 0 .. Highest(n, c, d + 1)
      BY <2>1, <2>3 DEF IsOffset
    <3> QED
      BY <2>3, <3>1, <3>2
  <2>8. p[d + 1] \in 0 .. Highest(n, c, d + 1)
    BY <2>3, <2>4, <2>5, <2>6, <2>7
  <2>9. s + x = (x + s - l) + l
    BY <2>3, <2>4
  <2> QED
    BY <2>3, <2>4, <2>6, <2>8, <2>9
<1>3. ASSUME NEW d \in dim + 1 .. n - 1
      PROVE  p[d] = o[d] /\ p[d] \in 0 .. Highest(n, c, d)
  <2>1. d \in 0 .. n - 1 /\ d > dim
    BY <1>0
  <2> QED
    BY <2>1 DEF IsReceded, IsOffset
<1>4. IsOffset(n, c, p)
  <2> SUFFICES ASSUME NEW d \in 0 .. n - 1 PROVE p[d] \in 0 .. Highest(n, c, d)
    BY DEF IsOffset
  <2>1. CASE d = 0
    BY <1>1, <2>1
  <2>2. CASE d \in 1 .. dim
    <3>1. PICK e \in 0 .. dim - 1 : d = e + 1
      <4>1. d - 1 \in 0 .. dim - 1 /\ d = (d - 1) + 1
        BY <1>0, <2>2
      <4> QED
        BY <4>1
    <3>2. p[e + 1] \in 0 .. Highest(n, c, e + 1)
      BY <1>2
    <3> QED
      BY <3>1, <3>2
  <2>3. CASE d \in dim + 1 .. n - 1
    BY <1>3, <2>3
  <2> QED
    BY <1>0, <2>1, <2>2, <2>3
<1>5. IsCarried(n, c, p, o, dim, k)
  BY <1>0, <1>1, <1>2, <1>3 DEF IsCarried
<1> QED
  BY <1>4, <1>5

LEMMA RecedeSubtracts ==
  ASSUME NEW n, NEW c, NEW o, NEW W, NEW V, NEW dim \in 0 .. n - 1,
         NEW step \in Nat, NEW k, NEW p, NEW U,
         IsShape(n, c), IsWeight(W, n, c), IsOffset(n, c, o),
         IsValue(V, n, W, o), IsValue(U, n, W, p),
         IsBorrow(k, dim, step, c, o), IsReceded(p, n, c, o, dim, k),
         k[0] <= o[0]
  PROVE  V[n] = U[n] + step * W[dim + 1]
<1>1. AllNatural(n, o) /\ AllNatural(n, p) /\ IsCarried(n, c, p, o, dim, k)
  BY RecedeKeeps, OffsetNatural
<1>2. V[n] = U[n] + k[dim] * W[dim + 1]
  BY <1>1, CarryAdds
<1> QED
  BY <1>2 DEF IsBorrow

LEMMA RecedeLeaves ==
  ASSUME NEW n, NEW c, NEW o, NEW W, NEW V, NEW dim \in 0 .. n - 1,
         NEW step \in Nat, NEW k,
         IsShape(n, c), IsWeight(W, n, c), IsOffset(n, c, o),
         IsValue(V, n, W, o), IsBorrow(k, dim, step, c, o), o[0] < k[0]
  PROVE  V[n] <= step * W[dim + 1]
<1>1. AllNatural(n, o) /\ k \in [0 .. dim -> Nat] /\ k[dim] = step
  BY OffsetNatural DEF IsBorrow
<1>2. \A d \in 0 .. dim - 1 :
        k[d] # 0 => (k[d] - 1) * c[d + 1] + (o[d + 1] + 1) <= k[d + 1]
  BY <1>1, BorrowDivides
<1>3. V[n] <= k[dim] * W[dim + 1]
  BY <1>1, <1>2, BorrowLeaves
<1> QED
  BY <1>1, <1>3

-----------------------------------------------------------------------------
(***************************************************************************)
(* The iterator                                                            *)
(***************************************************************************)

Number == Cardinality(Dims)

Offsets == [d \in Dims |-> Offset(d)]

\* The inductive invariant for MultidimTypeOK and MultidimMoves.
MultidimInv ==
  /\ shape \in Shapes
  /\ ndims \in 0 .. Number
  /\ DOMAIN cells = 0 .. 2 * Number - 1
  /\ AgreeBelow(ndims, cells, shape)
  /\ IsOffset(Number, shape, that)
  /\ Complete => IsOffset(Number, shape, Offsets)
  /\ ~Complete => \A d \in 0 .. ndims - 1 : cells[ndims + d] = 0

LEMMA ShapeFacts ==
  ASSUME shape \in Shapes
  PROVE  Dims = 0 .. Number - 1 /\ IsShape(Number, shape)
BY MultidimAssumption DEF Dims, Number, IsShape

LEMMA ZeroIsOffset ==
  ASSUME NEW n, NEW c, NEW o, IsShape(n, c), \A d \in 0 .. n - 1 : o[d] = 0
  PROVE  IsOffset(n, c, o)
BY DEF IsShape, IsOffset, Highest

LEMMA LastIsOffset ==
  ASSUME NEW n, NEW c, NEW o, IsShape(n, c),
         \A d \in 0 .. n - 1 : o[d] = Highest(n, c, d)
  PROVE  IsOffset(n, c, o)
BY DEF IsShape, IsOffset, Highest

\* What an iterator of which the cells cc and the offsets oo can be read says
\* of itself.
LEMMA ReadsRight ==
  ASSUME NEW n, NEW c, NEW o, NEW W, NEW V, IsShape(n, c),
         IsWeight(W, n, c), IsOffset(n, c, o), IsValue(V, n, W, o),
         NEW cc, AgreeBelow(n, cc, c), NEW oo, AgreeBelow(n, oo, o)
  PROVE  /\ HornerOf(n, cc, oo) = V[n]
         /\ SizeOf(n, cc) = W[0]
         /\ (\A d \in 0 .. n - 1 : oo[d] = 0) <=> V[n] = 0
         /\ (\A d \in 0 .. n - 1 : oo[d] = Highest(n, cc, d)) <=> V[n] = W[0]
<1>1. AllNatural(n, o)
  BY OffsetNatural
<1>2. HornerOf(n, cc, oo) = V[n]
  BY <1>1, ValueOf
<1>3. SizeOf(n, cc) = W[0]
  BY SizeWeight
<1>4. (\A d \in 0 .. n - 1 : oo[d] = 0) <=> V[n] = 0
  BY <1>1, StartIsZero DEF AgreeBelow
<1>5. \A d \in 0 .. n - 1 : Highest(n, cc, d) = Highest(n, c, d)
  BY DEF AgreeBelow, Highest
<1>6. (\A d \in 0 .. n - 1 : oo[d] = Highest(n, cc, d)) <=> V[n] = W[0]
  BY <1>5, EndIsLast DEF AgreeBelow
<1> QED
  BY <1>2, <1>3, <1>4, <1>6

LEMMA FlatIs ==
  ASSUME NEW o
  PROVE FlatIndexOf(o) = HornerOf(ndims, cells, o)
BY DEF FlatIndexOf, HornerOf, Dim

LEMMA FlatIndexIs == FlatIndex = HornerOf(ndims, cells, Offsets)
BY DEF FlatIndex, FlatIndexOf, HornerOf, Dim, Offsets

LEMMA FlatIndexNext == FlatIndex' = HornerOf(ndims', cells', Offsets')
BY DEF FlatIndex, FlatIndexOf, HornerOf, Dim, Offset, Offsets

LEMMA TotalSizeIs == TotalSize = SizeOf(ndims, cells)
BY DEF TotalSize, SizeOf, Dim

LEMMA TotalSizeNext == TotalSize' = SizeOf(ndims', cells')
BY DEF TotalSize, SizeOf, Dim

\* Before a step.
LEMMA ReadsBefore ==
  ASSUME MultidimInv, Complete, NEW W, IsWeight(W, Number, shape),
         NEW V, IsValue(V, Number, W, Offsets)
  PROVE  /\ FlatIndex = V[Number] /\ TotalSize = W[0]
         /\ \A dim \in Dims : Stride(dim) = W[dim + 1]
<1>1. /\ ndims = Number /\ Dims = 0 .. Number - 1 /\ IsShape(Number, shape)
      /\ AgreeBelow(Number, cells, shape) /\ IsOffset(Number, shape, Offsets)
  BY ShapeFacts DEF MultidimInv, Complete, Number
<1>2. AgreeBelow(Number, Offsets, Offsets)
  BY DEF AgreeBelow
<1>3. FlatIndex = V[Number] /\ TotalSize = W[0]
  BY <1>1, <1>2, ReadsRight, FlatIndexIs, TotalSizeIs
<1>4. ASSUME NEW dim \in Dims PROVE Stride(dim) = W[dim + 1]
  <2>1. ndims \in Nat \ {0} /\ dim \in 0 .. ndims - 1
    BY <1>1 DEF IsShape
  <2>2. \A i \in 0 .. ndims - 1 : shape[i] \in Nat /\ cells[i] = shape[i]
    BY <1>1 DEF IsShape, AgreeBelow
  <2>3. IsWeight(W, ndims, shape)
    BY <1>1
  <2> QED
    BY <2>1, <2>2, <2>3, StrideWeight
<1> QED
  BY <1>3, <1>4

\* After a step.
LEMMA ReadsAfter ==
  ASSUME MultidimInv', shape' = shape, Complete',
         NEW W, IsWeight(W, Number, shape),
         NEW V, IsValue(V, Number, W, Offsets')
  PROVE  /\ FlatIndex' = V[Number] /\ TotalSize' = W[0]
         /\ IsAtStart' = (FlatIndex' = 0)
         /\ IsAtEnd' = (FlatIndex' = TotalSize')
<1>1. Dims' = Dims /\ Number' = Number /\ shape \in Shapes
  BY DEF Dims, Number, MultidimInv
<1>2. /\ ndims' = Number /\ Dims = 0 .. Number - 1 /\ IsShape(Number, shape)
      /\ AgreeBelow(Number, cells', shape)
      /\ IsOffset(Number, shape, Offsets')
  BY <1>1, ShapeFacts DEF MultidimInv, Complete, Number
<1>3. AgreeBelow(Number, Offsets', Offsets')
  BY DEF AgreeBelow
<1>4. /\ FlatIndex' = V[Number] /\ TotalSize' = W[0]
      /\ (\A d \in 0 .. Number - 1 : Offsets'[d] = 0) <=> V[Number] = 0
      /\ (\A d \in 0 .. Number - 1 : Offsets'[d] = Highest(Number, cells', d))
           <=> V[Number] = W[0]
  BY <1>2, <1>3, ReadsRight, FlatIndexNext, TotalSizeNext
<1>5. \A d \in Dims : Offsets'[d] = Offset(d)'
  BY <1>1 DEF Offsets
<1>6. IsAtStart' <=> \A d \in 0 .. Number - 1 : Offsets'[d] = 0
  BY <1>1, <1>2, <1>5 DEF IsAtStart
<1>7. \A d \in Dims : AtLast'[d] = Highest(Number, cells', d)
  BY <1>1, <1>2 DEF AtLast, Highest, LastDim, Dim
<1>8. IsAtEnd' <=>
        \A d \in 0 .. Number - 1 : Offsets'[d] = Highest(Number, cells', d)
  BY <1>1, <1>2, <1>5, <1>7 DEF IsAtEnd
<1>9. IsAtStart' \in BOOLEAN /\ IsAtEnd' \in BOOLEAN
  BY DEF IsAtStart, IsAtEnd
<1> QED
  BY <1>4, <1>6, <1>8, <1>9

-----------------------------------------------------------------------------

SolvesCarry(f, dim, step) ==
  f = [d \in 0 .. dim |->
         IF d = dim THEN step
         ELSE (cells[ndims + (d + 1)] + f[d + 1]) \div cells[d + 1]]

SolvesBorrow(f, dim, step) ==
  f = [d \in 0 .. dim |->
         IF d = dim THEN step
         ELSE IF f[d + 1] <= cells[ndims + (d + 1)] THEN 0
              ELSE CeilingDiv(f[d + 1] - cells[ndims + (d + 1)],
                              cells[d + 1])]

LEMMA CarryIs ==
  ASSUME NEW dim, NEW step
  PROVE  Carry(dim, step) = CHOOSE f : SolvesCarry(f, dim, step)
BY DEF Carry, SolvesCarry, LastDim, Dim, Offset

LEMMA BorrowIs ==
  ASSUME NEW dim, NEW step
  PROVE  Borrow(dim, step) = CHOOSE f : SolvesBorrow(f, dim, step)
BY DEF Borrow, SolvesBorrow, LastDim, Dim, Offset

\* The cells of the dimensions behind the first, and of their offsets.
LEMMA NextCells ==
  ASSUME MultidimInv, Complete, NEW dim \in Dims
  PROVE  /\ dim \in 0 .. Number - 1 /\ dim \in Nat
         /\ \A d \in 0 .. dim - 1 :
              /\ cells[d + 1] = shape[d + 1] /\ shape[d + 1] \in Nat \ {0}
              /\ cells[ndims + (d + 1)] = Offsets[d + 1]
              /\ Offsets[d + 1] \in Nat
<1>1. /\ ndims = Number /\ Dims = 0 .. Number - 1 /\ IsShape(Number, shape)
      /\ AgreeBelow(Number, cells, shape) /\ AllNatural(Number, Offsets)
      /\ dim \in Nat
  BY ShapeFacts, OffsetNatural DEF MultidimInv, Complete, Number, IsShape
<1>2. ASSUME NEW d \in 0 .. dim - 1
      PROVE  /\ cells[d + 1] = shape[d + 1] /\ shape[d + 1] \in Nat \ {0}
             /\ cells[ndims + (d + 1)] = Offsets[d + 1]
             /\ Offsets[d + 1] \in Nat
  <2>1. d + 1 \in 0 .. Number - 1
    BY <1>1 DEF IsShape
  <2> QED
    BY <1>1, <2>1 DEF IsShape, AgreeBelow, AllNatural, Offsets, Offset
<1> QED
  BY <1>1, <1>2

\* Functions that start alike and take the same steps down are the same.
LEMMA SameFunction ==
  ASSUME NEW dim \in Nat, NEW f, NEW g,
         f \in [0 .. dim -> Nat], g = [d \in 0 .. dim |-> g[d]],
         \A d \in 0 .. dim : f[d] = g[d]
  PROVE  g = f
OBVIOUS

LEMMA CarryRight ==
  ASSUME MultidimInv, Complete, NEW dim \in Dims, NEW step \in Nat
  PROVE  IsCarry(Carry(dim, step), dim, step, shape, Offsets)
<1>0. dim \in Nat /\ dim \in 0 .. dim
  BY NextCells
<1>1. PICK G : G = [x \in (0 .. dim - 1) \X Nat |->
                      (Offsets[x[1] + 1] + x[2]) \div shape[x[1] + 1]]
  OBVIOUS
<1>2. /\ G \in [(0 .. dim - 1) \X Nat -> Nat]
      /\ \A d \in 0 .. dim - 1, v \in Nat :
           G[<< d, v >>] = (Offsets[d + 1] + v) \div shape[d + 1]
  <2>1. ASSUME NEW x \in (0 .. dim - 1) \X Nat
        PROVE  (Offsets[x[1] + 1] + x[2]) \div shape[x[1] + 1] \in Nat
    <3>1. x[1] \in 0 .. dim - 1 /\ x[2] \in Nat
      OBVIOUS
    <3>2. PICK b \in Nat \ {0}, y \in Nat, l \in Nat :
            b = shape[x[1] + 1] /\ y = Offsets[x[1] + 1] /\ l = x[2]
      BY <3>1, NextCells
    <3>3. (y + l) \div b \in Nat
      <4>1. PICK a \in Nat : a = y + l
        OBVIOUS
      <4>2. a \div b \in Nat
        BY Quotient
      <4> QED
        BY <4>1, <4>2
    <3> QED
      BY <3>2, <3>3
  <2>2. ASSUME NEW d \in 0 .. dim - 1, NEW v \in Nat
        PROVE  G[<< d, v >>] = (Offsets[d + 1] + v) \div shape[d + 1]
    <3>1. << d, v >> \in (0 .. dim - 1) \X Nat
      OBVIOUS
    <3> QED
      BY <1>1, <3>1
  <2> QED
    BY <1>1, <2>1, <2>2
<1>3. PICK f \in [0 .. dim -> Nat] : Descends(f, dim, step, G)
  BY <1>0, <1>2, StepsDown
<1>4. IsCarry(f, dim, step, shape, Offsets)
  <2>1. ASSUME NEW d \in 0 .. dim - 1
        PROVE  f[d] = (Offsets[d + 1] + f[d + 1]) \div shape[d + 1]
    <3>1. f[d + 1] \in Nat
      BY <1>0
    <3> QED
      BY <1>2, <1>3, <3>1 DEF Descends
  <2> QED
    BY <1>3, <2>1 DEF IsCarry, Descends
<1>5. SolvesCarry(f, dim, step)
  <2>1. ASSUME NEW d \in 0 .. dim, d # dim
        PROVE  f[d] = (cells[ndims + (d + 1)] + f[d + 1]) \div cells[d + 1]
    <3>1. d \in 0 .. dim - 1
      BY <1>0, <2>1
    <3> QED
      BY <1>4, <3>1, NextCells DEF IsCarry
  <2> QED
    BY <1>4, <2>1 DEF IsCarry, SolvesCarry
<1>6. PICK g : g = CHOOSE h : SolvesCarry(h, dim, step)
  OBVIOUS
<1>7. SolvesCarry(g, dim, step)
  BY <1>5, <1>6
<1>8. f[dim] = g[dim]
  BY <1>0, <1>4, <1>7 DEF IsCarry, SolvesCarry
<1>9. ASSUME NEW d \in 0 .. dim - 1, f[d + 1] = g[d + 1] PROVE f[d] = g[d]
  <2>1. d \in 0 .. dim /\ d # dim
    BY <1>0
  <2>2. g[d] = (cells[ndims + (d + 1)] + g[d + 1]) \div cells[d + 1]
    BY <1>7, <2>1 DEF SolvesCarry
  <2>3. f[d] = (cells[ndims + (d + 1)] + f[d + 1]) \div cells[d + 1]
    BY <1>5, <2>1 DEF SolvesCarry
  <2> QED
    BY <1>9, <2>2, <2>3, Zenon
<1>10. \A d \in 0 .. dim : f[d] = g[d]
  BY <1>0, <1>8, <1>9, SameDown
<1>11. g = [d \in 0 .. dim |-> g[d]]
  BY <1>7 DEF SolvesCarry
<1>12. g = f
  BY <1>0, <1>10, <1>11, SameFunction
<1> QED
  BY <1>4, <1>6, <1>12, CarryIs

LEMMA BorrowRight ==
  ASSUME MultidimInv, Complete, NEW dim \in Dims, NEW step \in Nat
  PROVE  IsBorrow(Borrow(dim, step), dim, step, shape, Offsets)
<1>0. dim \in Nat /\ dim \in 0 .. dim
  BY NextCells
<1> DEFINE Take(d, v) == IF v <= Offsets[d + 1] THEN 0
                         ELSE CeilingDiv(v - Offsets[d + 1], shape[d + 1])
<1>1. PICK G : G = [x \in (0 .. dim - 1) \X Nat |-> Take(x[1], x[2])]
  OBVIOUS
<1>2. /\ G \in [(0 .. dim - 1) \X Nat -> Nat]
      /\ \A d \in 0 .. dim - 1, v \in Nat : G[<< d, v >>] = Take(d, v)
  <2>1. ASSUME NEW d \in 0 .. dim - 1, NEW v \in Nat PROVE Take(d, v) \in Nat
    <3>1. PICK b \in Nat \ {0}, y \in Nat :
            b = shape[d + 1] /\ y = Offsets[d + 1]
      BY NextCells
    <3>2. CASE v <= y
      BY <3>1, <3>2
    <3>3. CASE ~(v <= y)
      <4>1. v - y \in Nat \ {0}
        BY <3>3
      <4>2. CeilingDiv(v - y, b) \in Nat
        BY <4>1, Ceiling
      <4> QED
        BY <3>1, <3>3, <4>2
    <3> QED
      BY <3>2, <3>3
  <2> HIDE DEF Take
  <2>2. ASSUME NEW x \in (0 .. dim - 1) \X Nat PROVE Take(x[1], x[2]) \in Nat
    <3>1. x[1] \in 0 .. dim - 1 /\ x[2] \in Nat
      OBVIOUS
    <3> QED
      BY <2>1, <3>1
  <2>3. ASSUME NEW d \in 0 .. dim - 1, NEW v \in Nat
        PROVE  G[<< d, v >>] = Take(d, v)
    <3>1. << d, v >> \in (0 .. dim - 1) \X Nat
      OBVIOUS
    <3> QED
      BY <1>1, <3>1
  <2> QED
    BY <1>1, <2>2, <2>3
<1> HIDE DEF Take
<1>3. PICK f \in [0 .. dim -> Nat] : Descends(f, dim, step, G)
  BY <1>0, <1>2, StepsDown
<1>4. f[dim] = step /\ \A d \in 0 .. dim - 1 : f[d] = Take(d, f[d + 1])
  <2>1. ASSUME NEW d \in 0 .. dim - 1 PROVE f[d] = Take(d, f[d + 1])
    <3>1. f[d + 1] \in Nat
      BY <1>0
    <3> QED
      BY <1>2, <1>3, <3>1 DEF Descends
  <2> QED
    BY <1>3, <2>1 DEF Descends
<1>5. IsBorrow(f, dim, step, shape, Offsets)
  BY <1>4 DEF IsBorrow, Take
<1>6. SolvesBorrow(f, dim, step)
  <2>1. ASSUME NEW d \in 0 .. dim, d # dim
        PROVE  f[d] = IF f[d + 1] <= cells[ndims + (d + 1)] THEN 0
                      ELSE CeilingDiv(f[d + 1] - cells[ndims + (d + 1)],
                                      cells[d + 1])
    <3>1. d \in 0 .. dim - 1
      BY <1>0, <2>1
    <3> QED
      BY <1>4, <3>1, NextCells DEF Take
  <2> QED
    BY <1>4, <2>1 DEF SolvesBorrow
<1>7. PICK g : g = CHOOSE h : SolvesBorrow(h, dim, step)
  OBVIOUS
<1>8. SolvesBorrow(g, dim, step)
  BY <1>6, <1>7
<1>9. f[dim] = g[dim]
  BY <1>0, <1>4, <1>8 DEF SolvesBorrow
<1>10. ASSUME NEW d \in 0 .. dim - 1, f[d + 1] = g[d + 1] PROVE f[d] = g[d]
  <2>1. d \in 0 .. dim /\ d # dim
    BY <1>0
  <2>2. g[d] = IF g[d + 1] <= cells[ndims + (d + 1)] THEN 0
               ELSE CeilingDiv(g[d + 1] - cells[ndims + (d + 1)],
                               cells[d + 1])
    BY <1>8, <2>1 DEF SolvesBorrow
  <2>3. f[d] = IF f[d + 1] <= cells[ndims + (d + 1)] THEN 0
               ELSE CeilingDiv(f[d + 1] - cells[ndims + (d + 1)],
                               cells[d + 1])
    BY <1>6, <2>1 DEF SolvesBorrow
  <2> QED
    BY <1>10, <2>2, <2>3
<1>11. \A d \in 0 .. dim : f[d] = g[d]
  BY <1>0, <1>9, <1>10, SameDown
<1>12. g = [d \in 0 .. dim |-> g[d]]
  BY <1>8 DEF SolvesBorrow
<1>13. g = f
  BY <1>0, <1>11, <1>12, SameFunction
<1> QED
  BY <1>5, <1>7, <1>13, BorrowIs

LEMMA WhileComplete ==
  ASSUME MultidimInv, Complete
  PROVE  /\ ndims = Number /\ Dims = 0 .. Number - 1 /\ IsShape(Number, shape)
         /\ Number \in Nat \ {0} /\ 0 \in Dims /\ LastDim = Number - 1
         /\ IsOffset(Number, shape, Offsets)
         /\ \A d \in Dims : Dim(d) = shape[d] /\ Offset(d) = Offsets[d]
<1>1. Dims = 0 .. Number - 1 /\ IsShape(Number, shape) /\ ndims = Number
  BY ShapeFacts DEF MultidimInv, Complete, Number
<1>2. Number \in Nat \ {0} /\ 0 \in Dims
  BY <1>1 DEF IsShape
<1>3. \A d \in Dims : Dim(d) = shape[d]
  BY <1>1 DEF MultidimInv, AgreeBelow, Dim
<1>4. \A d \in Dims : Offset(d) = Offsets[d]
  BY DEF Offsets
<1> QED
  BY <1>1, <1>2, <1>3, <1>4 DEF MultidimInv, LastDim

LEMMA AtLastRight ==
  ASSUME MultidimInv, Complete
  PROVE  \A d \in 0 .. Number - 1 : AtLast[d] = Highest(Number, shape, d)
BY WhileComplete DEF AtLast, Highest

\* The step in a dimension, in the flat index.
LEMMA StepNatural ==
  ASSUME NEW n, NEW c, NEW W, IsShape(n, c), IsWeight(W, n, c),
         NEW dim \in 0 .. n - 1, NEW step \in Nat
  PROVE  step * W[dim + 1] \in Nat /\ W[0] \in Nat
<1>1. dim + 1 \in 0 .. n /\ 0 \in 0 .. n
  BY DEF IsShape
<1>2. W[dim + 1] \in Nat /\ W[0] \in Nat
  BY <1>1, WeightPositive
<1> QED
  BY <1>2, ProductNatural

LEMMA ValueNatural ==
  ASSUME NEW n, NEW c, NEW o, NEW W, NEW V, IsShape(n, c), IsValue(V, n, W, o)
  PROVE  V[n] \in Nat
BY DEF IsShape, IsValue

\* An advance adds, up to the end.
LEMMA AdvancedRight ==
  ASSUME MultidimInv, Complete, NEW dim \in Dims, NEW step \in 0 .. MaxStep
  PROVE  /\ IsOffset(Number, shape, AdvancedBy(dim, step))
         /\ \A W, V, U :
              /\ IsWeight(W, Number, shape)
              /\ IsValue(V, Number, W, Offsets)
              /\ IsValue(U, Number, W, AdvancedBy(dim, step))
              => U[Number] = IF V[Number] + step * W[dim + 1] > W[0] THEN W[0]
                             ELSE V[Number] + step * W[dim + 1]
<1>0. /\ step \in Nat /\ dim \in 0 .. Number - 1 /\ dim \in Nat
      /\ ndims = Number /\ Dims = 0 .. Number - 1 /\ IsShape(Number, shape)
      /\ IsOffset(Number, shape, Offsets) /\ AllNatural(Number, Offsets)
      /\ Number \in Nat \ {0} /\ 0 \in Dims
      /\ \A d \in Dims : Dim(d) = shape[d] /\ Offset(d) = Offsets[d]
  BY WhileComplete, OffsetNatural, MultidimAssumption
<1>1. PICK k : k = Carry(dim, step)
  OBVIOUS
<1>2. IsCarry(k, dim, step, shape, Offsets)
  BY <1>0, <1>1, CarryRight
<1>3. PICK p : p = AdvancedBy(dim, step)
  OBVIOUS
<1>4. /\ Offsets[0] \in Nat /\ shape[0] \in Nat /\ k[0] \in Nat
      /\ Offset(0) + k[0] = Offsets[0] + k[0] /\ Dim(0) = shape[0]
  <2>1. 0 \in 0 .. dim
    BY <1>0
  <2> QED
    BY <1>0, <1>2, <2>1 DEF AllNatural, IsShape, IsCarry
<1>5. CASE shape[0] <= Offsets[0] + k[0]
  <2>1. p = AtLast
    BY <1>1, <1>3, <1>4, <1>5 DEF AdvancedBy
  <2>2. \A d \in 0 .. Number - 1 : p[d] = Highest(Number, shape, d)
    BY <2>1, AtLastRight
  <2>3. IsOffset(Number, shape, p)
    BY <1>0, <2>2, LastIsOffset
  <2>4. ASSUME NEW W, NEW V, NEW U, IsWeight(W, Number, shape),
               IsValue(V, Number, W, Offsets), IsValue(U, Number, W, p)
        PROVE  U[Number] = IF V[Number] + step * W[dim + 1] > W[0] THEN W[0]
                           ELSE V[Number] + step * W[dim + 1]
    <3>1. U[Number] = W[0]
      BY <1>0, <2>2, <2>3, <2>4, EndIsLast
    <3>2. W[0] <= V[Number] + step * W[dim + 1]
      BY <1>0, <1>2, <1>5, <2>4, AdvanceLeaves
    <3>3. V[Number] \in Nat /\ step * W[dim + 1] \in Nat /\ W[0] \in Nat
      <4>1. V[Number] \in Nat
        BY <1>0, <2>4, ValueNatural
      <4>2. step * W[dim + 1] \in Nat /\ W[0] \in Nat
        BY <1>0, <2>4, StepNatural
      <4> QED
        BY <4>1, <4>2
    <3>4. PICK e \in Nat, a \in Nat, t \in Nat :
            e = V[Number] /\ a = W[0] /\ t = step * W[dim + 1]
      BY <3>3
    <3>5. a = IF e + t > a THEN a ELSE e + t
      BY <3>2, <3>4
    <3> QED
      BY <3>1, <3>4, <3>5
  <2> QED
    BY <1>3, <2>3, <2>4
<1>6. CASE ~(shape[0] <= Offsets[0] + k[0])
  <2>1. ~(Offset(0) + k[0] >= Dim(0)) /\ Offsets[0] + k[0] < shape[0]
    BY <1>4, <1>6
  <2>2. p = [d \in Dims |-> IF d > dim THEN Offset(d)
                            ELSE (Offset(d) + k[d]) % Dim(d)]
    BY <1>1, <1>3, <2>1 DEF AdvancedBy
  <2>3. IsAdvanced(p, Number, shape, Offsets, dim, k)
    BY <1>0, <2>2 DEF IsAdvanced
  <2>4. IsOffset(Number, shape, p)
    BY <1>0, <1>2, <2>3, AdvanceKeeps
  <2>5. ASSUME NEW W, NEW V, NEW U, IsWeight(W, Number, shape),
               IsValue(V, Number, W, Offsets), IsValue(U, Number, W, p)
        PROVE  U[Number] = IF V[Number] + step * W[dim + 1] > W[0] THEN W[0]
                           ELSE V[Number] + step * W[dim + 1]
    <3>1. U[Number] = V[Number] + step * W[dim + 1]
      <4>1. /\ IsShape(Number, shape) /\ IsWeight(W, Number, shape)
            /\ IsOffset(Number, shape, Offsets)
            /\ IsValue(V, Number, W, Offsets) /\ IsValue(U, Number, W, p)
            /\ IsCarry(k, dim, step, shape, Offsets)
            /\ IsAdvanced(p, Number, shape, Offsets, dim, k)
            /\ Offsets[0] + k[0] < shape[0]
            /\ dim \in 0 .. Number - 1 /\ step \in Nat
        BY <1>0, <1>2, <2>1, <2>3, <2>5
      <4> QED
        BY <4>1, AdvanceAdds
    <3>2. U[Number] \in Nat /\ U[Number] <= W[0] /\ W[0] \in Nat
      <4>1. Number \in 0 .. Number
        BY <1>0
      <4>2. U[Number] <= EndOf(U, W, Number, Number)
            /\ EndOf(U, W, Number, Number) <= W[0]
        BY <1>0, <2>4, <2>5, <4>1, Between
      <4>3. U[Number] \in Nat /\ W[0] \in Nat
        BY <1>0, <2>5, <4>1, StepNatural DEF IsValue
      <4>4. EndOf(U, W, Number, Number) = U[Number]
        BY DEF EndOf
      <4> QED
        BY <4>2, <4>3, <4>4
    <3>3. ~(U[Number] > W[0])
      BY <3>2
    <3> QED
      BY <3>1, <3>3
  <2> QED
    BY <1>3, <2>4, <2>5
<1> QED
  BY <1>5, <1>6

\* A recede subtracts, down to the start.
LEMMA RecededRight ==
  ASSUME MultidimInv, Complete, NEW dim \in Dims, NEW step \in 0 .. MaxStep
  PROVE  /\ IsOffset(Number, shape, RecededBy(dim, step))
         /\ \A W, V, U :
              /\ IsWeight(W, Number, shape)
              /\ IsValue(V, Number, W, Offsets)
              /\ IsValue(U, Number, W, RecededBy(dim, step))
              => U[Number] = IF V[Number] - step * W[dim + 1] < 0 THEN 0
                             ELSE V[Number] - step * W[dim + 1]
<1>0. /\ step \in Nat /\ dim \in 0 .. Number - 1 /\ dim \in Nat
      /\ ndims = Number /\ Dims = 0 .. Number - 1 /\ IsShape(Number, shape)
      /\ IsOffset(Number, shape, Offsets) /\ AllNatural(Number, Offsets)
      /\ Number \in Nat \ {0} /\ 0 \in Dims
      /\ \A d \in Dims : Dim(d) = shape[d] /\ Offset(d) = Offsets[d]
  BY WhileComplete, OffsetNatural, MultidimAssumption
<1>1. PICK k : k = Borrow(dim, step)
  OBVIOUS
<1>2. IsBorrow(k, dim, step, shape, Offsets)
  BY <1>0, <1>1, BorrowRight
<1>3. PICK p : p = RecededBy(dim, step)
  OBVIOUS
<1>4. Offsets[0] \in Nat /\ k[0] \in Nat /\ Offset(0) = Offsets[0]
  <2>1. 0 \in 0 .. dim
    BY <1>0
  <2> QED
    BY <1>0, <1>2, <2>1 DEF AllNatural, IsBorrow
<1>5. CASE Offsets[0] < k[0]
  <2>1. p = Start
    BY <1>1, <1>3, <1>4, <1>5 DEF RecededBy
  <2>2. \A d \in 0 .. Number - 1 : p[d] = 0
    BY <1>0, <2>1 DEF Start
  <2>3. IsOffset(Number, shape, p)
    BY <1>0, <2>2, ZeroIsOffset
  <2>4. ASSUME NEW W, NEW V, NEW U, IsWeight(W, Number, shape),
               IsValue(V, Number, W, Offsets), IsValue(U, Number, W, p)
        PROVE  U[Number] = IF V[Number] - step * W[dim + 1] < 0 THEN 0
                           ELSE V[Number] - step * W[dim + 1]
    <3>1. U[Number] = 0
      <4>1. AllNatural(Number, p)
        BY <1>0, <2>3, OffsetNatural
      <4> QED
        BY <1>0, <2>2, <2>4, <4>1, StartIsZero
    <3>2. V[Number] <= step * W[dim + 1]
      BY <1>0, <1>2, <1>5, <2>4, RecedeLeaves
    <3>3. V[Number] \in Nat /\ step * W[dim + 1] \in Nat
      <4>1. V[Number] \in Nat
        BY <1>0, <2>4, ValueNatural
      <4>2. step * W[dim + 1] \in Nat
        BY <1>0, <2>4, StepNatural
      <4> QED
        BY <4>1, <4>2
    <3>4. PICK e \in Nat, t \in Nat : e = V[Number] /\ t = step * W[dim + 1]
      BY <3>3
    <3>5. 0 = IF e - t < 0 THEN 0 ELSE e - t
      BY <3>2, <3>4
    <3> QED
      BY <3>1, <3>4, <3>5
  <2> QED
    BY <1>3, <2>3, <2>4
<1>6. CASE ~(Offsets[0] < k[0])
  <2>1. ~(k[0] > Offset(0)) /\ k[0] <= Offsets[0]
    BY <1>4, <1>6
  <2>2. p = [d \in Dims |->
               IF d > dim THEN Offset(d)
               ELSE Offset(d) + (IF d = 0 THEN 0 ELSE k[d - 1] * Dim(d))
                      - k[d]]
    BY <1>1, <1>3, <2>1 DEF RecededBy
  <2>3. IsReceded(p, Number, shape, Offsets, dim, k)
    BY <1>0, <2>2 DEF IsReceded
  <2>4. IsOffset(Number, shape, p)
    BY <1>0, <1>2, <2>1, <2>3, RecedeKeeps
  <2>5. ASSUME NEW W, NEW V, NEW U, IsWeight(W, Number, shape),
               IsValue(V, Number, W, Offsets), IsValue(U, Number, W, p)
        PROVE  U[Number] = IF V[Number] - step * W[dim + 1] < 0 THEN 0
                           ELSE V[Number] - step * W[dim + 1]
    <3>1. V[Number] = U[Number] + step * W[dim + 1]
      <4>1. /\ IsShape(Number, shape) /\ IsWeight(W, Number, shape)
            /\ IsOffset(Number, shape, Offsets)
            /\ IsValue(V, Number, W, Offsets) /\ IsValue(U, Number, W, p)
            /\ IsBorrow(k, dim, step, shape, Offsets)
            /\ IsReceded(p, Number, shape, Offsets, dim, k)
            /\ k[0] <= Offsets[0]
            /\ dim \in 0 .. Number - 1 /\ step \in Nat
        BY <1>0, <1>2, <2>1, <2>3, <2>5
      <4> QED
        BY <4>1, RecedeSubtracts
    <3>2. U[Number] \in Nat /\ step * W[dim + 1] \in Nat
      <4>1. U[Number] \in Nat
        BY <1>0, <2>5, ValueNatural
      <4>2. step * W[dim + 1] \in Nat
        BY <1>0, <2>5, StepNatural
      <4> QED
        BY <4>1, <4>2
    <3>3. PICK e \in Nat, u \in Nat, t \in Nat :
            e = V[Number] /\ u = U[Number] /\ t = step * W[dim + 1]
      BY <3>1, <3>2
    <3>4. u = IF e - t < 0 THEN 0 ELSE e - t
      BY <3>1, <3>3
    <3> QED
      BY <3>3, <3>4
  <2> QED
    BY <1>3, <2>4, <2>5
<1> QED
  BY <1>5, <1>6

-----------------------------------------------------------------------------

\* A call that writes the offsets p.
LEMMA WrittenKeeps ==
  ASSUME MultidimInv, Complete, NEW p, IsOffset(Number, shape, p),
         cells' = WithOffsets(p), UNCHANGED << shape, ndims, that >>
  PROVE  MultidimInv' /\ Complete' /\ AgreeBelow(Number, Offsets', p)
<1>0. /\ ndims = Number /\ Dims = 0 .. Number - 1 /\ Number \in Nat \ {0}
      /\ Number' = Number /\ Dims' = Dims /\ Complete'
      /\ DOMAIN cells = 0 .. 2 * Number - 1
  BY WhileComplete DEF MultidimInv, Number, Dims, Complete
<1>1. DOMAIN cells' = 0 .. 2 * Number - 1
  BY <1>0 DEF WithOffsets
<1>2. \A c \in 0 .. 2 * Number - 1 :
        cells'[c] = IF c - Number \in 0 .. Number - 1 THEN p[c - Number]
                    ELSE cells[c]
  BY <1>0 DEF WithOffsets
<1>3. ASSUME NEW d \in 0 .. Number - 1
      PROVE  cells'[d] = cells[d] /\ cells'[Number + d] = p[d]
  <2>1. /\ d \in 0 .. 2 * Number - 1 /\ ~(d - Number \in 0 .. Number - 1)
        /\ Number + d \in 0 .. 2 * Number - 1 /\ (Number + d) - Number = d
    BY <1>0
  <2>2. cells'[d] = cells[d]
    BY <1>2, <2>1
  <2>3. cells'[Number + d] = p[d]
    BY <1>2, <2>1
  <2> QED
    BY <2>2, <2>3
<1>4. AgreeBelow(Number, Offsets', p)
  BY <1>0, <1>3 DEF AgreeBelow, Offsets, Offset
<1>5. AgreeBelow(Number, cells', shape)
  BY <1>0, <1>3 DEF AgreeBelow, MultidimInv
<1>6. IsOffset(Number, shape, Offsets')
  BY <1>4 DEF IsOffset, AgreeBelow
<1>7. MultidimInv'
  BY <1>0, <1>1, <1>5, <1>6 DEF MultidimInv
<1> QED
  BY <1>0, <1>4, <1>7

\* What the iterator says of itself then.
LEMMA WrittenReads ==
  ASSUME MultidimInv, Complete, NEW p, IsOffset(Number, shape, p),
         cells' = WithOffsets(p), UNCHANGED << shape, ndims, that >>,
         NEW W, IsWeight(W, Number, shape), NEW U, IsValue(U, Number, W, p)
  PROVE  /\ FlatIndex' = U[Number]
         /\ IsAtStart' = (FlatIndex' = 0)
         /\ IsAtEnd' = (FlatIndex' = TotalSize')
<1>1. MultidimInv' /\ Complete' /\ AgreeBelow(Number, Offsets', p)
  BY WrittenKeeps
<1>2. IsValue(U, Number, W, Offsets')
  BY <1>1 DEF IsValue, AgreeBelow
<1> QED
  BY <1>1, <1>2, ReadsAfter

LEMMA InitDimKeeps ==
  ASSUME MultidimInv, InitDim
  PROVE  MultidimInv' /\ \A d \in 0 .. ndims' - 1 : cells'[ndims' + d] = 0
<1>0. /\ Number' = Number /\ Dims' = Dims /\ Dims = 0 .. Number - 1
      /\ Number \in Nat \ {0} /\ IsShape(Number, shape)
      /\ ndims \in 0 .. Number - 1 /\ ndims' = ndims + 1
      /\ DOMAIN cells = 0 .. 2 * Number - 1 /\ ~Complete
      /\ shape' = shape /\ that' = that
  <2>1. Dims = 0 .. Number - 1 /\ IsShape(Number, shape)
    BY ShapeFacts DEF MultidimInv
  <2> QED
    BY <2>1 DEF MultidimInv, InitDim, Number, Dims, Complete, IsShape
<1>1. /\ DOMAIN cells' = 0 .. 2 * Number - 1
      /\ \A c \in 0 .. 2 * Number - 1 :
           cells'[c] = IF c = ndims THEN shape[ndims]
                       ELSE IF c \in OffsetsSet(ndims) THEN 0 ELSE cells[c]
  BY <1>0 DEF InitDim
<1>2. ASSUME NEW d \in 0 .. ndims' - 1 PROVE cells'[d] = shape[d]
  <2>1. CASE d = ndims
    BY <1>0, <1>1, <2>1
  <2>2. CASE d # ndims
    <3>1. d \in 0 .. ndims - 1 /\ d \in 0 .. 2 * Number - 1
      BY <1>0, <2>2
    <3>2. d \notin OffsetsSet(ndims)
      BY <1>0, <3>1 DEF OffsetsSet
    <3>3. cells'[d] = cells[d]
      BY <1>1, <2>2, <3>1, <3>2
    <3> QED
      BY <3>1, <3>3 DEF MultidimInv, AgreeBelow
  <2> QED
    BY <2>1, <2>2
<1>3. ASSUME NEW d \in 0 .. ndims' - 1 PROVE cells'[ndims' + d] = 0
  <2>1. PICK c \in 0 .. 2 * Number - 1 : c = ndims' + d
    <3>1. ndims' + d \in 0 .. 2 * Number - 1
      BY <1>0
    <3> QED
      BY <3>1
  <2>2. c # ndims
    BY <1>0, <2>1
  <2>3. CASE c \in OffsetsSet(ndims)
    BY <1>1, <2>1, <2>2, <2>3
  <2>4. CASE c \notin OffsetsSet(ndims)
    <3>1. c # 2 * ndims + 1 /\ (ndims > 0 => c # 2 * ndims)
      BY <2>4 DEF OffsetsSet
    <3>2. d + 1 \in 0 .. ndims - 1 /\ c = ndims + (d + 1)
      BY <1>0, <2>1, <3>1
    <3>3. cells[ndims + (d + 1)] = 0
      BY <1>0, <3>2 DEF MultidimInv
    <3>4. cells'[c] = cells[c]
      BY <1>1, <2>2, <2>4
    <3> QED
      BY <2>1, <3>2, <3>3, <3>4
  <2> QED
    BY <2>3, <2>4
<1>4. Complete' => IsOffset(Number, shape, Offsets')
  <2> SUFFICES ASSUME Complete' PROVE IsOffset(Number, shape, Offsets')
    OBVIOUS
  <2>1. ndims' = Number
    BY <1>0 DEF Complete, Number
  <2>2. \A d \in 0 .. Number - 1 : Offsets'[d] = 0
    BY <1>0, <1>3, <2>1 DEF Offsets, Offset
  <2> QED
    BY <1>0, <2>2, ZeroIsOffset
<1>5. AgreeBelow(ndims', cells', shape)
  BY <1>2 DEF AgreeBelow
<1>6. ndims' \in 0 .. Number
  BY <1>0
<1>7. MultidimInv'
  BY <1>0, <1>1, <1>3, <1>4, <1>5, <1>6 DEF MultidimInv
<1> QED
  BY <1>3, <1>7

LEMMA InitAllKeeps ==
  ASSUME MultidimInv, InitAll
  PROVE  MultidimInv' /\ \A d \in 0 .. ndims' - 1 : cells'[ndims' + d] = 0
<1>0. /\ Number' = Number /\ Dims' = Dims /\ Dims = 0 .. Number - 1
      /\ Number \in Nat \ {0} /\ IsShape(Number, shape)
      /\ ndims' = Number /\ DOMAIN cells = 0 .. 2 * Number - 1
      /\ shape' = shape /\ that' = that /\ Complete'
  <2>1. Dims = 0 .. Number - 1 /\ IsShape(Number, shape)
    BY ShapeFacts DEF MultidimInv
  <2> QED
    BY <2>1 DEF MultidimInv, InitAll, Number, Dims, Complete, IsShape
<1>1. /\ DOMAIN cells' = 0 .. 2 * Number - 1
      /\ \A c \in 0 .. 2 * Number - 1 :
           cells'[c] = IF c \in 0 .. Number - 1 THEN shape[c] ELSE 0
  BY <1>0 DEF InitAll
<1>2. AgreeBelow(Number, cells', shape)
  BY <1>0, <1>1 DEF AgreeBelow
<1>3. ASSUME NEW d \in 0 .. Number - 1 PROVE cells'[Number + d] = 0
  <2>1. Number + d \in 0 .. 2 * Number - 1 /\ Number + d \notin 0 .. Number - 1
    BY <1>0
  <2> QED
    BY <1>1, <2>1
<1>4. \A d \in 0 .. Number - 1 : Offsets'[d] = 0
  BY <1>0, <1>3 DEF Offsets, Offset
<1>5. IsOffset(Number, shape, Offsets')
  BY <1>0, <1>4, ZeroIsOffset
<1>6. MultidimInv'
  BY <1>0, <1>1, <1>2, <1>5 DEF MultidimInv
<1> QED
  BY <1>0, <1>3, <1>6

LEMMA InitMultidimInv == MultidimInit => MultidimInv
<1> SUFFICES ASSUME MultidimInit PROVE MultidimInv
  OBVIOUS
<1>1. /\ shape \in Shapes /\ ndims = 0 /\ that = Start
      /\ DOMAIN cells = 0 .. 2 * Number - 1
  BY DEF MultidimInit, Number
<1>2. /\ Dims = 0 .. Number - 1 /\ IsShape(Number, shape)
      /\ Number \in Nat \ {0}
  BY <1>1, ShapeFacts DEF IsShape
<1>3. IsOffset(Number, shape, that)
  <2>1. \A d \in 0 .. Number - 1 : that[d] = 0
    BY <1>1, <1>2 DEF Start
  <2> QED
    BY <1>2, <2>1, ZeroIsOffset
<1>4. ndims \in 0 .. Number /\ ~Complete
  BY <1>1, <1>2 DEF Complete, Number
<1>5. AgreeBelow(ndims, cells, shape)
  BY <1>1 DEF AgreeBelow
<1>6. \A d \in 0 .. ndims - 1 : cells[ndims + d] = 0
  BY <1>1
<1> QED
  BY <1>1, <1>3, <1>4, <1>5, <1>6 DEF MultidimInv

\* A step of the iterator, as MultidimMoves tells it.
MovesTo(index) ==
  Complete' =>
    /\ FlatIndex' = index
    /\ IsAtStart' = (FlatIndex' = 0)
    /\ IsAtEnd' = (FlatIndex' = TotalSize')

AdvancesTo ==
  LET to == FlatIndex + move'.step * Stride(move'.dim)
  IN IF to > TotalSize THEN TotalSize ELSE to

RecedesTo ==
  LET to == FlatIndex - move'.step * Stride(move'.dim)
  IN IF to < 0 THEN 0 ELSE to

Told ==
  CASE move'.op = "advance" -> AdvancesTo
    [] move'.op = "recede" -> RecedesTo
    [] move'.op \in {"init", "start"} -> 0
    [] move'.op = "end" -> TotalSize
    [] move'.op = "copy" -> FlatIndex
    [] move'.op = "copy back" -> FlatIndexOf(that)

\* An iterator that was given its dimensions is at the start.
LEMMA InitMoves ==
  ASSUME MultidimInv', shape \in Shapes, shape' = shape,
         \A d \in 0 .. ndims' - 1 : cells'[ndims' + d] = 0
  PROVE  MovesTo(0)
<1> SUFFICES ASSUME Complete'
             PROVE  /\ FlatIndex' = 0
                    /\ IsAtStart' = (FlatIndex' = 0)
                    /\ IsAtEnd' = (FlatIndex' = TotalSize')
  BY DEF MovesTo
<1>1. /\ Dims' = Dims /\ Number' = Number /\ ndims' = Number
      /\ Dims = 0 .. Number - 1 /\ IsShape(Number, shape)
  BY ShapeFacts DEF Dims, Number, Complete
<1>2. \A d \in 0 .. Number - 1 : Offsets'[d] = 0
  BY <1>1 DEF Offsets, Offset
<1>3. AllNatural(Number, Offsets')
  BY <1>2 DEF AllNatural
<1>4. PICK W : IsWeight(W, Number, shape)
  BY <1>1, WeightOf
<1>5. PICK V : IsValue(V, Number, W, Offsets')
  BY <1>1, <1>3, <1>4, ValueExists
<1>6. V[Number] = 0
  BY <1>1, <1>2, <1>3, <1>4, <1>5, StartIsZero
<1> QED
  BY <1>4, <1>5, <1>6, ReadsAfter

LEMMA InitDimMoves ==
  ASSUME MultidimInv, InitDim PROVE MultidimInv' /\ MovesTo(Told)
<1>1. MultidimInv' /\ \A d \in 0 .. ndims' - 1 : cells'[ndims' + d] = 0
  BY InitDimKeeps
<1>2. MovesTo(0)
  BY <1>1, InitMoves DEF MultidimInv, InitDim
<1>3. Told = 0
  BY DEF InitDim, Moved, Told
<1> QED
  BY <1>1, <1>2, <1>3

LEMMA InitAllMoves ==
  ASSUME MultidimInv, InitAll PROVE MultidimInv' /\ MovesTo(Told)
<1>1. MultidimInv' /\ \A d \in 0 .. ndims' - 1 : cells'[ndims' + d] = 0
  BY InitAllKeeps
<1>2. MovesTo(0)
  BY <1>1, InitMoves DEF MultidimInv, InitAll
<1>3. Told = 0
  BY DEF InitAll, Moved, Told
<1> QED
  BY <1>1, <1>2, <1>3

\* A call that writes the offsets p, which count up to index.
LEMMA WrittenMoves ==
  ASSUME MultidimInv, Complete, NEW p, IsOffset(Number, shape, p),
         cells' = WithOffsets(p), UNCHANGED << shape, ndims, that >>,
         NEW index,
         \A W, V, U : /\ IsWeight(W, Number, shape)
                      /\ IsValue(V, Number, W, Offsets)
                      /\ IsValue(U, Number, W, p)
                      => U[Number] = index
  PROVE  MultidimInv' /\ MovesTo(index)
<1>1. /\ IsShape(Number, shape) /\ IsOffset(Number, shape, Offsets)
      /\ AllNatural(Number, Offsets) /\ AllNatural(Number, p)
  BY WhileComplete, OffsetNatural
<1>2. PICK W : IsWeight(W, Number, shape)
  BY <1>1, WeightOf
<1>3. PICK V : IsValue(V, Number, W, Offsets)
  BY <1>1, <1>2, ValueExists
<1>4. PICK U : IsValue(U, Number, W, p)
  BY <1>1, <1>2, ValueExists
<1>5. U[Number] = index
  BY <1>2, <1>3, <1>4
<1>6. MultidimInv'
  BY WrittenKeeps
<1>7. MovesTo(index)
  BY <1>2, <1>4, <1>5, WrittenReads DEF MovesTo
<1> QED
  BY <1>6, <1>7

LEMMA AdvanceMoves ==
  ASSUME MultidimInv, NEW dim \in Dims, NEW step \in 0 .. MaxStep,
         Advance(dim, step)
  PROVE  MultidimInv' /\ MovesTo(Told)
<1>1. /\ Complete /\ cells' = WithOffsets(AdvancedBy(dim, step))
      /\ UNCHANGED << shape, ndims, that >>
      /\ move'.op = "advance" /\ move'.dim = dim /\ move'.step = step
  BY DEF Advance, Moved
<1>2. IsOffset(Number, shape, AdvancedBy(dim, step))
  BY <1>1, AdvancedRight
<1>3. ASSUME NEW W, NEW V, NEW U, IsWeight(W, Number, shape),
             IsValue(V, Number, W, Offsets),
             IsValue(U, Number, W, AdvancedBy(dim, step))
      PROVE  U[Number] = AdvancesTo
  <2>1. U[Number] = IF V[Number] + step * W[dim + 1] > W[0] THEN W[0]
                    ELSE V[Number] + step * W[dim + 1]
    BY <1>1, <1>3, AdvancedRight
  <2>2. /\ FlatIndex = V[Number] /\ TotalSize = W[0]
        /\ Stride(dim) = W[dim + 1]
    BY <1>1, <1>3, ReadsBefore
  <2> QED
    BY <1>1, <2>1, <2>2 DEF AdvancesTo
<1>4. Told = AdvancesTo
  BY <1>1 DEF Told
<1> QED
  BY <1>1, <1>2, <1>3, <1>4, WrittenMoves

LEMMA RecedeMoves ==
  ASSUME MultidimInv, NEW dim \in Dims, NEW step \in 0 .. MaxStep,
         Recede(dim, step)
  PROVE  MultidimInv' /\ MovesTo(Told)
<1>1. /\ Complete /\ cells' = WithOffsets(RecededBy(dim, step))
      /\ UNCHANGED << shape, ndims, that >>
      /\ move'.op = "recede" /\ move'.dim = dim /\ move'.step = step
  BY DEF Recede, Moved
<1>2. IsOffset(Number, shape, RecededBy(dim, step))
  BY <1>1, RecededRight
<1>3. ASSUME NEW W, NEW V, NEW U, IsWeight(W, Number, shape),
             IsValue(V, Number, W, Offsets),
             IsValue(U, Number, W, RecededBy(dim, step))
      PROVE  U[Number] = RecedesTo
  <2>1. U[Number] = IF V[Number] - step * W[dim + 1] < 0 THEN 0
                    ELSE V[Number] - step * W[dim + 1]
    BY <1>1, <1>3, RecededRight
  <2>2. FlatIndex = V[Number] /\ Stride(dim) = W[dim + 1]
    BY <1>1, <1>3, ReadsBefore
  <2> QED
    BY <1>1, <2>1, <2>2 DEF RecedesTo
<1>4. Told = RecedesTo
  BY <1>1 DEF Told
<1> QED
  BY <1>1, <1>2, <1>3, <1>4, WrittenMoves

LEMMA StartMoves ==
  ASSUME MultidimInv, SetTo("start", Start)
  PROVE  MultidimInv' /\ MovesTo(Told)
<1>1. /\ Complete /\ cells' = WithOffsets(Start)
      /\ UNCHANGED << shape, ndims, that >> /\ move'.op = "start"
  BY DEF SetTo, Moved
<1>2. IsShape(Number, shape) /\ \A d \in 0 .. Number - 1 : Start[d] = 0
  BY <1>1, WhileComplete DEF Start
<1>3. IsOffset(Number, shape, Start)
  BY <1>2, ZeroIsOffset
<1>4. ASSUME NEW W, NEW V, NEW U, IsWeight(W, Number, shape),
             IsValue(V, Number, W, Offsets), IsValue(U, Number, W, Start)
      PROVE  U[Number] = 0
  BY <1>2, <1>3, <1>4, OffsetNatural, StartIsZero
<1>5. Told = 0
  BY <1>1 DEF Told
<1> QED
  BY <1>1, <1>3, <1>4, <1>5, WrittenMoves

LEMMA EndMoves ==
  ASSUME MultidimInv, SetTo("end", AtLast)
  PROVE  MultidimInv' /\ MovesTo(Told)
<1>1. /\ Complete /\ cells' = WithOffsets(AtLast)
      /\ UNCHANGED << shape, ndims, that >> /\ move'.op = "end"
  BY DEF SetTo, Moved
<1>2. /\ IsShape(Number, shape)
      /\ \A d \in 0 .. Number - 1 : AtLast[d] = Highest(Number, shape, d)
  BY <1>1, WhileComplete, AtLastRight
<1>3. IsOffset(Number, shape, AtLast)
  BY <1>2, LastIsOffset
<1>4. ASSUME NEW W, NEW V, NEW U, IsWeight(W, Number, shape),
             IsValue(V, Number, W, Offsets), IsValue(U, Number, W, AtLast)
      PROVE  U[Number] = TotalSize
  <2>1. U[Number] = W[0]
    BY <1>2, <1>3, <1>4, EndIsLast
  <2>2. TotalSize = W[0]
    BY <1>1, <1>4, ReadsBefore
  <2> QED
    BY <2>1, <2>2
<1>5. Told = TotalSize
  BY <1>1 DEF Told
<1> QED
  BY <1>1, <1>3, <1>4, <1>5, WrittenMoves

LEMMA CellsCount ==
  ASSUME NEW n, NEW c, NEW o, NEW W, NEW V, IsShape(n, c), IsWeight(W, n, c),
         AllNatural(n, o), IsValue(V, n, W, o), NEW cc, AgreeBelow(n, cc, c)
  PROVE  HornerOf(n, cc, o) = V[n]
<1>1. AgreeBelow(n, o, o)
  BY DEF AgreeBelow
<1> QED
  BY <1>1, ValueOf

LEMMA CopyBackMoves ==
  ASSUME MultidimInv, SetTo("copy back", that)
  PROVE  MultidimInv' /\ MovesTo(Told)
<1>1. /\ Complete /\ cells' = WithOffsets(that)
      /\ UNCHANGED << shape, ndims, that >> /\ move'.op = "copy back"
  BY DEF SetTo, Moved
<1>2. /\ IsShape(Number, shape) /\ ndims = Number
      /\ AgreeBelow(Number, cells, shape)
  BY <1>1, WhileComplete DEF MultidimInv
<1>3. IsOffset(Number, shape, that)
  BY DEF MultidimInv
<1>4. ASSUME NEW W, NEW V, NEW U, IsWeight(W, Number, shape),
             IsValue(V, Number, W, Offsets), IsValue(U, Number, W, that)
      PROVE  U[Number] = FlatIndexOf(that)
  <2>1. HornerOf(Number, cells, that) = U[Number]
    <3>1. AllNatural(Number, that)
      BY <1>2, <1>3, OffsetNatural
    <3>2. /\ IsShape(Number, shape) /\ IsWeight(W, Number, shape)
          /\ IsValue(U, Number, W, that) /\ AgreeBelow(Number, cells, shape)
      BY <1>2, <1>4
    <3> QED
      BY <3>1, <3>2, CellsCount
  <2> QED
    BY <1>2, <2>1, FlatIs
<1>5. Told = FlatIndexOf(that)
  BY <1>1 DEF Told
<1> QED
  BY <1>1, <1>3, <1>4, <1>5, WrittenMoves

LEMMA CopyMoves ==
  ASSUME MultidimInv, CopyTo
  PROVE  MultidimInv' /\ MovesTo(Told)
<1>1. /\ Complete /\ UNCHANGED << shape, ndims, cells >> /\ move'.op = "copy"
      /\ that' = Offsets
  BY DEF CopyTo, Moved, Offsets
<1>2. /\ Number' = Number /\ Dims' = Dims /\ Complete' /\ Offsets' = Offsets
      /\ IsShape(Number, shape) /\ IsOffset(Number, shape, Offsets)
  BY <1>1, WhileComplete DEF Number, Dims, Complete, Offsets, Offset
<1>3. MultidimInv'
  BY <1>1, <1>2 DEF MultidimInv
<1>4. PICK W : IsWeight(W, Number, shape)
  BY <1>2, WeightOf
<1>5. PICK V : IsValue(V, Number, W, Offsets)
  BY <1>2, <1>4, OffsetNatural, ValueExists
<1>6. FlatIndex = V[Number]
  BY <1>1, <1>4, <1>5, ReadsBefore
<1>7. /\ FlatIndex' = V[Number]
      /\ IsAtStart' = (FlatIndex' = 0)
      /\ IsAtEnd' = (FlatIndex' = TotalSize')
  BY <1>1, <1>2, <1>3, <1>4, <1>5, ReadsAfter
<1>8. Told = FlatIndex
  BY <1>1 DEF Told
<1> QED
  BY <1>3, <1>6, <1>7, <1>8 DEF MovesTo

LEMMA NextMultidim ==
  ASSUME MultidimInv, MultidimNext
  PROVE  MultidimInv' /\ MovesTo(Told)
<1>1. CASE InitDim
  BY <1>1, InitDimMoves
<1>2. CASE InitAll
  BY <1>2, InitAllMoves
<1>3. ASSUME NEW dim \in Dims, NEW step \in 0 .. MaxStep, Advance(dim, step)
      PROVE  MultidimInv' /\ MovesTo(Told)
  BY <1>3, AdvanceMoves
<1>4. ASSUME NEW dim \in Dims, NEW step \in 0 .. MaxStep, Recede(dim, step)
      PROVE  MultidimInv' /\ MovesTo(Told)
  BY <1>4, RecedeMoves
<1>5. CASE SetTo("start", Start)
  BY <1>5, StartMoves
<1>6. CASE SetTo("end", AtLast)
  BY <1>6, EndMoves
<1>7. CASE CopyTo
  BY <1>7, CopyMoves
<1>8. CASE SetTo("copy back", that)
  BY <1>8, CopyBackMoves
<1> QED
  BY <1>1, <1>2, <1>3, <1>4, <1>5, <1>6, <1>7, <1>8 DEF MultidimNext

LEMMA MultidimStep ==
  MultidimInv /\ [MultidimNext]_multidimVars => MultidimInv'
<1>1. ASSUME MultidimInv, UNCHANGED multidimVars PROVE MultidimInv'
  BY <1>1 DEF multidimVars, MultidimInv, Number, Dims, Complete, AgreeBelow,
     Offsets, Offset
<1> QED
  BY <1>1, NextMultidim

(* Once every dimension was given, the iterator holds those asked for, and *)
(* whatever was advanced, receded, set or copied, each offset lies within  *)
(* its dimension: below it, the last one also at it, where the end is.     *)
THEOREM MultidimTypeCorrect == MultidimSpec => []MultidimTypeOK
<1>1. MultidimInv => MultidimTypeOK
  <2> SUFFICES ASSUME MultidimInv, Complete, NEW d \in Dims
               PROVE  /\ Dim(d) = shape[d]
                      /\ Offset(d) \in 0 .. (IF d = LastDim THEN Dim(d)
                                             ELSE Dim(d) - 1)
    BY DEF MultidimTypeOK
  <2>1. /\ d \in 0 .. Number - 1 /\ IsOffset(Number, shape, Offsets)
        /\ Dim(d) = shape[d] /\ Offset(d) = Offsets[d]
        /\ LastDim = Number - 1
    BY WhileComplete
  <2> QED
    BY <2>1 DEF IsOffset, Highest
<1> QED
  BY <1>1, InitMultidimInv, MultidimStep, PTL DEF MultidimSpec

(* What an operation does to the offsets, carrying and borrowing from one  *)
(* dimension to the next, is what it does to the flat index: advancing a   *)
(* dimension adds its stride times the step and stops at the total size,   *)
(* receding takes it and stops at zero, the start is zero, the end the     *)
(* total size, a copy counts what was copied.  And the iterator says it is *)
(* at its start, or its end, exactly when it is.                           *)
THEOREM MultidimMovesRight == MultidimSpec => MultidimMoves
<1>1. ASSUME MultidimInv, MultidimNext
      PROVE  Complete' =>
       /\ FlatIndex' =
            CASE move'.op = "advance" ->
                   LET to == FlatIndex + move'.step * Stride(move'.dim)
                   IN IF to > TotalSize THEN TotalSize ELSE to
              [] move'.op = "recede" ->
                   LET to == FlatIndex - move'.step * Stride(move'.dim)
                   IN IF to < 0 THEN 0 ELSE to
              [] move'.op \in {"init", "start"} -> 0
              [] move'.op = "end" -> TotalSize
              [] move'.op = "copy" -> FlatIndex
              [] move'.op = "copy back" -> FlatIndexOf(that)
       /\ IsAtStart' = (FlatIndex' = 0)
       /\ IsAtEnd' = (FlatIndex' = TotalSize')
  BY <1>1, NextMultidim DEF MovesTo, Told, AdvancesTo, RecedesTo
<1>2. MultidimInv /\ [MultidimNext]_multidimVars
        => [Complete' =>
       /\ FlatIndex' =
            CASE move'.op = "advance" ->
                   LET to == FlatIndex + move'.step * Stride(move'.dim)
                   IN IF to > TotalSize THEN TotalSize ELSE to
              [] move'.op = "recede" ->
                   LET to == FlatIndex - move'.step * Stride(move'.dim)
                   IN IF to < 0 THEN 0 ELSE to
              [] move'.op \in {"init", "start"} -> 0
              [] move'.op = "end" -> TotalSize
              [] move'.op = "copy" -> FlatIndex
              [] move'.op = "copy back" -> FlatIndexOf(that)
       /\ IsAtStart' = (FlatIndex' = 0)
       /\ IsAtEnd' = (FlatIndex' = TotalSize')]_multidimVars
  BY <1>1
<1> QED
  BY <1>2, InitMultidimInv, MultidimStep, PTL DEF MultidimSpec, MultidimMoves
=============================================================================
