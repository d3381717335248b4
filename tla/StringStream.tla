---------------------------- MODULE StringStream ----------------------------
(***************************************************************************)
(* The string stream (string_stream.c), whose text lies in a buffer of a   *)
(* fixed size.                                                             *)
(*                                                                         *)
(* Callers write values, singly or by a list (format), and take text back  *)
(* (clear, set_pos).  The buffer's bytes past the position keep what was   *)
(* there.                                                                  *)
(***************************************************************************)
EXTENDS FormatStreams

CONSTANTS
  StringSize,     \* buffer_size
  Bytes,          \* what callers write
  StringValues,   \* the values callers write, singly
  StringArgs,     \* the values they write by lists
  Garbage         \* what bytes are that nobody wrote, or a failed function

\* The values that can be written: only the caller's function fails, and only
\* numbers skip bytes.
StringWritable ==
  {value \in [kind : Strings \cup Formatted, text : Seq(Bytes \cup {Skipped}),
              fails : BOOLEAN] :
     /\ value.fails => value.kind = "custom"
     /\ value.kind = "number" \/ value.text \in Seq(Bytes)}

ASSUME StringStreamAssumption ==
  /\ StringSize \in Nat
  /\ StringValues \subseteq StringWritable
  /\ StringArgs \subseteq StringWritable \cup {Unknown}

VARIABLES
  buffer,   \* the bytes
  pos,      \* buffer_pos
  call,     \* the format call that is under way
  ret       \* the last write or other call

stringVars == << buffer, pos, call, ret >>

StringInit ==
  /\ buffer = [i \in 1 .. StringSize |-> Garbage]
  /\ pos = 0
  /\ call = Idle
  /\ ret = Answer("format", << >>, "SUCCESS")

-----------------------------------------------------------------------------

Remaining == StringSize - pos

\* What lies past the buffer is not the stream's.
Text ==
  [i \in 1 .. pos |-> IF i \in DOMAIN buffer THEN buffer[i] ELSE Garbage]

\* The buffer once bytes are written at the position, those that lie within it.
Copied(bytes) ==
  [i \in 1 .. StringSize |->
     IF i \in pos + 1 .. pos + Len(bytes) /\ bytes[i - pos] # Skipped
     THEN bytes[i - pos] ELSE buffer[i]]

\* Whether string_stream_get_output_string is asked for more than there is.
\* Its assertion is all that finds it; without it, the position moves past the
\* buffer and bytes are written there: the program is not followed further.
Overflows(value) == Len(value.text) > Remaining

Unless(value, status) == IF Overflows(value) THEN "UNDEFINED" ELSE status

\* A value is written for a caller, or for the format call under way.
Returns(value, status) ==
  /\ ret' = Answer(value.kind, value.text, status)
  /\ call' = IF call = Idle THEN Idle ELSE Progress(call, status)

Written(value) ==
  /\ buffer' = Copied(value.text)
  /\ pos' = pos + Len(value.text)
  /\ Returns(value, Unless(value, "SUCCESS"))

Refused(value, status) ==
  /\ UNCHANGED << buffer, pos >>
  /\ Returns(value, status)

\* string_stream_write_s8, string_stream_write_cstr
WriteString(value) ==
  /\ value.kind \in Strings
  /\ IF Remaining < Len(value.text)
     THEN Refused(value, "INSUFFICIENT_BUFFER")
     ELSE Written(value)

\* The whole buffer is what the text is compared with, not what remains of it.
IsTooLong(value) == Len(value.text) > StringSize

WriteRefused(value) ==
  /\ value.kind \in Formatted
  /\ IsTooLong(value)
  /\ Refused(value, "INSUFFICIENT_BUFFER")

WriteFormatted(value) ==
  /\ value.kind \in Formatted
  /\ ~IsTooLong(value)
  /\ ~value.fails
  /\ Written(value)

\* Faulty: the position is left where the failed text would end.
PositionAfterFailureKept(value) == pos + Len(value.text)

\* buffer_pos -= output.length
PositionAfterFailure(value) == pos

\* The function may have written any of its bytes.
WriteFails(value) ==
  /\ value.kind \in Formatted
  /\ ~IsTooLong(value)
  /\ value.fails
  /\ buffer' = Copied([i \in 1 .. Len(value.text) |-> Garbage])
  /\ pos' = PositionAfterFailure(value)
  /\ Returns(value, Unless(value, "CALLBACK_FAILURE"))

Write(value) ==
  \/ WriteString(value)
  \/ WriteRefused(value)
  \/ WriteFormatted(value)
  \/ WriteFails(value)

-----------------------------------------------------------------------------

\* string_stream_format
Format(args) ==
  /\ call' = Called(args)
  /\ ret' = Answer("format", << >>, "SUCCESS")
  /\ UNCHANGED << buffer, pos >>

FormatValue == IsLooping(call) /\ Write(Head(call.args))

\* A value of a type that there is not ends the call at once.
FormatUnknown ==
  /\ IsLooping(call)
  /\ Head(call.args) = Unknown
  /\ call' = Idle
  /\ ret' = Answer("format", << >>, "INVALID_TYPE_ENUM")
  /\ UNCHANGED << buffer, pos >>

FormatReturns ==
  /\ IsFormatted(call)
  /\ call' = Idle
  /\ ret' = Answer("format", << >>, call.res)
  /\ UNCHANGED << buffer, pos >>

\* string_stream_set_pos, and string_stream_clear, which sets it to 0
SetPos(p) ==
  /\ IF p > pos
     THEN /\ ret' = Answer("set_pos", p, "INDEX_OUT_OF_BOUNDS")
          /\ UNCHANGED pos
     ELSE /\ ret' = Answer("set_pos", p, "SUCCESS")
          /\ pos' = p
  /\ UNCHANGED << buffer, call >>

StringNext ==
  /\ ret.status # "UNDEFINED"
  /\ \/ /\ call = Idle
        /\ \/ \E value \in StringValues : Write(value)
           \/ \E a, b \in StringArgs : \E args \in {<< >>, << a >>, << a, b >>} :
                Format(args)
           \/ \E p \in 0 .. StringSize : SetPos(p)
     \/ FormatValue
     \/ FormatUnknown
     \/ FormatReturns

StringSpec == StringInit /\ [][StringNext]_stringVars

-----------------------------------------------------------------------------
(***************************************************************************)
(* Properties                                                              *)
(***************************************************************************)

\* Every variable has its type; the position lies within the buffer until a
\* write overflows it.
StringTypeOK ==
  /\ buffer \in [1 .. StringSize -> Bytes \cup {Garbage}]
  /\ pos \in Nat
  /\ ret.status # "UNDEFINED" => pos <= StringSize

\* Never is more handed out to be written to than remains of the buffer
\* ("Buffer too small for output string.", the assertion of
\* string_stream_get_output_string): the writers compare what they need with
\* the whole buffer.
StringInside == pos <= StringSize

\* The string is all that was written with success and not taken back, in
\* order, and no byte of a failed function is ever part of it, nor one that
\* nobody wrote, but where a number skipped it.  A write that overflows the
\* buffer, as StringInside tells, promises nothing.
Log == INSTANCE TextLog WITH text <- Text
StringKeepsLog == Log!Spec
=============================================================================
