---------------------------- MODULE FormatStreams ----------------------------
(***************************************************************************)
(* What the string stream and the output stream have in common             *)
(* (format_streams.h): the values that are written, and the loop of        *)
(* string_stream_format and output_stream_format over a list of them.      *)
(*                                                                         *)
(* A value is the text it is written as.  Integers, floats and exponential *)
(* notation are "number": the streams treat them alike.  A number that     *)
(* misses separators leaves bytes of the space it asked for unwritten      *)
(* (IntegerFormat): these are Skipped in its text.  Only the caller's      *)
(* function for "custom" values fails: the formatters (format.c) refuse    *)
(* nothing but a space of another length than they asked for.              *)
(***************************************************************************)
EXTENDS Sequences, Integers

CONSTANT Skipped    \* a byte that is not written, though there is space for it

Strings == {"s8", "cstr"}
Formatted == {"number", "custom"}

\* A value of a type that there is not, given by mistake.
Unknown == [kind |-> "unknown"]

Answer(op, arg, status) == [op |-> op, arg |-> arg, status |-> status]

-----------------------------------------------------------------------------
(***************************************************************************)
(* The loop over args, up to the one of type FMT_END                       *)
(***************************************************************************)

End == [kind |-> "end"]

\* No format call is under way.
Idle == [args |-> << >>, res |-> "SUCCESS"]

Called(args) == [args |-> Append(args, End), res |-> "SUCCESS"]

\* ++args, after a value.  The results of writing strings are ignored.
Progress(call, status) ==
  [args |-> Tail(call.args),
   res |-> IF Head(call.args).kind \in Strings THEN "SUCCESS" ELSE status]

\* for (res = CUTL_SUCCESS; res == CUTL_SUCCESS && args->type != FMT_END; )
IsLooping(call) ==
  /\ call # Idle
  /\ call.res = "SUCCESS"
  /\ Head(call.args) # End

IsFormatted(call) == call # Idle /\ ~IsLooping(call)
=============================================================================
