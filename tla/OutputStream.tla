---------------------------- MODULE OutputStream ----------------------------
(***************************************************************************)
(* The output stream (output_stream.c), which gathers text in a buffer and *)
(* writes it to a file when the buffer is full or is flushed.              *)
(*                                                                         *)
(* Bytes are numbered in the order callers give them.  fwrite may write    *)
(* part of what it is given and fflush may fail: a bounded number of times *)
(* here.  What fwrite took is counted as in the file.                      *)
(***************************************************************************)
EXTENDS FormatStreams, Functions

CONSTANTS
  OutputSize,      \* buffer_size
  OutputValues,    \* the values callers write: a kind, a length, and whether
                   \* the formatter fails
  OutputArgs,      \* those they write by lists, and values of unknown type
  MaxGiven,        \* bound: the bytes callers give
  MaxFailures      \* bound: how often the file fails

OutputWritable ==
  [kind : Strings \cup Formatted, length : Nat, fails : BOOLEAN]

\* Without a buffer, output_stream_write_cstr never ends.
ASSUME OutputStreamAssumption ==
  /\ OutputSize \in Nat \ {0}
  /\ MaxGiven \in Nat
  /\ MaxFailures \in Nat
  /\ OutputValues \subseteq OutputWritable
  /\ OutputArgs \subseteq OutputWritable \cup {Unknown}

VARIABLES
  file,       \* the bytes in the file
  pending,    \* the bytes in the buffer, up to buffer_pos
  given,      \* how many bytes callers gave
  promised,   \* the bytes that writes took and owe the file
  failures,   \* how often the file failed
  outCall,    \* the format call that is under way
  outRet      \* the last write or other call

outputVars ==
  << file, pending, given, promised, failures, outCall, outRet >>

OutputInit ==
  /\ file = << >>
  /\ pending = << >>
  /\ given = 0
  /\ promised = {}
  /\ failures = 0
  /\ outCall = Idle
  /\ outRet = Answer("format", << >>, "SUCCESS")

-----------------------------------------------------------------------------

Room == OutputSize - Len(pending)

Fresh(length) == [i \in 1 .. length |-> given + i]

First(bytes, n) == SubSeq(bytes, 1, n)
Rest(bytes, n) == SubSeq(bytes, n + 1, Len(bytes))

Outcome(inFile, inBuffer, status) ==
  [file |-> inFile, pending |-> inBuffer, status |-> status]

\* fwrite of some bytes, that are no longer wanted if all are taken.
FileWrites(inFile, bytes, kept) ==
  {Outcome(inFile \o bytes, << >>, "SUCCESS")} \cup
  {Outcome(inFile \o First(bytes, n), kept, "FILE_IO_FAILURE") :
     n \in 0 .. Len(bytes) - 1}

\* Faulty: the buffer is emptied although not all of it was written.
FlushedForgetting(inFile, bytes) ==
  IF bytes = << >>
  THEN {Outcome(inFile, << >>, "SUCCESS")}
  ELSE FileWrites(inFile, bytes, << >>)

\* Faulty: what was written is left in the buffer.
FlushedKeeping(inFile, bytes) ==
  {Outcome(inFile \o bytes, bytes, "SUCCESS")}

\* output_stream_flush: the buffer is empty even if fflush fails, and whole
\* if fwrite does.
Flushed(inFile, bytes) ==
  IF bytes = << >>
  THEN {Outcome(inFile, << >>, "SUCCESS")}
  ELSE FileWrites(inFile, bytes, bytes) \cup
       {Outcome(inFile \o bytes, << >>, status) :
          status \in {"FILE_IO_FAILURE", "FAILURE"}}

Failed(o) == o.status # "SUCCESS"

\* No flush was needed.
Unflushed == {Outcome(file, pending, "SUCCESS")}

\* After an outcome, more bytes are buffered.
Buffered(o, bytes) == [o EXCEPT !.pending = @ \o bytes]

-----------------------------------------------------------------------------

\* output_stream_write_u8.  Of text that does not fit, what does is copied to
\* the buffer, but not counted as written there: the flush leaves it out.
WriteU8(bytes) ==
  IF Len(bytes) <= Room
  THEN {Buffered(o, bytes) : o \in Unflushed}
  ELSE LET rest == Rest(bytes, Room)
       IN UNION {IF Failed(o) THEN {o}
                 ELSE IF Len(rest) >= OutputSize
                      THEN FileWrites(o.file, rest, << >>)
                      ELSE {Buffered(o, rest)} :
                   o \in Flushed(file, pending)}

\* How often output_stream_write_cstr flushes to write what is buffered and the
\* string: a full buffer is left when the string ends with it.
ChunkCount(bytes) ==
  IF bytes = << >> THEN 0 ELSE (Len(bytes) - 1) \div OutputSize

Chunk(bytes, k) == SubSeq(bytes, k * OutputSize + 1, (k + 1) * OutputSize)

\* output_stream_write_cstr: the buffer is filled and flushed until a flush
\* fails, or the string has ended.
WriteCstr(bytes) ==
  LET all == pending \o bytes
      n == ChunkCount(all)
      Upto(k) == file \o First(all, k * OutputSize)
  IN {Outcome(Upto(n), Rest(all, n * OutputSize), "SUCCESS")} \cup
     UNION {{o \in Flushed(Upto(k), Chunk(all, k)) : Failed(o)} :
              k \in 0 .. n - 1}

\* Faulty: a value that does not fit what remains is buffered all the same.
PlacesAnyway(length) == Unflushed

\* output_stream_get_output_string: the buffer is flushed to make room.
Places(length) ==
  IF Room < length THEN Flushed(file, pending) ELSE Unflushed

\* Numbers and custom values are written to the buffer in place; if that
\* fails the position is taken back.
PlaceFormatted(value, bytes) ==
  IF value.length > OutputSize
  THEN {Outcome(file, pending, "INSUFFICIENT_BUFFER")}
  ELSE {IF Failed(o) THEN o
        ELSE IF value.fails
             THEN [o EXCEPT !.status = "CALLBACK_FAILURE"]
             ELSE Buffered(o, bytes) :
          o \in Places(value.length)}

Outcomes(value, bytes) ==
  CASE value.kind = "s8" -> WriteU8(bytes)
    [] value.kind = "cstr" -> WriteCstr(bytes)
    [] OTHER -> PlaceFormatted(value, bytes)

-----------------------------------------------------------------------------

\* The bytes a successful write owes the file: not those of a string8_t that
\* does not fit, of which part is lost, see OutputKeepsLog.
Owed(value, bytes) ==
  IF value.kind = "s8" /\ Len(bytes) > Room THEN {} ELSE Range(bytes)

FileFailed(o) == o.status \in {"FILE_IO_FAILURE", "FAILURE"}

Meets(o) ==
  /\ file' = o.file
  /\ pending' = o.pending
  /\ failures' = failures + (IF FileFailed(o) THEN 1 ELSE 0)
  /\ failures' <= MaxFailures

\* A value is written, for a caller or for the format call under way.
OutputWrite(value) ==
  LET bytes == Fresh(value.length)
  IN /\ value.kind \in Strings \cup Formatted
     /\ given + value.length <= MaxGiven
     /\ given' = given + value.length
     /\ \E o \in Outcomes(value, bytes) :
          /\ Meets(o)
          /\ promised' = IF Failed(o) THEN promised
                         ELSE promised \cup Owed(value, bytes)
          /\ outRet' = Answer(value.kind, bytes, o.status)
          /\ outCall' =
               IF outCall = Idle THEN Idle ELSE Progress(outCall, o.status)

OutputFlush ==
  /\ \E o \in Flushed(file, pending) :
       Meets(o) /\ outRet' = Answer("flush", << >>, o.status)
  /\ UNCHANGED << given, promised, outCall >>

\* output_stream_format
OutputFormat(args) ==
  /\ outCall' = Called(args)
  /\ outRet' = Answer("format", << >>, "SUCCESS")
  /\ UNCHANGED << file, pending, given, promised, failures >>

OutputFormatValue == IsLooping(outCall) /\ OutputWrite(Head(outCall.args))

OutputFormatUnknown ==
  /\ IsLooping(outCall)
  /\ Head(outCall.args) = Unknown
  /\ outCall' = Idle
  /\ outRet' = Answer("format", << >>, "INVALID_TYPE_ENUM")
  /\ UNCHANGED << file, pending, given, promised, failures >>

OutputFormatReturns ==
  /\ IsFormatted(outCall)
  /\ outCall' = Idle
  /\ outRet' = Answer("format", << >>, outCall.res)
  /\ UNCHANGED << file, pending, given, promised, failures >>

OutputNext ==
  \/ /\ outCall = Idle
     /\ \/ \E value \in OutputValues : OutputWrite(value)
        \/ OutputFlush
        \/ \E a, b \in OutputArgs : OutputFormat(<< a, b >>)
  \/ OutputFormatValue
  \/ OutputFormatUnknown
  \/ OutputFormatReturns

OutputSpec == OutputInit /\ [][OutputNext]_outputVars

-----------------------------------------------------------------------------
(***************************************************************************)
(* Properties                                                              *)
(***************************************************************************)

\* Every variable has its type; never more is buffered than the buffer holds.
OutputTypeOK ==
  /\ file \in Seq(1 .. given)
  /\ pending \in Seq(1 .. given)
  /\ Len(pending) <= OutputSize
  /\ given \in 0 .. MaxGiven
  /\ promised \subseteq 1 .. given
  /\ failures \in 0 .. MaxFailures

\* What a write took is in the file or still in the buffer, whatever failed
\* since: a flush that the file cut short can be tried again.
OutputKeepsPromised == promised \subseteq Range(file) \cup Range(pending)

\* Once a flush answers success, the file has all that was taken before.
OutputFlushDelivers ==
  outRet.op = "flush" /\ outRet.status = "SUCCESS"
    => promised \subseteq Range(file)

\* As long as the file fails no write, it receives what callers gave in order,
\* each byte once at most, through the buffer or past it.
OutputInOrder ==
  failures = 0 =>
    LET all == file \o pending
    IN \A i, j \in 1 .. Len(all) : i < j => all[i] < all[j]

\* The file and the buffer hold the whole of every text written with success
\* ("Write a string to an output stream. @return CUTL_SUCCESS on success,
\* otherwise an error code.", output_stream.h): the code loses part of a
\* string8_t that does not fit.
OutputLog == INSTANCE TextLog WITH text <- file \o pending, ret <- outRet
OutputKeepsLog == OutputLog!Spec
=============================================================================
