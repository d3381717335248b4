-------------------------------- MODULE Text --------------------------------
(***************************************************************************)
(* A string stream, an output stream, the formatting of an integer and the *)
(* splitting of a string: they share no state, and each behaviour follows  *)
(* one of them.                                                            *)
(***************************************************************************)
EXTENDS StringStream, OutputStream, IntegerFormat, StringSplit

VARIABLE which    \* the part that is followed

textVars == << which, stringVars, outputVars, integerVars, splitVars >>

NoInteger ==
  /\ number \in [value : {0}, spec : {CHOOSE s \in IntegerSpecs : TRUE}]
  /\ phase = "refused"
  /\ room = 0 /\ rest = 0 /\ counter = 0 /\ written = 0 /\ zeros = 0

NoSplit ==
  /\ str = << >> /\ delimiter = << >> /\ room_count = 0
  /\ output = << >> /\ count = 0 /\ splitOf = [text |-> << >>, done |-> FALSE]

TextInit ==
  /\ which \in {"string", "output", "integer", "split"}
  /\ StringInit
  /\ OutputInit
  /\ IF which = "integer" THEN IntegerInit ELSE NoInteger
  /\ IF which = "split" THEN SplitInit ELSE NoSplit

TextNext ==
  /\ UNCHANGED which
  /\ \/ /\ which = "string" /\ StringNext
        /\ UNCHANGED << outputVars, integerVars, splitVars >>
     \/ /\ which = "output" /\ OutputNext
        /\ UNCHANGED << stringVars, integerVars, splitVars >>
     \/ /\ which = "integer" /\ IntegerNext
        /\ UNCHANGED << stringVars, outputVars, splitVars >>
     \/ /\ which = "split" /\ SplitNext
        /\ UNCHANGED << stringVars, outputVars, integerVars >>

TextSpec == TextInit /\ [][TextNext]_textVars

\* Every variable has its type: no stream holds more than its buffer, the
\* string stream until a write overflows it.
TextTypeOK == StringTypeOK /\ OutputTypeOK
=============================================================================
