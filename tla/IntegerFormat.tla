---------------------------- MODULE IntegerFormat ----------------------------
(***************************************************************************)
(* Writing an integer (format8_integer of format.c) to a string of just    *)
(* the length that format8_integer_length answers.                         *)
(*                                                                         *)
(* The length is computed from the number of digits; the digits and the    *)
(* separators between them are then written by a loop that counts for      *)
(* itself, from the right to the left, and zeros in front of them by       *)
(* another.  Only lengths are modelled: of the signs, the digits, the      *)
(* separator and the padding, and of what is left of the output.           *)
(***************************************************************************)
EXTENDS Integers

CONSTANTS
  Base,         \* the digits' base
  DigitBytes,   \* the length of each digit
  Numbers,      \* the values that are written
  IntegerSpecs  \* how they are

ASSUME IntegerFormatAssumption ==
  /\ Base \in Nat \ {0, 1}
  /\ DigitBytes \in [0 .. Base - 1 -> Nat]
  /\ Numbers \subseteq Int
  /\ IntegerSpecs \subseteq
       [minimum_digits : Nat, always_sign : BOOLEAN, plus : Nat, minus : Nat,
        separator_distance : Nat, minor_separator : Nat,
        padding_max : Nat, padding : Nat]

VARIABLES
  number,    \* the value and the specification
  phase,     \* what is written next
  room,      \* output.length
  rest,      \* what is left of the value
  counter,   \* minor_separator_counter
  written,   \* written_digits
  zeros      \* the leading zeros still to be written

integerVars == << number, phase, room, rest, counter, written, zeros >>

Value == number.value
IntegerSpec == number.spec
Distance == IntegerSpec.separator_distance

Absolute(v) == IF v < 0 THEN -v ELSE v

-----------------------------------------------------------------------------
(***************************************************************************)
(* The length (compute_integer_requirements, format8_integer_length)       *)
(***************************************************************************)

Require(bytes, units) == [bytes |-> bytes, units |-> units]

Both(a, b) == Require(a.bytes + b.bytes, a.units + b.units)

Times(n, bytes) == Require(n * bytes, n)

DigitsOf[v \in Nat] ==
  IF v = 0 THEN Require(0, 0)
  ELSE Both(DigitsOf[v \div Base], Require(DigitBytes[v % Base], 1))

\* compute_digit_requirements
DigitRequirements(v, spec) ==
  LET digits == DigitsOf[v]
      missing == spec.minimum_digits - digits.units
  IN IF missing > 0 THEN Both(digits, Times(missing, DigitBytes[0]))
                    ELSE digits

SignRequirements(v, spec) ==
  CASE v < 0 -> Require(spec.minus, 1)
    [] v >= 0 /\ spec.always_sign -> Require(spec.plus, 1)
    [] OTHER -> Require(0, 0)

\* Faulty: there is a separator for every full group of digits.
SeparatorCountOfGroups(units, distance) ==
  IF distance = 0 THEN 0 ELSE units \div distance

SeparatorCount(units, distance) ==
  IF distance = 0 \/ units = 0 THEN 0 ELSE (units - 1) \div distance

IntegerRequirements(v, spec) ==
  LET digits == DigitRequirements(Absolute(v), spec)
      separators == SeparatorCount(digits.units, spec.separator_distance)
  IN Both(Both(SignRequirements(v, spec), digits),
          Times(separators, spec.minor_separator))

PaddingUnits(v, spec) ==
  LET units == IntegerRequirements(v, spec).units
  IN IF units < spec.padding_max THEN spec.padding_max - units ELSE 0

IntegerLength(v, spec) ==
  IntegerRequirements(v, spec).bytes + PaddingUnits(v, spec) * spec.padding

-----------------------------------------------------------------------------
(***************************************************************************)
(* The writing                                                             *)
(***************************************************************************)

IntegerInit ==
  /\ number \in [value : Numbers, spec : IntegerSpecs]
  /\ phase = "called"
  /\ room = 0
  /\ rest = 0
  /\ counter = 0
  /\ written = 0
  /\ zeros = 0

\* The output's length must be the one that is required; then the padding is
\* written, on either side.
FormatInteger(length) ==
  /\ phase = "called"
  /\ IF length # IntegerLength(Value, IntegerSpec)
     THEN phase' = "refused" /\ UNCHANGED room
     ELSE /\ phase' = "sign"
          /\ room' = length - PaddingUnits(Value, IntegerSpec)
                                * IntegerSpec.padding
  /\ UNCHANGED << number, rest, counter, written, zeros >>

\* write_sign_ltr
WriteSign ==
  /\ phase = "sign"
  /\ room' = room - SignRequirements(Value, IntegerSpec).bytes
  /\ rest' = Absolute(Value)
  /\ phase' = "digits"
  /\ UNCHANGED << number, counter, written, zeros >>

\* Whether a separator is due after a digit that counts as the n-th since the
\* last one, and is not the last.
SeparatorDue(n, isLast) == ~isLast /\ n = Distance

\* Writes a digit, and the separator that may be due.
WriteWithSeparator(digit, isLast) ==
  LET due == SeparatorDue(counter + 1, isLast)
  IN /\ room' = room - DigitBytes[digit]
                     - (IF due THEN IntegerSpec.minor_separator ELSE 0)
     /\ counter' = IF due THEN 0 ELSE counter + 1

WriteDigit ==
  /\ phase = "digits"
  /\ rest # 0
  /\ WriteWithSeparator(rest % Base, rest \div Base = 0)
  /\ rest' = rest \div Base
  /\ written' = written + 1
  /\ UNCHANGED << number, phase, zeros >>

LeadingZeros ==
  IF IntegerSpec.minimum_digits <= written
  THEN 0 ELSE IntegerSpec.minimum_digits - written

\* All separators were written with the digits.
NeedNoSeparators == Distance = 0 \/ Distance >= counter + LeadingZeros

WriteZerosAtOnce ==
  /\ phase = "digits"
  /\ rest = 0
  /\ LeadingZeros = 0 \/ NeedNoSeparators
  /\ room' = room - LeadingZeros * DigitBytes[0]
  /\ phase' = "end"
  /\ UNCHANGED << number, rest, counter, written, zeros >>

BeginZeros ==
  /\ phase = "digits"
  /\ rest = 0
  /\ LeadingZeros # 0 /\ ~NeedNoSeparators
  /\ zeros' = LeadingZeros
  /\ phase' = "zeros"
  /\ UNCHANGED << number, room, rest, counter, written >>

WriteZero ==
  /\ phase = "zeros"
  /\ WriteWithSeparator(0, zeros = 1)
  /\ zeros' = zeros - 1
  /\ phase' = IF zeros = 1 THEN "end" ELSE "zeros"
  /\ UNCHANGED << number, rest, written >>

\* Callers that do not ask for the length first may pass one too many.
IntegerNext ==
  \/ \E extra \in {0, 1} : FormatInteger(IntegerLength(Value, IntegerSpec) + extra)
  \/ WriteSign
  \/ WriteDigit
  \/ WriteZerosAtOnce
  \/ BeginZeros
  \/ WriteZero

IntegerFormatSpec == IntegerInit /\ [][IntegerNext]_integerVars

-----------------------------------------------------------------------------
(***************************************************************************)
(* Properties                                                              *)
(***************************************************************************)

\* The digits end where a separator is due, and zeros follow: the counter is
\* past the distance from then on, and no more separators are written.
MissesSeparators ==
  /\ Distance > 0
  /\ written > 0
  /\ written % Distance = 0
  /\ IntegerSpec.minimum_digits > written

\* Nothing is ever written past the output, and in the end all of it is
\* written, except by numbers that miss separators.
IntegerFillsOutput ==
  /\ room >= 0
  /\ phase = "end" => (room = 0 \/ MissesSeparators)

\* All of the output is written ("Output length mismatch.", the assertion at
\* the end of format8_integer).
IntegerOutputMatches == phase = "end" => room = 0
=============================================================================
