------------------------------ MODULE Numeral -------------------------------
(***************************************************************************)
(* Integers as bytes, in src/protocol.rs: the loop of parse_i64, one byte a *)
(* step, and the loop of write_u64, one digit a step.  A behaviour parses   *)
(* given bytes, or writes an i64 (write_signed_integer; INCR stores its     *)
(* result in the same form) and parses what it has written.                 *)
(***************************************************************************)
EXTENDS Decimal

CONSTANTS
    I64Max,     \* the largest i64
    Numerals    \* bytes given to parse_i64

ASSUME NumeralAssumption == I64Max \in Nat /\ Numerals \subseteq Seq(0..255)

NotANumber == I64Max + 1   \* None

VARIABLES
    numeral,    \* the bytes
    goal,       \* the number they are written for, or NotANumber
    rest,       \* write_u64: n, what is left to write
    index, val, \* parse_i64: bytes consumed, and their value
    stage       \* "write", "parse", "digits"; "number", "refused"

numeralVars == <<numeral, goal, rest, index, val, stage>>

\* (-i) as u64, which in a release build is the magnitude of the least i64 too.
Abs(i) == IF i < 0 THEN -i ELSE i

GivenBytes(b) == numeral = b /\ goal = NotANumber /\ rest = 0 /\ index = 0 /\ val = 0 /\ stage = "parse"
GivenNumber(i) == numeral = <<>> /\ goal = i /\ rest = Abs(i) /\ index = 0 /\ val = 0 /\ stage = "write"

NumeralInit == (\E b \in Numerals : GivenBytes(b)) \/ (\E i \in -(I64Max + 1)..I64Max : GivenNumber(i))

\* A round of write_u64: the buffer is filled from its end.
WriteDigit ==
    /\ stage = "write" /\ rest > 0
    /\ numeral' = <<48 + (rest % 10)>> \o numeral /\ rest' = rest \div 10
    /\ UNCHANGED <<goal, index, val, stage>>

\* Zero is written without the loop; a negative number has its sign in front.
WriteEnd ==
    /\ stage = "write" /\ rest = 0
    /\ numeral' = (IF goal < 0 THEN <<MINUS>> ELSE <<>>) \o (IF goal = 0 THEN <<48>> ELSE numeral)
    /\ stage' = "parse"
    /\ UNCHANGED <<goal, rest, index, val>>

\* negative, start
Sign(b) == IF b # <<>> /\ b[1] = MINUS THEN 1 ELSE 0

ParseStart ==
    /\ stage = "parse"
    /\ stage' = IF Sign(numeral) >= Len(numeral) THEN "refused" ELSE "digits"
    /\ index' = Sign(numeral) /\ val' = 0
    /\ UNCHANGED <<numeral, goal, rest>>

\* Mutant of PushDigit: the sum may leave the range.
PushDigitUnchecked(v, d) == IF d \notin Digits THEN NotANumber ELSE v * 10 + Digit(d)

\* A round of parse_i64: is_ascii_digit, checked_mul, checked_add.
PushDigit(v, d) == IF d \notin Digits \/ v * 10 + Digit(d) > I64Max THEN NotANumber ELSE v * 10 + Digit(d)

ParseByte ==
    /\ stage = "digits" /\ index < Len(numeral)
    /\ val' = PushDigit(val, numeral[index + 1])
    /\ index' = index + 1
    /\ stage' = IF val' = NotANumber THEN "refused" ELSE stage
    /\ UNCHANGED <<numeral, goal, rest>>

\* The magnitude is negated at the end.
ParseEnd ==
    /\ stage = "digits" /\ index = Len(numeral)
    /\ stage' = "number" /\ val' = IF Sign(numeral) = 1 THEN -val ELSE val
    /\ UNCHANGED <<numeral, goal, rest, index>>

NumeralNext == WriteDigit \/ WriteEnd \/ ParseStart \/ ParseByte \/ ParseEnd

NumeralSpec == NumeralInit /\ [][NumeralNext]_numeralVars

----------------------------------------------------------------------------

Magnitude(b) == Meaning(b, Sign(b), 0)
WellFormed(b) == Sign(b) < Len(b) /\ \A i \in Sign(b) + 1..Len(b) : b[i] \in Digits

\* parse_i64 accepts a numeral if and only if its magnitude is at most the largest i64, and
\* then reads its value.  So every i64 that is written is read back, but the least, whose
\* magnitude is one too large.
ParseExact ==
    /\ stage = "number" =>
          /\ WellFormed(numeral) /\ Magnitude(numeral) <= I64Max
          /\ val = IF Sign(numeral) = 1 THEN -Magnitude(numeral) ELSE Magnitude(numeral)
          /\ goal # NotANumber => val = goal
    /\ stage = "refused" =>
          /\ WellFormed(numeral) => Magnitude(numeral) > I64Max
          /\ goal # NotANumber => goal = -(I64Max + 1)
=============================================================================
