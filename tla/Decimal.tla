------------------------------ MODULE Decimal -------------------------------
(* Bytes, as their ASCII codes, and what decimal digits mean. *)
EXTENDS Integers, Sequences

LF == 10
CR == 13
DOLLAR == 36
STAR == 42
MINUS == 45
Digits == 48..57
Digit(d) == d - 48

\* What the digits behind the first s bytes mean when v stands in front of them: the values
\* of the prefixes.
Prefixes(b, s, v) ==
    LET m[i \in 0..Len(b)] == IF i <= s THEN v ELSE m[i - 1] * 10 + Digit(b[i])
    IN m
Meaning(b, s, v) == Prefixes(b, s, v)[Len(b)]
=============================================================================
