------------------------------ MODULE Numerals ------------------------------
(***************************************************************************)
(* Numbers that come as text: strtol() and strtoul() with the checks that  *)
(* analytics.c and config.c make after them.  A text is its leading number *)
(* as it is written, sign included, and whether anything follows; without  *)
(* a digit it has no number.                                               *)
(***************************************************************************)
EXTENDS Integers

CONSTANTS
  LongMax,         \* LONG_MAX: 2^63 - 1 in the deployed image
  NoText           \* no such parameter or variable

ASSUME NumeralsAssumption == LongMax \in Nat

ULongMax == 2 * LongMax + 1

Numeral == [digits : BOOLEAN, number : Int, tail : BOOLEAN]

\* end != text and *end == '\0'
Whole(t) == t.digits /\ ~t.tail

\* strtol(): errno is ERANGE outside of [LONG_MIN, LONG_MAX].
FitsLong(n) == n \in (-LongMax - 1)..LongMax

\* strtoul(): ERANGE when the digits exceed ULONG_MAX; a minus sign negates in
\* the unsigned type, so that it wraps.
FitsULong(n) == n \in (-ULongMax)..ULongMax
ULong(n) == IF n < 0 THEN ULongMax + 1 + n ELSE n

=============================================================================
