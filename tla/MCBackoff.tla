------------------------------- MODULE MCBackoff -------------------------------
(* Small instances of Backoff for TLC: eight-bit durations, which three to six *)
(* retries overflow as thirty-odd do with 64 bits and a delay of a second, and *)
(* a precision that a product passes before it overflows, as 2^53 is passed.   *)
EXTENDS Backoff

Fraction(n, d) == [num |-> n, den |-> d]

\* Whole, broken and negative multipliers, an infinite one and NaN.
SomeMultipliers ==
  {Fraction(0, 1), Fraction(1, 1), Fraction(2, 1), Fraction(3, 1), Fraction(3, 2),
   Fraction(1, 2), Fraction(-2, 1), Fraction(1, 0), Fraction(0, 0)}

SomePolicies ==
  [strategy : {"fixed", "exponential", "other"}, retries : {-1, 0, 1, 6},
   initial : {-5, 0, 1, 3, 127}, max : {0, 4, 127}, multiplier : SomeMultipliers]

\* Policies as the documents show them: whole multipliers, and a cap on the delay.
CappedPolicies ==
  [strategy : {"fixed", "exponential"}, retries : {3, 6}, initial : {1, 3},
   max : {10, 100}, multiplier : {Fraction(2, 1), Fraction(3, 1)}]
==============================================================================
