-------------------------------- MODULE Words --------------------------------
(***************************************************************************)
(* C integers of a type that has a given number of values, a power of 2.   *)
(***************************************************************************)
EXTENDS Integers

\* Conversion to an unsigned type.
Unsigned(x, values) == x % values

\* Conversion to a signed type, as gcc defines it: the low bits, sign extended.
Signed(x, values) ==
  LET low == x % values IN IF 2 * low < values THEN low ELSE low - values

\* Division, which drops the remainder towards 0.
Quotient(a, b) ==
  LET n == IF a < 0 THEN -a ELSE a
      d == IF b < 0 THEN -b ELSE b
  IN IF (a < 0) = (b < 0) THEN n \div d ELSE -(n \div d)
=============================================================================
