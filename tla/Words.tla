--------------------------------- MODULE Words ---------------------------------
(***************************************************************************)
(* Words of W bits, the numbers they stand for, and division as C and the  *)
(* instruction set define it.                                              *)
(***************************************************************************)
EXTENDS Integers

CONSTANT W  \* 32 in the design
ASSUME WAssumption == W \in Nat \ {0}

Words == 0 .. 2^W - 1
Negative(x) == x >= 2^(W - 1)
Neg(x) == (2^W - x) % 2^W
Signed(x) == IF Negative(x) THEN x - 2^W ELSE x
Word(x) == x % 2^W

\* The n low bits of x as a signed number, as a word.
SignExtend(x, n) == IF x >= 2^(n - 1) THEN Word(x - 2^n) ELSE x

\* Division that rounds toward zero.
Abs(x) == IF x < 0 THEN -x ELSE x
Truncated(a, b) == LET q == Abs(a) \div Abs(b) IN IF (a < 0) = (b < 0) THEN q ELSE -q
=============================================================================
