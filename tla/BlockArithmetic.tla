-------------------------- MODULE BlockArithmetic --------------------------
(***************************************************************************)
(* The arithmetic on token and block counts that the cache layouts, the    *)
(* scheduler and the statistics share.                                     *)
(***************************************************************************)
EXTENDS Integers

\* The number of blocks of `divisor' tokens that `value' tokens occupy.
CeilDiv(value, divisor) == (value + divisor - 1) \div divisor

Least(a, b)    == IF a <= b THEN a ELSE b
Greatest(a, b) == IF a >= b THEN a ELSE b

\* a - b, or zero where the code guards against the wrap of an unsigned value.
Monus(a, b) == IF a < b THEN 0 ELSE a - b

\* The sums of the first values of f, a function over 1 .. n, and all of it.
Sums(n, f) ==
  LET sum[k \in 0 .. n] == IF k = 0 THEN 0 ELSE sum[k - 1] + f[k]
  IN  sum
SumTo(n, f) == Sums(n, f)[n]
=============================================================================
