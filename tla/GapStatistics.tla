--------------------------- MODULE GapStatistics ---------------------------
(***************************************************************************)
(* The statistics of src/metrics.cpp: percentiles with interpolation, and  *)
(* the per-request statistics that the inter-token SLO is checked against. *)
(*                                                                         *)
(* The statistics sort their values or add them up, so that a vector of    *)
(* them is a bag here.  The values are natural numbers; a percentile is    *)
(* given in hundredths of their unit, so that it is a whole number too.    *)
(***************************************************************************)
EXTENDS Integers, Bags, BlockArithmetic

Largest(bag) == IF bag = EmptyBag THEN 0
                ELSE CHOOSE v \in DOMAIN bag : \A w \in DOMAIN bag : w <= v

\* How often v is in the bag.
Occurs(v, bag) == IF v \in DOMAIN bag THEN bag[v] ELSE 0

\* How many values there are, and what they add up to.
Size(bag)  == SumTo(Largest(bag) + 1, [k \in 1 .. Largest(bag) + 1 |-> Occurs(k - 1, bag)])
Total(bag) == SumTo(Largest(bag), [v \in 1 .. Largest(bag) |-> v * Occurs(v, bag)])
Part(bag, values) == [v \in values \cap DOMAIN bag |-> bag[v]]
NumBelow(bag, v) == Size(Part(bag, {x \in DOMAIN bag : x < v}))

\* values[k] after the sort, from 0.
Ranked(bag, k) ==
  CHOOSE v \in DOMAIN bag : NumBelow(bag, v) <= k /\ k < NumBelow(bag, v) + bag[v]

Interpolate(low, high, weight) == low * (100 - weight) + high * weight

\* The p-th percentile, in hundredths.
Percentile(bag, p) ==
  IF bag = EmptyBag THEN 0
  ELSE LET position == p * (Size(bag) - 1)
           lower    == position \div 100
           upper    == CeilDiv(position, 100)
       IN  Interpolate(Ranked(bag, lower), Ranked(bag, upper), position % 100)

\* The statistic that the mode selects is at most the threshold.
Within(bag, mode, threshold) ==
  \/ mode = "mean" /\ Total(bag) <= threshold * Size(bag)
  \/ mode = "p95"  /\ Percentile(bag, 95) <= 100 * threshold
  \/ mode = "max"  /\ Largest(bag) <= threshold
=============================================================================
