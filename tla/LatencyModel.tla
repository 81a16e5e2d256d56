---------------------------- MODULE LatencyModel ----------------------------
(***************************************************************************)
(* The decode profile of src/latency_model.cpp: the points the benchmark   *)
(* of src/cuda/paged_attention.cu measures, and the one that a lookup      *)
(* takes.  The latencies are not modelled, only the points they belong to. *)
(***************************************************************************)
EXTENDS Integers, Sequences

\* The first n points that write_cuda_decode_profile writes: every sequence
\* length for one batch size, then for the next.
Measured(batches, lengths, n) ==
  [k \in 1 .. n |-> [batch  |-> batches[((k - 1) \div Len(lengths)) + 1],
                     length |-> lengths[((k - 1) % Len(lengths)) + 1]]]

Magnitude(x) == IF x < 0 THEN -x ELSE x

\* Mutant of Distance: without the absolute values.
SignedDistance(point, batch, context) ==
  (point.batch - batch) + (point.length - context)

Distance(point, batch, context) ==
  Magnitude(point.batch - batch) + Magnitude(point.length - context)

\* std::min_element: the first of the closest points.
Closest(points, batch, context) ==
  LET from(k) == Distance(points[k], batch, context)
  IN  points[CHOOSE k \in DOMAIN points :
               /\ \A l \in DOMAIN points : from(k) <= from(l)
               /\ \A l \in 1 .. k - 1 : from(k) < from(l)]
=============================================================================
