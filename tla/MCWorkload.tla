----------------------------- MODULE MCWorkload -----------------------------
(***************************************************************************)
(* Up to four requests of every kind.  With one prefix group, requests of *)
(* a bursty trace share a prefix between two that do not.  The shared      *)
(* prefix is longer than some prompts and shorter than others, and every   *)
(* kind draws the longest answer its table allows.                         *)
(***************************************************************************)
EXTENDS Workload, TLC

MCLengths == {<<192, 96>>, <<180, 128>>, <<256, 384>>, <<600, 768>>}
MCGaps == {0, 1}

Symmetry == Permutations(Contents)
=============================================================================
