------------------------ MODULE MCContiguousKvCache ------------------------
(***************************************************************************)
(* Small instances of ContiguousKvCache for TLC.                           *)
(***************************************************************************)
EXTENDS ContiguousKvCache, TLC

RequestSymmetry == Permutations(Request)
=============================================================================
