--------------------------- MODULE MCPagedKvCache ---------------------------
(***************************************************************************)
(* Small instances of PagedKvCache for TLC.                                *)
(***************************************************************************)
EXTENDS PagedKvCache, TLC

\* Prompts that share their first block and differ afterwards, and one that
\* repeats a block: a request can hit some of its blocks and miss others.
OverlappingPrompts == {<<1, 2>>, <<1, 3>>, <<1, 1>>, <<2>>}

\* The second prompt is the tail of the first: the same block, behind another token
\* or behind none.
SuffixPrompts == {<<1, 2>>, <<2>>}

\* Prompts around the block boundaries (empty, a block and a half, two whole
\* blocks) that share their first block, one of which repeats it, and one that no
\* cache of three blocks can hold: growth in decode begins in the middle or at the
\* end of a block, and a lookup can lose a block to its own eviction.
BoundaryPrompts ==
  {<<>>, <<1, 1, 2>>, <<1, 1, 3, 3>>, <<1, 1, 1, 1>>, <<1, 1, 1, 1, 1, 1, 1>>}

\* Prompts that hit on all of their blocks or on none, so that entries are
\* evicted and hit but no lookup loses a block to its own eviction.  One of them
\* is too short to be cached.
AllOrNothingPrompts == {<<1, 1, 2, 2>>, <<3, 3>>, <<3>>}

RequestSymmetry == Permutations(Request)
=============================================================================
