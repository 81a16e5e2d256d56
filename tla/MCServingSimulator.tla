-------------------------- MODULE MCServingSimulator ------------------------
(***************************************************************************)
(* Small instances of ServingSimulator for TLC.                            *)
(***************************************************************************)
EXTENDS ServingSimulator

\* Two prompts with the same blocks, so that one may hit all of the other's, and
\* one that the cache cannot hold.
SharedPrompts == {<<1, 2>>, <<3>>, <<3, 3, 3, 3, 3>>}

\* A prompt of one block: the cache has room for all, and a request only waits
\* for its turn among the active ones.
ShortPrompts == {<<1>>}
=============================================================================
