------------------------ MODULE MCMeteredSimulator --------------------------
(***************************************************************************)
(* Small instances of MeteredSimulator for TLC.                            *)
(***************************************************************************)
EXTENDS MeteredSimulator

\* An empty prompt, a partial block, a block and a part of the next, and more
\* than the cache holds.
MeteredPrompts == {<<>>, <<1>>, <<1, 1, 1>>, <<1, 1, 1, 1, 1>>}

\* A request that is alone and decodes from its second iteration on.
OnePrompt == {<<1>>}
=============================================================================
