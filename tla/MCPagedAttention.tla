-------------------------- MODULE MCPagedAttention --------------------------
(***************************************************************************)
(* A small instance of PagedAttention for TLC.                             *)
(***************************************************************************)
EXTENDS PagedAttention

MCQuery(address) == ((address * 5 + 2) % 3) - 1
MCKey(block, head, place, dimension) == ((block * 7 + head * 3 + place * 5 + dimension * 2) % 4) - 1
MCValue(block, head, place, dimension) == 1 + dimension + 8 * (place + 4 * (head + 2 * block))

Call(queryHeads, kvHeads, headDim, blockTokens, table, lengths) ==
  [queryHeads |-> queryHeads, kvHeads |-> kvHeads, headDim |-> headDim, cacheHeadDim |-> headDim,
   blocks |-> 4, blockTokens |-> blockTokens, table |-> table, lengths |-> lengths]

\* What is accepted: an irregular table, blocks in common, grouped and equal heads,
\* dimensions fewer than, as many as and more than the lanes.
Good == {Call(heads[1], heads[2], d, 2, table, lengths) :
           heads \in {<<2, 1>>, <<2, 2>>}, d \in {3, 4, 7}, table \in {<<<<3, 1>>, <<0, 3>>>>},
           lengths \in {<<1, 4>>, <<3, 2>>}}

\* What is at the edge of the checks, on both sides of it.
Edge == {Call(2, kv, 2, 2, <<<<block, 1>>>>, <<length>>) :
           kv \in {0, 1, 3}, block \in {-1, 3, 4}, length \in {0, 4, 5}}
        \cup {[Call(1, 1, d, 1, <<<<0>>>>, <<1>>) EXCEPT !.cacheHeadDim = 8] : d \in {7, 8}}
        \cup {Call(1, 1, d, 1, <<<<0>>>>, <<1>>) : d \in {0, 9}}
        \cup {Call(2, 0, 2, 2, <<<<3, 1>>>>, <<4, 4>>)}

MCLaunches == Good \cup Edge
=============================================================================
