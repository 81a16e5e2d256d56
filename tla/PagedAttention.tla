--------------------------- MODULE PagedAttention ---------------------------
(***************************************************************************)
(* The decode kernel of src/cuda/paged_attention.cu behind the checks of   *)
(* src/cuda/paged_attention_torch.cu: one warp for each query head of each *)
(* sequence walks the block table of the sequence and accumulates the      *)
(* attention over the cached tokens in one pass.                           *)
(*                                                                         *)
(* Abstractions.                                                           *)
(*  - Elements are small integers, and exp is replaced by powers of two    *)
(*    counted in units of 2^-Spread, in which a weight, a rescaling and so  *)
(*    the whole softmax are exact.  The scale of the scores is 1.          *)
(*  - The thread blocks run one after the other, in any order: they share  *)
(*    nothing they write.  Within one, lanes run in any order between the  *)
(*    barrier and the shuffles, which wait for all of them.                *)
(*  - Tensors have the device, type and layout that lines 18-36 require.   *)
(***************************************************************************)
EXTENDS Integers, Sequences, BlockArithmetic

CONSTANTS
  Launches,         \* the arguments the extension may be called with
  WarpSize,         \* 32
  TileSize,         \* 4, the length of output_tile
  Spread,           \* bound: the largest difference of two scores
  MinusInfinity,    \* -CUDART_INF_F
  Query(_),         \* an element of the query, by its address
  Key(_, _, _, _),  \* an element of a cache by block, head, offset, dimension
  Value(_, _, _, _)

ASSUME WarpAssumption == WarpSize \in {2, 4, 8, 16, 32} /\ TileSize \in Nat \ {0}
ASSUME ExponentAssumption == Spread \in Nat /\ MinusInfinity \notin Int

\* The shapes of tensors: the rows of a table are equally long.
ASSUME LaunchesAssumption ==
  \A l \in Launches :
    /\ l \in [queryHeads : Nat, kvHeads : Nat, headDim : Nat, cacheHeadDim : Nat,
              blocks : Nat, blockTokens : Nat, table : Seq(Seq(Int)), lengths : Seq(Int)]
    /\ \A b \in DOMAIN l.table : Len(l.table[b]) = Len(l.table[1])

VARIABLES
  launch,   \* the arguments of the call
  outcome,  \* what the checks made of them
  row,      \* blockIdx.x
  rows,     \* the thread blocks still to run
  at,       \* where each lane is
  token, queryTile, dot, maximum, denominator, outputTile,
  offset,   \* of the next shuffle
  output    \* numerator and denominator of each element, by its address

laneVars == <<token, maximum, denominator, outputTile>>
warpVars == <<row, rows, at, laneVars, queryTile, dot, offset>>
vars     == <<launch, outcome, warpVars, output>>

Lanes == 0 .. WarpSize - 1

\* f(0) + ... + f(n - 1)
SumOver(n, f(_)) == SumTo(n, [k \in 1 .. n |-> f(k - 1)])

-----------------------------------------------------------------------------
(* The reference: two passes over the cache, indexed by block, head and offset *)

\* The score of row q of the query with a key of the cache.
ScoreOf(l, q, block, head, place) ==
  LET Product(d) == Query(q * l.headDim + d) * Key(block, head, place, d)
  IN  SumOver(l.headDim, Product)

ASSUME ElementsAssumption ==
  \A l \in Launches :
    /\ \A a \in 0 .. Len(l.lengths) * l.queryHeads * l.headDim - 1 : Query(a) \in Int
    /\ \A block \in 0 .. l.blocks - 1, head \in 0 .. l.kvHeads - 1,
          place \in 0 .. l.blockTokens - 1, d \in 0 .. l.headDim - 1 :
         Key(block, head, place, d) \in Int /\ Value(block, head, place, d) \in Int

\* Two weights of one row are at most Spread powers of two apart.
ASSUME SpreadAssumption ==
  \A l \in Launches :
    \A q \in 0 .. Len(l.lengths) * l.queryHeads - 1, head \in 0 .. l.kvHeads - 1,
       block1, block2 \in 0 .. l.blocks - 1, place1, place2 \in 0 .. l.blockTokens - 1 :
      ScoreOf(l, q, block1, head, place1) - ScoreOf(l, q, block2, head, place2) <= Spread

\* Powers of two.
Power ==
  LET power[n \in 0 .. Spread] == IF n = 0 THEN 1 ELSE 2 * power[n - 1]
  IN  power
Weight(score, top) == Power[Spread - (top - score)]

BlockOf(l, b, t) == l.table[b + 1][t \div l.blockTokens + 1]
GroupOf(l, h)    == h \div (l.queryHeads \div l.kvHeads)
Score(l, b, h, t) ==
  ScoreOf(l, b * l.queryHeads + h, BlockOf(l, b, t), GroupOf(l, h), t % l.blockTokens)

\* The largest score of the first n tokens.
IsTop(l, b, h, n, top) ==
  IF n = 0 THEN top = MinusInfinity
  ELSE /\ \E t \in 0 .. n - 1 : Score(l, b, h, t) = top
       /\ \A t \in 0 .. n - 1 : Score(l, b, h, t) <= top

\* The sums of the softmax over the first n tokens, relative to a score.
Denominator(l, b, h, n, top) ==
  LET WeightOf(t) == Weight(Score(l, b, h, t), top)
  IN  SumOver(n, WeightOf)
Numerator(l, b, h, n, top, d) ==
  LET Term(t) == Weight(Score(l, b, h, t), top)
                   * Value(BlockOf(l, b, t), GroupOf(l, h), t % l.blockTokens, d)
  IN  SumOver(n, Term)

Expected(l, b, h) ==
  LET n   == l.lengths[b + 1]
      top == Score(l, b, h, CHOOSE t \in 0 .. n - 1 : IsTop(l, b, h, n, Score(l, b, h, t)))
  IN  [d \in 0 .. l.headDim - 1 |->
         <<Numerator(l, b, h, n, top, d), Denominator(l, b, h, n, top)>>]

-----------------------------------------------------------------------------
(* The extension *)

\* The checks with their tests in the order of the code: a call whose batch and head
\* dimensions match comes to the remainder of line 46 before line 50 asks whether
\* there are any KV heads.
DividesByZero(l) ==
  Len(l.table) = Len(l.lengths) /\ l.headDim = l.cacheHeadDim /\ l.kvHeads = 0

ShapesFit(l) ==
  /\ l.headDim = l.cacheHeadDim /\ l.queryHeads % l.kvHeads = 0
  /\ l.queryHeads > 0 /\ l.blocks > 0 /\ l.blockTokens > 0
  /\ l.headDim \in 1 .. WarpSize * TileSize

Elements(table) == {table[b][k] : b \in DOMAIN table, k \in DOMAIN table[1]}

\* Mutant of Accepted: the capacity of the table is rounded up to another block.
AcceptedRoundedUp(l) ==
  /\ Len(l.lengths) = Len(l.table) /\ ShapesFit(l) /\ Len(l.table) > 0 /\ Len(l.table[1]) > 0
  /\ \A b \in DOMAIN l.lengths :
       l.lengths[b] > 0 /\ l.lengths[b] \div l.blockTokens <= Len(l.table[1])
  /\ Elements(l.table) \subseteq 0 .. l.blocks - 1

\* Every entry of the table has to be a block, those past the sequence included.
Accepted(l) ==
  /\ Len(l.lengths) = Len(l.table) /\ ShapesFit(l) /\ Len(l.table) > 0 /\ Len(l.table[1]) > 0
  /\ \A b \in DOMAIN l.lengths :
       l.lengths[b] > 0 /\ l.lengths[b] <= Len(l.table[1]) * l.blockTokens
  /\ Elements(l.table) \subseteq 0 .. l.blocks - 1

Init ==
  /\ launch \in Launches
  /\ outcome = "none" /\ row = 0 /\ rows = {}
  /\ at = [l \in Lanes |-> "done"]
  /\ token = [l \in Lanes |-> 0] /\ queryTile = <<>> /\ dot = [l \in Lanes |-> 0]
  /\ maximum = [l \in Lanes |-> 0] /\ denominator = [l \in Lanes |-> 0]
  /\ outputTile = [l \in Lanes |-> <<>>] /\ offset = 0 /\ output = <<>>

Refuse ==
  /\ outcome = "none" /\ ~DividesByZero(launch) /\ ~Accepted(launch)
  /\ outcome' = "refused"
  /\ UNCHANGED <<launch, warpVars, output>>

DivideByZero ==
  /\ outcome = "none" /\ DividesByZero(launch)
  /\ outcome' = "undefined"
  /\ UNCHANGED <<launch, warpVars, output>>

\* One thread block for each query head of each sequence.
Grid == 0 .. Len(launch.lengths) * launch.queryHeads - 1

Launch ==
  /\ outcome = "none" /\ ~DividesByZero(launch) /\ Accepted(launch)
  /\ outcome' = "launched"
  /\ rows' = Grid
  /\ UNCHANGED <<launch, row, at, laneVars, queryTile, dot, offset, output>>

-----------------------------------------------------------------------------
(* The kernel *)

Batch          == row \div launch.queryHeads
QueryHead      == row % launch.queryHeads
SequenceLength == launch.lengths[Batch + 1]
KvHead         == QueryHead \div (launch.queryHeads \div launch.kvHeads)
RowBase        == (Batch * launch.queryHeads + QueryHead) * launch.headDim

\* The dimensions of a lane, WarpSize apart.
LaneDims(lane) == {d \in 0 .. launch.headDim - 1 : d % WarpSize = lane}

TableIndex(lane) == Batch * Len(launch.table[1]) + token[lane] \div launch.blockTokens
TableEntry(k) == launch.table[k \div Len(launch.table[1]) + 1][(k % Len(launch.table[1])) + 1]
CacheIndex(lane) ==
  (TableEntry(TableIndex(lane)) * launch.kvHeads + KvHead) * launch.blockTokens * launch.headDim
    + (token[lane] % launch.blockTokens) * launch.headDim

\* The element of a cache at an address: its rows are the dimensions of an offset.
Load(Cache(_, _, _, _), address) ==
  LET rowOf == address \div launch.headDim
      head  == rowOf \div launch.blockTokens
  IN  Cache(head \div launch.kvHeads, head % launch.kvHeads, rowOf % launch.blockTokens,
            address % launch.headDim)

StartBlock ==
  /\ outcome = "launched" /\ \A l \in Lanes : at[l] = "done"
  /\ \E r \in rows : row' = r /\ rows' = rows \ {r}
  /\ at' = [l \in Lanes |-> "load"]
  /\ token' = [l \in Lanes |-> 0] /\ queryTile' = <<>> /\ dot' = [l \in Lanes |-> 0]
  /\ maximum' = [l \in Lanes |-> MinusInfinity] /\ denominator' = [l \in Lanes |-> 0]
  /\ outputTile' = [l \in Lanes |-> [v \in 0 .. TileSize - 1 |-> 0]]
  /\ offset' = WarpSize \div 2
  /\ UNCHANGED <<launch, outcome, output>>

Goto(lane, place) == at' = [at EXCEPT ![lane] = place]

LoadQuery(lane) ==
  /\ at[lane] = "load" /\ Goto(lane, "barrier")
  /\ queryTile' = [d \in DOMAIN queryTile \cup LaneDims(lane) |->
                     IF d \in LaneDims(lane) THEN Query(RowBase + d) ELSE queryTile[d]]
  /\ UNCHANGED <<launch, outcome, row, rows, laneVars, dot, offset, output>>

Syncthreads ==
  /\ \A l \in Lanes : at[l] = "barrier"
  /\ at' = [l \in Lanes |-> "dot"]
  /\ UNCHANGED <<launch, outcome, row, rows, laneVars, queryTile, dot, offset, output>>

PartialDot(lane) ==
  LET Product(d) == IF d \in LaneDims(lane) THEN queryTile[d] * Load(Key, CacheIndex(lane) + d)
                    ELSE 0
  IN  /\ at[lane] = "dot" /\ Goto(lane, "shuffle")
      /\ dot' = [dot EXCEPT ![lane] = SumOver(launch.headDim, Product)]
      /\ UNCHANGED <<launch, outcome, row, rows, laneVars, queryTile, offset, output>>

\* Out of range, __shfl_down_sync returns the value of the lane itself.
ShuffledDown(lane) == dot[IF lane + offset < WarpSize THEN lane + offset ELSE lane]

ShuffleDown ==
  /\ offset > 0 /\ \A l \in Lanes : at[l] = "shuffle"
  /\ dot' = [l \in Lanes |-> dot[l] + ShuffledDown(l)]
  /\ offset' = offset \div 2
  /\ UNCHANGED <<launch, outcome, row, rows, at, laneVars, queryTile, output>>

Broadcast ==
  /\ offset = 0 /\ \A l \in Lanes : at[l] = "shuffle"
  /\ dot' = [l \in Lanes |-> dot[0]]
  /\ offset' = WarpSize \div 2 /\ at' = [l \in Lanes |-> "update"]
  /\ UNCHANGED <<launch, outcome, row, rows, laneVars, queryTile, output>>

\* Mutant of Rescaled: what was accumulated is kept as it is.
RescaledNever(x, old, new) == IF old = MinusInfinity THEN 0 ELSE x

\* What was accumulated relative to one maximum, relative to another.
Rescaled(x, old, new) == IF old = MinusInfinity THEN 0 ELSE x \div Power[new - old]

Update(lane) ==
  LET next == IF maximum[lane] = MinusInfinity \/ dot[lane] > maximum[lane] THEN dot[lane]
              ELSE maximum[lane]
      weight == Weight(dot[lane], next)
      Accumulated(v) ==
        LET d == lane + v * WarpSize
        IN  IF d >= launch.headDim THEN outputTile[lane][v]
            ELSE Rescaled(outputTile[lane][v], maximum[lane], next)
                   + weight * Load(Value, CacheIndex(lane) + d)
  IN  /\ at[lane] = "update"
      /\ denominator' = [denominator EXCEPT ![lane] = Rescaled(@, maximum[lane], next) + weight]
      /\ maximum' = [maximum EXCEPT ![lane] = next]
      /\ outputTile' = [outputTile EXCEPT ![lane] = [v \in DOMAIN @ |-> Accumulated(v)]]
      /\ token' = [token EXCEPT ![lane] = @ + 1]
      /\ Goto(lane, IF token[lane] + 1 < SequenceLength THEN "dot" ELSE "write")
      /\ UNCHANGED <<launch, outcome, row, rows, queryTile, dot, offset, output>>

WriteOutput(lane) ==
  LET written == {RowBase + d : d \in LaneDims(lane)}
  IN  /\ at[lane] = "write" /\ Goto(lane, "done")
      /\ output' = [a \in DOMAIN output \cup written |->
                      IF a \in written
                      THEN <<outputTile[lane][(a - RowBase) \div WarpSize], denominator[lane]>>
                      ELSE output[a]]
      /\ UNCHANGED <<launch, outcome, row, rows, laneVars, queryTile, dot, offset>>

Returned ==
  /\ outcome # "none" /\ rows = {}
  /\ \A l \in Lanes : at[l] = "done"
  /\ UNCHANGED vars

LaneStep == \E l \in Lanes : LoadQuery(l) \/ PartialDot(l) \/ Update(l) \/ WriteOutput(l)
Next ==
  \/ Refuse \/ DivideByZero \/ Launch \/ StartBlock \/ Syncthreads
  \/ ShuffleDown \/ Broadcast \/ LaneStep \/ Returned

Spec == Init /\ [][Next]_vars

-----------------------------------------------------------------------------
(* Properties *)

\* When the call returns, every element of the output is what the two passes of the
\* references give (paged_attention.cu:294-328, validate_pytorch.py:11-29): the softmax
\* attention of its query over the tokens of its sequence and nothing else, whatever
\* the order of the lanes, the block table, the grouping of the heads and the number
\* of dimensions that a lane has.
KernelIsAttention ==
  (outcome = "launched" /\ rows = {} /\ \A l \in Lanes : at[l] = "done") =>
    /\ DOMAIN output = 0 .. Len(launch.lengths) * launch.queryHeads * launch.headDim - 1
    /\ \A b \in 0 .. Len(launch.lengths) - 1, h \in 0 .. launch.queryHeads - 1 :
         LET expected == Expected(launch, b, h)
         IN  \A d \in 0 .. launch.headDim - 1 :
               output[(b * launch.queryHeads + h) * launch.headDim + d] = expected[d]

\* A launch that passed the checks makes every lane stay in the row of the table that
\* belongs to its sequence, in the caches and in output_tile, which has four elements
\* whatever head_dim is (paged_attention.cu:48).
AccessesInBounds ==
  \A l \in Lanes : at[l] \in {"dot", "update"} =>
    /\ token[l] \div launch.blockTokens < Len(launch.table[1])
    /\ \A d \in LaneDims(l) :
         /\ CacheIndex(l) + d
              \in 0 .. launch.blocks * launch.kvHeads * launch.blockTokens * launch.headDim - 1
         /\ d \div WarpSize < TileSize

-----------------------------------------------------------------------------
(* The inductive invariants of PagedAttention_proofs *)

\* Only what the checks accept is launched, and a lane in the loop is at a token of
\* the sequence of its row.
InLoop(l) == at[l] \in {"load", "barrier", "dot", "shuffle", "update"}
AddressInv ==
  /\ launch \in Launches /\ token \in [Lanes -> Nat] /\ DOMAIN at = Lanes
  /\ outcome = "launched" => Accepted(launch) /\ ~DividesByZero(launch)
  /\ rows \subseteq IF outcome = "launched" THEN Grid ELSE {}
  /\ \A l \in Lanes : at[l] # "done" => outcome = "launched" /\ row \in Grid
  /\ \A l \in Lanes : InLoop(l) => token[l] < SequenceLength

\* What a lane contributes to a score.
Partial(l, b, h, t, lane) ==
  LET Product(d) ==
        IF d % WarpSize = lane
        THEN Query((b * l.queryHeads + h) * l.headDim + d)
               * Key(BlockOf(l, b, t), GroupOf(l, h), t % l.blockTokens, d)
        ELSE 0
  IN  SumOver(l.headDim, Product)

\* The lanes go through the tokens together: none is a token ahead of one that has not
\* updated.  From the partial sums on, those below Width have the score between them.
Progress(lane) == IF at[lane] = "update" THEN token[lane] + 1 ELSE token[lane]
Width == IF offset = 0 THEN 1 ELSE 2 * offset
AllAt(place) == \A l \in Lanes : at[l] = place
DotOf(lane)  == dot[lane]
WarpInv ==
  /\ dot \in [Lanes -> Int]
  /\ offset \in {0, 1, 2, 4, 8, 16} /\ offset <= WarpSize \div 2
  /\ \A l \in Lanes : \A m \in Lanes : Progress(l) = Progress(m)
  /\ offset # WarpSize \div 2 => AllAt("shuffle") \/ AllAt("done")
  /\ \A l \in Lanes :
       /\ at[l] = "shuffle" =>
            IF offset = WarpSize \div 2
            THEN dot[l] = Partial(launch, Batch, QueryHead, token[l], l)
            ELSE SumOver(Width, DotOf) = Score(launch, Batch, QueryHead, token[l])
       /\ at[l] = "update" => dot[l] = Score(launch, Batch, QueryHead, token[l])

\* Each lane has the sums of the tokens it is past, relative to their largest score.
HasAccumulated(lane) ==
  /\ IsTop(launch, Batch, QueryHead, token[lane], maximum[lane])
  /\ denominator[lane] = Denominator(launch, Batch, QueryHead, token[lane], maximum[lane])
  /\ DOMAIN outputTile[lane] = 0 .. TileSize - 1
  /\ \A v \in 0 .. TileSize - 1 :
       lane + v * WarpSize < launch.headDim =>
         outputTile[lane][v] = Numerator(launch, Batch, QueryHead, token[lane], maximum[lane],
                                         lane + v * WarpSize)
Loaded(lane) ==
  \A d \in LaneDims(lane) : d \in DOMAIN queryTile /\ queryTile[d] = Query(RowBase + d)
LanesInv ==
  /\ DOMAIN maximum = Lanes /\ DOMAIN denominator = Lanes /\ DOMAIN outputTile = Lanes
  /\ \A l \in Lanes :
       at[l] # "done" =>
         /\ HasAccumulated(l)
         /\ at[l] # "load" => Loaded(l)
         /\ at[l] = "write" => token[l] = SequenceLength

\* What has been written is right, and it is the rows that are done.
Addresses == 0 .. Len(launch.lengths) * launch.queryHeads * launch.headDim - 1
IsWritten(a) ==
  LET r == a \div launch.headDim
  IN  r \notin rows /\ (r = row => at[(a % launch.headDim) % WarpSize] = "done")
OutputInv ==
  /\ DOMAIN output = IF outcome = "launched" THEN {a \in Addresses : IsWritten(a)} ELSE {}
  /\ \A a \in DOMAIN output :
       LET r == a \div launch.headDim
       IN  output[a] = Expected(launch, r \div launch.queryHeads, r % launch.queryHeads)
                         [a % launch.headDim]
  /\ \A l \in Lanes : at[l] # "done" => row \notin rows
=============================================================================
