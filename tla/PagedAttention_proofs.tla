------------------------ MODULE PagedAttention_proofs ------------------------
(***************************************************************************)
(* Whatever the decode kernel is called with, its accesses stay in bounds  *)
(* and what it leaves in the output is the attention.                      *)
(***************************************************************************)
EXTENDS PagedAttention, BlockTheorems, TLAPS

-----------------------------------------------------------------------------
(* Addresses *)

\* An index in rows of n, by row and column.
LEMMA Flattened ==
  ASSUME NEW m \in Nat, NEW n \in Nat, NEW i \in 0 .. m - 1, NEW j \in 0 .. n - 1
  PROVE  i * n + j \in 0 .. m * n - 1
<1>1. i + 1 <= m /\ i \in Nat /\ n \in Nat \ {0}
  OBVIOUS
<1>2. n * (i + 1) <= n * m
  BY <1>1, TimesMonotonic
<1>3. n * (i + 1) = i * n + n /\ n * m = m * n
  BY <1>1
<1>4. i * n \in Nat /\ m * n \in Nat
  BY <1>1
<1> QED BY <1>2, <1>3, <1>4

\* And the other way round.
LEMMA Unflattened ==
  ASSUME NEW m \in Nat, NEW n \in Nat \ {0}, NEW k \in 0 .. m * n - 1
  PROVE  k \div n \in 0 .. m - 1 /\ k % n \in 0 .. n - 1
<1> DEFINE q == k \div n
<1>1. k \in Int /\ q \in Int /\ n * q <= k /\ k < n * q + n
  BY DivBounds
<1>2. k < m * n /\ 0 <= k /\ n * m = m * n
  OBVIOUS
<1>3. q >= 0
  <2>1. CASE q <= -1
    <3>1. n * q <= n * (-1)
      BY <1>1, <2>1, TimesMonotonic
    <3>2. n * (-1) = -n
      OBVIOUS
    <3> QED BY <1>1, <1>2, <3>1, <3>2
  <2> QED BY <1>1, <2>1
<1>4. q < m
  <2>1. CASE m <= q
    <3>1. n * m <= n * q
      BY <1>1, <2>1, TimesMonotonic
    <3> QED BY <1>1, <1>2, <3>1
  <2> QED BY <1>1, <2>1
<1>5. k % n \in 0 .. n - 1
  BY <1>1
<1> QED BY <1>1, <1>3, <1>4, <1>5

LEMMA DivMod ==
  ASSUME NEW k \in Int, NEW n \in Nat \ {0}
  PROVE  k = n * (k \div n) + (k % n) /\ k % n \in 0 .. n - 1
<1>1. k % n \in 0 .. n - 1
  OBVIOUS
<1>2. k = n * (k \div n) + (k % n)
  OBVIOUS
<1> QED BY <1>1, <1>2

LEMMA RowOfEntry ==
  ASSUME NEW b \in Nat, NEW n \in Nat \ {0}, NEW j \in 0 .. n - 1
  PROVE  (b * n + j) \div n = b /\ (b * n + j) % n = j
<1>1. b * n = n * b /\ n * b \in Int
  OBVIOUS
<1>2. b * n + j \in Int /\ n * b <= b * n + j /\ b * n + j < n * b + n
  BY <1>1
<1>3. (b * n + j) \div n = b
  BY <1>2, DivUnique
<1> DEFINE k == b * n + j
<1>4. k \in Int /\ k \div n = b
  BY <1>2, <1>3
<1> HIDE DEF k
<1>5. k = n * (k \div n) + (k % n) /\ k % n \in Int
  BY <1>4, DivMod
<1>6. k = n * b + (k % n) /\ k = b * n + j
  BY <1>4, <1>5 DEF k
<1> QED BY <1>1, <1>4, <1>5, <1>6 DEF k

\* Query heads that are a multiple of the KV heads fall into as many groups.
LEMMA Grouped ==
  ASSUME NEW q \in Nat \ {0}, NEW k \in Nat \ {0}, q % k = 0, NEW h \in 0 .. q - 1
  PROVE  h \div (q \div k) \in 0 .. k - 1
<1> DEFINE g == q \div k
<1>1. g \in Int /\ k * g = q
  BY DivBounds
<1>2. g \in Nat \ {0}
  <2>1. CASE g <= 0
    <3>1. k * g <= k * 0
      BY <1>1, <2>1, TimesMonotonic
    <3> QED BY <1>1, <3>1
  <2> QED BY <1>1, <2>1
<1>3. h \in 0 .. k * g - 1
  BY <1>1
<1> HIDE DEF g
<1>4. h \div g \in 0 .. k - 1
  BY <1>2, <1>3, Unflattened
<1> QED BY <1>4 DEF g

-----------------------------------------------------------------------------
(* What the checks say *)

LEMMA WarpSizes == WarpSize \in Nat \ {0} /\ TileSize \in Nat \ {0}
BY WarpAssumption

LEMMA AcceptedShape ==
  ASSUME NEW l \in Launches, Accepted(l), ~DividesByZero(l)
  PROVE  /\ l.queryHeads \in Nat \ {0} /\ l.kvHeads \in Nat \ {0}
         /\ l.queryHeads % l.kvHeads = 0
         /\ l.headDim \in Nat \ {0} /\ l.headDim <= WarpSize * TileSize
         /\ l.blocks \in Nat \ {0} /\ l.blockTokens \in Nat \ {0}
         /\ Len(l.lengths) \in Nat \ {0} /\ Len(l.table) = Len(l.lengths)
         /\ Len(l.table[1]) \in Nat \ {0}
         /\ \A b \in 1 .. Len(l.lengths) :
              /\ l.lengths[b] \in Nat \ {0}
              /\ l.lengths[b] <= Len(l.table[1]) * l.blockTokens
              /\ \A k \in 1 .. Len(l.table[1]) : l.table[b][k] \in 0 .. l.blocks - 1
<1>1. /\ l.queryHeads \in Nat /\ l.kvHeads \in Nat /\ l.headDim \in Nat
      /\ l.blocks \in Nat /\ l.blockTokens \in Nat
      /\ l.table \in Seq(Seq(Int)) /\ l.lengths \in Seq(Int)
  BY LaunchesAssumption
<1>2. /\ l.headDim = l.cacheHeadDim /\ l.queryHeads % l.kvHeads = 0
      /\ l.queryHeads > 0 /\ l.blocks > 0 /\ l.blockTokens > 0
      /\ l.headDim \in 1 .. WarpSize * TileSize
      /\ Len(l.table) > 0 /\ Len(l.lengths) = Len(l.table) /\ Len(l.table[1]) > 0
      /\ \A b \in DOMAIN l.lengths :
           l.lengths[b] > 0 /\ l.lengths[b] <= Len(l.table[1]) * l.blockTokens
      /\ Elements(l.table) \subseteq 0 .. l.blocks - 1
  BY DEF Accepted, ShapesFit
<1>3. l.kvHeads # 0
  BY <1>2 DEF DividesByZero
<1>4. /\ Len(l.table) \in Nat /\ DOMAIN l.table = 1 .. Len(l.table)
      /\ DOMAIN l.lengths = 1 .. Len(l.lengths) /\ \A b \in DOMAIN l.lengths : l.lengths[b] \in Int
      /\ \A b \in DOMAIN l.table : l.table[b] \in Seq(Int)
  BY <1>1
<1>5. 1 \in DOMAIN l.table
  BY <1>2, <1>4
<1>6. Len(l.table[1]) \in Nat /\ DOMAIN l.table[1] = 1 .. Len(l.table[1])
  BY <1>4, <1>5
<1>7. \A b \in DOMAIN l.table, k \in DOMAIN l.table[1] : l.table[b][k] \in Elements(l.table)
  BY DEF Elements
<1>8. \A b \in 1 .. Len(l.lengths) :
        /\ l.lengths[b] \in Nat \ {0}
        /\ l.lengths[b] <= Len(l.table[1]) * l.blockTokens
        /\ \A k \in 1 .. Len(l.table[1]) : l.table[b][k] \in 0 .. l.blocks - 1
  <2> SUFFICES ASSUME NEW b \in 1 .. Len(l.lengths)
               PROVE  /\ l.lengths[b] \in Nat \ {0}
                      /\ l.lengths[b] <= Len(l.table[1]) * l.blockTokens
                      /\ \A k \in 1 .. Len(l.table[1]) : l.table[b][k] \in 0 .. l.blocks - 1
    OBVIOUS
  <2>1. b \in DOMAIN l.lengths /\ b \in DOMAIN l.table
    BY <1>2, <1>4
  <2>2. l.lengths[b] \in Int /\ l.lengths[b] > 0
        /\ l.lengths[b] <= Len(l.table[1]) * l.blockTokens
    BY <1>2, <1>4, <2>1
  <2>3. \A k \in 1 .. Len(l.table[1]) : l.table[b][k] \in 0 .. l.blocks - 1
    BY <1>2, <1>6, <1>7, <2>1
  <2> QED BY <2>2, <2>3
<1>9. /\ l.queryHeads \in Nat \ {0} /\ l.blocks \in Nat \ {0} /\ l.blockTokens \in Nat \ {0}
      /\ l.kvHeads \in Nat \ {0}
  <2>1. l.queryHeads > 0 /\ l.blocks > 0 /\ l.blockTokens > 0
    BY <1>2
  <2> QED BY <1>1, <1>3, <2>1
<1>10. l.headDim \in Nat \ {0} /\ l.headDim <= WarpSize * TileSize
  BY <1>1, <1>2
<1> QED BY <1>2, <1>4, <1>6, <1>8, <1>9, <1>10

\* The row of a launch names a sequence, a query head and a KV head.
LEMMA RowSplits ==
  ASSUME launch \in Launches, Accepted(launch), ~DividesByZero(launch), row \in Grid
  PROVE  /\ Batch \in 0 .. Len(launch.lengths) - 1
         /\ KvHead \in 0 .. launch.kvHeads - 1
         /\ SequenceLength \in Nat \ {0}
         /\ SequenceLength <= Len(launch.table[1]) * launch.blockTokens
<1>1. /\ launch.queryHeads \in Nat \ {0} /\ launch.kvHeads \in Nat \ {0}
      /\ launch.queryHeads % launch.kvHeads = 0 /\ Len(launch.lengths) \in Nat \ {0}
      /\ \A b \in 1 .. Len(launch.lengths) :
           /\ launch.lengths[b] \in Nat \ {0}
           /\ launch.lengths[b] <= Len(launch.table[1]) * launch.blockTokens
  BY AcceptedShape
<1>2. Batch \in 0 .. Len(launch.lengths) - 1 /\ QueryHead \in 0 .. launch.queryHeads - 1
  BY <1>1, Unflattened DEF Grid, Batch, QueryHead
<1>3. KvHead \in 0 .. launch.kvHeads - 1
  BY <1>1, <1>2, Grouped DEF KvHead
<1>4. Batch + 1 \in 1 .. Len(launch.lengths)
  BY <1>1, <1>2
<1> QED BY <1>1, <1>2, <1>3, <1>4 DEF SequenceLength

\* A row of a launch: a sequence and a query head.
IsRow(l, b, h) ==
  /\ l \in Launches /\ Accepted(l) /\ ~DividesByZero(l)
  /\ b \in 0 .. Len(l.lengths) - 1 /\ h \in 0 .. l.queryHeads - 1

\* Where the reference finds a token of the sequence.
LEMMA TokenIsCached ==
  ASSUME NEW l, NEW b, NEW h, IsRow(l, b, h), NEW t \in 0 .. l.lengths[b + 1] - 1
  PROVE  /\ BlockOf(l, b, t) \in 0 .. l.blocks - 1
         /\ GroupOf(l, h) \in 0 .. l.kvHeads - 1
         /\ t % l.blockTokens \in 0 .. l.blockTokens - 1
         /\ t \div l.blockTokens \in 0 .. Len(l.table[1]) - 1
         /\ b * l.queryHeads + h \in 0 .. Len(l.lengths) * l.queryHeads - 1
<1> DEFINE n    == l.lengths[b + 1]
           cols == Len(l.table[1])
           size == l.blockTokens
           column == t \div size
<1>1. /\ l.queryHeads \in Nat \ {0} /\ l.kvHeads \in Nat \ {0} /\ size \in Nat \ {0}
      /\ cols \in Nat \ {0} /\ l.queryHeads % l.kvHeads = 0 /\ Len(l.lengths) \in Nat
      /\ \A c \in 1 .. Len(l.lengths) :
           /\ l.lengths[c] \in Nat \ {0} /\ l.lengths[c] <= cols * size
           /\ \A k \in 1 .. cols : l.table[c][k] \in 0 .. l.blocks - 1
  BY AcceptedShape DEF IsRow
<1>2. b + 1 \in 1 .. Len(l.lengths)
  BY <1>1 DEF IsRow
<1>3. t \in 0 .. cols * size - 1
  <2>1. n \in Nat /\ n <= cols * size /\ cols * size \in Nat
    BY <1>1, <1>2, SMTT(30)
  <2> QED BY <2>1
<1>4. column \in 0 .. cols - 1 /\ t % size \in 0 .. size - 1
  BY <1>1, <1>3, Unflattened
<1>5. column + 1 \in 1 .. cols
  <2> HIDE DEF column, cols
  <2> QED BY <1>1, <1>4
<1>6. BlockOf(l, b, t) \in 0 .. l.blocks - 1
  BY <1>1, <1>2, <1>5 DEF BlockOf
<1>7. GroupOf(l, h) \in 0 .. l.kvHeads - 1
  BY <1>1, Grouped DEF GroupOf, IsRow
<1>8. b * l.queryHeads + h \in 0 .. Len(l.lengths) * l.queryHeads - 1
  BY <1>1, Flattened DEF IsRow
<1> QED BY <1>4, <1>6, <1>7, <1>8

-----------------------------------------------------------------------------
(* The invariant *)

LEMMA InitAddress == Init => AddressInv
BY DEF Init, AddressInv, InLoop, Lanes

\* A step of one lane leaves the launch alone and the lane in the loop only at a
\* token of its sequence.
LEMMA LaneStepAddress ==
  ASSUME AddressInv, NEW l \in Lanes, NEW place, Goto(l, place), at[l] # "done",
         UNCHANGED <<launch, outcome, row, rows>>,
         token' \in [Lanes -> Nat], \A m \in Lanes \ {l} : token'[m] = token[m],
         place \in {"load", "barrier", "dot", "shuffle", "update"} => token'[l] < SequenceLength
  PROVE  AddressInv'
<1>1. DOMAIN at' = Lanes /\ at'[l] = place /\ \A m \in Lanes \ {l} : at'[m] = at[m]
  BY DEF AddressInv, Goto
<1>2. SequenceLength' = SequenceLength /\ Grid' = Grid
  BY DEF SequenceLength, Batch, Grid
<1>3. \A m \in Lanes : InLoop(m)' => token'[m] < SequenceLength'
  BY <1>1, <1>2 DEF AddressInv, InLoop
<1>4. \A m \in Lanes : at'[m] # "done" => outcome' = "launched" /\ row' \in Grid'
  BY <1>1, <1>2 DEF AddressInv
<1>5. outcome' = "launched" => Accepted(launch') /\ ~DividesByZero(launch')
  BY DEF AddressInv
<1> QED BY <1>1, <1>2, <1>3, <1>4, <1>5 DEF AddressInv

\* A step of the whole warp takes every lane from one place to the next.
LEMMA WarpStepAddress ==
  ASSUME AddressInv, UNCHANGED <<launch, outcome, row, rows, token>>,
         DOMAIN at' = Lanes, \A l \in Lanes : InLoop(l)
  PROVE  AddressInv'
<1>1. SequenceLength' = SequenceLength /\ Grid' = Grid
  BY DEF SequenceLength, Batch, Grid
<1>2. \A l \in Lanes : token'[l] < SequenceLength'
  BY <1>1 DEF AddressInv
<1>3. \A l \in Lanes : outcome' = "launched" /\ row' \in Grid'
  BY <1>1 DEF AddressInv, InLoop
<1> QED BY <1>1, <1>2, <1>3 DEF AddressInv

LEMMA StartBlockAddress == ASSUME AddressInv, StartBlock PROVE AddressInv'
<1>1. /\ outcome = "launched" /\ outcome' = outcome /\ launch' = launch
      /\ rows \subseteq Grid /\ launch \in Launches /\ Accepted(launch) /\ ~DividesByZero(launch)
      /\ token' = [l \in Lanes |-> 0] /\ at' = [l \in Lanes |-> "load"]
  BY DEF AddressInv, StartBlock
<1>2. Grid' = Grid /\ row' \in Grid' /\ rows' \subseteq Grid'
  BY <1>1 DEF StartBlock, Grid
<1>3. SequenceLength' \in Nat \ {0}
  <2>1. /\ launch' \in Launches /\ Accepted(launch') /\ ~DividesByZero(launch')
    BY <1>1
  <2>2. /\ launch.queryHeads \in Nat \ {0} /\ Len(launch.lengths) \in Nat \ {0}
        /\ \A b \in 1 .. Len(launch.lengths) : launch.lengths[b] \in Nat \ {0}
    BY <1>1, AcceptedShape
  <2>3. row' \div launch.queryHeads \in 0 .. Len(launch.lengths) - 1
    BY <1>2, <2>2, Unflattened DEF Grid
  <2>4. row' \div launch.queryHeads + 1 \in 1 .. Len(launch.lengths)
    BY <2>2, <2>3
  <2> QED BY <1>1, <2>2, <2>4 DEF SequenceLength, Batch
<1>4. \A l \in Lanes : token'[l] = 0 /\ token'[l] < SequenceLength'
  BY <1>1, <1>3
<1> QED BY <1>1, <1>2, <1>4 DEF AddressInv

LEMMA NextAddress == AddressInv /\ [Next]_vars => AddressInv'
<1> SUFFICES ASSUME AddressInv, [Next]_vars PROVE AddressInv'
  OBVIOUS
<1>1. CASE Refuse \/ DivideByZero
  BY <1>1 DEF Refuse, DivideByZero, AddressInv, InLoop, warpVars, laneVars, Grid, SequenceLength, Batch
<1>2. CASE Launch
  BY <1>2 DEF Launch, AddressInv, InLoop, laneVars, Grid, SequenceLength, Batch
<1>3. CASE StartBlock
  BY <1>3, StartBlockAddress
<1>4. CASE Syncthreads \/ ShuffleDown \/ Broadcast
  <2>1. UNCHANGED <<launch, outcome, row, rows, token>> /\ DOMAIN at' = Lanes
    BY <1>4 DEF Syncthreads, ShuffleDown, Broadcast, laneVars, AddressInv
  <2>2. \A l \in Lanes : InLoop(l)
    BY <1>4 DEF Syncthreads, ShuffleDown, Broadcast, InLoop
  <2> QED BY <2>1, <2>2, WarpStepAddress
<1>5. CASE LaneStep
  <2> PICK l \in Lanes : LoadQuery(l) \/ PartialDot(l) \/ Update(l) \/ WriteOutput(l)
    BY <1>5 DEF LaneStep
  <2>1. CASE LoadQuery(l)
    <3>1. /\ Goto(l, "barrier") /\ at[l] = "load" /\ UNCHANGED <<launch, outcome, row, rows, token>>
      BY <2>1 DEF LoadQuery, laneVars
    <3>2. token[l] < SequenceLength /\ token' \in [Lanes -> Nat]
      BY <3>1 DEF AddressInv, InLoop
    <3> QED BY <3>1, <3>2, LaneStepAddress
  <2>2. CASE PartialDot(l)
    <3>1. /\ Goto(l, "shuffle") /\ at[l] = "dot" /\ UNCHANGED <<launch, outcome, row, rows, token>>
      BY <2>2 DEF PartialDot, laneVars
    <3>2. token[l] < SequenceLength /\ token' \in [Lanes -> Nat]
      BY <3>1 DEF AddressInv, InLoop
    <3> QED BY <3>1, <3>2, LaneStepAddress
  <2>3. CASE Update(l)
    <3> DEFINE place == IF token[l] + 1 < SequenceLength THEN "dot" ELSE "write"
    <3>1. /\ Goto(l, place) /\ at[l] = "update" /\ UNCHANGED <<launch, outcome, row, rows>>
          /\ token' = [token EXCEPT ![l] = @ + 1]
      BY <2>3 DEF Update
    <3>2. /\ token \in [Lanes -> Nat] /\ token' \in [Lanes -> Nat]
          /\ token'[l] = token[l] + 1 /\ \A m \in Lanes \ {l} : token'[m] = token[m]
      BY <3>1 DEF AddressInv
    <3>3. place \in {"load", "barrier", "dot", "shuffle", "update"} => token'[l] < SequenceLength
      BY <3>2
    <3>4. at[l] # "done"
      BY <3>1
    <3> HIDE DEF place
    <3> QED BY <3>1, <3>2, <3>3, <3>4, LaneStepAddress
  <2>4. CASE WriteOutput(l)
    <3>1. /\ Goto(l, "done") /\ at[l] = "write" /\ UNCHANGED <<launch, outcome, row, rows, token>>
      BY <2>4 DEF WriteOutput, laneVars
    <3>2. token' \in [Lanes -> Nat]
      BY <3>1 DEF AddressInv
    <3> QED BY <3>1, <3>2, LaneStepAddress
  <2> QED BY <2>1, <2>2, <2>3, <2>4
<1>6. CASE Returned \/ UNCHANGED vars
  BY <1>6 DEF Returned, vars, warpVars, laneVars, AddressInv, InLoop, Grid, SequenceLength, Batch
<1> QED BY <1>1, <1>2, <1>3, <1>4, <1>5, <1>6 DEF Next

-----------------------------------------------------------------------------
(* What it says of the accesses *)

\* The row that a thread block works on, and the address of a token.
LEMMA RowOfBlock ==
  ASSUME AddressInv, NEW l \in Lanes, at[l] # "done"
  PROVE  /\ IsRow(launch, Batch, QueryHead)
         /\ SequenceLength = launch.lengths[Batch + 1] /\ SequenceLength \in Nat \ {0}
         /\ Batch * launch.queryHeads + QueryHead = row
<1>1. launch \in Launches /\ Accepted(launch) /\ ~DividesByZero(launch) /\ row \in Grid
  BY DEF AddressInv
<1>2. Batch \in 0 .. Len(launch.lengths) - 1 /\ SequenceLength \in Nat \ {0}
  BY <1>1, RowSplits
<1>3. launch.queryHeads \in Nat \ {0} /\ Len(launch.lengths) \in Nat
  BY <1>1, AcceptedShape
<1>4. row \in Int /\ QueryHead \in 0 .. launch.queryHeads - 1
  <2>1. row \in 0 .. Len(launch.lengths) * launch.queryHeads - 1
    BY <1>1 DEF Grid
  <2>2. row % launch.queryHeads \in 0 .. launch.queryHeads - 1
    BY <1>3, <2>1, Unflattened
  <2> QED BY <2>1, <2>2 DEF QueryHead
<1>5. launch.queryHeads * Batch + QueryHead = row
  BY <1>3, <1>4 DEF Batch, QueryHead
<1>6. launch.queryHeads * Batch = Batch * launch.queryHeads
  BY <1>2, <1>3
<1> QED BY <1>1, <1>2, <1>4, <1>5, <1>6 DEF IsRow, SequenceLength

LEMMA CacheAddress ==
  ASSUME AddressInv, NEW l \in Lanes, InLoop(l)
  PROVE  /\ token[l] \in 0 .. launch.lengths[Batch + 1] - 1
         /\ KvHead = GroupOf(launch, QueryHead)
         /\ \A d \in 0 .. launch.headDim - 1 :
              CacheIndex(l) + d =
                ((BlockOf(launch, Batch, token[l]) * launch.kvHeads + KvHead) * launch.blockTokens
                   + (token[l] % launch.blockTokens)) * launch.headDim + d
<1> DEFINE cols  == Len(launch.table[1])
           size  == launch.blockTokens
           dims  == launch.headDim
           entry == BlockOf(launch, Batch, token[l])
           head  == entry * launch.kvHeads + KvHead
           place == token[l] % size
           q     == token[l] \div size
<1>1. /\ IsRow(launch, Batch, QueryHead) /\ token[l] \in Nat /\ token[l] < SequenceLength
      /\ SequenceLength = launch.lengths[Batch + 1] /\ SequenceLength \in Nat
  BY RowOfBlock DEF AddressInv, InLoop
<1>2. token[l] \in 0 .. launch.lengths[Batch + 1] - 1
  BY <1>1
<1>3. KvHead = GroupOf(launch, QueryHead)
  BY DEF KvHead, GroupOf
<1>4. /\ entry \in 0 .. launch.blocks - 1 /\ KvHead \in 0 .. launch.kvHeads - 1
      /\ place \in 0 .. size - 1 /\ q \in 0 .. cols - 1
  BY <1>1, <1>2, <1>3, TokenIsCached
<1>5. /\ launch.kvHeads \in Nat \ {0} /\ size \in Nat \ {0} /\ dims \in Nat \ {0}
      /\ cols \in Nat \ {0} /\ launch.blocks \in Nat \ {0} /\ Batch \in Nat
  BY <1>1, AcceptedShape DEF IsRow
<1>6. TableEntry(TableIndex(l)) = entry
  <2> DEFINE index == Batch * cols + q
  <2>1. index = TableIndex(l)
    BY DEF TableIndex
  <2>2. index \div cols = Batch /\ index % cols = q
    <3> HIDE DEF cols, q
    <3> QED BY <1>4, <1>5, RowOfEntry
  <2> QED BY <2>1, <2>2 DEF TableEntry, BlockOf
<1>7. \A d \in 0 .. dims - 1 : CacheIndex(l) + d = (head * size + place) * dims + d
  <2>1. head \in Int /\ place \in Int /\ size \in Int /\ dims \in Int
    BY <1>4, <1>5, SMTT(30)
  <2>2. CacheIndex(l) = head * size * dims + place * dims
    BY <1>6 DEF CacheIndex
  <2> HIDE DEF head, place, size, dims
  <2>3. (head * size + place) * dims = head * size * dims + place * dims
    BY <2>1
  <2> QED BY <2>2, <2>3
<1> HIDE DEF head, place, size, dims
<1>8. \A d \in 0 .. launch.headDim - 1 :
        CacheIndex(l) + d =
          ((BlockOf(launch, Batch, token[l]) * launch.kvHeads + KvHead) * launch.blockTokens
             + (token[l] % launch.blockTokens)) * launch.headDim + d
  BY <1>7 DEF head, place, size, dims
<1> QED BY <1>2, <1>3, <1>8

LEMMA InvStaysInBounds == AddressInv => AccessesInBounds
<1> SUFFICES ASSUME AddressInv, NEW l \in Lanes, at[l] \in {"dot", "update"}
             PROVE  /\ token[l] \div launch.blockTokens < Len(launch.table[1])
                    /\ \A d \in LaneDims(l) :
                         /\ CacheIndex(l) + d
                              \in 0 .. launch.blocks * launch.kvHeads * launch.blockTokens
                                         * launch.headDim - 1
                         /\ d \div WarpSize < TileSize
  BY DEF AccessesInBounds
<1> DEFINE entry == BlockOf(launch, Batch, token[l])
           size == launch.blockTokens
           dims == launch.headDim
           head == entry * launch.kvHeads + KvHead
           place == token[l] % size
<1>1. /\ IsRow(launch, Batch, QueryHead)
      /\ token[l] \in 0 .. launch.lengths[Batch + 1] - 1 /\ KvHead = GroupOf(launch, QueryHead)
      /\ \A d \in 0 .. dims - 1 : CacheIndex(l) + d = (head * size + place) * dims + d
  <2>1. InLoop(l) /\ at[l] # "done"
    BY DEF InLoop
  <2> QED BY <2>1, RowOfBlock, CacheAddress
<1>2. /\ launch.kvHeads \in Nat \ {0} /\ dims \in Nat \ {0} /\ dims <= WarpSize * TileSize
      /\ launch.blocks \in Nat \ {0} /\ size \in Nat \ {0} /\ Len(launch.table[1]) \in Nat
  BY <1>1, AcceptedShape DEF IsRow
<1>3. /\ entry \in 0 .. launch.blocks - 1 /\ KvHead \in 0 .. launch.kvHeads - 1
      /\ place \in 0 .. size - 1 /\ token[l] \div size \in 0 .. Len(launch.table[1]) - 1
  BY <1>1, TokenIsCached
<1>4. token[l] \div size < Len(launch.table[1])
  BY <1>2, <1>3
<1>5. head \in 0 .. launch.blocks * launch.kvHeads - 1
  BY <1>2, <1>3, Flattened
<1>6. \A d \in 0 .. dims - 1 :
        (head * size + place) * dims + d \in 0 .. launch.blocks * launch.kvHeads * size * dims - 1
  <2>1. launch.blocks * launch.kvHeads \in Nat /\ launch.blocks * launch.kvHeads * size \in Nat
    BY <1>2
  <2> HIDE DEF head, place, size, dims
  <2>2. head * size + place \in 0 .. launch.blocks * launch.kvHeads * size - 1
    BY <1>2, <1>3, <1>5, <2>1, Flattened
  <2> QED BY <1>2, <2>1, <2>2, Flattened
<1>7. \A d \in 0 .. dims - 1 : d \div WarpSize < TileSize
  <2> SUFFICES ASSUME NEW d \in 0 .. dims - 1 PROVE d \div WarpSize < TileSize
    OBVIOUS
  <2>1. d \in 0 .. TileSize * WarpSize - 1
    BY <1>2, WarpSizes
  <2>2. d \div WarpSize \in 0 .. TileSize - 1
    BY <2>1, WarpSizes, Unflattened
  <2> QED BY <2>2, WarpSizes
<1> QED BY <1>1, <1>4, <1>6, <1>7 DEF LaneDims

\* Whatever the extension is called with, a call that its checks let through reads
\* the block table and the caches only where they have elements, and uses no more
\* elements of output_tile than there are.
THEOREM LaunchesStayInBounds == Spec => []AccessesInBounds
BY InvStaysInBounds, InitAddress, NextAddress, PTL DEF Spec

-----------------------------------------------------------------------------
(* Powers of two *)

LEMMA PowersAre ==
  /\ Power \in [0 .. Spread -> Nat \ {0}] /\ Power[0] = 1
  /\ \A n \in 1 .. Spread : Power[n] = 2 * Power[n - 1]
<1> DEFINE P(m) == \E g \in [0 .. m -> Nat \ {0}] :
                     g = [k \in 0 .. m |-> IF k = 0 THEN 1 ELSE 2 * g[k - 1]]
           S == {m \in 0 .. Spread : P(m)}
           E(g) == g = [k \in 0 .. Spread |-> IF k = 0 THEN 1 ELSE 2 * g[k - 1]]
<1>0. Spread \in Nat
  BY ExponentAssumption
<1>1. P(0)
  <2> DEFINE g == [k \in 0 .. 0 |-> 1]
  <2>1. g \in [0 .. 0 -> Nat \ {0}] /\ g = [k \in 0 .. 0 |-> IF k = 0 THEN 1 ELSE 2 * g[k - 1]]
    OBVIOUS
  <2> HIDE DEF g
  <2> QED BY <2>1
<1>2. ASSUME NEW m \in 0 .. Spread, m < Spread, P(m) PROVE P(m + 1)
  <2>1. PICK g \in [0 .. m -> Nat \ {0}] :
          g = [k \in 0 .. m |-> IF k = 0 THEN 1 ELSE 2 * g[k - 1]]
    BY <1>2
  <2> DEFINE h == [k \in 0 .. m + 1 |-> IF k = m + 1 THEN 2 * g[m] ELSE g[k]]
  <2>2. h \in [0 .. m + 1 -> Nat \ {0}]
    <3>1. 2 * g[m] \in Nat \ {0}
      BY <1>2
    <3> QED BY <3>1
  <2>3. ASSUME NEW k \in 0 .. m + 1
        PROVE  h[k] = IF k = 0 THEN 1 ELSE 2 * h[k - 1]
    <3>1. CASE k = m + 1
      BY <3>1
    <3>2. CASE k # m + 1
      <4>1. k \in 0 .. m /\ h[k] = g[k] /\ (k # 0 => h[k - 1] = g[k - 1])
        BY <3>2
      <4>2. g[k] = IF k = 0 THEN 1 ELSE 2 * g[k - 1]
        BY <2>1, <4>1
      <4> QED BY <4>1, <4>2
    <3> QED BY <3>1, <3>2
  <2> QED BY <2>2, <2>3
<1> HIDE DEF P
<1>3. P(Spread)
  <2>1. S \in SUBSET (0 .. Spread) /\ 0 \in S /\ \A m \in S : m < Spread => m + 1 \in S
    BY <1>0, <1>1, <1>2
  <2>2. \A m \in 0 .. Spread : m \in S
    BY <1>0, <2>1, UpTo
  <2> QED BY <1>0, <2>2
<1>4. PICK g \in [0 .. Spread -> Nat \ {0}] : E(g)
  BY <1>3 DEF P
<1>5. Power = CHOOSE h : E(h)
  BY DEF Power
<1> HIDE DEF E
<1>6. E(Power)
  BY <1>4, <1>5
<1>7. Power = [k \in 0 .. Spread |-> IF k = 0 THEN 1 ELSE 2 * Power[k - 1]]
  BY <1>6 DEF E
<1>8. Power[0] = 1 /\ \A k \in 1 .. Spread : Power[k] = 2 * Power[k - 1]
  <2> DEFINE p == Power
  <2>1. p = [k \in 0 .. Spread |-> IF k = 0 THEN 1 ELSE 2 * p[k - 1]]
    BY <1>7
  <2> HIDE DEF p
  <2>2. p[0] = 1 /\ \A k \in 1 .. Spread : p[k] = 2 * p[k - 1]
    BY <1>0, <2>1
  <2> QED BY <2>2 DEF p
<1>9. \A k \in 0 .. Spread : Power[k] \in Nat \ {0}
  <2> DEFINE p == Power
             U == {k \in 0 .. Spread : p[k] \in Nat \ {0}}
  <2>0. p[0] = 1 /\ \A k \in 1 .. Spread : p[k] = 2 * p[k - 1]
    BY <1>8
  <2> HIDE DEF p
  <2>1. \A k \in U : k < Spread => k + 1 \in U
    BY <1>0, <2>0
  <2>2. U \in SUBSET (0 .. Spread) /\ 0 \in U
    BY <1>0, <2>0
  <2> HIDE DEF U
  <2>3. \A k \in 0 .. Spread : k \in U
    BY <1>0, <2>1, <2>2, UpTo
  <2> QED BY <2>3 DEF U, p
<1>10. DOMAIN Power = 0 .. Spread /\ Power = [k \in 0 .. Spread |-> Power[k]]
  <2> DEFINE p == Power
  <2>1. p = [k \in 0 .. Spread |-> IF k = 0 THEN 1 ELSE 2 * p[k - 1]]
    BY <1>7
  <2> HIDE DEF p
  <2> QED BY <2>1 DEF p
<1> QED BY <1>8, <1>9, <1>10

LEMMA PowerOfSum ==
  ASSUME NEW a \in Nat, NEW b \in Nat, a + b <= Spread
  PROVE  Power[a + b] = Power[a] * Power[b]
<1> DEFINE p == Power
           n == Spread - a
           S == {k \in 0 .. n : p[a + k] = p[a] * p[k]}
<1>1. /\ p \in [0 .. Spread -> Nat \ {0}] /\ p[0] = 1
      /\ \A k \in 1 .. Spread : p[k] = 2 * p[k - 1]
  BY PowersAre
<1>2. Spread \in Nat /\ n \in Nat /\ b \in 0 .. n /\ a \in 0 .. Spread
  BY ExponentAssumption
<1> HIDE DEF p
<1>3. 0 \in S
  <2>1. p[a] \in Int /\ a + 0 = a /\ 0 \in 0 .. n
    BY <1>1, <1>2
  <2> QED BY <1>1, <2>1
<1>4. ASSUME NEW k \in S, k < n PROVE k + 1 \in S
  <2>1. /\ k \in 0 .. n /\ k + 1 \in 1 .. Spread /\ (k + 1) - 1 = k /\ k \in 0 .. Spread
        /\ a + (k + 1) \in 1 .. Spread /\ (a + (k + 1)) - 1 = a + k
        /\ k + 1 \in 0 .. n /\ p[a + k] = p[a] * p[k]
    BY <1>2, <1>4
  <2>2. p[k + 1] = 2 * p[k] /\ p[a + (k + 1)] = 2 * (p[a] * p[k])
    BY <1>1, <2>1
  <2>3. p[a] \in Int /\ p[k] \in Int
    BY <1>1, <1>2, <2>1
  <2>4. 2 * (p[a] * p[k]) = p[a] * (2 * p[k])
    BY <2>3
  <2> QED BY <2>1, <2>2, <2>4
<1>5. \A k \in 0 .. n : k \in S
  <2>1. S \in SUBSET (0 .. n)
    OBVIOUS
  <2> HIDE DEF S
  <2> QED BY <1>2, <1>3, <1>4, <2>1, UpTo
<1> QED BY <1>2, <1>5 DEF p

\* A weight relative to an older maximum is a multiple of the weight relative to a newer.
LEMMA WeightsRescale ==
  ASSUME NEW s \in Int, NEW old \in Int, NEW new \in Int,
         s <= old, old <= new, new - s <= Spread
  PROVE  /\ Power[new - old] \in Nat \ {0} /\ Weight(s, new) \in Int
         /\ Weight(s, old) = Power[new - old] * Weight(s, new)
<1> DEFINE a == new - old
           b == Spread - (new - s)
<1>1. a \in Nat /\ b \in Nat /\ a + b = Spread - (old - s) /\ a + b <= Spread /\ Spread \in Nat
  BY ExponentAssumption
<1>2. Power[a + b] = Power[a] * Power[b]
  BY <1>1, PowerOfSum
<1>3. a \in 0 .. Spread /\ b \in 0 .. Spread
  BY <1>1
<1>4. Power[a] \in Nat \ {0} /\ Power[b] \in Int
  BY <1>3, PowersAre
<1> QED BY <1>1, <1>2, <1>4 DEF Weight

\* A multiple is divided without a remainder.
LEMMA ExactDivision ==
  ASSUME NEW c \in Nat \ {0}, NEW x \in Int
  PROVE  (c * x) \div c = x
<1>1. c * x \in Int /\ c * x < c * x + c
  OBVIOUS
<1> QED BY <1>1, DivUnique

-----------------------------------------------------------------------------
(* Scores *)

LEMMA WarpSizeIs ==
  WarpSize \in Nat \ {0} /\ WarpSize % 2 = 0 /\ Lanes = 0 .. WarpSize - 1
BY WarpAssumption DEF Lanes

Products(l, b, h, t) ==
  [k \in 1 .. l.headDim |-> Query((b * l.queryHeads + h) * l.headDim + (k - 1))
                              * Key(BlockOf(l, b, t), GroupOf(l, h), t % l.blockTokens, k - 1)]

LEMMA ScoreIs ==
  ASSUME NEW l, NEW b, NEW h, IsRow(l, b, h), NEW t \in 0 .. l.lengths[b + 1] - 1
  PROVE  /\ l.headDim \in Nat \ {0} /\ Products(l, b, h, t) \in [1 .. l.headDim -> Int]
         /\ Score(l, b, h, t) = SumTo(l.headDim, Products(l, b, h, t))
         /\ Score(l, b, h, t) \in Int
<1> DEFINE q == b * l.queryHeads + h
<1>1. l.headDim \in Nat \ {0} /\ l.queryHeads \in Nat /\ Len(l.lengths) \in Nat
  BY AcceptedShape DEF IsRow
<1>2. /\ BlockOf(l, b, t) \in 0 .. l.blocks - 1 /\ GroupOf(l, h) \in 0 .. l.kvHeads - 1
      /\ t % l.blockTokens \in 0 .. l.blockTokens - 1
      /\ q \in 0 .. Len(l.lengths) * l.queryHeads - 1
  BY TokenIsCached
<1>3. ASSUME NEW k \in 1 .. l.headDim PROVE Products(l, b, h, t)[k] \in Int
  <2>1. k - 1 \in 0 .. l.headDim - 1 /\ Len(l.lengths) * l.queryHeads \in Nat
    BY <1>1
  <2>2. q * l.headDim + (k - 1) \in 0 .. Len(l.lengths) * l.queryHeads * l.headDim - 1
    <3> HIDE DEF q
    <3> QED BY <1>1, <1>2, <2>1, Flattened
  <2>3. Query(q * l.headDim + (k - 1)) \in Int
    BY <2>2, ElementsAssumption DEF IsRow
  <2>4. Key(BlockOf(l, b, t), GroupOf(l, h), t % l.blockTokens, k - 1) \in Int
    BY <1>2, <2>1, ElementsAssumption DEF IsRow
  <2> QED BY <2>3, <2>4 DEF Products
<1>4. Products(l, b, h, t) \in [1 .. l.headDim -> Int]
  BY <1>3 DEF Products
<1>5. Score(l, b, h, t) = SumTo(l.headDim, Products(l, b, h, t))
  BY DEF Score, ScoreOf, SumOver, Products
<1> QED BY <1>1, <1>4, <1>5, SumIsInt

LEMMA LengthIs ==
  ASSUME NEW l, NEW b, NEW h, IsRow(l, b, h)
  PROVE  l.lengths[b + 1] \in Nat \ {0}
<1>1. /\ Len(l.lengths) \in Nat /\ b \in 0 .. Len(l.lengths) - 1
      /\ \A c \in 1 .. Len(l.lengths) : l.lengths[c] \in Nat \ {0}
  BY AcceptedShape DEF IsRow
<1>2. b + 1 \in 1 .. Len(l.lengths)
  BY <1>1
<1> QED BY <1>1, <1>2

LEMMA ScoresAreClose ==
  ASSUME NEW l, NEW b, NEW h, IsRow(l, b, h),
         NEW t \in 0 .. l.lengths[b + 1] - 1, NEW u \in 0 .. l.lengths[b + 1] - 1
  PROVE  Score(l, b, h, t) - Score(l, b, h, u) <= Spread
<1>1. /\ BlockOf(l, b, t) \in 0 .. l.blocks - 1 /\ GroupOf(l, h) \in 0 .. l.kvHeads - 1
      /\ t % l.blockTokens \in 0 .. l.blockTokens - 1
      /\ b * l.queryHeads + h \in 0 .. Len(l.lengths) * l.queryHeads - 1
  BY TokenIsCached
<1>2. BlockOf(l, b, u) \in 0 .. l.blocks - 1 /\ u % l.blockTokens \in 0 .. l.blockTokens - 1
  BY TokenIsCached
<1> QED BY <1>1, <1>2, SpreadAssumption DEF Score, IsRow

\* Values that are dealt out to as many sums add up to what they add up to together.
LEMMA DealtOut ==
  ASSUME NEW n \in Nat, NEW p \in [1 .. n -> Int], NEW w \in Nat \ {0}
  PROVE  SumTo(w, [j \in 1 .. w |->
                     SumTo(n, [k \in 1 .. n |-> IF (k - 1) % w = j - 1 THEN p[k] ELSE 0])])
           = SumTo(n, p)
<1> DEFINE Of(m)   == [k \in 1 .. m |-> p[k]]
           Dealt(m, j) == [k \in 1 .. m |-> IF (k - 1) % w = j - 1 THEN p[k] ELSE 0]
           Hand(m) == [j \in 1 .. w |-> SumTo(m, Dealt(m, j))]
           S == {m \in 0 .. n : SumTo(w, Hand(m)) = SumTo(m, Of(m))}
<1>1. \A m \in 0 .. n : /\ m \in Nat /\ Of(m) \in [1 .. m -> Int]
                        /\ \A j \in 1 .. w : Dealt(m, j) \in [1 .. m -> Int]
  OBVIOUS
<1>2. \A m \in 0 .. n : Hand(m) \in [1 .. w -> Int]
  <2> HIDE DEF Dealt
  <2> QED BY <1>1, SumIsInt
<1>3. 0 \in S
  <2>1. 0 \in 0 .. n /\ \A j \in 1 .. w : SumTo(0, Dealt(0, j)) = 0
    <3> HIDE DEF Dealt
    <3> QED BY <1>1, SumOfNone
  <2>2. Hand(0) = [j \in 1 .. w |-> 0]
    <3> HIDE DEF Dealt
    <3> QED BY <2>1
  <2>3. SumTo(w, Hand(0)) = 0
    <3> HIDE DEF Hand
    <3> QED BY <2>2, SumOfSame
  <2>4. SumTo(0, Of(0)) = 0
    <3> HIDE DEF Of
    <3> QED BY <1>1, <2>1, SumOfNone
  <2> QED BY <2>1, <2>3, <2>4
<1>4. ASSUME NEW m \in S, m < n PROVE m + 1 \in S
  <2> DEFINE i == (m % w) + 1
  <2>1. m \in 0 .. n /\ m \in Nat /\ m + 1 \in 0 .. n /\ m + 1 \in 1 .. n
        /\ SumTo(w, Hand(m)) = SumTo(m, Of(m))
    BY <1>4
  <2>2. i \in 1 .. w /\ m % w \in Int
    BY <2>1, DivMod
  <2>3. \A j \in 1 .. w : \A k \in 1 .. m : Dealt(m + 1, j)[k] = Dealt(m, j)[k]
    BY <2>1
  <2>4. \A j \in 1 .. w : Dealt(m + 1, j)[m + 1] = IF j = i THEN p[m + 1] ELSE 0
    BY <2>1, <2>2
  <2>5. \A j \in 1 .. w : /\ SumTo(m, Dealt(m, j)) \in Int
                          /\ SumTo(m + 1, Dealt(m + 1, j))
                               = SumTo(m, Dealt(m, j)) + (IF j = i THEN p[m + 1] ELSE 0)
    <3> HIDE DEF Dealt, i
    <3>1. ASSUME NEW j \in 1 .. w
          PROVE  /\ SumTo(m, Dealt(m, j)) \in Int
                 /\ SumTo(m + 1, Dealt(m + 1, j)) = SumTo(m, Dealt(m, j)) + Dealt(m + 1, j)[m + 1]
      <4>1. Dealt(m, j) \in [1 .. m -> Int] /\ Dealt(m + 1, j) \in [1 .. m + 1 -> Int]
        BY <1>1, <2>1
      <4> QED BY <2>1, <2>3, <4>1, SumGrows
    <3> QED BY <2>4, <3>1
  <2>6. /\ \A j \in 1 .. w : j # i => Hand(m)[j] = Hand(m + 1)[j]
        /\ Hand(m + 1)[i] = Hand(m)[i] + p[m + 1] /\ Hand(m)[i] \in Int
    <3> HIDE DEF Dealt, i
    <3> QED BY <2>2, <2>5
  <2>7. /\ SumTo(w, Hand(m)) \in Int /\ SumTo(w, Hand(m + 1)) \in Int
        /\ SumTo(w, Hand(m)) + Hand(m + 1)[i] = SumTo(w, Hand(m + 1)) + Hand(m)[i]
    <3>1. Hand(m) \in [1 .. w -> Int] /\ Hand(m + 1) \in [1 .. w -> Int]
      BY <1>2, <2>1
    <3> HIDE DEF Hand, i
    <3> QED BY <2>2, <2>6, <3>1, SumsDiffer
  <2>8. SumTo(m + 1, Of(m + 1)) = SumTo(m, Of(m)) + p[m + 1] /\ SumTo(m, Of(m)) \in Int
    <3>1. \A k \in 1 .. m : Of(m + 1)[k] = Of(m)[k]
      BY <2>1
    <3>2. Of(m + 1)[m + 1] = p[m + 1] /\ Of(m) \in [1 .. m -> Int] /\ Of(m + 1) \in [1 .. m + 1 -> Int]
      BY <1>1, <2>1
    <3> HIDE DEF Of
    <3> QED BY <2>1, <3>1, <3>2, SumGrows
  <2>9. p[m + 1] \in Int
    BY <2>1
  <2> HIDE DEF Hand, Of, i
  <2>10. SumTo(w, Hand(m + 1)) = SumTo(m + 1, Of(m + 1))
    <3> DEFINE before == SumTo(w, Hand(m))
               after  == SumTo(w, Hand(m + 1))
               had    == Hand(m)[i]
               value  == p[m + 1]
    <3>1. before \in Int /\ after \in Int /\ had \in Int /\ value \in Int
          /\ before + (had + value) = after + had
      BY <2>6, <2>7, <2>9
    <3>2. SumTo(m + 1, Of(m + 1)) = before + value
      BY <2>1, <2>8
    <3> HIDE DEF before, after, had, value
    <3>3. after = before + value
      BY <3>1
    <3> QED BY <3>2, <3>3 DEF after
  <2> QED BY <2>1, <2>10
<1>5. n \in S
  <2>1. S \in SUBSET (0 .. n)
    OBVIOUS
  <2> HIDE DEF S
  <2>2. \A m \in 0 .. n : m \in S
    BY <1>3, <1>4, <2>1, UpTo
  <2> QED BY <2>2
<1>6. Of(n) = p
  OBVIOUS
<1> QED BY <1>5, <1>6

LEMMA PartialIs ==
  ASSUME NEW l, NEW b, NEW h, IsRow(l, b, h), NEW t \in 0 .. l.lengths[b + 1] - 1,
         NEW lane
  PROVE  /\ Partial(l, b, h, t, lane)
              = SumTo(l.headDim, [k \in 1 .. l.headDim |->
                                    IF (k - 1) % WarpSize = lane THEN Products(l, b, h, t)[k] ELSE 0])
         /\ Partial(l, b, h, t, lane) \in Int
<1> DEFINE f == [k \in 1 .. l.headDim |->
                   IF (k - 1) % WarpSize = lane THEN Products(l, b, h, t)[k] ELSE 0]
<1>1. l.headDim \in Nat /\ f \in [1 .. l.headDim -> Int]
  BY ScoreIs
<1>2. Partial(l, b, h, t, lane) = SumTo(l.headDim, f)
  BY DEF Partial, SumOver, Products
<1> QED BY <1>1, <1>2, SumIsInt

\* Between them the lanes have the score.
LEMMA LanesAddUp ==
  ASSUME NEW l, NEW b, NEW h, IsRow(l, b, h), NEW t \in 0 .. l.lengths[b + 1] - 1,
         NEW f, f = [j \in 1 .. WarpSize |-> Partial(l, b, h, t, j - 1)]
  PROVE  SumTo(WarpSize, f) = Score(l, b, h, t)
<1> DEFINE p == Products(l, b, h, t)
           Dealt(j) == SumTo(l.headDim, [k \in 1 .. l.headDim |->
                                           IF (k - 1) % WarpSize = j - 1 THEN p[k] ELSE 0])
<1>1. /\ l.headDim \in Nat /\ p \in [1 .. l.headDim -> Int]
      /\ Score(l, b, h, t) = SumTo(l.headDim, p)
  BY ScoreIs
<1>2. \A j \in 1 .. WarpSize : Partial(l, b, h, t, j - 1) = Dealt(j)
  BY PartialIs
<1>3. f = [j \in 1 .. WarpSize |-> Dealt(j)]
  <2> HIDE DEF Dealt
  <2> QED BY <1>2
<1>4. SumTo(WarpSize, [j \in 1 .. WarpSize |-> Dealt(j)]) = SumTo(l.headDim, p)
  <2> HIDE DEF p
  <2> QED BY <1>1, WarpSizeIs, DealtOut
<1> HIDE DEF Dealt
<1> QED BY <1>1, <1>3, <1>4

\* Adding one half of the values to the other leaves what they add up to.
LEMMA HalvesAddUp ==
  ASSUME NEW n \in Nat, NEW f \in [1 .. 2 * n -> Int], NEW g \in [1 .. n -> Int],
         \A k \in 1 .. n : g[k] = f[k] + f[n + k]
  PROVE  SumTo(n, g) = SumTo(2 * n, f)
<1> DEFINE low  == [k \in 1 .. n |-> f[k]]
           high == [k \in 1 .. n |-> f[n + k]]
<1>1. /\ low \in [1 .. n -> Int] /\ high \in [1 .. n -> Int] /\ 2 * n = n + n
      /\ \A k \in 1 .. n : f[k] = low[k] /\ f[n + k] = high[k] /\ g[k] = low[k] + high[k]
  OBVIOUS
<1> HIDE DEF low, high
<1>2. f \in [1 .. n + n -> Int]
  BY <1>1
<1>3. SumTo(n + n, f) = SumTo(n, low) + SumTo(n, high)
  BY <1>1, <1>2, SumSplits
<1>4. SumTo(n, g) = SumTo(n, low) + SumTo(n, high)
  BY <1>1, SumOfSums
<1> QED BY <1>1, <1>3, <1>4

-----------------------------------------------------------------------------
(* What a lane has accumulated *)

\* A sum over one more token, relative to a maximum that may be newer.
LEMMA SumGoesOnRescaled ==
  ASSUME NEW n \in Nat, NEW old \in [1 .. n -> Int], NEW new \in [1 .. n + 1 -> Int],
         NEW c \in Nat \ {0}, \A k \in 1 .. n : old[k] = c * new[k]
  PROVE  SumTo(n + 1, new) = SumTo(n, old) \div c + new[n + 1]
<1> DEFINE f == [k \in 1 .. n |-> new[k]]
<1>1. c \in Int /\ f \in [1 .. n -> Int] /\ \A k \in 1 .. n : new[k] = f[k] /\ old[k] = c * f[k]
  OBVIOUS
<1> HIDE DEF f
<1>2. SumTo(n, f) \in Int /\ SumTo(n + 1, new) = SumTo(n, f) + new[n + 1]
  BY <1>1, SumGrows
<1>3. SumTo(n, old) = c * SumTo(n, f)
  <2>1. n \in Nat /\ c \in Int
    BY <1>1
  <2>2. f \in [1 .. n -> Int] /\ old \in [1 .. n -> Int] /\ \A k \in 1 .. n : old[k] = c * f[k]
    BY <1>1
  <2> QED BY ONLY <2>1, <2>2, SumOfMultiples
<1>4. SumTo(n, old) \div c = SumTo(n, f)
  BY <1>2, <1>3, ExactDivision
<1> QED BY <1>2, <1>4

\* The larger of the maximum so far and the next score.
LargerOf(old, score) == IF old = MinusInfinity \/ score > old THEN score ELSE old

LEMMA TopMoves ==
  ASSUME NEW l, NEW b, NEW h, IsRow(l, b, h), NEW n \in 0 .. l.lengths[b + 1] - 1,
         NEW old, IsTop(l, b, h, n, old),
         NEW new, new = LargerOf(old, Score(l, b, h, n))
  PROVE  /\ IsTop(l, b, h, n + 1, new)
         /\ \A t \in 0 .. n : Weight(Score(l, b, h, t), new) \in Int
         /\ IF n = 0 THEN old = MinusInfinity
            ELSE /\ old # MinusInfinity /\ Power[new - old] \in Nat \ {0}
                 /\ \A t \in 0 .. n - 1 :
                      Weight(Score(l, b, h, t), old) = Power[new - old] * Weight(Score(l, b, h, t), new)
<1> DEFINE s(t) == Score(l, b, h, t)
<1>1. \A t \in 0 .. n : s(t) \in Int /\ \A u \in 0 .. n : s(t) - s(u) <= Spread
  <2>1. ASSUME NEW t \in 0 .. n PROVE t \in 0 .. l.lengths[b + 1] - 1
    BY LengthIs
  <2> QED BY <2>1, ScoreIs, ScoresAreClose
<1>2. n \in Nat /\ n + 1 # 0 /\ 0 .. (n + 1) - 1 = 0 .. n /\ n \in 0 .. n
  OBVIOUS
<1>3. CASE n = 0
  <2>1. old = MinusInfinity /\ new = s(0)
    BY <1>3 DEF IsTop, LargerOf
  <2>2. IsTop(l, b, h, n + 1, new)
    <3>1. \A t \in 0 .. n : s(t) <= new
      BY <1>1, <1>3, <2>1
    <3> QED BY <1>2, <1>3, <2>1, <3>1 DEF IsTop
  <2>3. \A t \in 0 .. n : Weight(s(t), new) \in Int
    <3>1. s(0) \in Int /\ s(0) <= s(0) /\ s(0) - s(0) <= Spread
      BY <1>1, <1>3
    <3> HIDE DEF s
    <3>2. Weight(s(0), s(0)) \in Int
      BY <3>1, WeightsRescale
    <3> QED BY <1>3, <2>1, <3>2
  <2> QED BY <1>3, <2>1, <2>2, <2>3
<1>4. CASE n # 0
  <2>1. PICK u \in 0 .. n - 1 : s(u) = old
    BY <1>4 DEF IsTop
  <2>2. \A t \in 0 .. n - 1 : s(t) <= old /\ t \in 0 .. n
    BY <1>4 DEF IsTop
  <2>3. old \in Int /\ old # MinusInfinity
    BY <1>1, <2>1, <2>2, ExponentAssumption
  <2>4. new = IF s(n) > old THEN s(n) ELSE old
    BY <2>3 DEF LargerOf
  <2>5. PICK v \in 0 .. n : new = s(v)
    BY <1>2, <2>1, <2>2, <2>4
  <2>6. new \in Int /\ old <= new /\ \A t \in 0 .. n : s(t) <= new /\ new - s(t) <= Spread
    <3> HIDE DEF s
    <3>1. new \in Int /\ \A t \in 0 .. n : new - s(t) <= Spread
      BY <1>1, <2>5
    <3>2. old <= new /\ s(n) <= new
      BY <1>1, <1>2, <2>3, <2>4
    <3>3. ASSUME NEW t \in 0 .. n PROVE s(t) <= new
      <4>1. CASE t = n
        BY <3>2, <4>1
      <4>2. CASE t # n
        <5>1. t \in 0 .. n - 1 /\ s(t) \in Int
          BY <1>1, <4>2
        <5> QED BY <2>2, <2>3, <3>1, <3>2, <5>1
      <4> QED BY <4>1, <4>2
    <3> QED BY <3>1, <3>2, <3>3
  <2>7. IsTop(l, b, h, n + 1, new)
    BY <1>2, <2>5, <2>6 DEF IsTop
  <2> HIDE DEF s
  <2>8. \A t \in 0 .. n : Weight(s(t), new) \in Int
    <3> SUFFICES ASSUME NEW t \in 0 .. n PROVE Weight(s(t), new) \in Int
      OBVIOUS
    <3>1. s(t) \in Int /\ s(t) <= s(t) /\ s(t) <= new /\ new - s(t) <= Spread
      BY <1>1, <2>6
    <3> QED BY <2>6, <3>1, WeightsRescale
  <2>9. Power[new - old] \in Nat \ {0}
    BY <1>1, <2>1, <2>2, <2>3, <2>6, WeightsRescale
  <2>10. \A t \in 0 .. n - 1 : Weight(s(t), old) = Power[new - old] * Weight(s(t), new)
    <3> SUFFICES ASSUME NEW t \in 0 .. n - 1
                 PROVE  Weight(s(t), old) = Power[new - old] * Weight(s(t), new)
      OBVIOUS
    <3>1. s(t) \in Int /\ s(t) <= old /\ new - s(t) <= Spread
      BY <1>1, <2>2, <2>6
    <3> QED BY <2>3, <2>6, <3>1, WeightsRescale
  <2> QED BY <1>4, <2>3, <2>7, <2>8, <2>9, <2>10 DEF s
<1> QED BY <1>3, <1>4

\* What one step of the loop makes of the sums (paged_attention.cu:68-82).
LEMMA SumsMove ==
  ASSUME NEW l, NEW b, NEW h, IsRow(l, b, h), NEW n \in 0 .. l.lengths[b + 1] - 1,
         NEW old, IsTop(l, b, h, n, old),
         NEW new, new = LargerOf(old, Score(l, b, h, n))
  PROVE  /\ Denominator(l, b, h, n + 1, new)
              = Rescaled(Denominator(l, b, h, n, old), old, new) + Weight(Score(l, b, h, n), new)
         /\ \A d \in 0 .. l.headDim - 1 :
              Numerator(l, b, h, n + 1, new, d)
                = Rescaled(Numerator(l, b, h, n, old, d), old, new)
                    + Weight(Score(l, b, h, n), new)
                        * Value(BlockOf(l, b, n), GroupOf(l, h), n % l.blockTokens, d)
<1> DEFINE s(t) == Score(l, b, h, t)
           c == Power[new - old]
<1>1. n \in Nat /\ n \in 0 .. n
  BY LengthIs
<1>2. /\ \A t \in 0 .. n : Weight(s(t), new) \in Int
      /\ IF n = 0 THEN old = MinusInfinity
         ELSE /\ old # MinusInfinity /\ c \in Nat \ {0}
              /\ \A t \in 0 .. n - 1 : Weight(s(t), old) = c * Weight(s(t), new)
  BY TopMoves
<1>3. \A k \in 1 .. n : k - 1 \in 0 .. n - 1 /\ k - 1 \in 0 .. n
  BY <1>1
<1>4. \A k \in 1 .. n + 1 : k - 1 \in 0 .. n
  BY <1>1
<1>5. \A x : Rescaled(x, old, new) = IF n = 0 THEN 0 ELSE x \div c
  BY <1>2 DEF Rescaled
<1>6. ASSUME NEW v, \A t \in 0 .. n : v[t] \in Int
      PROVE  SumTo(n + 1, [k \in 1 .. n + 1 |-> Weight(s(k - 1), new) * v[k - 1]])
               = Rescaled(SumTo(n, [k \in 1 .. n |-> Weight(s(k - 1), old) * v[k - 1]]), old, new)
                   + Weight(s(n), new) * v[n]
  <2> DEFINE before == [k \in 1 .. n |-> Weight(s(k - 1), old) * v[k - 1]]
             after  == [k \in 1 .. n + 1 |-> Weight(s(k - 1), new) * v[k - 1]]
  <2> HIDE DEF s, c
  <2>1. after \in [1 .. n + 1 -> Int]
    BY <1>2, <1>4, <1>6
  <2>2. after[n + 1] = Weight(s(n), new) * v[n] /\ (n + 1) - 1 = n
    BY <1>1
  <2>3. CASE n = 0
    <3>1. before \in [1 .. 0 -> Int] /\ after \in [1 .. 0 + 1 -> Int]
          /\ \A k \in 1 .. 0 : after[k] = before[k]
      BY <2>1, <2>3
    <3>2. SumTo(0, before) = 0 /\ 0 \in Nat
      BY <3>1, SumOfNone
    <3>3. SumTo(0 + 1, after) = SumTo(0, before) + after[0 + 1]
      <4> HIDE DEF before, after
      <4> QED BY <3>1, <3>2, SumGrows
    <3>4. after[0 + 1] \in Int
      BY <2>1, <2>3
    <3> QED BY <1>5, <2>2, <2>3, <3>2, <3>3, <3>4
  <2>4. CASE n # 0
    <3>1. c \in Nat \ {0} /\ \A t \in 0 .. n - 1 : Weight(s(t), old) = c * Weight(s(t), new)
      BY <1>2, <2>4
    <3>2. ASSUME NEW k \in 1 .. n
          PROVE  before[k] = c * after[k] /\ before[k] \in Int
      <4> DEFINE w == Weight(s(k - 1), new)
                 x == v[k - 1]
      <4>1. w \in Int /\ x \in Int /\ c \in Int
        BY <1>2, <1>3, <1>6, <3>1
      <4>2. before[k] = (c * w) * x /\ after[k] = w * x
        BY <1>1, <1>3, <3>1
      <4> HIDE DEF w, x, before, after
      <4>3. (c * w) * x = c * (w * x) /\ (c * w) * x \in Int
        BY <4>1
      <4> QED BY <4>2, <4>3
    <3>3. before \in [1 .. n -> Int]
      BY <3>2
    <3> HIDE DEF before, after
    <3>4. SumTo(n + 1, after) = SumTo(n, before) \div c + after[n + 1]
      BY <1>1, <2>1, <3>1, <3>2, <3>3, SumGoesOnRescaled
    <3> QED BY <1>5, <2>2, <2>4, <3>4 DEF before, after
  <2> QED BY <2>3, <2>4
<1>7. Denominator(l, b, h, n + 1, new)
        = Rescaled(Denominator(l, b, h, n, old), old, new) + Weight(s(n), new)
  <2> DEFINE v == [t \in 0 .. n |-> 1]
             u(m, top) == [k \in 1 .. m |-> Weight(s(k - 1), top)]
  <2>1. SumTo(n + 1, [k \in 1 .. n + 1 |-> Weight(s(k - 1), new) * v[k - 1]])
          = Rescaled(SumTo(n, [k \in 1 .. n |-> Weight(s(k - 1), old) * v[k - 1]]), old, new)
              + Weight(s(n), new) * v[n]
    <3>1. \A t \in 0 .. n : v[t] \in Int
      OBVIOUS
    <3> HIDE DEF v, s
    <3> QED BY <1>6, <3>1
  <2> HIDE DEF s, c
  <2>2. [k \in 1 .. n + 1 |-> Weight(s(k - 1), new) * v[k - 1]]
          = [k \in 1 .. n + 1 |-> Weight(s(k - 1), new)]
    BY <1>2, <1>4
  <2>3. n # 0 => \A k \in 1 .. n : Weight(s(k - 1), old) \in Int
    BY <1>2, <1>3
  <2>4. [k \in 1 .. n |-> Weight(s(k - 1), old) * v[k - 1]]
          = [k \in 1 .. n |-> Weight(s(k - 1), old)]
    BY <1>1, <1>3, <2>3
  <2>5. Weight(s(n), new) * v[n] = Weight(s(n), new)
    BY <1>1, <1>2
  <2> HIDE DEF v
  <2>6. SumTo(n + 1, [k \in 1 .. n + 1 |-> Weight(s(k - 1), new)])
          = Rescaled(SumTo(n, [k \in 1 .. n |-> Weight(s(k - 1), old)]), old, new)
              + Weight(s(n), new)
    BY <2>1, <2>2, <2>4, <2>5
  <2> QED BY <2>6 DEF s, Denominator, SumOver
<1>8. ASSUME NEW d \in 0 .. l.headDim - 1
      PROVE  Numerator(l, b, h, n + 1, new, d)
               = Rescaled(Numerator(l, b, h, n, old, d), old, new)
                   + Weight(s(n), new)
                       * Value(BlockOf(l, b, n), GroupOf(l, h), n % l.blockTokens, d)
  <2> DEFINE x(t) == Value(BlockOf(l, b, t), GroupOf(l, h), t % l.blockTokens, d)
             v == [t \in 0 .. n |-> x(t)]
  <2>1. \A t \in 0 .. n : x(t) \in Int
    <3> SUFFICES ASSUME NEW t \in 0 .. n PROVE x(t) \in Int
      OBVIOUS
    <3>1. t \in 0 .. l.lengths[b + 1] - 1
      BY LengthIs
    <3>2. /\ BlockOf(l, b, t) \in 0 .. l.blocks - 1 /\ GroupOf(l, h) \in 0 .. l.kvHeads - 1
          /\ t % l.blockTokens \in 0 .. l.blockTokens - 1
      BY <3>1, TokenIsCached
    <3> QED BY <3>2, ElementsAssumption DEF IsRow
  <2>2. SumTo(n + 1, [k \in 1 .. n + 1 |-> Weight(s(k - 1), new) * v[k - 1]])
          = Rescaled(SumTo(n, [k \in 1 .. n |-> Weight(s(k - 1), old) * v[k - 1]]), old, new)
              + Weight(s(n), new) * v[n]
    <3>1. \A t \in 0 .. n : v[t] \in Int
      <4> HIDE DEF x
      <4> QED BY <2>1
    <3> HIDE DEF v, s
    <3> QED BY <1>6, <3>1
  <2> HIDE DEF s, c, x
  <2>3. [k \in 1 .. n + 1 |-> Weight(s(k - 1), new) * v[k - 1]]
          = [k \in 1 .. n + 1 |-> Weight(s(k - 1), new) * x(k - 1)]
    BY <1>4
  <2>4. [k \in 1 .. n |-> Weight(s(k - 1), old) * v[k - 1]]
          = [k \in 1 .. n |-> Weight(s(k - 1), old) * x(k - 1)]
    BY <1>3
  <2>5. v[n] = x(n)
    BY <1>1
  <2> HIDE DEF v
  <2>6. SumTo(n + 1, [k \in 1 .. n + 1 |-> Weight(s(k - 1), new) * x(k - 1)])
          = Rescaled(SumTo(n, [k \in 1 .. n |-> Weight(s(k - 1), old) * x(k - 1)]), old, new)
              + Weight(s(n), new) * x(n)
    BY <2>2, <2>3, <2>4, <2>5
  <2> QED BY <2>6 DEF s, x, Numerator, SumOver
<1> QED BY <1>7, <1>8

LEMMA NoSumsYet ==
  ASSUME NEW l, NEW b, NEW h, NEW top, NEW d
  PROVE  Denominator(l, b, h, 0, top) = 0 /\ Numerator(l, b, h, 0, top, d) = 0
<1> DEFINE w == [k \in 1 .. 0 |-> Weight(Score(l, b, h, k - 1), top)]
           x == [k \in 1 .. 0 |->
                   Weight(Score(l, b, h, k - 1), top)
                     * Value(BlockOf(l, b, k - 1), GroupOf(l, h), (k - 1) % l.blockTokens, d)]
<1>1. w \in [1 .. 0 -> Int] /\ x \in [1 .. 0 -> Int]
  OBVIOUS
<1>2. Denominator(l, b, h, 0, top) = SumTo(0, w) /\ Numerator(l, b, h, 0, top, d) = SumTo(0, x)
  BY DEF Denominator, Numerator, SumOver
<1> HIDE DEF w, x
<1> QED BY <1>1, <1>2, SumOfNone

\* The element that a lane loads is the one the reference means.
LEMMA LoadsAre ==
  ASSUME AddressInv, NEW l \in Lanes, InLoop(l), NEW d \in 0 .. launch.headDim - 1
  PROVE  LET entry == BlockOf(launch, Batch, token[l])
             group == GroupOf(launch, QueryHead)
             place == token[l] % launch.blockTokens
         IN  /\ Load(Key, CacheIndex(l) + d) = Key(entry, group, place, d)
             /\ Load(Value, CacheIndex(l) + d) = Value(entry, group, place, d)
<1> DEFINE entry == BlockOf(launch, Batch, token[l])
           group == GroupOf(launch, QueryHead)
           place == token[l] % launch.blockTokens
           size  == launch.blockTokens
           dims  == launch.headDim
           heads == launch.kvHeads
           head  == entry * heads + group
           a     == CacheIndex(l) + d
<1>1. IsRow(launch, Batch, QueryHead) /\ token[l] \in 0 .. launch.lengths[Batch + 1] - 1
  BY RowOfBlock, CacheAddress DEF InLoop
<1>2. /\ heads \in Nat \ {0} /\ size \in Nat \ {0} /\ dims \in Nat \ {0}
      /\ launch.blocks \in Nat
  BY <1>1, AcceptedShape DEF IsRow
<1>3. /\ entry \in 0 .. launch.blocks - 1 /\ group \in 0 .. heads - 1 /\ place \in 0 .. size - 1
  BY <1>1, TokenIsCached
<1>4. a = (head * size + place) * dims + d
  BY CacheAddress
<1> HIDE DEF entry, group, place, size, dims, heads
<1>5. head \in Nat /\ head \div heads = entry /\ head % heads = group
  <2>1. entry \in Nat /\ entry * heads \in Nat /\ group \in Nat
    BY <1>2, <1>3
  <2> QED BY <1>2, <1>3, <2>1, RowOfEntry
<1> HIDE DEF head
<1> DEFINE rowOf == head * size + place
<1>6. rowOf \in Nat /\ rowOf \div size = head /\ rowOf % size = place
  <2>1. head * size \in Nat /\ place \in Nat
    BY <1>2, <1>3, <1>5
  <2> QED BY <1>2, <1>3, <1>5, <2>1, RowOfEntry
<1> HIDE DEF rowOf
<1>7. a = rowOf * dims + d
  BY <1>4 DEF rowOf
<1>8. a \div dims = rowOf /\ a % dims = d
  <2>1. d \in 0 .. dims - 1
    BY DEF dims
  <2>2. dims \in Nat \ {0}
    BY <1>2
  <2> QED BY ONLY <1>6, <1>7, <2>1, <2>2, RowOfEntry
<1> HIDE DEF a
<1>9. /\ ((a \div launch.headDim) \div launch.blockTokens) \div launch.kvHeads = entry
      /\ ((a \div launch.headDim) \div launch.blockTokens) % launch.kvHeads = group
      /\ (a \div launch.headDim) % launch.blockTokens = place
      /\ a % launch.headDim = d
  BY <1>5, <1>6, <1>8 DEF dims, size, heads
<1>10. Load(Key, a) = Key(entry, group, place, d) /\ Load(Value, a) = Value(entry, group, place, d)
  BY <1>9 DEF Load
<1> QED BY <1>10 DEF a, entry, group, place

-----------------------------------------------------------------------------
(* The warp has the score of its token *)

LEMMA RowStays ==
  ASSUME UNCHANGED <<launch, row>>
  PROVE  /\ Batch' = Batch /\ QueryHead' = QueryHead /\ SequenceLength' = SequenceLength
         /\ RowBase' = RowBase /\ KvHead' = KvHead /\ Grid' = Grid
         /\ \A l : LaneDims(l)' = LaneDims(l)
BY DEF Batch, QueryHead, SequenceLength, RowBase, KvHead, Grid, LaneDims

LEMMA InitWarp == Init => WarpInv
<1> SUFFICES ASSUME Init PROVE WarpInv
  OBVIOUS
<1>1. /\ at = [l \in Lanes |-> "done"] /\ token = [l \in Lanes |-> 0]
      /\ dot = [l \in Lanes |-> 0] /\ offset = 0
  BY DEF Init
<1>2. 0 <= WarpSize \div 2
  BY WarpAssumption
<1>3. AllAt("done")
  BY <1>1 DEF AllAt
<1>4. \A l \in Lanes : Progress(l) = 0
  BY <1>1 DEF Progress
<1> QED BY <1>1, <1>2, <1>3, <1>4 DEF WarpInv

\* No shuffle is under way while a lane is anywhere else.
LEMMA NoShuffle ==
  ASSUME WarpInv, NEW l \in Lanes, at[l] \notin {"shuffle", "done"}
  PROVE  offset = WarpSize \div 2
BY DEF WarpInv, AllAt

\* A step of one lane.
LEMMA LaneStepWarp ==
  ASSUME AddressInv, WarpInv, NEW l \in Lanes, NEW place, Goto(l, place),
         at[l] \notin {"shuffle", "done"}, place # "update",
         UNCHANGED <<launch, row, offset>>, dot' \in [Lanes -> Int],
         \A m \in Lanes \ {l} : dot'[m] = dot[m] /\ token'[m] = token[m],
         token'[l] = Progress(l),
         place = "shuffle" => dot'[l] = Partial(launch, Batch, QueryHead, token'[l], l)
  PROVE  WarpInv'
<1>1. DOMAIN at' = Lanes /\ at'[l] = place /\ \A m \in Lanes \ {l} : at'[m] = at[m]
  BY DEF AddressInv, Goto
<1>2. Batch' = Batch /\ QueryHead' = QueryHead
  BY RowStays
<1>3. offset = WarpSize \div 2 /\ offset' = WarpSize \div 2
  BY NoShuffle
<1>4. \A m \in Lanes : Progress(m)' = Progress(m)
  BY <1>1 DEF Progress
<1>5. \A m \in Lanes : \A o \in Lanes : Progress(m)' = Progress(o)'
  BY <1>4 DEF WarpInv
<1>6. ASSUME NEW m \in Lanes
      PROVE  /\ at'[m] = "shuffle" =>
                  dot'[m] = Partial(launch', Batch', QueryHead', token'[m], m)
             /\ at'[m] = "update" => dot'[m] = Score(launch', Batch', QueryHead', token'[m])
  <2>1. CASE m = l
    BY <1>1, <1>2, <2>1
  <2>2. CASE m # l
    BY <1>1, <1>2, <1>3, <2>2 DEF WarpInv
  <2> QED BY <2>1, <2>2
<1> QED BY <1>3, <1>5, <1>6 DEF WarpInv

LEMMA StartBlockWarp == ASSUME StartBlock PROVE WarpInv'
<1>1. /\ at' = [l \in Lanes |-> "load"] /\ token' = [l \in Lanes |-> 0]
      /\ dot' = [l \in Lanes |-> 0] /\ offset' = WarpSize \div 2
  BY DEF StartBlock
<1>2. WarpSize \div 2 \in {1, 2, 4, 8, 16} /\ offset' <= WarpSize \div 2
  BY <1>1, WarpAssumption
<1>3. \A l \in Lanes : Progress(l)' = 0
  BY <1>1 DEF Progress
<1> QED BY <1>1, <1>2, <1>3 DEF WarpInv

LEMMA SyncthreadsWarp == ASSUME AddressInv, WarpInv, Syncthreads PROVE WarpInv'
<1>1. /\ \A l \in Lanes : at[l] = "barrier"
      /\ at' = [l \in Lanes |-> "dot"] /\ UNCHANGED <<launch, row, token, dot, offset>>
  BY DEF Syncthreads, laneVars
<1>2. 0 \in Lanes
  BY WarpSizeIs
<1>3. offset = WarpSize \div 2
  BY <1>1, <1>2, NoShuffle
<1>4. \A l \in Lanes : Progress(l)' = Progress(l)
  BY <1>1 DEF Progress
<1> QED BY <1>1, <1>3, <1>4 DEF WarpInv

\* The products of a lane's dimensions, of what it has loaded.
LEMMA PartialDotWarp ==
  ASSUME AddressInv, WarpInv, LanesInv, NEW l \in Lanes, PartialDot(l) PROVE WarpInv'
<1> DEFINE n == launch.headDim
           of(d) == IF d \in LaneDims(l) THEN queryTile[d] * Load(Key, CacheIndex(l) + d) ELSE 0
           ref(d) == IF d % WarpSize = l
                     THEN Query((Batch * launch.queryHeads + QueryHead) * launch.headDim + d)
                            * Key(BlockOf(launch, Batch, token[l]), GroupOf(launch, QueryHead),
                                  token[l] % launch.blockTokens, d)
                     ELSE 0
<1>1. /\ at[l] = "dot" /\ Goto(l, "shuffle")
      /\ dot' = [dot EXCEPT ![l] = SumOver(n, of)]
      /\ UNCHANGED <<launch, row, token, offset>>
  BY DEF PartialDot, laneVars
<1>2. /\ IsRow(launch, Batch, QueryHead) /\ token[l] \in 0 .. launch.lengths[Batch + 1] - 1
      /\ Loaded(l) /\ InLoop(l)
  <2>1. InLoop(l) /\ at[l] # "done" /\ at[l] # "load"
    BY <1>1 DEF InLoop
  <2> QED BY <2>1, RowOfBlock, CacheAddress DEF LanesInv
<1>3. n \in Nat
  BY <1>2, ScoreIs
<1>4. \A d \in 0 .. n - 1 : of(d) = ref(d)
  <2> SUFFICES ASSUME NEW d \in 0 .. n - 1 PROVE of(d) = ref(d)
    OBVIOUS
  <2>1. d \in LaneDims(l) <=> d % WarpSize = l
    BY DEF LaneDims
  <2>2. Load(Key, CacheIndex(l) + d)
          = Key(BlockOf(launch, Batch, token[l]), GroupOf(launch, QueryHead),
                token[l] % launch.blockTokens, d)
    BY <1>2, LoadsAre
  <2>3. d \in LaneDims(l) =>
          queryTile[d] = Query((Batch * launch.queryHeads + QueryHead) * launch.headDim + d)
    BY <1>2 DEF Loaded, RowBase
  <2> QED BY <2>1, <2>2, <2>3
<1>5. Partial(launch, Batch, QueryHead, token[l], l) = SumOver(n, ref)
  BY DEF Partial
<1>6. [k \in 1 .. n |-> of(k - 1)] = [k \in 1 .. n |-> ref(k - 1)]
  <2>1. \A k \in 1 .. n : k - 1 \in 0 .. n - 1
    BY <1>3
  <2> HIDE DEF of, ref
  <2> QED BY <1>4, <2>1
<1>7. SumOver(n, of) = Partial(launch, Batch, QueryHead, token[l], l)
  <2> HIDE DEF of, ref
  <2> QED BY <1>5, <1>6 DEF SumOver
<1>8. Partial(launch, Batch, QueryHead, token[l], l) \in Int
  BY <1>2, PartialIs
<1> HIDE DEF of, ref
<1>9. /\ dot' \in [Lanes -> Int] /\ \A m \in Lanes \ {l} : dot'[m] = dot[m]
      /\ dot'[l] = Partial(launch, Batch, QueryHead, token'[l], l)
  BY <1>1, <1>7, <1>8 DEF WarpInv
<1>10. token'[l] = Progress(l)
  BY <1>1 DEF Progress
<1> QED BY <1>1, <1>9, <1>10, LaneStepWarp

\* While the lanes shuffle, those below Width have the score between them.
LEMMA ShufflesAddUp ==
  ASSUME AddressInv, WarpInv, AllAt("shuffle"), NEW l \in Lanes
  PROVE  SumOver(Width, DotOf) = Score(launch, Batch, QueryHead, token[l])
<1>1. CASE offset # WarpSize \div 2
  BY <1>1 DEF WarpInv, AllAt
<1>2. CASE offset = WarpSize \div 2
  <2>1. Width = WarpSize
    BY <1>2, WarpAssumption DEF Width
  <2>2. IsRow(launch, Batch, QueryHead) /\ token[l] \in 0 .. launch.lengths[Batch + 1] - 1
    BY RowOfBlock, CacheAddress DEF AllAt, InLoop
  <2> DEFINE f == [j \in 1 .. WarpSize |-> dot[j - 1]]
  <2>3. ASSUME NEW j \in 1 .. WarpSize
        PROVE  dot[j - 1] = Partial(launch, Batch, QueryHead, token[l], j - 1)
    <3>1. j - 1 \in Lanes
      BY WarpSizeIs
    <3>2. dot[j - 1] = Partial(launch, Batch, QueryHead, token[j - 1], j - 1)
      BY <1>2, <3>1 DEF WarpInv, AllAt
    <3>3. token[j - 1] = token[l]
      <4>1. Progress(j - 1) = Progress(l)
        BY <3>1 DEF WarpInv
      <4> QED BY <3>1, <4>1 DEF Progress, AllAt
    <3> QED BY <3>2, <3>3
  <2>4. f = [j \in 1 .. WarpSize |-> Partial(launch, Batch, QueryHead, token[l], j - 1)]
    BY <2>3
  <2>5. SumTo(WarpSize, f) = Score(launch, Batch, QueryHead, token[l])
    <3> HIDE DEF f
    <3> QED BY <2>2, <2>4, LanesAddUp
  <2> QED BY <2>1, <2>5 DEF SumOver, DotOf
<1> QED BY <1>1, <1>2

LEMMA ShuffleDownWarp == ASSUME AddressInv, WarpInv, ShuffleDown PROVE WarpInv'
<1> DEFINE s == Score(launch, Batch, QueryHead, token[0])
<1>1. /\ offset > 0 /\ AllAt("shuffle")
      /\ dot' = [l \in Lanes |-> dot[l] + ShuffledDown(l)] /\ offset' = offset \div 2
      /\ UNCHANGED <<launch, row, at, token>>
  BY DEF ShuffleDown, laneVars, AllAt
<1>2. /\ dot \in [Lanes -> Int] /\ offset \in {1, 2, 4, 8, 16} /\ offset <= WarpSize \div 2
      /\ 2 * offset <= WarpSize /\ WarpSize \in Nat /\ 0 \in Lanes /\ Lanes = 0 .. WarpSize - 1
  <2>1. dot \in [Lanes -> Int] /\ offset \in {1, 2, 4, 8, 16} /\ offset <= WarpSize \div 2
    BY <1>1 DEF WarpInv
  <2>2. 2 * offset <= WarpSize
    BY <2>1, WarpAssumption
  <2> QED BY <2>1, <2>2, WarpSizeIs
<1>3. \A l \in Lanes : token[l] = token[0]
  <2> SUFFICES ASSUME NEW l \in Lanes PROVE token[l] = token[0]
    OBVIOUS
  <2>1. Progress(l) = Progress(0)
    BY <1>2 DEF WarpInv
  <2> QED BY <1>1, <1>2, <2>1 DEF Progress, AllAt
<1>4. Width = 2 * offset /\ Width' = offset /\ offset' \in {0, 1, 2, 4, 8} /\ offset' < offset
  BY <1>1, <1>2 DEF Width
<1> DEFINE f == [k \in 1 .. 2 * offset |-> dot[k - 1]]
           g == [k \in 1 .. offset |-> dot'[k - 1]]
<1>5. SumTo(2 * offset, f) = s
  BY <1>1, <1>2, <1>4, ShufflesAddUp DEF SumOver, DotOf
<1>6. ASSUME NEW l \in Lanes PROVE ShuffledDown(l) \in Int /\ dot'[l] \in Int
  <2>1. ShuffledDown(l) \in Int
    BY <1>2 DEF ShuffledDown
  <2> QED BY <1>1, <1>2, <2>1
<1>7. f \in [1 .. 2 * offset -> Int]
  <2>1. \A k \in 1 .. 2 * offset : k - 1 \in Lanes
    BY <1>2
  <2> QED BY <1>2, <2>1
<1>8. ASSUME NEW k \in 1 .. offset
      PROVE  g[k] \in Int /\ g[k] = f[k] + f[offset + k]
  <2>1. k - 1 \in Lanes /\ k \in 1 .. 2 * offset /\ offset + k \in 1 .. 2 * offset
        /\ k - 1 + offset = (offset + k) - 1 /\ k - 1 + offset < WarpSize
    BY <1>2
  <2>2. dot'[k - 1] = dot[k - 1] + dot[(offset + k) - 1]
    BY <1>1, <2>1 DEF ShuffledDown
  <2> QED BY <1>6, <2>1, <2>2
<1>9. g \in [1 .. offset -> Int]
  BY <1>8
<1>10. SumTo(offset, g) = s
  <2> HIDE DEF f, g, s
  <2>1. offset \in Nat /\ \A k \in 1 .. offset : g[k] = f[k] + f[offset + k]
    BY <1>2, <1>8
  <2>2. SumTo(offset, g) = SumTo(2 * offset, f)
    BY <1>7, <1>9, <2>1, HalvesAddUp
  <2> QED BY <1>5, <2>2
<1>11. SumOver(Width, DotOf)' = s
  <2>1. SumOver(Width, DotOf)' = SumTo(Width', [k \in 1 .. Width' |-> dot'[k - 1]])
    BY DEF SumOver, DotOf
  <2> QED BY <1>4, <1>10, <2>1
<1>12. Batch' = Batch /\ QueryHead' = QueryHead
  BY <1>1, RowStays
<1>13. AllAt("shuffle")'
  BY <1>1 DEF AllAt
<1>14. \A l \in Lanes : Progress(l)' = Progress(l)
  BY <1>1 DEF Progress
<1>15. offset' # WarpSize \div 2 /\ offset' <= WarpSize \div 2 /\ offset' \in {0, 1, 2, 4, 8, 16}
  BY <1>2, <1>4, WarpAssumption
<1>16. dot' \in [Lanes -> Int]
  BY <1>1, <1>6
<1>17. \A l \in Lanes :
         at'[l] = "shuffle"
           /\ SumOver(Width, DotOf)' = Score(launch', Batch', QueryHead', token'[l])
  BY <1>1, <1>3, <1>11, <1>12 DEF AllAt
<1> QED BY <1>13, <1>14, <1>15, <1>16, <1>17 DEF WarpInv

LEMMA BroadcastWarp == ASSUME AddressInv, WarpInv, Broadcast PROVE WarpInv'
<1>1. /\ offset = 0 /\ AllAt("shuffle") /\ dot' = [l \in Lanes |-> dot[0]]
      /\ offset' = WarpSize \div 2 /\ at' = [l \in Lanes |-> "update"]
      /\ UNCHANGED <<launch, row, token>>
  BY DEF Broadcast, laneVars, AllAt
<1>2. WarpSize \div 2 \in {1, 2, 4, 8, 16} /\ offset' <= WarpSize \div 2
  BY <1>1, WarpAssumption
<1>3. 0 \in Lanes /\ dot[0] \in Int
  BY WarpSizeIs DEF WarpInv
<1>4. SumOver(Width, DotOf) = dot[0]
  <2> DEFINE f == [k \in 1 .. 1 |-> dot[k - 1]]
  <2>1. f \in [1 .. 0 + 1 -> Int] /\ f[0 + 1] = dot[0]
    BY <1>3
  <2>2. SumOver(Width, DotOf) = SumTo(1, f)
    BY <1>1 DEF SumOver, Width, DotOf
  <2> HIDE DEF f
  <2> DEFINE e == [k \in 1 .. 0 |-> 0]
  <2>3. e \in [1 .. 0 -> Int] /\ \A k \in 1 .. 0 : f[k] = e[k]
    OBVIOUS
  <2> HIDE DEF e
  <2>4. SumTo(0 + 1, f) = SumTo(0, e) + f[0 + 1]
    BY <2>1, <2>3, SumGrows
  <2>5. SumTo(0, e) = 0
    BY <2>3, SumOfNone
  <2> QED BY <1>3, <2>1, <2>2, <2>4, <2>5
<1>5. Batch' = Batch /\ QueryHead' = QueryHead
  BY <1>1, RowStays
<1>6. \A l \in Lanes : dot'[l] = Score(launch', Batch', QueryHead', token'[l])
  BY <1>1, <1>4, <1>5, ShufflesAddUp
<1>7. \A l \in Lanes : Progress(l)' = Progress(l) + 1
  BY <1>1 DEF Progress, AllAt
<1>8. \A l \in Lanes : \A m \in Lanes : Progress(l)' = Progress(m)'
  BY <1>7 DEF WarpInv
<1>9. dot' \in [Lanes -> Int]
  BY <1>1, <1>3
<1> QED BY <1>1, <1>2, <1>6, <1>8, <1>9 DEF WarpInv

LEMMA NextWarp == AddressInv /\ LanesInv /\ WarpInv /\ [Next]_vars => WarpInv'
<1> SUFFICES ASSUME AddressInv, LanesInv, WarpInv, [Next]_vars PROVE WarpInv'
  OBVIOUS
<1>1. CASE Refuse \/ DivideByZero \/ Launch \/ Returned \/ UNCHANGED vars
  <2>1. UNCHANGED <<launch, row, at, token, dot, offset>>
    BY <1>1 DEF Refuse, DivideByZero, Launch, Returned, vars, warpVars, laneVars
  <2>2. /\ Batch' = Batch /\ QueryHead' = QueryHead
        /\ \A l \in Lanes : Progress(l)' = Progress(l)
        /\ SumOver(Width, DotOf)' = SumOver(Width, DotOf)
    BY <2>1, RowStays DEF Progress, SumOver, Width, DotOf
  <2>3. AllAt("shuffle")' = AllAt("shuffle") /\ AllAt("done")' = AllAt("done")
    BY <2>1 DEF AllAt
  <2>4. \A l \in Lanes :
          /\ at'[l] = "shuffle" =>
               IF offset' = WarpSize \div 2
               THEN dot'[l] = Partial(launch', Batch', QueryHead', token'[l], l)
               ELSE SumOver(Width, DotOf)' = Score(launch', Batch', QueryHead', token'[l])
          /\ at'[l] = "update" => dot'[l] = Score(launch', Batch', QueryHead', token'[l])
    BY <2>1, <2>2 DEF WarpInv
  <2>5. \A l \in Lanes : \A m \in Lanes : Progress(l)' = Progress(m)'
    BY <2>2 DEF WarpInv
  <2> QED BY <2>1, <2>3, <2>4, <2>5 DEF WarpInv
<1>2. CASE StartBlock
  BY <1>2, StartBlockWarp
<1>3. CASE Syncthreads
  BY <1>3, SyncthreadsWarp
<1>4. CASE ShuffleDown
  BY <1>4, ShuffleDownWarp
<1>5. CASE Broadcast
  BY <1>5, BroadcastWarp
<1>6. CASE LaneStep
  <2> PICK l \in Lanes : LoadQuery(l) \/ PartialDot(l) \/ Update(l) \/ WriteOutput(l)
    BY <1>6 DEF LaneStep
  <2>1. CASE LoadQuery(l)
    <3>1. Goto(l, "barrier") /\ at[l] = "load" /\ UNCHANGED <<launch, row, token, dot, offset>>
      BY <2>1 DEF LoadQuery, laneVars
    <3>2. token'[l] = Progress(l) /\ dot' \in [Lanes -> Int]
      BY <3>1 DEF Progress, WarpInv
    <3> QED BY <3>1, <3>2, LaneStepWarp
  <2>2. CASE PartialDot(l)
    BY <2>2, PartialDotWarp
  <2>3. CASE Update(l)
    <3> DEFINE place == IF token[l] + 1 < SequenceLength THEN "dot" ELSE "write"
    <3>1. Goto(l, place) /\ at[l] = "update" /\ UNCHANGED <<launch, row, dot, offset>>
          /\ token' = [token EXCEPT ![l] = @ + 1]
      BY <2>3 DEF Update
    <3>2. /\ token'[l] = Progress(l) /\ \A m \in Lanes \ {l} : token'[m] = token[m]
          /\ dot' \in [Lanes -> Int] /\ place # "update" /\ place # "shuffle"
      BY <3>1 DEF Progress, WarpInv, AddressInv
    <3> HIDE DEF place
    <3> QED BY <3>1, <3>2, LaneStepWarp
  <2>4. CASE WriteOutput(l)
    <3>1. Goto(l, "done") /\ at[l] = "write" /\ UNCHANGED <<launch, row, token, dot, offset>>
      BY <2>4 DEF WriteOutput, laneVars
    <3>2. token'[l] = Progress(l) /\ dot' \in [Lanes -> Int]
      BY <3>1 DEF Progress, WarpInv
    <3> QED BY <3>1, <3>2, LaneStepWarp
  <2> QED BY <2>1, <2>2, <2>3, <2>4
<1> QED BY <1>1, <1>2, <1>3, <1>4, <1>5, <1>6 DEF Next

-----------------------------------------------------------------------------
(* The lanes have the sums of the tokens they are past *)

LEMMA InitLanes == Init => LanesInv
BY DEF Init, LanesInv

LEMMA AccumulatedStays ==
  ASSUME NEW l \in Lanes, UNCHANGED <<launch, row>>,
         UNCHANGED <<token[l], maximum[l], denominator[l], outputTile[l]>>
  PROVE  HasAccumulated(l)' = HasAccumulated(l)
<1>1. Batch' = Batch /\ QueryHead' = QueryHead
  BY RowStays
<1> QED BY <1>1 DEF HasAccumulated

LEMMA LoadedStays ==
  ASSUME NEW l \in Lanes, UNCHANGED <<launch, row, queryTile>>
  PROVE  Loaded(l)' = Loaded(l)
<1>1. RowBase' = RowBase /\ LaneDims(l)' = LaneDims(l)
  BY RowStays
<1> QED BY <1>1 DEF Loaded

\* A step of one lane.
LEMMA LaneStepLanes ==
  ASSUME AddressInv, LanesInv, NEW l \in Lanes, NEW place, Goto(l, place), at[l] # "done",
         UNCHANGED <<launch, row>>,
         DOMAIN maximum' = Lanes, DOMAIN denominator' = Lanes, DOMAIN outputTile' = Lanes,
         \A m \in Lanes \ {l} :
           UNCHANGED <<token[m], maximum[m], denominator[m], outputTile[m]>>,
         \A m \in Lanes : Loaded(m) => Loaded(m)',
         place # "done" => HasAccumulated(l)' /\ Loaded(l)',
         place = "write" => token'[l] = SequenceLength
  PROVE  LanesInv'
<1>1. DOMAIN at' = Lanes /\ at'[l] = place /\ \A m \in Lanes \ {l} : at'[m] = at[m]
  BY DEF AddressInv, Goto
<1>2. SequenceLength' = SequenceLength
  BY RowStays
<1>3. ASSUME NEW m \in Lanes, at'[m] # "done"
      PROVE  /\ HasAccumulated(m)'
             /\ at'[m] # "load" => Loaded(m)'
             /\ at'[m] = "write" => token'[m] = SequenceLength'
  <2>1. CASE m = l
    BY <1>1, <1>2, <1>3, <2>1
  <2>2. CASE m # l
    <3>1. at[m] = at'[m] /\ token'[m] = token[m]
      BY <1>1, <2>2
    <3>2. HasAccumulated(m)' = HasAccumulated(m)
      BY <2>2, AccumulatedStays
    <3> QED BY <1>2, <1>3, <3>1, <3>2 DEF LanesInv
  <2> QED BY <2>1, <2>2
<1> QED BY <1>3 DEF LanesInv

LEMMA StartBlockLanes == ASSUME StartBlock PROVE LanesInv'
<1>1. /\ at' = [l \in Lanes |-> "load"] /\ token' = [l \in Lanes |-> 0]
      /\ maximum' = [l \in Lanes |-> MinusInfinity] /\ denominator' = [l \in Lanes |-> 0]
      /\ outputTile' = [l \in Lanes |-> [v \in 0 .. TileSize - 1 |-> 0]]
  BY DEF StartBlock
<1>2. ASSUME NEW l \in Lanes PROVE HasAccumulated(l)'
  <2>1. /\ token'[l] = 0 /\ maximum'[l] = MinusInfinity /\ denominator'[l] = 0
        /\ outputTile'[l] = [v \in 0 .. TileSize - 1 |-> 0]
    BY <1>1
  <2>2. IsTop(launch', Batch', QueryHead', token'[l], maximum'[l])
    BY <2>1 DEF IsTop
  <2>3. denominator'[l] = Denominator(launch', Batch', QueryHead', token'[l], maximum'[l])
    BY <2>1, NoSumsYet
  <2>4. \A v \in 0 .. TileSize - 1 :
          outputTile'[l][v]
            = Numerator(launch', Batch', QueryHead', token'[l], maximum'[l], l + v * WarpSize)
    BY <2>1, NoSumsYet
  <2> QED BY <2>1, <2>2, <2>3, <2>4 DEF HasAccumulated
<1> QED BY <1>1, <1>2 DEF LanesInv

\* paged_attention.cu:68-82
LEMMA UpdateLanes ==
  ASSUME AddressInv, WarpInv, LanesInv, NEW l \in Lanes, Update(l) PROVE LanesInv'
<1> DEFINE n     == token[l]
           score == Score(launch, Batch, QueryHead, n)
           old   == maximum[l]
           next  == LargerOf(old, score)
           place == IF token[l] + 1 < SequenceLength THEN "dot" ELSE "write"
           of(v) == IF l + v * WarpSize >= launch.headDim THEN outputTile[l][v]
                    ELSE Rescaled(outputTile[l][v], old, next)
                           + Weight(score, next)
                               * Load(Value, CacheIndex(l) + (l + v * WarpSize))
<1>1. at[l] = "update" /\ InLoop(l) /\ dot[l] = score
  BY DEF Update, InLoop, WarpInv
<1>2. next = IF maximum[l] = MinusInfinity \/ dot[l] > maximum[l] THEN dot[l] ELSE maximum[l]
  BY <1>1 DEF LargerOf
<1>3. /\ Goto(l, place) /\ UNCHANGED <<launch, row, queryTile>>
      /\ denominator' = [denominator EXCEPT ![l] = Rescaled(@, old, next) + Weight(score, next)]
      /\ maximum' = [maximum EXCEPT ![l] = next]
      /\ outputTile' = [outputTile EXCEPT ![l] = [v \in DOMAIN @ |-> of(v)]]
      /\ token' = [token EXCEPT ![l] = @ + 1]
  <2> HIDE DEF next, score
  <2> QED BY <1>1, <1>2 DEF Update
<1>4. /\ IsRow(launch, Batch, QueryHead) /\ n \in 0 .. launch.lengths[Batch + 1] - 1
      /\ SequenceLength = launch.lengths[Batch + 1] /\ SequenceLength \in Nat \ {0}
  <2>1. at[l] # "done"
    BY <1>1
  <2> QED BY <1>1, <2>1, RowOfBlock, CacheAddress
<1>5. HasAccumulated(l) /\ Loaded(l) /\ token \in [Lanes -> Nat]
  BY <1>1 DEF LanesInv, AddressInv
<1>6. IsTop(launch, Batch, QueryHead, n, old)
  BY <1>5 DEF HasAccumulated
<1> HIDE DEF of
<1>7. /\ token'[l] = n + 1 /\ maximum'[l] = next
      /\ denominator'[l] = Rescaled(denominator[l], old, next) + Weight(score, next)
      /\ outputTile'[l] = [v \in 0 .. TileSize - 1 |-> of(v)]
  <2>1. DOMAIN outputTile[l] = 0 .. TileSize - 1
    BY <1>5 DEF HasAccumulated
  <2> HIDE DEF next, score
  <2> QED BY <1>3, <1>5, <2>1 DEF LanesInv
<1>8. IsTop(launch, Batch, QueryHead, n + 1, next)
  <2> HIDE DEF next
  <2> QED BY <1>4, <1>6, TopMoves DEF next
<1>9. /\ Denominator(launch, Batch, QueryHead, n + 1, next)
           = Rescaled(Denominator(launch, Batch, QueryHead, n, old), old, next)
               + Weight(score, next)
      /\ \A d \in 0 .. launch.headDim - 1 :
           Numerator(launch, Batch, QueryHead, n + 1, next, d)
             = Rescaled(Numerator(launch, Batch, QueryHead, n, old, d), old, next)
                 + Weight(score, next)
                     * Value(BlockOf(launch, Batch, n), GroupOf(launch, QueryHead),
                             n % launch.blockTokens, d)
  BY <1>4, <1>6, SumsMove
<1> HIDE DEF next, score
<1>10. denominator'[l] = Denominator(launch, Batch, QueryHead, n + 1, next)
  BY <1>5, <1>7, <1>9 DEF HasAccumulated
<1>11. ASSUME NEW v \in 0 .. TileSize - 1, l + v * WarpSize < launch.headDim
       PROVE  outputTile'[l][v]
                = Numerator(launch, Batch, QueryHead, n + 1, next, l + v * WarpSize)
  <2> DEFINE d == l + v * WarpSize
  <2>1. launch.headDim \in Nat
    BY <1>4, ScoreIs
  <2>2. d \in 0 .. launch.headDim - 1
    <3>1. l \in Nat /\ v * WarpSize \in Nat
      BY WarpSizeIs
    <3> QED BY <1>11, <2>1, <3>1
  <2>3. ~(d >= launch.headDim)
    BY <2>1, <2>2
  <2>4. outputTile[l][v] = Numerator(launch, Batch, QueryHead, n, old, d)
    BY <1>5, <1>11 DEF HasAccumulated
  <2>5. Load(Value, CacheIndex(l) + d)
          = Value(BlockOf(launch, Batch, n), GroupOf(launch, QueryHead), n % launch.blockTokens, d)
    <3> HIDE DEF d
    <3> QED BY <1>1, <2>2, LoadsAre
  <2>6. of(v) = Rescaled(outputTile[l][v], old, next)
                  + Weight(score, next) * Load(Value, CacheIndex(l) + d)
    BY <2>3 DEF of
  <2>7. outputTile'[l][v] = of(v)
    BY <1>7
  <2> HIDE DEF d
  <2>8. outputTile'[l][v] = Numerator(launch, Batch, QueryHead, n + 1, next, d)
    BY <1>9, <2>2, <2>4, <2>5, <2>6, <2>7
  <2> QED BY <2>8 DEF d
<1>12. HasAccumulated(l)'
  <2>1. Batch' = Batch /\ QueryHead' = QueryHead /\ launch' = launch
    BY <1>3, RowStays
  <2>2. IsTop(launch', Batch', QueryHead', token'[l], maximum'[l])
    BY <1>7, <1>8, <2>1
  <2>3. denominator'[l] = Denominator(launch', Batch', QueryHead', token'[l], maximum'[l])
    BY <1>7, <1>10, <2>1
  <2>4. \A v \in 0 .. TileSize - 1 :
          l + v * WarpSize < launch'.headDim =>
            outputTile'[l][v]
              = Numerator(launch', Batch', QueryHead', token'[l], maximum'[l], l + v * WarpSize)
    BY <1>7, <1>11, <2>1
  <2>5. DOMAIN outputTile'[l] = 0 .. TileSize - 1
    BY <1>7
  <2> QED BY <2>2, <2>3, <2>4, <2>5 DEF HasAccumulated
<1>13. \A m \in Lanes : Loaded(m)' = Loaded(m)
  BY <1>3, LoadedStays
<1>14. /\ DOMAIN maximum' = Lanes /\ DOMAIN denominator' = Lanes /\ DOMAIN outputTile' = Lanes
       /\ \A m \in Lanes \ {l} : UNCHANGED <<token[m], maximum[m], denominator[m], outputTile[m]>>
  BY <1>3, <1>5 DEF LanesInv
<1>15. place = "write" => token'[l] = SequenceLength
  BY <1>4, <1>7
<1>16. at[l] # "done" /\ Loaded(l)'
  BY <1>1, <1>5, <1>13
<1> HIDE DEF place, n
<1> QED BY <1>3, <1>12, <1>13, <1>14, <1>15, <1>16, LaneStepLanes

LEMMA NextLanes == AddressInv /\ WarpInv /\ LanesInv /\ [Next]_vars => LanesInv'
<1> SUFFICES ASSUME AddressInv, WarpInv, LanesInv, [Next]_vars PROVE LanesInv'
  OBVIOUS
<1>1. ASSUME UNCHANGED <<launch, row, laneVars, queryTile>>,
             \A l \in Lanes : at'[l] # "done" => at[l] # "done",
             \A l \in Lanes : at'[l] # "load" => at[l] # "load",
             \A l \in Lanes : at'[l] = "write" => at[l] = "write"
      PROVE  LanesInv'
  <2>1. UNCHANGED laneVars => UNCHANGED <<token, maximum, denominator, outputTile>>
    BY DEF laneVars
  <2>2. /\ SequenceLength' = SequenceLength
        /\ \A l \in Lanes : HasAccumulated(l)' = HasAccumulated(l) /\ Loaded(l)' = Loaded(l)
    BY <1>1, <2>1, RowStays, AccumulatedStays, LoadedStays
  <2> QED BY <1>1, <2>1, <2>2 DEF LanesInv
<1>2. CASE Refuse \/ DivideByZero \/ Launch \/ Returned \/ UNCHANGED vars
  <2>1. UNCHANGED <<launch, row, at, laneVars, queryTile>>
    BY <1>2 DEF Refuse, DivideByZero, Launch, Returned, vars, warpVars
  <2> QED BY <1>1, <2>1
<1>3. CASE StartBlock
  BY <1>3, StartBlockLanes
<1>4. CASE Syncthreads
  BY <1>1, <1>4 DEF Syncthreads
<1>5. CASE ShuffleDown \/ Broadcast
  BY <1>1, <1>5 DEF ShuffleDown, Broadcast
<1>6. CASE LaneStep
  <2> PICK l \in Lanes : LoadQuery(l) \/ PartialDot(l) \/ Update(l) \/ WriteOutput(l)
    BY <1>6 DEF LaneStep
  <2>1. CASE LoadQuery(l)
    <3>1. /\ Goto(l, "barrier") /\ at[l] = "load"
          /\ UNCHANGED <<launch, row, token, maximum, denominator, outputTile>>
          /\ queryTile' = [d \in DOMAIN queryTile \cup LaneDims(l) |->
                             IF d \in LaneDims(l) THEN Query(RowBase + d) ELSE queryTile[d]]
      BY <2>1 DEF LoadQuery, laneVars
    <3>2. RowBase' = RowBase /\ \A m \in Lanes : LaneDims(m)' = LaneDims(m)
      BY <3>1, RowStays
    <3>3. \A m \in Lanes : Loaded(m) => Loaded(m)'
      BY <3>1, <3>2 DEF Loaded
    <3>4. Loaded(l)'
      BY <3>1, <3>2 DEF Loaded
    <3>5. HasAccumulated(l)'
      <4>1. HasAccumulated(l)
        BY <3>1 DEF LanesInv
      <4> QED BY <3>1, <4>1, AccumulatedStays
    <3>6. DOMAIN maximum' = Lanes /\ DOMAIN denominator' = Lanes /\ DOMAIN outputTile' = Lanes
      BY <3>1 DEF LanesInv
    <3> QED BY <3>1, <3>3, <3>4, <3>5, <3>6, LaneStepLanes
  <2>2. CASE PartialDot(l)
    <3>1. /\ Goto(l, "shuffle") /\ at[l] = "dot" /\ UNCHANGED <<launch, row, laneVars, queryTile>>
      BY <2>2 DEF PartialDot
    <3>2. at'[l] = "shuffle" /\ \A m \in Lanes \ {l} : at'[m] = at[m]
      BY <3>1 DEF Goto, AddressInv
    <3> QED BY <1>1, <3>1, <3>2
  <2>3. CASE Update(l)
    BY <2>3, UpdateLanes
  <2>4. CASE WriteOutput(l)
    <3>1. /\ Goto(l, "done") /\ at[l] = "write" /\ UNCHANGED <<launch, row, laneVars, queryTile>>
      BY <2>4 DEF WriteOutput
    <3>2. at'[l] = "done" /\ \A m \in Lanes \ {l} : at'[m] = at[m]
      BY <3>1 DEF Goto, AddressInv
    <3> QED BY <1>1, <3>1, <3>2
  <2> QED BY <2>1, <2>2, <2>3, <2>4
<1> QED BY <1>2, <1>3, <1>4, <1>5, <1>6 DEF Next

-----------------------------------------------------------------------------
(* What is written is the attention *)

\* An address of the output is a row of the launch and a dimension.
LEMMA AddressSplits ==
  ASSUME NEW l \in Launches, Accepted(l), ~DividesByZero(l),
         NEW a \in 0 .. Len(l.lengths) * l.queryHeads * l.headDim - 1
  PROVE  /\ a \div l.headDim \in 0 .. Len(l.lengths) * l.queryHeads - 1
         /\ a % l.headDim \in 0 .. l.headDim - 1
         /\ (a % l.headDim) % WarpSize \in Lanes
         /\ a = (a \div l.headDim) * l.headDim + (a % l.headDim)
<1> DEFINE m == Len(l.lengths) * l.queryHeads
           n == l.headDim
           q == a \div n
           r == a % n
<1>1. Len(l.lengths) \in Nat /\ l.queryHeads \in Nat /\ n \in Nat \ {0} /\ m \in Nat
  BY AcceptedShape
<1>2. a \in 0 .. m * n - 1 /\ a \in Int
  BY <1>1
<1> HIDE DEF m, n
<1>3. q \in 0 .. m - 1 /\ r \in 0 .. n - 1
  BY <1>1, <1>2, Unflattened
<1>4. a = n * q + r
  BY <1>1, <1>2, DivMod
<1> HIDE DEF q, r
<1>5. a = q * n + r
  BY <1>1, <1>3, <1>4
<1>6. r % WarpSize \in Lanes
  <2>1. r \in Int
    BY <1>3
  <2> QED BY <2>1, WarpSizeIs, DivMod
<1> QED BY <1>3, <1>5, <1>6 DEF m, n, q, r

\* The reference takes the largest score, whichever token it finds it at.
LEMMA ExpectedIs ==
  ASSUME NEW l, NEW b, NEW h, IsRow(l, b, h), NEW n, n = l.lengths[b + 1],
         NEW top, IsTop(l, b, h, n, top)
  PROVE  \A d \in 0 .. l.headDim - 1 :
           Expected(l, b, h)[d] = <<Numerator(l, b, h, n, top, d), Denominator(l, b, h, n, top)>>
<1> DEFINE s(t) == Score(l, b, h, t)
           Q(t) == IsTop(l, b, h, n, s(t))
           c    == CHOOSE t \in 0 .. n - 1 : Q(t)
<1>1. n # 0
  BY LengthIs
<1>2. PICK u \in 0 .. n - 1 : s(u) = top
  BY <1>1 DEF IsTop
<1>3. c \in 0 .. n - 1 /\ Q(c)
  <2>1. Q(u)
    BY <1>2
  <2> HIDE DEF Q
  <2> QED BY <1>2, <2>1
<1>4. s(c) <= top /\ top <= s(c)
  BY <1>1, <1>2, <1>3 DEF IsTop
<1>5. s(c) \in Int /\ top \in Int
  BY <1>2, <1>3, ScoreIs
<1>6. s(c) = top
  <2> HIDE DEF s, c
  <2> QED BY <1>4, <1>5
<1>7. Expected(l, b, h) = [d \in 0 .. l.headDim - 1 |->
                             <<Numerator(l, b, h, n, s(c), d), Denominator(l, b, h, n, s(c))>>]
  BY DEF Expected
<1> HIDE DEF s, c
<1> QED BY <1>6, <1>7

LEMMA InitOutput == Init => OutputInv
BY DEF Init, OutputInv

LEMMA LaunchOutput == ASSUME AddressInv, OutputInv, Launch PROVE OutputInv'
<1>1. /\ outcome = "none" /\ outcome' = "launched" /\ rows' = Grid
      /\ ~DividesByZero(launch) /\ Accepted(launch) /\ launch \in Launches
      /\ UNCHANGED <<launch, at, output>>
  BY DEF Launch, AddressInv
<1>2. \A l \in Lanes : at'[l] = "done"
  BY <1>1 DEF AddressInv
<1>3. DOMAIN output' = {}
  BY <1>1 DEF OutputInv
<1>4. ASSUME NEW a \in Addresses' PROVE ~IsWritten(a)'
  <2>1. a \in 0 .. Len(launch.lengths) * launch.queryHeads * launch.headDim - 1
    BY <1>1 DEF Addresses
  <2>2. a \div launch.headDim \in Grid
    BY <1>1, <2>1, AddressSplits DEF Grid
  <2> QED BY <1>1, <2>2 DEF IsWritten
<1> QED BY <1>1, <1>2, <1>3, <1>4 DEF OutputInv

LEMMA StartBlockOutput == ASSUME AddressInv, OutputInv, StartBlock PROVE OutputInv'
<1>1. /\ outcome = "launched" /\ \A l \in Lanes : at[l] = "done"
      /\ at' = [l \in Lanes |-> "load"]
      /\ row' \in rows /\ rows' = rows \ {row'} /\ UNCHANGED <<launch, outcome, output>>
  BY DEF StartBlock
<1>2. launch \in Launches /\ Accepted(launch) /\ ~DividesByZero(launch) /\ Addresses' = Addresses
  BY <1>1 DEF AddressInv, Addresses
<1>3. ASSUME NEW a \in Addresses PROVE IsWritten(a)' <=> IsWritten(a)
  <2>1. (a % launch.headDim) % WarpSize \in Lanes
    BY <1>2, AddressSplits DEF Addresses
  <2>2. IsWritten(a) <=> a \div launch.headDim \notin rows
    BY <1>1, <2>1 DEF IsWritten
  <2>3. IsWritten(a)' <=> /\ a \div launch.headDim \notin rows'
                          /\ a \div launch.headDim # row'
    BY <1>1, <2>1 DEF IsWritten
  <2> QED BY <1>1, <2>2, <2>3
<1>4. DOMAIN output' = {a \in Addresses' : IsWritten(a)'}
  BY <1>1, <1>2, <1>3 DEF OutputInv
<1> QED BY <1>1, <1>4 DEF OutputInv

LEMMA WriteOutputOutput ==
  ASSUME AddressInv, LanesInv, OutputInv, NEW l \in Lanes, WriteOutput(l) PROVE OutputInv'
<1> DEFINE written == {RowBase + d : d \in LaneDims(l)}
           dims == launch.headDim
<1>1. /\ at[l] = "write" /\ Goto(l, "done") /\ UNCHANGED <<launch, outcome, row, rows>>
      /\ output' = [a \in DOMAIN output \cup written |->
                      IF a \in written
                      THEN <<outputTile[l][(a - RowBase) \div WarpSize], denominator[l]>>
                      ELSE output[a]]
  BY DEF WriteOutput
<1>2. /\ IsRow(launch, Batch, QueryHead) /\ SequenceLength = launch.lengths[Batch + 1]
      /\ Batch * launch.queryHeads + QueryHead = row
      /\ outcome = "launched" /\ row \in Grid /\ row \notin rows
      /\ launch \in Launches /\ Accepted(launch) /\ ~DividesByZero(launch)
  <2>1. at[l] # "done"
    BY <1>1
  <2> QED BY <2>1, RowOfBlock DEF AddressInv, OutputInv
<1>3. HasAccumulated(l) /\ token[l] = SequenceLength
  BY <1>1 DEF LanesInv
<1>4. at'[l] = "done" /\ \A m \in Lanes \ {l} : at'[m] = at[m]
  BY <1>1 DEF AddressInv, Goto
<1>5. /\ dims \in Nat \ {0} /\ dims <= WarpSize * TileSize /\ row \in Nat /\ RowBase = row * dims
      /\ Len(launch.lengths) * launch.queryHeads \in Nat
      /\ row \in 0 .. Len(launch.lengths) * launch.queryHeads - 1
  <2>1. /\ dims \in Nat \ {0} /\ dims <= WarpSize * TileSize
        /\ Len(launch.lengths) \in Nat /\ launch.queryHeads \in Nat
    BY <1>2, AcceptedShape
  <2>2. RowBase = row * dims
    BY <1>2 DEF RowBase
  <2>3. row \in 0 .. Len(launch.lengths) * launch.queryHeads - 1
    BY <1>2 DEF Grid
  <2> HIDE DEF dims
  <2> QED BY <2>1, <2>2, <2>3
<1> HIDE DEF dims
<1>6. ASSUME NEW d \in LaneDims(l)
      PROVE  /\ RowBase + d \in Addresses
             /\ (RowBase + d) \div launch.headDim = row /\ (RowBase + d) % launch.headDim = d
             /\ d % WarpSize = l /\ d \in 0 .. dims - 1
  <2>1. d \in 0 .. dims - 1 /\ d % WarpSize = l
    BY DEF LaneDims, dims
  <2>2. row * dims + d \in 0 .. Len(launch.lengths) * launch.queryHeads * dims - 1
    BY <1>5, <2>1, Flattened
  <2>3. (row * dims + d) \div dims = row /\ (row * dims + d) % dims = d
    BY <1>5, <2>1, RowOfEntry
  <2> QED BY <1>5, <2>1, <2>2, <2>3 DEF Addresses, dims
<1>7. ASSUME NEW a \in Addresses
      PROVE  IsWritten(a)' <=> IsWritten(a) \/ a \in written
  <2> DEFINE r == a \div launch.headDim
             m == (a % launch.headDim) % WarpSize
  <2>1. /\ m \in Lanes /\ a % launch.headDim \in 0 .. launch.headDim - 1
        /\ a = r * launch.headDim + (a % launch.headDim)
    BY <1>2, AddressSplits DEF Addresses
  <2>2. IsWritten(a) <=> r \notin rows /\ (r = row => at[m] = "done")
    BY DEF IsWritten
  <2>3. IsWritten(a)' <=> r \notin rows /\ (r = row => at'[m] = "done")
    BY <1>1 DEF IsWritten
  <2>4. a \in written <=> r = row /\ m = l
    <3>1. ASSUME r = row, m = l PROVE a \in written
      <4>1. a % launch.headDim \in LaneDims(l)
        BY <2>1, <3>1 DEF LaneDims
      <4>2. a = RowBase + (a % launch.headDim)
        BY <1>5, <2>1, <3>1 DEF dims
      <4> QED BY <4>1, <4>2
    <3>2. ASSUME a \in written PROVE r = row /\ m = l
      <4>1. PICK d \in LaneDims(l) : a = RowBase + d
        BY <3>2
      <4> QED BY <1>6, <4>1
    <3> QED BY <3>1, <3>2
  <2> HIDE DEF r, m, written
  <2> QED BY <1>1, <1>2, <1>4, <2>1, <2>2, <2>3, <2>4
<1>8. written \subseteq Addresses
  BY <1>6
<1>9. DOMAIN output' = {a \in Addresses' : IsWritten(a)'}
  <2>1. Addresses' = Addresses /\ DOMAIN output = {a \in Addresses : IsWritten(a)}
    BY <1>1, <1>2 DEF Addresses, OutputInv
  <2>2. DOMAIN output' = DOMAIN output \cup written
    BY <1>1
  <2> HIDE DEF written
  <2> QED BY <1>7, <1>8, <2>1, <2>2
<1>10. ASSUME NEW a \in DOMAIN output'
       PROVE  output'[a] = Expected(launch, (a \div launch.headDim) \div launch.queryHeads,
                                    (a \div launch.headDim) % launch.queryHeads)
                             [a % launch.headDim]
  <2>1. CASE a \notin written
    <3>1. a \in DOMAIN output /\ output'[a] = output[a]
      BY <1>1, <2>1
    <3> QED BY <3>1 DEF OutputInv
  <2>2. CASE a \in written
    <3>1. PICK d \in LaneDims(l) : a = RowBase + d
      BY <2>2
    <3>2. a \div launch.headDim = row /\ a % launch.headDim = d /\ d % WarpSize = l
          /\ d \in 0 .. dims - 1
      BY <1>6, <3>1
    <3> DEFINE v == d \div WarpSize
    <3>3. d = WarpSize * v + l /\ v \in 0 .. TileSize - 1
      <4>1. d \in Int /\ d \in 0 .. TileSize * WarpSize - 1
        BY <1>5, <3>2, WarpSizes
      <4>2. v \in 0 .. TileSize - 1
        BY <4>1, WarpSizes, Unflattened
      <4>3. d = WarpSize * v + (d % WarpSize)
        BY <4>1, WarpSizes, DivMod
      <4> QED BY <3>2, <4>2, <4>3
    <3>4. a - RowBase = d
      <4>1. RowBase \in Int /\ d \in Int
        BY <1>5, <3>2
      <4> QED BY <3>1, <4>1
    <3>5. output'[a] = <<outputTile[l][v], denominator[l]>>
      BY <1>1, <2>2, <3>4
    <3> HIDE DEF v
    <3>6. l + v * WarpSize = d /\ d < launch.headDim
      <4>1. l \in Int /\ v \in Int /\ WarpSize \in Int
        BY <3>3, WarpSizeIs
      <4>2. d < launch.headDim
        BY <1>5, <3>2 DEF dims
      <4> QED BY <3>3, <4>1, <4>2
    <3> DEFINE n == launch.lengths[Batch + 1]
    <3>7. /\ outputTile[l][v] = Numerator(launch, Batch, QueryHead, n, maximum[l], d)
          /\ denominator[l] = Denominator(launch, Batch, QueryHead, n, maximum[l])
          /\ IsTop(launch, Batch, QueryHead, n, maximum[l])
      BY <1>2, <1>3, <3>3, <3>6 DEF HasAccumulated
    <3>8. Expected(launch, Batch, QueryHead)[d] = <<outputTile[l][v], denominator[l]>>
      <4>1. d \in 0 .. launch.headDim - 1
        BY <3>2 DEF dims
      <4> QED BY <1>2, <3>7, <4>1, ExpectedIs
    <3> QED BY <3>2, <3>5, <3>8 DEF Batch, QueryHead
  <2> QED BY <2>1, <2>2
<1>11. \A m \in Lanes : at'[m] # "done" => row' \notin rows'
  BY <1>1, <1>2
<1> HIDE DEF written
<1>12. DOMAIN output' = IF outcome' = "launched" THEN {a \in Addresses' : IsWritten(a)'} ELSE {}
  BY <1>1, <1>2, <1>9
<1> QED BY <1>1, <1>10, <1>11, <1>12 DEF OutputInv

LEMMA NextOutput == AddressInv /\ LanesInv /\ OutputInv /\ [Next]_vars => OutputInv'
<1> SUFFICES ASSUME AddressInv, LanesInv, OutputInv, [Next]_vars PROVE OutputInv'
  OBVIOUS
\* A step that finishes no lane and starts no thread block.
<1>1. ASSUME UNCHANGED <<launch, row, rows, output>>,
             outcome = "launched" <=> outcome' = "launched",
             \A l \in Lanes : at'[l] = "done" <=> at[l] = "done"
      PROVE  OutputInv'
  <2>1. Addresses' = Addresses
    BY <1>1 DEF Addresses
  <2>2. CASE outcome # "launched"
    <3>1. \A l \in Lanes : at'[l] = "done"
      BY <1>1, <2>2 DEF AddressInv
    <3> QED BY <1>1, <2>2, <3>1 DEF OutputInv
  <2>3. CASE outcome = "launched"
    <3>1. launch \in Launches /\ Accepted(launch) /\ ~DividesByZero(launch)
      BY <2>3 DEF AddressInv
    <3>2. ASSUME NEW a \in Addresses PROVE IsWritten(a)' <=> IsWritten(a)
      <4>1. (a % launch.headDim) % WarpSize \in Lanes
        BY <3>1, AddressSplits DEF Addresses
      <4> QED BY <1>1, <4>1 DEF IsWritten
    <3>3. DOMAIN output' = {a \in Addresses' : IsWritten(a)'}
      BY <1>1, <2>1, <2>3, <3>2 DEF OutputInv
    <3> QED BY <1>1, <2>3, <3>3 DEF OutputInv
  <2> QED BY <2>2, <2>3
<1>2. CASE Refuse \/ DivideByZero \/ Returned \/ UNCHANGED vars
  BY <1>1, <1>2 DEF Refuse, DivideByZero, Returned, vars, warpVars
<1>3. CASE Launch
  BY <1>3, LaunchOutput
<1>4. CASE StartBlock
  BY <1>4, StartBlockOutput
<1>5. CASE Syncthreads \/ ShuffleDown \/ Broadcast
  BY <1>1, <1>5 DEF Syncthreads, ShuffleDown, Broadcast
<1>6. CASE LaneStep
  <2> PICK l \in Lanes : LoadQuery(l) \/ PartialDot(l) \/ Update(l) \/ WriteOutput(l)
    BY <1>6 DEF LaneStep
  <2>1. CASE LoadQuery(l) \/ PartialDot(l) \/ Update(l)
    <3>1. PICK place : Goto(l, place) /\ place # "done" /\ at[l] # "done"
      BY <2>1 DEF LoadQuery, PartialDot, Update
    <3>2. \A m \in Lanes : at'[m] = "done" <=> at[m] = "done"
      BY <3>1 DEF Goto, AddressInv
    <3>3. UNCHANGED <<launch, outcome, row, rows, output>>
      BY <2>1 DEF LoadQuery, PartialDot, Update
    <3> QED BY <1>1, <3>2, <3>3
  <2>2. CASE WriteOutput(l)
    BY <2>2, WriteOutputOutput
  <2> QED BY <2>1, <2>2
<1> QED BY <1>2, <1>3, <1>4, <1>5, <1>6 DEF Next

LEMMA InvIsAttention == AddressInv /\ OutputInv => KernelIsAttention
<1> SUFFICES ASSUME AddressInv, OutputInv,
                    outcome = "launched", rows = {}, \A l \in Lanes : at[l] = "done"
             PROVE  /\ DOMAIN output = Addresses
                    /\ \A b \in 0 .. Len(launch.lengths) - 1, h \in 0 .. launch.queryHeads - 1 :
                         \A d \in 0 .. launch.headDim - 1 :
                           output[(b * launch.queryHeads + h) * launch.headDim + d]
                             = Expected(launch, b, h)[d]
  BY DEF KernelIsAttention, Addresses
<1>1. launch \in Launches /\ Accepted(launch) /\ ~DividesByZero(launch)
  BY DEF AddressInv
<1>2. DOMAIN output = Addresses
  <2>1. ASSUME NEW a \in Addresses PROVE IsWritten(a)
    <3>1. (a % launch.headDim) % WarpSize \in Lanes
      BY <1>1, AddressSplits DEF Addresses
    <3> QED BY <3>1 DEF IsWritten
  <2> QED BY <2>1 DEF OutputInv
<1>3. ASSUME NEW b \in 0 .. Len(launch.lengths) - 1, NEW h \in 0 .. launch.queryHeads - 1,
             NEW d \in 0 .. launch.headDim - 1
      PROVE  output[(b * launch.queryHeads + h) * launch.headDim + d]
               = Expected(launch, b, h)[d]
  <2> DEFINE heads == launch.queryHeads
             dims  == launch.headDim
             count == Len(launch.lengths)
             r == b * heads + h
             a == r * dims + d
  <2>1. heads \in Nat \ {0} /\ dims \in Nat \ {0} /\ count \in Nat /\ count * heads \in Nat
    <3>1. heads \in Nat \ {0} /\ dims \in Nat \ {0} /\ count \in Nat
      BY <1>1, AcceptedShape
    <3> HIDE DEF heads, dims, count
    <3> QED BY <3>1
  <2>2. b \in 0 .. count - 1 /\ h \in 0 .. heads - 1 /\ d \in 0 .. dims - 1
    OBVIOUS
  <2> HIDE DEF heads, dims, count
  <2>3. r \in 0 .. count * heads - 1 /\ r \div heads = b /\ r % heads = h
    <3>1. r \in 0 .. count * heads - 1
      BY <2>1, <2>2, Flattened
    <3>2. b \in Nat
      BY <2>2
    <3> QED BY <2>1, <2>2, <3>1, <3>2, RowOfEntry
  <2> HIDE DEF r
  <2>4. a \in 0 .. count * heads * dims - 1 /\ a \div dims = r /\ a % dims = d
    <3>1. a \in 0 .. count * heads * dims - 1
      <4> DEFINE m == count * heads
      <4>1. m \in Nat /\ r \in 0 .. m - 1
        BY <2>1, <2>3
      <4> HIDE DEF m
      <4>2. a \in 0 .. m * dims - 1
        BY <2>1, <2>2, <4>1, Flattened
      <4> QED BY <4>2 DEF m
    <3>2. r \in Nat
      BY <2>3
    <3> QED BY <2>1, <2>2, <3>1, <3>2, RowOfEntry
  <2> HIDE DEF a
  <2>5. a \in DOMAIN output
    BY <1>2, <2>4 DEF Addresses, count, heads, dims
  <2>6. output[a] = Expected(launch, (a \div launch.headDim) \div launch.queryHeads,
                             (a \div launch.headDim) % launch.queryHeads)[a % launch.headDim]
    BY <2>5 DEF OutputInv
  <2>7. output[a] = Expected(launch, b, h)[d]
    BY <2>3, <2>4, <2>6 DEF heads, dims
  <2> QED BY <2>7 DEF a, r, dims, heads
<1> QED BY <1>2, <1>3

KernelInv == AddressInv /\ WarpInv /\ LanesInv /\ OutputInv

\* Whatever the order of the lanes and of the thread blocks, a call that the checks let
\* through ends with the softmax attention of every query in the output.
THEOREM KernelComputesAttention == Spec => []KernelIsAttention
<1>1. Init => KernelInv
  BY InitAddress, InitWarp, InitLanes, InitOutput DEF KernelInv
<1>2. KernelInv /\ [Next]_vars => KernelInv'
  BY NextAddress, NextWarp, NextLanes, NextOutput DEF KernelInv
<1>3. KernelInv => KernelIsAttention
  BY InvIsAttention DEF KernelInv
<1> QED BY <1>1, <1>2, <1>3, PTL DEF Spec
=============================================================================
