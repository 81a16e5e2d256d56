------------------------- MODULE PagedKvCache_proofs -------------------------
(***************************************************************************)
(* What holds of the paged allocator for every workload and every size of  *)
(* the cache.                                                              *)
(*                                                                         *)
(* Three inductive invariants, each on top of the first:                   *)
(*  - ReservationInv: promises to prompts are kept (with the prefix cache  *)
(*    on or off, whatever admissions evict);                               *)
(*  - LossInv: no page is lost (likewise), and with ReleasesAreOwed a      *)
(*    cache that is not in use admits whatever it can hold;                *)
(*  - PagesInv: pages are conserved, references are counted and cached     *)
(*    contents stay, as long as evicted pages are unreferenced; it gives   *)
(*    the refinement of PagePool.                                          *)
(***************************************************************************)
EXTENDS PagedKvCache, BlockTheorems, FiniteSetTheorems, SequenceTheorems

-----------------------------------------------------------------------------
(* Counting the entries that name a page or wait for one *)

\* The entries of the tables of every other request.
EntriesElsewhere(t, b, r) == {e \in EntriesOf(t, b) : e[1] # r}

\* The entries of all tables are those of one request and the others.
LEMMA EntriesSplit ==
  ASSUME NEW t \in [Request -> Seq(Block \cup {NoBlock})], NEW r \in Request, NEW b,
         Len(t[r]) <= TotalBlocks
  PROVE  /\ IsFiniteSet(EntriesOf(t, b))
         /\ Cardinality(EntriesIn(t[r], b)) \in Nat
         /\ Cardinality(EntriesElsewhere(t, b, r)) \in Nat
         /\ Cardinality(EntriesOf(t, b)) =
              Cardinality(EntriesIn(t[r], b)) + Cardinality(EntriesElsewhere(t, b, r))
<1> DEFINE others == EntriesElsewhere(t, b, r)
           mine == {r} \X EntriesIn(t[r], b)
<1>1. IsFiniteSet(Request \X (1 .. TotalBlocks))
  <2>1. 1 \in Int /\ TotalBlocks \in Int
    BY SizesAssumption
  <2>2. IsFiniteSet(1 .. TotalBlocks)
    BY <2>1, FS_Interval
  <2> QED BY <2>2, FS_Product, RequestAssumption
<1>2. EntriesOf(t, b) \subseteq Request \X (1 .. TotalBlocks)
  BY DEF EntriesOf
<1>3. IsFiniteSet(EntriesOf(t, b))
  BY <1>1, <1>2, FS_Subset
<1>4. IsFiniteSet(others) /\ Cardinality(others) \in Nat
  <2>1. others \subseteq EntriesOf(t, b)
    BY DEF EntriesElsewhere
  <2> QED BY <1>3, <2>1, FS_Subset, FS_CardinalityType
<1>5. t[r] \in Seq(Block \cup {NoBlock}) /\ Len(t[r]) \in Nat /\ DOMAIN t[r] = 1 .. Len(t[r])
  BY LenProperties
<1>6. IsFiniteSet(EntriesIn(t[r], b)) /\ Cardinality(EntriesIn(t[r], b)) \in Nat
  <2>1. IsFiniteSet(1 .. Len(t[r]))
    BY <1>5, FS_Interval
  <2>2. EntriesIn(t[r], b) \subseteq 1 .. Len(t[r])
    BY <1>5 DEF EntriesIn
  <2> QED BY <2>1, <2>2, FS_Subset, FS_CardinalityType
<1>7. IsFiniteSet(mine) /\ Cardinality(mine) = Cardinality(EntriesIn(t[r], b))
  <2>1. IsFiniteSet({r}) /\ Cardinality({r}) = 1
    BY FS_Singleton
  <2>2. IsFiniteSet(mine) /\ Cardinality(mine) = 1 * Cardinality(EntriesIn(t[r], b))
    BY <1>6, <2>1, FS_Product
  <2> QED BY <1>6, <2>2
<1>8. EntriesOf(t, b) = mine \cup others /\ mine \cap others = {}
  <2>1. \A e \in EntriesOf(t, b) : e[1] = r => e \in mine
    BY DEF EntriesOf, EntriesIn
  <2>2. \A e \in mine : e \in EntriesOf(t, b)
    BY <1>5, SizesAssumption DEF EntriesOf, EntriesIn
  <2>3. \A e \in mine : e[1] = r
    OBVIOUS
  <2> QED BY <2>1, <2>2, <2>3 DEF EntriesElsewhere
<1>9. Cardinality(mine \cup others) = Cardinality(mine) + Cardinality(others) - Cardinality(mine \cap others)
  BY <1>4, <1>7, FS_Union
<1>10. Cardinality({}) = 0
  BY FS_EmptySet
<1>11. Cardinality(EntriesOf(t, b)) = Cardinality(mine) + Cardinality(others) - 0
  BY <1>8, <1>9, <1>10
<1> HIDE DEF mine
<1> QED BY <1>3, <1>4, <1>6, <1>7, <1>11

\* Giving one request another table changes the count by its own entries only.
LEMMA EntriesUpdate ==
  ASSUME NEW t \in [Request -> Seq(Block \cup {NoBlock})], NEW r \in Request, NEW b,
         NEW s \in Seq(Block \cup {NoBlock}),
         Len(t[r]) <= TotalBlocks, Len(s) <= TotalBlocks
  PROVE  /\ Cardinality(EntriesOf(t, b)) \in Nat
         /\ Cardinality(EntriesIn(t[r], b)) \in Nat
         /\ Cardinality(EntriesIn(s, b)) \in Nat
         /\ Cardinality(EntriesIn(t[r], b)) <= Cardinality(EntriesOf(t, b))
         /\ Cardinality(EntriesOf([t EXCEPT ![r] = s], b)) =
              Cardinality(EntriesOf(t, b)) - Cardinality(EntriesIn(t[r], b)) + Cardinality(EntriesIn(s, b))
<1> DEFINE u == [t EXCEPT ![r] = s]
           othersT == EntriesElsewhere(t, b, r)
           othersU == EntriesElsewhere(u, b, r)
<1>1. u \in [Request -> Seq(Block \cup {NoBlock})] /\ u[r] = s
  OBVIOUS
<1>2. othersT = othersU
  <2>1. \A e \in Request \X (1 .. TotalBlocks) : e[1] # r => u[e[1]] = t[e[1]]
    OBVIOUS
  <2> QED BY <2>1 DEF EntriesOf, EntriesElsewhere
<1>3. /\ Cardinality(EntriesIn(t[r], b)) \in Nat
      /\ Cardinality(othersT) \in Nat
      /\ Cardinality(EntriesOf(t, b)) = Cardinality(EntriesIn(t[r], b)) + Cardinality(othersT)
  BY EntriesSplit
<1>4. /\ Cardinality(EntriesIn(s, b)) \in Nat
      /\ Cardinality(EntriesOf(u, b)) = Cardinality(EntriesIn(s, b)) + Cardinality(othersU)
  BY <1>1, EntriesSplit, Len(u[r]) <= TotalBlocks
<1> HIDE DEF u
<1>5. Cardinality(EntriesOf(u, b)) =
        Cardinality(EntriesOf(t, b)) - Cardinality(EntriesIn(t[r], b)) + Cardinality(EntriesIn(s, b))
  BY <1>2, <1>3, <1>4
<1>6. /\ Cardinality(EntriesOf(t, b)) \in Nat
      /\ Cardinality(EntriesIn(t[r], b)) <= Cardinality(EntriesOf(t, b))
  BY <1>3
<1> QED BY <1>3, <1>4, <1>5, <1>6 DEF u

\* The same for the entries that wait.
LEMMA WaitingUpdate ==
  ASSUME NEW t \in [Request -> Seq(Block \cup {NoBlock})], NEW r \in Request,
         NEW s \in Seq(Block \cup {NoBlock}),
         Len(t[r]) <= TotalBlocks, Len(s) <= TotalBlocks
  PROVE  /\ Cardinality(WaitingEntries(t)) \in Nat
         /\ Cardinality(WaitingIn(t[r])) <= Cardinality(WaitingEntries(t))
         /\ Cardinality(WaitingEntries([t EXCEPT ![r] = s])) =
              Cardinality(WaitingEntries(t)) - Cardinality(WaitingIn(t[r])) + Cardinality(WaitingIn(s))
BY EntriesUpdate DEF WaitingIn, WaitingEntries

\* A table whose first entries have their page waits for the rest.
LEMMA WaitingTail ==
  ASSUME NEW s \in Seq(Block \cup {NoBlock}), NEW full \in Nat, full <= Len(s),
         \A i \in DOMAIN s : s[i] = NoBlock <=> i > full
  PROVE  Cardinality(WaitingIn(s)) = Len(s) - full
<1>1. Len(s) \in Nat /\ DOMAIN s = 1 .. Len(s)
  BY LenProperties
<1>2. WaitingIn(s) = full + 1 .. Len(s)
  BY <1>1 DEF WaitingIn, EntriesIn
<1>3. full + 1 \in Int /\ Len(s) \in Int
  BY <1>1
<1>4. Cardinality(full + 1 .. Len(s)) = IF full + 1 > Len(s) THEN 0 ELSE Len(s) - (full + 1) + 1
  BY <1>3, FS_Interval
<1> QED BY <1>1, <1>2, <1>4

-----------------------------------------------------------------------------
(* Eviction *)

\* The number of entries evicted is what is missing, and each one adds a page to
\* the free list.
LEMMA EvictionOutcome ==
  ASSUME TypeOK, NEW n \in Nat, NEW o \in Evictions(n)
  PROVE  /\ EvictionCount(n) \in Nat
         /\ FreeAfter(o) \in Seq(Block)
         /\ Len(FreeAfter(o)) = Len(free) + EvictionCount(n)
         /\ UsedAfter(o) \in [Block -> 0 .. BlockTokens]
         /\ PinnedAfter(o) \in [Block -> BOOLEAN]
         /\ IndexAfter(o) \in [Contents -> Block \cup {NoBlock}]
         /\ CanEnsure(n) => reserved + n <= Len(FreeAfter(o))
<1>1. /\ free \in Seq(Block) /\ Len(free) \in Nat /\ reserved \in Nat
      /\ used \in [Block -> 0 .. BlockTokens] /\ pinned \in [Block -> BOOLEAN]
      /\ cacheIndex \in [Contents -> Block \cup {NoBlock}]
  BY LenProperties DEF TypeOK
<1>2. Cardinality(Idle) \in Nat
  BY Idle \subseteq Contents, ContentsAssumption, FS_Subset, FS_CardinalityType DEF Idle
<1>3. EvictionCount(n) \in Nat
  BY <1>1, <1>2 DEF EvictionCount, Least, Monus
<1>4. o \in [1 .. EvictionCount(n) -> Idle]
  BY DEF Evictions
<1> DEFINE evicted == [i \in DOMAIN o |-> cacheIndex[o[i]]]
<1>5. \A i \in DOMAIN o : cacheIndex[o[i]] \in Block
  BY <1>1, <1>4 DEF Idle
<1>6. evicted \in Seq(Block) /\ Len(evicted) = EvictionCount(n)
  BY <1>3, <1>4, <1>5
<1>7. FreeAfter(o) \in Seq(Block) /\ Len(FreeAfter(o)) = Len(free) + EvictionCount(n)
  BY <1>1, <1>6, ConcatProperties DEF FreeAfter
<1>8. /\ UsedAfter(o) \in [Block -> 0 .. BlockTokens]
      /\ PinnedAfter(o) \in [Block -> BOOLEAN]
  BY <1>1, SizesAssumption DEF UsedAfter, PinnedAfter
<1>9. IndexAfter(o) \in [Contents -> Block \cup {NoBlock}]
  BY <1>1 DEF IndexAfter
<1>10. CanEnsure(n) => reserved + n <= Len(free) + EvictionCount(n)
  BY <1>1, <1>2 DEF CanEnsure, EvictionCount, Least, Monus
<1> QED BY <1>3, <1>7, <1>8, <1>9, <1>10

\* An ensure_capacity that fails only moves pages to the free list.
LEMMA FailedEnsureOutcome ==
  ASSUME TypeOK, NEW n \in Nat, FailedEnsure(n)
  PROVE  /\ free' \in Seq(Block) /\ Len(free') \in Nat /\ Len(free) <= Len(free')
         /\ used' \in [Block -> 0 .. BlockTokens]
         /\ pinned' \in [Block -> BOOLEAN]
         /\ cacheIndex' \in [Contents -> Block \cup {NoBlock}]
         /\ refs' = refs /\ older' = older /\ reserved' = reserved
<1>1. PICK o \in Evictions(n) :
        /\ free' = FreeAfter(o) /\ used' = UsedAfter(o)
        /\ pinned' = PinnedAfter(o) /\ cacheIndex' = IndexAfter(o)
  BY DEF FailedEnsure
<1>2. Len(free) \in Nat
  BY LenProperties DEF TypeOK
<1>3. /\ EvictionCount(n) \in Nat
      /\ FreeAfter(o) \in Seq(Block)
      /\ Len(FreeAfter(o)) = Len(free) + EvictionCount(n)
  BY EvictionOutcome
<1> QED BY <1>1, <1>2, <1>3, EvictionOutcome DEF FailedEnsure

-----------------------------------------------------------------------------
(* The numbers of blocks of a request *)

LEMMA BlockCounts ==
  ASSUME TypeOK, NEW r \in Request
  PROVE  /\ prompt[r] \in Seq(Token) /\ Len(prompt[r]) \in Nat
         /\ stored[r] \in Nat
         /\ PromptBlocks(r) \in Nat
         /\ CeilDiv(stored[r], BlockTokens) \in Nat
         /\ CompletePromptBlocks(r) \in Nat
         /\ CompletePromptBlocks(r) <= PromptBlocks(r)
         /\ Len(prompt[r]) <= stored[r] => PromptBlocks(r) <= CeilDiv(stored[r], BlockTokens)
         /\ stored[r] <= Len(prompt[r]) => CeilDiv(stored[r], BlockTokens) <= PromptBlocks(r)
<1>1. prompt[r] \in Seq(Token) /\ Len(prompt[r]) \in Nat
  BY PromptsAssumption, LenProperties DEF TypeOK
<1>2. stored[r] \in Nat
  BY DEF TypeOK
<1>3. BlockTokens \in Nat \ {0}
  BY SizesAssumption
<1>4. PromptBlocks(r) \in Nat /\ CeilDiv(stored[r], BlockTokens) \in Nat
  BY <1>1, <1>2, <1>3, CeilDivBounds DEF PromptBlocks
<1>5. CompletePromptBlocks(r) \in Nat /\ CompletePromptBlocks(r) <= PromptBlocks(r)
  BY <1>1, <1>3, CeilDivNext DEF PromptBlocks, CompletePromptBlocks
<1>6. Len(prompt[r]) <= stored[r] => PromptBlocks(r) <= CeilDiv(stored[r], BlockTokens)
  BY <1>1, <1>2, <1>3, CeilDivMonotonic DEF PromptBlocks
<1>7. stored[r] <= Len(prompt[r]) => CeilDiv(stored[r], BlockTokens) <= PromptBlocks(r)
  BY <1>1, <1>2, <1>3, CeilDivMonotonic DEF PromptBlocks
<1> QED BY <1>1, <1>2, <1>4, <1>5, <1>6, <1>7

\* What reserved_blocks counts.
LEMMA PromisedIsWaiting ==
  ASSUME TypeOK, TablesInShape, NEW r \in Request
  PROVE  promised[r] = Cardinality(WaitingIn(table[r]))
<1>1. table[r] \in Seq(Block \cup {NoBlock})
  BY DEF TypeOK
<1>2. CASE IsEmptyHanded(r)
  <2>1. WaitingIn(table[r]) = {}
    BY <1>2 DEF IsEmptyHanded, WaitingIn, EntriesIn
  <2> QED BY <1>2, <2>1, FS_EmptySet DEF IsEmptyHanded
<1>3. CASE HasShape(r)
  <2> DEFINE full == CeilDiv(stored[r], BlockTokens)
  <2>1. full \in Nat /\ PromptBlocks(r) \in Nat
    BY BlockCounts
  <2>2. /\ Len(table[r]) = Greatest(full, PromptBlocks(r))
        /\ \A i \in DOMAIN table[r] : table[r][i] = NoBlock <=> i > full
        /\ promised[r] = Len(table[r]) - full
    BY <1>3 DEF HasShape
  <2> HIDE DEF full
  <2>3. full <= Len(table[r])
    BY <2>1, <2>2 DEF Greatest
  <2> QED BY <1>1, <2>1, <2>2, <2>3, WaitingTail
<1> QED BY <1>2, <1>3 DEF TablesInShape, RequestInShape, CallInShape

\* A request whose fields a step leaves alone keeps the shape of its table.
LEMMA ShapeUnchanged ==
  ASSUME NEW q \in Request, prompt' = prompt, table'[q] = table[q],
         stored'[q] = stored[q], promised'[q] = promised[q]
  PROVE  /\ HasShape(q)' <=> HasShape(q)
         /\ IsEmptyHanded(q)' <=> IsEmptyHanded(q)
BY DEF HasShape, IsEmptyHanded, PromptBlocks

-----------------------------------------------------------------------------
(* append_tokens *)

\* How the entries an append writes to fall into those that have a page and
\* those that take one from the free list.
LEMMA AppendEntries ==
  ASSUME TypeOK, NEW r \in Request, HasShape(r), NEW n \in Nat \ {0}
  PROVE  LET full == CeilDiv(stored[r], BlockTokens)
             need == NeededBlocks(r, n)
             len  == Len(table[r]) + GrowthBlocks(r, n)
         IN  /\ full \in Nat /\ need \in Nat /\ full <= need
             /\ stored[r] \div BlockTokens \in Nat /\ stored[r] \div BlockTokens < need
             /\ MissingEntries(r, n) = full + 1 .. need
             /\ Cardinality(MissingEntries(r, n)) = need - full
             /\ \A i \in full + 1 .. need :
                  Cardinality({j \in MissingEntries(r, n) : j <= i}) = i - full
             /\ GrowthBlocks(r, n) \in Nat
             /\ len \in Nat /\ len = Greatest(need, Len(table[r]))
             /\ len = Greatest(need, PromptBlocks(r))
             /\ Len(table[r]) \in Nat /\ full <= Len(table[r])
             /\ promised[r] = Len(table[r]) - full
<1> DEFINE full  == CeilDiv(stored[r], BlockTokens)
           need  == NeededBlocks(r, n)
           first == stored[r] \div BlockTokens
<1>1. /\ full \in Nat /\ PromptBlocks(r) \in Nat /\ stored[r] \in Nat
      /\ BlockTokens \in Nat \ {0}
  BY BlockCounts, SizesAssumption
<1>2. need \in Nat /\ full <= need
  <2>1. stored[r] + n \in Nat /\ stored[r] <= stored[r] + n
    BY <1>1
  <2> QED BY <1>1, <2>1, CeilDivBounds, CeilDivMonotonic DEF NeededBlocks
<1>3. first \in Nat /\ first <= full /\ first < need
  <2>1. first \in Nat /\ first <= full /\ CeilDiv(stored[r] + 1, BlockTokens) = first + 1
    BY <1>1, CeilDivNext
  <2>2. stored[r] + 1 \in Nat /\ stored[r] + n \in Nat /\ stored[r] + 1 <= stored[r] + n
    BY <1>1
  <2>3. first + 1 <= need
    BY <1>1, <2>1, <2>2, CeilDivMonotonic DEF NeededBlocks
  <2> QED BY <1>2, <2>1, <2>3
<1>4. Len(table[r]) \in Nat /\ DOMAIN table[r] = 1 .. Len(table[r])
  BY LenProperties DEF TypeOK
<1>5. /\ \A i \in 1 .. Len(table[r]) : table[r][i] = NoBlock <=> i > full
      /\ Len(table[r]) = Greatest(full, PromptBlocks(r))
      /\ promised[r] = Len(table[r]) - full
  BY <1>4 DEF HasShape
<1>6. full <= Len(table[r])
  BY <1>1, <1>5 DEF Greatest
<1>7. /\ GrowthBlocks(r, n) \in Nat
      /\ Len(table[r]) + GrowthBlocks(r, n) = Greatest(need, Len(table[r]))
  BY <1>2, <1>4 DEF GrowthBlocks, Monus, Greatest
<1>8. MissingEntries(r, n) = full + 1 .. need
  <2> HIDE DEF full, need, first
  <2>1. WrittenEntries(r, n) = first + 1 .. need
    BY DEF WrittenEntries, need, first
  <2>2. MissingEntries(r, n) =
          {i \in first + 1 .. need : i <= Len(table[r]) => table[r][i] = NoBlock}
    BY <2>1 DEF MissingEntries
  <2>3. \A i \in first + 1 .. need :
          (i <= Len(table[r]) => table[r][i] = NoBlock) <=> i > full
    BY <1>1, <1>2, <1>3, <1>4, <1>5, <1>6
  <2> QED BY <1>1, <1>2, <1>3, <2>2, <2>3
<1> HIDE DEF full, need, first
<1>9. ASSUME NEW i \in Int, full <= i
      PROVE  Cardinality(full + 1 .. i) = i - full
  <2>1. full + 1 \in Int
    BY <1>1
  <2>2. Cardinality(full + 1 .. i) = IF full + 1 > i THEN 0 ELSE i - (full + 1) + 1
    BY <2>1, FS_Interval
  <2> QED BY <1>1, <1>9, <2>2
<1>10. Cardinality(MissingEntries(r, n)) = need - full
  BY <1>2, <1>8, <1>9
<1>11. ASSUME NEW i \in full + 1 .. need
       PROVE  Cardinality({j \in MissingEntries(r, n) : j <= i}) = i - full
  <2>1. i \in Int /\ full <= i /\ i <= need
    BY <1>1, <1>2
  <2>2. {j \in MissingEntries(r, n) : j <= i} = full + 1 .. i
    BY <1>1, <1>2, <1>8, <2>1
  <2> QED BY <1>9, <2>1, <2>2
<1>12. Greatest(need, Len(table[r])) = Greatest(need, PromptBlocks(r))
  BY <1>1, <1>2, <1>5 DEF Greatest
<1>13. Greatest(need, Len(table[r])) \in Nat
  BY <1>2, <1>4 DEF Greatest
<1> QED
  BY <1>1, <1>2, <1>3, <1>4, <1>5, <1>6, <1>7, <1>8, <1>10, <1>11, <1>12, <1>13
  DEF full, need, first

\* Every append that succeeds keeps the reservation: it takes at most the pages
\* it was promised and the ones ensure_capacity made room for.
LEMMA AppendOutcome ==
  ASSUME ReservationInv, NEW r \in Request, HasShape(r), NEW n \in Nat \ {0},
         AppendTokens(r, n)
  PROVE  /\ free' \in Seq(Block)
         /\ refs' \in [Block -> Nat]
         /\ used' \in [Block -> 0 .. BlockTokens]
         /\ pinned' \in [Block -> BOOLEAN]
         /\ older' \subseteq Block \X Block
         /\ cacheIndex' \in [Contents -> Block \cup {NoBlock}]
         /\ reserved' \in Nat
         /\ table' \in [Request -> Seq(Block \cup {NoBlock})]
         /\ \A q \in Request : Len(table'[q]) <= TotalBlocks
         /\ stored' \in [Request -> Nat] /\ stored'[r] = stored[r] + n
         /\ promised' \in [Request -> Nat]
         /\ HasShape(r)'
         /\ \A q \in Request \ {r} :
              table'[q] = table[q] /\ stored'[q] = stored[q] /\ promised'[q] = promised[q]
         /\ reserved' = Cardinality(WaitingEntries(table'))
         /\ reserved' <= Len(free')
<1> DEFINE full  == CeilDiv(stored[r], BlockTokens)
           need  == NeededBlocks(r, n)
           grow  == GrowthBlocks(r, n)
           first == stored[r] \div BlockTokens
           m     == Cardinality(MissingEntries(r, n))
           kept  == Least(promised[r], m)
<1>1. /\ TypeOK /\ TablesInShape /\ AppendFits(r, n)
      /\ reserved = Cardinality(WaitingEntries(table)) /\ reserved <= Len(free)
  BY DEF ReservationInv, AppendTokens
<1>2. /\ full \in Nat /\ need \in Nat /\ full <= need /\ first \in Nat /\ first < need
      /\ MissingEntries(r, n) = full + 1 .. need
      /\ m = need - full
      /\ \A i \in full + 1 .. need :
           Cardinality({j \in MissingEntries(r, n) : j <= i}) = i - full
      /\ grow \in Nat
      /\ Len(table[r]) + grow = Greatest(need, Len(table[r]))
      /\ Len(table[r]) + grow = Greatest(need, PromptBlocks(r))
      /\ Len(table[r]) \in Nat /\ full <= Len(table[r])
      /\ promised[r] = Len(table[r]) - full
  BY <1>1, AppendEntries
<1>3. PICK o \in Evictions(grow) :
        LET stack == FreeAfter(o)
            after == TableAfter(r, n, stack)
            filled == (stored[r] + n) - (need - 1) * BlockTokens
        IN  /\ free' = SubSeq(stack, 1, Len(stack) - m)
            /\ table' = [table EXCEPT ![r] = after]
            /\ refs' = [b \in Block |-> IF \E i \in MissingEntries(r, n) : after[i] = b
                                         THEN 1 ELSE refs[b]]
            /\ used' = [b \in Block |->
                 IF \E i \in WrittenEntries(r, n) \ {need} : after[i] = b THEN BlockTokens
                 ELSE IF after[need] = b THEN Greatest(filled, UsedAfter(o)[b])
                 ELSE UsedAfter(o)[b]]
            /\ older' = Touched([k \in 1 .. need - first |-> after[first + k]])
            /\ pinned' = PinnedAfter(o)
            /\ cacheIndex' = IndexAfter(o)
            /\ promised' = [promised EXCEPT ![r] = @ - kept]
            /\ reserved' = reserved - kept
  BY DEF AppendTokens
<1>4. stored' = [stored EXCEPT ![r] = @ + n] /\ prompt' = prompt
  BY DEF AppendTokens
<1> DEFINE stack == FreeAfter(o)
           after == TableAfter(r, n, stack)
           filled == (stored[r] + n) - (need - 1) * BlockTokens
<1>5. /\ stack \in Seq(Block) /\ Len(stack) \in Nat
      /\ UsedAfter(o) \in [Block -> 0 .. BlockTokens]
      /\ PinnedAfter(o) \in [Block -> BOOLEAN]
      /\ IndexAfter(o) \in [Contents -> Block \cup {NoBlock}]
      /\ reserved + grow <= Len(stack)
  <2>1. CanEnsure(grow)
    BY <1>1 DEF AppendFits
  <2>2. FreeAfter(o) \in Seq(Block)
    BY <1>1, <1>2, EvictionOutcome
  <2> QED BY <1>1, <1>2, <2>1, <2>2, EvictionOutcome, LenProperties
<1>6. /\ promised[r] \in Nat /\ promised[r] <= reserved /\ reserved \in Nat
      /\ promised[r] = Cardinality(WaitingIn(table[r]))
  <2>1. table \in [Request -> Seq(Block \cup {NoBlock})] /\ Len(table[r]) <= TotalBlocks
    BY <1>1 DEF TypeOK
  <2>2. Cardinality(WaitingIn(table[r])) <= Cardinality(WaitingEntries(table))
    BY <2>1, WaitingUpdate
  <2>3. promised[r] = Cardinality(WaitingIn(table[r]))
    BY <1>1, PromisedIsWaiting
  <2> QED BY <1>1, <2>2, <2>3 DEF TypeOK
<1>7. /\ m \in Nat /\ kept \in Nat /\ kept <= promised[r] /\ kept <= m
      /\ reserved - kept \in Nat
      /\ m <= Len(stack) /\ reserved - kept <= Len(stack) - m
      /\ promised[r] - kept = Len(table[r]) + grow - need
      /\ need <= Len(table[r]) + grow
  <2>1. /\ full \in Nat /\ need \in Nat /\ Len(table[r]) \in Nat /\ grow \in Nat
        /\ promised[r] \in Int /\ reserved \in Nat /\ Len(stack) \in Nat
        /\ full <= need /\ full <= Len(table[r])
        /\ Len(table[r]) + grow = Greatest(need, Len(table[r]))
        /\ promised[r] = Len(table[r]) - full /\ promised[r] <= reserved
        /\ reserved + grow <= Len(stack) /\ m = need - full
    BY <1>2, <1>5, <1>6
  <2> HIDE DEF full, need, grow, m, stack
  <2> DEFINE len == Len(table[r])
             share == promised[r]
             depth == Len(stack)
  <2>2. /\ full \in Nat /\ need \in Nat /\ len \in Nat /\ grow \in Nat
        /\ share \in Int /\ reserved \in Nat /\ depth \in Nat
        /\ full <= need /\ full <= len /\ len + grow = Greatest(need, len)
        /\ share = len - full /\ share <= reserved
        /\ reserved + grow <= depth /\ m = need - full
        /\ kept = Least(share, m)
    BY <2>1 DEF kept
  <2> HIDE DEF len, share, depth, kept
  <2>3. /\ m \in Nat /\ kept \in Nat /\ kept <= share /\ kept <= m
        /\ reserved - kept \in Nat
        /\ m <= depth /\ reserved - kept <= depth - m
        /\ share - kept = len + grow - need
        /\ need <= len + grow
    BY <2>2 DEF Least, Greatest
  <2> QED BY <2>3 DEF len, share, depth
<1>8. /\ free' \in Seq(Block) /\ Len(free') = Len(stack) - m
  <2>1. \A i \in 1 .. Len(stack) - m : stack[i] \in Block
    BY <1>5, <1>7, ElementOfSeq
  <2>2. 1 \in Int /\ Len(stack) - m \in Int
    BY <1>5, <1>7
  <2> HIDE DEF stack, m
  <2>3. SubSeq(stack, 1, Len(stack) - m) \in Seq(Block)
    BY <2>1, <2>2, SubSeqProperties
  <2>4. Len(SubSeq(stack, 1, Len(stack) - m)) =
          IF 1 <= Len(stack) - m THEN Len(stack) - m - 1 + 1 ELSE 0
    BY <2>1, <2>2, SubSeqProperties
  <2> QED BY <1>3, <1>5, <1>7, <2>3, <2>4 DEF stack, m
<1>9. /\ after \in Seq(Block \cup {NoBlock})
      /\ Len(after) = Len(table[r]) + grow
      /\ \A i \in 1 .. Len(after) : after[i] = NoBlock <=> i > need
      /\ need <= Len(after)
  <2> DEFINE len == Len(table[r]) + grow
  <2>1. len \in Nat /\ need <= len
    <3>1. Len(table[r]) \in Nat /\ grow \in Nat /\ need <= Len(table[r]) + grow
      BY <1>2, <1>7
    <3> HIDE DEF need, grow
    <3> QED BY <3>1
  <2>2. \A i \in 1 .. Len(table[r]) : /\ table[r][i] \in Block \cup {NoBlock}
                                      /\ table[r][i] = NoBlock <=> i > full
    <3>1. table[r] \in Seq(Block \cup {NoBlock}) /\ DOMAIN table[r] = 1 .. Len(table[r])
      BY <1>1, LenProperties DEF TypeOK
    <3> QED BY <3>1, ElementOfSeq DEF HasShape
  <2>3. ASSUME NEW i \in MissingEntries(r, n)
        PROVE  PoppedFor(r, n, i, stack) \in Block
    <3> HIDE DEF stack
    <3>1. i \in full + 1 .. need
      BY <1>2, <2>3
    <3>2. PoppedFor(r, n, i, stack) = stack[Len(stack) + 1 - (i - full)]
      BY <1>2, <3>1 DEF PoppedFor
    <3>3. Len(stack) + 1 - (i - full) \in 1 .. Len(stack)
      <4>1. /\ full \in Nat /\ need \in Nat /\ m = need - full
            /\ m <= Len(stack) /\ Len(stack) \in Nat
        BY <1>2, <1>5, <1>7
      <4> HIDE DEF full, need, m
      <4> QED BY <3>1, <4>1
    <3> QED BY <1>5, <3>2, <3>3, ElementOfSeq
  <2>4. after = [i \in 1 .. len |->
                   IF i \in MissingEntries(r, n) THEN PoppedFor(r, n, i, stack)
                   ELSE IF i <= Len(table[r]) THEN table[r][i] ELSE NoBlock]
    BY DEF TableAfter
  <2> HIDE DEF after, stack, need, full, grow
  <2>5. ASSUME NEW i \in 1 .. len
        PROVE  after[i] \in Block \cup {NoBlock}
    <3>1. after[i] = IF i \in MissingEntries(r, n) THEN PoppedFor(r, n, i, stack)
                     ELSE IF i <= Len(table[r]) THEN table[r][i] ELSE NoBlock
      BY <2>4
    <3>2. i <= Len(table[r]) => i \in 1 .. Len(table[r])
      BY <1>2, <2>1
    <3> QED BY <2>2, <2>3, <3>1, <3>2
  <2>6. after \in Seq(Block \cup {NoBlock}) /\ Len(after) = len
    <3>1. after \in [1 .. len -> Block \cup {NoBlock}]
      BY <2>4, <2>5
    <3> HIDE DEF len
    <3> QED BY <2>1, <3>1
  <2>7. ASSUME NEW i \in 1 .. len
        PROVE  after[i] = NoBlock <=> i > need
    <3>1. CASE i \in MissingEntries(r, n)
      <4>1. after[i] \in Block
        BY <2>3, <2>4, <3>1
      <4> QED BY <1>2, <3>1, <4>1 DEF Block, NoBlock
    <3>2. CASE i \notin MissingEntries(r, n) /\ i <= Len(table[r])
      <4>1. after[i] = table[r][i] /\ i \in 1 .. Len(table[r])
        BY <1>2, <2>1, <2>4, <3>2
      <4> QED BY <1>2, <2>2, <3>2, <4>1
    <3>3. CASE i \notin MissingEntries(r, n) /\ ~(i <= Len(table[r]))
      <4>1. i <= need
        BY <1>2, <2>1, <3>3 DEF Greatest
      <4> QED BY <1>2, <2>1, <3>3, <4>1
    <3> QED BY <3>1, <3>2, <3>3
  <2> QED BY <2>1, <2>6, <2>7
<1>10. Len(after) <= TotalBlocks
  <2>1. need <= TotalBlocks /\ Len(table[r]) <= TotalBlocks
    BY <1>1 DEF AppendFits, TypeOK
  <2> HIDE DEF after, need, grow
  <2> QED BY <1>2, <1>9, <2>1, SizesAssumption DEF Greatest
<1>11. /\ table' \in [Request -> Seq(Block \cup {NoBlock})]
       /\ \A q \in Request : Len(table'[q]) <= TotalBlocks
       /\ table'[r] = after
       /\ \A q \in Request \ {r} : table'[q] = table[q]
  <2> HIDE DEF after
  <2> QED BY <1>1, <1>3, <1>9, <1>10 DEF TypeOK, after
<1>12. /\ promised' \in [Request -> Nat] /\ promised'[r] = promised[r] - kept
       /\ \A q \in Request \ {r} : promised'[q] = promised[q]
  <2> HIDE DEF kept
  <2> QED BY <1>1, <1>3, <1>6, <1>7 DEF TypeOK, kept
<1>13. /\ stored' \in [Request -> Nat] /\ stored'[r] = stored[r] + n
       /\ \A q \in Request \ {r} : stored'[q] = stored[q]
  BY <1>1, <1>4 DEF TypeOK
<1>14. HasShape(r)'
  <2>1. CeilDiv(stored'[r], BlockTokens) = need
    BY <1>13 DEF NeededBlocks
  <2>2. PromptBlocks(r)' = PromptBlocks(r)
    BY <1>4 DEF PromptBlocks
  <2> HIDE DEF after, need, grow, kept
  <2>3. Len(table'[r]) = Greatest(need, PromptBlocks(r))
    BY <1>2, <1>9, <1>11
  <2>4. \A i \in DOMAIN table'[r] : table'[r][i] = NoBlock <=> i > need
    BY <1>9, <1>11, LenProperties
  <2>5. promised'[r] = Len(table'[r]) - need
    <3>1. promised'[r] = promised[r] - kept /\ Len(table'[r]) = Len(table[r]) + grow
      BY <1>9, <1>11, <1>12
    <3>2. /\ promised[r] - kept = Len(table[r]) + grow - need
          /\ need \in Nat /\ grow \in Nat /\ Len(table[r]) \in Nat
          /\ promised[r] \in Nat /\ kept \in Nat
      BY <1>2, <1>6, <1>7
    <3> QED BY <3>1, <3>2
  <2> QED BY <2>1, <2>2, <2>3, <2>4, <2>5 DEF HasShape
<1>15. reserved' = Cardinality(WaitingEntries(table'))
  <2> HIDE DEF after, need, grow, kept, full, m
  <2>1. Cardinality(WaitingIn(after)) = Len(after) - need
    BY <1>2, <1>9, LenProperties, WaitingTail
  <2>2. table \in [Request -> Seq(Block \cup {NoBlock})] /\ Len(table[r]) <= TotalBlocks
    BY <1>1 DEF TypeOK
  <2>3. Cardinality(WaitingEntries([table EXCEPT ![r] = after])) =
          Cardinality(WaitingEntries(table)) - Cardinality(WaitingIn(table[r]))
            + Cardinality(WaitingIn(after))
    BY <1>9, <1>10, <2>2, WaitingUpdate
  <2>4. table' = [table EXCEPT ![r] = after] /\ reserved' = reserved - kept
    BY <1>3 DEF after, kept, m
  <2>5. Cardinality(WaitingEntries(table')) = reserved - promised[r] + (Len(after) - need)
    BY <1>1, <1>6, <2>1, <2>3, <2>4
  <2>6. Len(after) - need = promised[r] - kept
    <3>1. Len(after) = Len(table[r]) + grow
      BY <1>9
    <3>2. /\ promised[r] - kept = Len(table[r]) + grow - need
          /\ need \in Nat /\ grow \in Nat /\ Len(table[r]) \in Nat
          /\ promised[r] \in Nat /\ kept \in Nat
      BY <1>2, <1>6, <1>7
    <3> QED BY <3>1, <3>2
  <2>7. kept \in Nat /\ reserved \in Nat /\ promised[r] \in Nat
    BY <1>6, <1>7
  <2> QED BY <2>4, <2>5, <2>6, <2>7
<1>16. reserved' \in Nat /\ reserved' <= Len(free')
  <2>1. reserved' = reserved - kept
    BY <1>3
  <2>2. /\ reserved - kept \in Nat /\ reserved - kept <= Len(stack) - m
        /\ Len(free') = Len(stack) - m
    BY <1>7, <1>8
  <2> HIDE DEF stack, m, kept
  <2> QED BY <2>1, <2>2
<1>17. filled \in 0 .. BlockTokens
  <2>1. stored[r] + n \in Nat /\ BlockTokens \in Nat \ {0}
    BY <1>1, SizesAssumption DEF TypeOK
  <2> DEFINE v == stored[r] + n
  <2>2. filled = v - (CeilDiv(v, BlockTokens) - 1) * BlockTokens
    BY DEF NeededBlocks
  <2> HIDE DEF v, filled
  <2>3. v \in Nat
    BY <2>1 DEF v
  <2>4. v - (CeilDiv(v, BlockTokens) - 1) * BlockTokens \in 0 .. BlockTokens
    BY <2>1, <2>3, CeilDivLast
  <2> QED BY <2>2, <2>4, Zenon
<1>18. used' \in [Block -> 0 .. BlockTokens]
  <2> HIDE DEF after, filled, stack, need
  <2>1. ASSUME NEW b \in Block
        PROVE  /\ UsedAfter(o)[b] \in 0 .. BlockTokens
               /\ Greatest(filled, UsedAfter(o)[b]) \in 0 .. BlockTokens
               /\ BlockTokens \in 0 .. BlockTokens
    BY <1>5, <1>17, SizesAssumption DEF Greatest
  <2>2. used' = [b \in Block |->
                 IF \E i \in WrittenEntries(r, n) \ {need} : after[i] = b THEN BlockTokens
                 ELSE IF after[need] = b THEN Greatest(filled, UsedAfter(o)[b])
                 ELSE UsedAfter(o)[b]]
    BY <1>3 DEF after, filled, stack, need
  <2> QED BY <2>1, <2>2
<1>19. refs' \in [Block -> Nat]
  BY <1>1, <1>3 DEF TypeOK
<1>20. older' \subseteq Block \X Block
  BY <1>3 DEF Touched
<1>21. pinned' \in [Block -> BOOLEAN] /\ cacheIndex' \in [Contents -> Block \cup {NoBlock}]
  BY <1>3, <1>5
<1> HIDE DEF full, need, grow, first, m, kept, stack, after, filled
<1> QED
  BY <1>8, <1>11, <1>12, <1>13, <1>14, <1>15, <1>16, <1>18, <1>19, <1>20, <1>21

-----------------------------------------------------------------------------
(* The inductive invariant, action by action *)

\* The empty cache.
LEMMA InitReservation == Init => ReservationInv
<1> SUFFICES ASSUME Init PROVE ReservationInv
  OBVIOUS
<1>1. free \in Seq(Block) /\ Len(free) = TotalBlocks
  <2>1. free = [i \in 1 .. TotalBlocks |-> TotalBlocks - i] /\ TotalBlocks \in Nat
    BY SizesAssumption DEF Init
  <2>2. \A i \in 1 .. TotalBlocks : TotalBlocks - i \in Block
    BY SizesAssumption DEF Block
  <2> QED BY <2>1, <2>2
<1>2. TypeOK
  BY <1>1, SizesAssumption DEF Init, TypeOK, Phases, Block
<1>3. TablesInShape
  BY DEF Init, TablesInShape, RequestInShape, CallInShape, IsEmptyHanded
<1>4. WaitingEntries(table) = {}
  BY DEF Init, WaitingEntries, EntriesOf
<1>5. reserved = 0 /\ Cardinality(WaitingEntries(table)) = 0
  BY <1>4, FS_EmptySet DEF Init
<1>6. reserved <= Len(free)
  BY <1>1, <1>5, SizesAssumption
<1> QED BY <1>2, <1>3, <1>5, <1>6 DEF ReservationInv

\* A request that no cache can hold is refused and nothing else happens.
LEMMA AdmitImpossibleReservation ==
  ASSUME ReservationInv, NEW r \in Request, AdmitImpossible(r)
  PROVE  ReservationInv'
<1>1. TypeOK /\ TablesInShape
  BY DEF ReservationInv
<1>2. UNCHANGED <<cacheVars, prompt, table, stored, hitTokens, promised, calls>>
  BY DEF AdmitImpossible
<1>3. /\ status' = [status EXCEPT ![r] = "Rejected"]
      /\ status[r] = "Queued" /\ calls = <<>>
  BY DEF AdmitImpossible
<1>4. TypeOK'
  BY <1>1, <1>2, <1>3 DEF TypeOK, cacheVars, Phases
<1>5. \A q \in Request : /\ HasShape(q)' <=> HasShape(q)
                         /\ IsEmptyHanded(q)' <=> IsEmptyHanded(q)
  BY <1>2, ShapeUnchanged
<1>6. TablesInShape'
  <2>1. calls' = <<>> /\ DOMAIN calls' = {}
    BY <1>2, <1>3
  <2> QED BY <1>1, <1>3, <1>5, <2>1 DEF TablesInShape, RequestInShape, CallInShape, TypeOK
<1> QED BY <1>2, <1>4, <1>6 DEF ReservationInv, cacheVars

\* Giving up on requests that hold nothing disturbs nothing.
LEMMA ExpireReservation ==
  ASSUME ReservationInv, NEW S \in SUBSET Request, Expire(S)
  PROVE  ReservationInv'
<1>1. /\ \A r \in S : status[r] = "Queued"
      /\ status' = [r \in Request |-> IF r \in S THEN "Rejected" ELSE status[r]]
      /\ UNCHANGED <<cacheVars, prompt, table, stored, hitTokens, promised>>
  BY DEF Expire
<1>2. calls = <<>> /\ calls' = <<>>
  BY DEF Expire
<1>3. TypeOK'
  BY <1>1, <1>2 DEF ReservationInv, TypeOK, cacheVars, Phases
<1>4. \A q \in Request : /\ HasShape(q)' <=> HasShape(q)
                         /\ IsEmptyHanded(q)' <=> IsEmptyHanded(q)
  BY <1>1, ShapeUnchanged
<1>5. TablesInShape'
  BY <1>1, <1>2, <1>4 DEF ReservationInv, TablesInShape, RequestInShape, CallInShape, TypeOK
<1> QED BY <1>1, <1>2, <1>3, <1>5 DEF ReservationInv, cacheVars

\* A request that has to wait: idle entries became free pages.
LEMMA AdmitUnavailableReservation ==
  ASSUME ReservationInv, NEW r \in Request, NEW hits \in 0 .. CompletePromptBlocks(r),
         AdmitTemporarilyUnavailable(r, hits)
  PROVE  ReservationInv'
<1>1. TypeOK /\ TablesInShape /\ reserved <= Len(free) /\ reserved \in Nat /\ Len(free) \in Nat
  BY LenProperties DEF ReservationInv, TypeOK
<1>2. UNCHANGED <<requestVars, calls>> /\ FailedEnsure(PromptBlocks(r) - hits)
  BY DEF AdmitTemporarilyUnavailable
<1>3. PromptBlocks(r) - hits \in Nat
  BY <1>1, BlockCounts
<1>4. /\ free' \in Seq(Block) /\ Len(free') \in Nat /\ Len(free) <= Len(free')
      /\ used' \in [Block -> 0 .. BlockTokens]
      /\ pinned' \in [Block -> BOOLEAN]
      /\ cacheIndex' \in [Contents -> Block \cup {NoBlock}]
      /\ refs' = refs /\ older' = older /\ reserved' = reserved
  BY <1>1, <1>2, <1>3, FailedEnsureOutcome
<1>5. TypeOK'
  BY <1>1, <1>2, <1>4 DEF TypeOK, requestVars
<1>6. \A q \in Request : /\ HasShape(q)' <=> HasShape(q)
                         /\ IsEmptyHanded(q)' <=> IsEmptyHanded(q)
  BY <1>2, ShapeUnchanged DEF requestVars
<1>7. TablesInShape'
  BY <1>1, <1>2, <1>6 DEF TablesInShape, RequestInShape, CallInShape, requestVars
<1>8. table' = table
  BY <1>2 DEF requestVars
<1>9. reserved' <= Len(free')
  BY <1>1, <1>4
<1> QED BY <1>4, <1>5, <1>7, <1>8, <1>9 DEF ReservationInv

\* Admission reserves exactly what ensure_capacity made room for.
LEMMA AdmitReservation ==
  ASSUME ReservationInv, NEW r \in Request, NEW hits \in 0 .. CompletePromptBlocks(r),
         Admit(r, hits)
  PROVE  ReservationInv'
<1> DEFINE blocks == PromptBlocks(r)
           entries == [i \in 1 .. blocks |->
                         IF i <= hits THEN HitBlocks(r, hits)[i] ELSE NoBlock]
<1>1. /\ TypeOK /\ TablesInShape /\ reserved \in Nat
      /\ reserved = Cardinality(WaitingEntries(table))
  BY DEF ReservationInv, TypeOK
<1>2. /\ blocks \in Nat /\ hits \in Nat /\ hits <= blocks /\ blocks - hits \in Nat
      /\ hits <= CompletePromptBlocks(r) /\ Len(prompt[r]) \in Nat
      /\ CompletePromptBlocks(r) \in Nat /\ prompt[r] \in Prompts
  <2>1. /\ blocks \in Nat /\ CompletePromptBlocks(r) \in Nat
        /\ CompletePromptBlocks(r) <= blocks /\ Len(prompt[r]) \in Nat
    BY <1>1, BlockCounts
  <2> HIDE DEF blocks
  <2>2. hits \in Nat /\ hits <= CompletePromptBlocks(r)
    BY <2>1
  <2> QED BY <1>1, <2>1, <2>2 DEF TypeOK
<1>3. PICK o \in Evictions(blocks - hits) :
        /\ free' = FreeAfter(o) /\ used' = UsedAfter(o)
        /\ pinned' = PinnedAfter(o) /\ cacheIndex' = IndexAfter(o)
  BY DEF Admit
<1>4. /\ calls = <<>> /\ calls' = calls /\ status[r] = "Queued" /\ blocks <= TotalBlocks
      /\ prompt' = prompt /\ CanEnsure(blocks - hits) /\ IsHitRun(r, hits)
      /\ refs' = [b \in Block |-> refs[b] + HitRefs(r, hits, b)]
      /\ older' = Touched(HitBlocks(r, hits))
      /\ table' = [table EXCEPT ![r] = entries]
      /\ hitTokens' = [hitTokens EXCEPT ![r] = hits * BlockTokens]
      /\ stored' = [stored EXCEPT ![r] = hits * BlockTokens]
      /\ promised' = [promised EXCEPT ![r] = blocks - hits]
      /\ status' = [status EXCEPT ![r] = "Active"]
      /\ reserved' = reserved + blocks - hits
  BY DEF Admit, HitTokens
<1>5. /\ free' \in Seq(Block) /\ used' \in [Block -> 0 .. BlockTokens]
      /\ pinned' \in [Block -> BOOLEAN]
      /\ cacheIndex' \in [Contents -> Block \cup {NoBlock}]
      /\ reserved + (blocks - hits) <= Len(free')
  <2> HIDE DEF blocks
  <2> QED BY <1>1, <1>2, <1>3, <1>4, EvictionOutcome
<1>6. reserved' \in Nat /\ reserved' = reserved + (blocks - hits)
  <2>1. reserved' = reserved + blocks - hits
    BY <1>4
  <2> HIDE DEF blocks
  <2> QED BY <1>1, <1>2, <2>1
<1>7. \A i \in 1 .. hits : HitBlocks(r, hits)[i] \in Block
  <2>1. ASSUME NEW i \in 1 .. hits
        PROVE  HitBlocks(r, hits)[i] \in Block
    <3>1. PrefixCacheEnabled /\ IsHit(r, i)
      BY <1>2, <1>4, <2>1 DEF IsHitRun
    <3>2. i \in 1 .. Len(prompt[r]) \div BlockTokens
      <4>1. i \in 1 .. CompletePromptBlocks(r)
        BY <1>2, <2>1
      <4> QED BY <4>1 DEF CompletePromptBlocks
    <3>3. BlockContent(prompt[r], i) \in Contents
      BY <1>2, <3>2 DEF Contents
    <3> QED BY <1>1, <3>1, <3>3 DEF IsHit, HitBlocks, TypeOK
  <2> QED BY <2>1
<1>8. /\ entries \in Seq(Block \cup {NoBlock}) /\ Len(entries) = blocks
      /\ \A i \in 1 .. blocks : entries[i] = NoBlock <=> i > hits
  <2>1. \A i \in 1 .. blocks : entries[i] \in Block \cup {NoBlock}
    BY <1>2, <1>7
  <2>2. \A i \in 1 .. blocks : entries[i] = NoBlock <=> i > hits
    BY <1>2, <1>7 DEF Block, NoBlock
  <2>3. entries \in [1 .. blocks -> Block \cup {NoBlock}]
    BY <2>1
  <2> HIDE DEF blocks, entries
  <2> QED BY <1>2, <2>2, <2>3
<1>9. refs' \in [Block -> Nat]
  <2>1. ASSUME NEW b \in Block
        PROVE  refs[b] + HitRefs(r, hits, b) \in Nat
    <3>1. IsFiniteSet(1 .. hits)
      BY <1>2, FS_Interval
    <3>2. HitRefs(r, hits, b) \in Nat
      BY <3>1, FS_Subset, FS_CardinalityType DEF HitRefs
    <3> QED BY <1>1, <3>2 DEF TypeOK
  <2> QED BY <1>4, <2>1
<1>10. older' \subseteq Block \X Block
  BY <1>4 DEF Touched
<1>11. /\ hits * BlockTokens \in Nat /\ CeilDiv(hits * BlockTokens, BlockTokens) = hits
  BY <1>2, SizesAssumption, CeilDivWhole
<1>12. /\ table' \in [Request -> Seq(Block \cup {NoBlock})] /\ table'[r] = entries
       /\ \A q \in Request : Len(table'[q]) <= TotalBlocks
       /\ \A q \in Request \ {r} : table'[q] = table[q]
  <2> HIDE DEF entries, blocks
  <2>1. table' = [table EXCEPT ![r] = entries] /\ blocks <= TotalBlocks
    BY <1>4
  <2> QED BY <1>1, <1>8, <2>1 DEF TypeOK
<1>13. TypeOK'
  <2>1. /\ stored' \in [Request -> Nat] /\ hitTokens' \in [Request -> Nat]
        /\ promised' \in [Request -> Nat] /\ status' \in [Request -> Phases]
        /\ prompt' \in [Request -> Prompts] /\ calls' \in Seq(Calls)
    <3> HIDE DEF blocks
    <3> QED BY <1>1, <1>2, <1>4, <1>11 DEF TypeOK, Phases
  <2> HIDE DEF blocks, entries
  <2> QED BY <1>5, <1>6, <1>9, <1>10, <1>12, <2>1 DEF TypeOK
<1>14. HasShape(r)'
  <2>1. /\ CeilDiv(stored'[r], BlockTokens) = hits /\ promised'[r] = blocks - hits
        /\ PromptBlocks(r)' = blocks
    <3>1. stored'[r] = hits * BlockTokens /\ promised'[r] = blocks - hits
      BY <1>1, <1>4 DEF TypeOK
    <3> QED BY <1>4, <1>11, <3>1 DEF PromptBlocks
  <2> HIDE DEF blocks, entries
  <2>2. Len(table'[r]) = Greatest(hits, blocks) /\ DOMAIN table'[r] = 1 .. blocks
    BY <1>2, <1>8, <1>12, LenProperties DEF Greatest
  <2>3. Len(table'[r]) = blocks
    BY <1>8, <1>12
  <2> QED BY <1>8, <1>12, <2>1, <2>2, <2>3 DEF HasShape
<1>15. TablesInShape'
  <2>1. \A q \in Request \ {r} : /\ HasShape(q)' <=> HasShape(q)
                                 /\ IsEmptyHanded(q)' <=> IsEmptyHanded(q)
    <3>1. \A q \in Request \ {r} : stored'[q] = stored[q] /\ promised'[q] = promised[q]
      BY <1>1, <1>4 DEF TypeOK
    <3> QED BY <1>4, <1>12, <3>1, ShapeUnchanged
  <2>2. /\ status'[r] = "Active"
        /\ \A q \in Request \ {r} : status'[q] = status[q]
        /\ DOMAIN calls' = {}
    BY <1>1, <1>4 DEF TypeOK
  <2> QED BY <1>1, <1>14, <2>1, <2>2 DEF TablesInShape, RequestInShape, CallInShape
<1>16. reserved' = Cardinality(WaitingEntries(table'))
  <2>1. table[r] = <<>> /\ promised[r] = 0
    BY <1>1, <1>4 DEF TablesInShape, RequestInShape, CallInShape, IsEmptyHanded
  <2>2. Cardinality(WaitingIn(table[r])) = 0
    BY <1>1, <2>1, PromisedIsWaiting
  <2> HIDE DEF blocks, entries
  <2>3. Cardinality(WaitingIn(entries)) = blocks - hits
    BY <1>2, <1>8, LenProperties, WaitingTail
  <2>4. /\ table \in [Request -> Seq(Block \cup {NoBlock})]
        /\ Len(table[r]) <= TotalBlocks /\ Len(entries) <= TotalBlocks
    BY <1>1, <1>4, <1>8 DEF TypeOK, blocks
  <2>5. Cardinality(WaitingEntries([table EXCEPT ![r] = entries])) =
          Cardinality(WaitingEntries(table)) - Cardinality(WaitingIn(table[r]))
            + Cardinality(WaitingIn(entries))
    BY <1>8, <2>4, WaitingUpdate
  <2>6. table' = [table EXCEPT ![r] = entries]
    BY <1>4 DEF entries, blocks
  <2> QED BY <1>1, <1>2, <1>6, <2>2, <2>3, <2>5, <2>6
<1> QED
  <2> HIDE DEF blocks, entries
  <2> QED BY <1>5, <1>6, <1>13, <1>15, <1>16 DEF ReservationInv

\* A prefill chunk, and the caching calls it leaves to be made.
LEMMA AppendPrefillReservation ==
  ASSUME ReservationInv, NEW r \in Request, NEW n \in 1 .. Len(prompt[r]),
         AppendPrefill(r, n)
  PROVE  ReservationInv'
<1> DEFINE first == stored[r] \div BlockTokens
           end   == (stored[r] + n) \div BlockTokens
<1>1. TypeOK /\ TablesInShape
  BY DEF ReservationInv
<1>2. /\ calls = <<>> /\ status[r] = "Active" /\ status' = status /\ HasShape(r)
      /\ AppendTokens(r, n) /\ prompt' = prompt /\ hitTokens' = hitTokens
      /\ calls' = [k \in 1 .. end - first |-> CacheCall(r, first + k)]
  BY <1>1 DEF AppendPrefill, IsPrefilling, TablesInShape, RequestInShape, CallInShape, AppendTokens
<1>3. n \in Nat \ {0} /\ stored[r] \in Nat /\ BlockTokens \in Nat \ {0}
  BY <1>1, BlockCounts, SizesAssumption
<1>4. /\ free' \in Seq(Block) /\ refs' \in [Block -> Nat]
      /\ used' \in [Block -> 0 .. BlockTokens] /\ pinned' \in [Block -> BOOLEAN]
      /\ older' \subseteq Block \X Block
      /\ cacheIndex' \in [Contents -> Block \cup {NoBlock}]
      /\ reserved' \in Nat
      /\ table' \in [Request -> Seq(Block \cup {NoBlock})]
      /\ \A q \in Request : Len(table'[q]) <= TotalBlocks
      /\ stored' \in [Request -> Nat] /\ stored'[r] = stored[r] + n
      /\ promised' \in [Request -> Nat]
      /\ HasShape(r)'
      /\ \A q \in Request \ {r} :
           table'[q] = table[q] /\ stored'[q] = stored[q] /\ promised'[q] = promised[q]
      /\ reserved' = Cardinality(WaitingEntries(table')) /\ reserved' <= Len(free')
  BY <1>2, <1>3, AppendOutcome
<1>5. /\ first \in Nat /\ end \in Nat /\ first <= end
      /\ end <= CeilDiv(stored'[r], BlockTokens)
  <2>1. stored[r] + n \in Nat /\ stored[r] <= stored[r] + n
    BY <1>3
  <2>2. first \in Nat
    BY <1>3, CeilDivNext
  <2>3. end \in Nat /\ end <= CeilDiv(stored[r] + n, BlockTokens)
    BY <1>3, <2>1, CeilDivNext
  <2>4. first <= end
    BY <1>3, <2>1, DivMonotonic
  <2> QED BY <1>4, <2>2, <2>3, <2>4
<1> HIDE DEF first, end
<1>6. /\ calls' \in Seq(Calls)
      /\ \A k \in DOMAIN calls' :
           calls'[k].op = "cache" /\ calls'[k].request = r /\ calls'[k].block \in 1 .. CeilDiv(stored'[r], BlockTokens)
  <2>1. \A k \in 1 .. end - first : first + k \in 1 .. CeilDiv(stored'[r], BlockTokens)
    <3>1. CeilDiv(stored'[r], BlockTokens) \in Nat
      BY <1>3, <1>4, CeilDivBounds
    <3> QED BY <1>5, <3>1
  <2>2. \A k \in 1 .. end - first : CacheCall(r, first + k) \in Calls
    BY <1>5 DEF CacheCall, Calls
  <2>3. end - first \in Nat
    BY <1>5
  <2>4. calls' \in [1 .. end - first -> Calls]
    BY <1>2, <2>2
  <2>5. calls' \in Seq(Calls) /\ DOMAIN calls' = 1 .. end - first
    BY <2>3, <2>4
  <2>6. ASSUME NEW k \in 1 .. end - first
        PROVE  /\ calls'[k].op = "cache" /\ calls'[k].request = r
               /\ calls'[k].block = first + k
    BY <1>2 DEF CacheCall
  <2> QED BY <2>1, <2>5, <2>6
<1>7. TypeOK'
  BY <1>1, <1>2, <1>4, <1>6 DEF TypeOK
<1>8. TablesInShape'
  <2>1. \A q \in Request \ {r} : /\ HasShape(q)' <=> HasShape(q)
                                 /\ IsEmptyHanded(q)' <=> IsEmptyHanded(q)
    BY <1>2, <1>4, ShapeUnchanged
  <2> QED BY <1>1, <1>2, <1>4, <1>6, <2>1 DEF TablesInShape, RequestInShape, CallInShape
<1> QED BY <1>4, <1>7, <1>8 DEF ReservationInv

\* What a handler still has to call after a decode.
LEMMA LastCall ==
  ASSUME NEW r \in Request, NEW c, c \in {<<ReleaseCall(r)>>, <<>>}
  PROVE  /\ c \in Seq(Calls)
         /\ \A k \in DOMAIN c : c[k].op = "release" /\ c[k].request = r /\ Len(c) = 1
<1>1. ReleaseCall(r) \in Calls /\ ReleaseCall(r).op = "release" /\ ReleaseCall(r).request = r
  BY DEF ReleaseCall, Calls
<1>2. CASE c = <<ReleaseCall(r)>>
  <2> DEFINE call == ReleaseCall(r)
  <2>1. c = <<call>> /\ call \in Calls /\ call.op = "release" /\ call.request = r
    BY <1>1, <1>2
  <2> HIDE DEF call
  <2>2. c \in Seq(Calls) /\ Len(c) = 1 /\ DOMAIN c = 1 .. 1 /\ c[1] = call
    BY <2>1
  <2>3. \A k \in DOMAIN c : k = 1
    BY <2>2
  <2> QED BY <2>1, <2>2, <2>3
<1>3. CASE c = <<>>
  BY <1>3
<1> QED BY <1>2, <1>3

\* A decode token.
LEMMA AppendDecodeReservation ==
  ASSUME ReservationInv, NEW r \in Request, NEW last \in BOOLEAN, AppendDecode(r, last)
  PROVE  ReservationInv'
<1>1. TypeOK /\ TablesInShape
  BY DEF ReservationInv
<1>2. /\ calls = <<>> /\ status[r] = "Active" /\ HasShape(r)
      /\ status' = IF last THEN [status EXCEPT ![r] = "Finished"] ELSE status
      /\ AppendTokens(r, 1) /\ prompt' = prompt /\ hitTokens' = hitTokens
      /\ calls' = IF last THEN <<ReleaseCall(r)>> ELSE <<>>
  BY <1>1 DEF AppendDecode, IsDecoding, TablesInShape, RequestInShape, CallInShape, AppendTokens
<1>3. 1 \in Nat \ {0}
  OBVIOUS
<1>4. /\ free' \in Seq(Block) /\ refs' \in [Block -> Nat]
      /\ used' \in [Block -> 0 .. BlockTokens] /\ pinned' \in [Block -> BOOLEAN]
      /\ older' \subseteq Block \X Block
      /\ cacheIndex' \in [Contents -> Block \cup {NoBlock}]
      /\ reserved' \in Nat
      /\ table' \in [Request -> Seq(Block \cup {NoBlock})]
      /\ \A q \in Request : Len(table'[q]) <= TotalBlocks
      /\ stored' \in [Request -> Nat]
      /\ promised' \in [Request -> Nat]
      /\ HasShape(r)'
      /\ \A q \in Request \ {r} :
           table'[q] = table[q] /\ stored'[q] = stored[q] /\ promised'[q] = promised[q]
      /\ reserved' = Cardinality(WaitingEntries(table')) /\ reserved' <= Len(free')
  BY <1>2, <1>3, AppendOutcome
<1>5. /\ calls' \in Seq(Calls)
      /\ \A k \in DOMAIN calls' :
           calls'[k].op = "release" /\ calls'[k].request = r /\ Len(calls') = 1
  BY <1>2, LastCall
<1>6. TypeOK'
  BY <1>1, <1>2, <1>4, <1>5 DEF TypeOK, Phases
<1>7. TablesInShape'
  <2>1. \A q \in Request \ {r} : /\ HasShape(q)' <=> HasShape(q)
                                 /\ IsEmptyHanded(q)' <=> IsEmptyHanded(q)
    BY <1>2, <1>4, ShapeUnchanged
  <2>2. /\ \A q \in Request \ {r} : status'[q] = status[q]
        /\ IF last THEN status'[r] = "Finished" ELSE status'[r] = "Active" /\ calls' = <<>>
    BY <1>1, <1>2 DEF TypeOK
  <2>3. ASSUME NEW q \in Request PROVE RequestInShape(q)'
    BY <1>1, <1>4, <2>1, <2>2 DEF TablesInShape, RequestInShape
  <2>4. ASSUME NEW k \in DOMAIN calls' PROVE CallInShape(calls[k])'
    BY <1>5, <2>2 DEF CallInShape
  <2> QED BY <2>3, <2>4 DEF TablesInShape
<1> QED BY <1>4, <1>6, <1>7 DEF ReservationInv

\* A request that is cut off keeps its table until it is released.
LEMMA GrowthExhaustedReservation ==
  ASSUME ReservationInv, NEW r \in Request, GrowthExhausted(r)
  PROVE  ReservationInv'
<1>1. /\ TypeOK /\ TablesInShape /\ reserved <= Len(free) /\ reserved \in Nat
      /\ Len(free) \in Nat /\ free \in Seq(Block)
  BY LenProperties DEF ReservationInv, TypeOK
<1>2. /\ calls = <<>> /\ status[r] = "Active" /\ HasShape(r)
      /\ status' = [status EXCEPT ![r] = "Rejected"] /\ calls' = <<ReleaseCall(r)>>
      /\ UNCHANGED <<prompt, table, stored, hitTokens, promised>>
  BY <1>1 DEF GrowthExhausted, IsDecoding, TablesInShape, RequestInShape, CallInShape
<1>3. /\ free' \in Seq(Block) /\ Len(free') \in Nat /\ Len(free) <= Len(free')
      /\ used' \in [Block -> 0 .. BlockTokens]
      /\ pinned' \in [Block -> BOOLEAN]
      /\ cacheIndex' \in [Contents -> Block \cup {NoBlock}]
      /\ refs' = refs /\ older' = older /\ reserved' = reserved
  <2>1. CASE UNCHANGED cacheVars
    BY <1>1, <2>1 DEF cacheVars, TypeOK
  <2>2. CASE FailedEnsure(GrowthBlocks(r, 1))
    <3>1. GrowthBlocks(r, 1) \in Nat
      BY <1>1, <1>2, AppendEntries
    <3> QED BY <1>1, <2>2, <3>1, FailedEnsureOutcome
  <2> QED BY <2>1, <2>2 DEF GrowthExhausted
<1>4. /\ calls' \in Seq(Calls)
      /\ \A k \in DOMAIN calls' :
           calls'[k].op = "release" /\ calls'[k].request = r /\ Len(calls') = 1
  BY <1>2, LastCall
<1>5. TypeOK'
  BY <1>1, <1>2, <1>3, <1>4 DEF TypeOK, Phases
<1>6. TablesInShape'
  <2>1. \A q \in Request : /\ HasShape(q)' <=> HasShape(q)
                           /\ IsEmptyHanded(q)' <=> IsEmptyHanded(q)
    BY <1>2, ShapeUnchanged
  <2>2. /\ \A q \in Request \ {r} : status'[q] = status[q]
        /\ status'[r] = "Rejected"
    BY <1>1, <1>2 DEF TypeOK
  <2> QED BY <1>1, <1>2, <1>4, <2>1, <2>2 DEF TablesInShape, RequestInShape, CallInShape
<1>7. reserved' <= Len(free')
  BY <1>1, <1>3
<1> QED BY <1>2, <1>3, <1>5, <1>6, <1>7 DEF ReservationInv

\* What the outcomes of a caching call have in common.
LEMMA CacheCallReservation ==
  ASSUME ReservationInv, CacheRefresh \/ CacheInsert
  PROVE  ReservationInv'
<1>1. TypeOK /\ TablesInShape
  BY DEF ReservationInv
<1>2. /\ calls # <<>> /\ calls' = Tail(calls) /\ Head(calls).op = "cache"
      /\ UNCHANGED <<free, refs, used, reserved, requestVars>>
  BY DEF CacheRefresh, CacheInsert, cacheVars
<1>3. /\ Head(calls) \in Calls /\ calls' \in Seq(Calls)
      /\ Head(calls) = calls[1] /\ 1 \in DOMAIN calls
      /\ \A k \in DOMAIN calls' :
           k + 1 \in DOMAIN calls /\ calls'[k] = calls[k + 1] /\ Len(calls) # 1
  <2>1. calls \in Seq(Calls) /\ Len(calls) \in Nat /\ DOMAIN calls = 1 .. Len(calls)
    BY <1>1, LenProperties DEF TypeOK
  <2>2. /\ Head(calls) \in Calls /\ Tail(calls) \in Seq(Calls)
        /\ Len(Tail(calls)) = Len(calls) - 1
        /\ \A k \in 1 .. Len(Tail(calls)) : Tail(calls)[k] = calls[k + 1]
    BY <1>2, <2>1, HeadTailProperties
  <2>3. DOMAIN Tail(calls) = 1 .. Len(calls) - 1 /\ Head(calls) = calls[1] /\ Len(calls) >= 1
    BY <1>2, <2>1, <2>2, EmptySeq, LenProperties
  <2> QED BY <1>2, <2>1, <2>2, <2>3
<1>4. table[Head(calls).request][Head(calls).block] \in Block
  <2> DEFINE r == Head(calls).request
             i == Head(calls).block
             full == CeilDiv(stored[r], BlockTokens)
  <2>1. /\ r \in Request /\ status[r] = "Active" /\ i \in 1 .. full
    BY <1>1, <1>2, <1>3 DEF TablesInShape, RequestInShape, CallInShape, Calls
  <2>2. HasShape(r) /\ full \in Nat /\ PromptBlocks(r) \in Nat
    BY <1>1, <2>1, BlockCounts DEF TablesInShape, RequestInShape, CallInShape
  <2>3. Len(table[r]) \in Nat /\ DOMAIN table[r] = 1 .. Len(table[r])
        /\ table[r] \in Seq(Block \cup {NoBlock})
    BY <1>1, <2>1, LenProperties DEF TypeOK
  <2>4. /\ Len(table[r]) = Greatest(full, PromptBlocks(r))
        /\ \A k \in DOMAIN table[r] : table[r][k] = NoBlock <=> k > full
    BY <2>2 DEF HasShape
  <2> HIDE DEF r, i, full
  <2>5. i \in 1 .. Len(table[r]) /\ ~(i > full)
    BY <2>1, <2>2, <2>3, <2>4 DEF Greatest
  <2>6. table[r][i] \in Block
    BY <2>3, <2>4, <2>5, ElementOfSeq
  <2> QED BY <2>6 DEF r, i
<1>5. /\ pinned' \in [Block -> BOOLEAN]
      /\ older' \subseteq Block \X Block
      /\ cacheIndex' \in [Contents -> Block \cup {NoBlock}]
  <2>0. /\ pinned \in [Block -> BOOLEAN] /\ older \subseteq Block \X Block
        /\ cacheIndex \in [Contents -> Block \cup {NoBlock}]
    BY <1>1 DEF TypeOK
  <2> DEFINE c == Head(calls)
             h == BlockContent(prompt[c.request], c.block)
             b == table[c.request][c.block]
  <2>1. CASE CacheRefresh
    <3>1. UNCHANGED <<pinned, cacheIndex>>
          /\ (older' = older \/ older' = Touched(<<cacheIndex[h]>>))
      BY <2>1 DEF CacheRefresh
    <3>2. Touched(<<cacheIndex[h]>>) \subseteq Block \X Block
      BY DEF Touched
    <3> QED BY ONLY <2>0, <3>1, <3>2
  <2>2. CASE CacheInsert
    <3>1. /\ pinned' = [pinned EXCEPT ![b] = TRUE] /\ cacheIndex' = [cacheIndex EXCEPT ![h] = b]
          /\ older' = Touched(<<b>>)
      BY <2>2 DEF CacheInsert
    <3>2. Touched(<<b>>) \subseteq Block \X Block
      BY DEF Touched
    <3>3. b \in Block
      BY <1>4
    <3> HIDE DEF b, h
    <3> QED BY ONLY <2>0, <3>1, <3>2, <3>3
  <2> QED BY <2>1, <2>2
<1>6. TypeOK'
  BY <1>1, <1>2, <1>3, <1>5 DEF TypeOK, requestVars
<1>7. TablesInShape'
  <2>1. \A q \in Request : /\ HasShape(q)' <=> HasShape(q)
                           /\ IsEmptyHanded(q)' <=> IsEmptyHanded(q)
    BY <1>2, ShapeUnchanged DEF requestVars
  <2> QED BY <1>1, <1>2, <1>3, <2>1 DEF TablesInShape, RequestInShape, CallInShape, requestVars
<1> QED BY <1>2, <1>6, <1>7 DEF ReservationInv, requestVars

\* A release gives back the promise that is left with the pages.
LEMMA ReleaseReservation ==
  ASSUME ReservationInv, Release
  PROVE  ReservationInv'
<1>1. /\ TypeOK /\ TablesInShape /\ free \in Seq(Block) /\ Len(free) \in Nat
      /\ reserved \in Nat /\ reserved <= Len(free)
      /\ reserved = Cardinality(WaitingEntries(table))
  BY LenProperties DEF ReservationInv, TypeOK
<1>2. /\ calls \in Seq(Calls) /\ calls # <<>> /\ Head(calls).op = "release"
  BY <1>1 DEF Release, TypeOK
<1>3. /\ Head(calls) \in Calls /\ Tail(calls) \in Seq(Calls)
      /\ Head(calls) = calls[1] /\ 1 \in DOMAIN calls /\ DOMAIN Tail(calls) = 1 .. Len(calls) - 1
      /\ \A k \in DOMAIN Tail(calls) : k + 1 \in DOMAIN calls /\ Tail(calls)[k] = calls[k + 1]
  <2>1. Len(calls) \in Nat /\ DOMAIN calls = 1 .. Len(calls)
    BY <1>2, LenProperties
  <2>2. /\ Head(calls) \in Calls /\ Tail(calls) \in Seq(Calls)
        /\ Len(Tail(calls)) = Len(calls) - 1
        /\ \A k \in 1 .. Len(Tail(calls)) : Tail(calls)[k] = calls[k + 1]
    BY <1>2, HeadTailProperties
  <2>3. DOMAIN Tail(calls) = 1 .. Len(calls) - 1 /\ Head(calls) = calls[1] /\ Len(calls) >= 1
    BY <1>2, <2>1, <2>2, EmptySeq, LenProperties
  <2> QED BY <2>1, <2>2, <2>3
<1>0. PICK r \in Request : r = Head(calls).request
  BY <1>3 DEF Calls
<1>4. /\ refs' = [b \in Block |-> Monus(refs[b], Occurrences(r, b, Len(table[r])))]
      /\ used' = [b \in Block |->
                    IF b \in {table[r][i] : i \in FreedEntries(r)} THEN 0 ELSE used[b]]
      /\ reserved' = reserved - promised[r]
      /\ promised' = [promised EXCEPT ![r] = 0]
      /\ table' = [table EXCEPT ![r] = <<>>]
      /\ calls' = Tail(calls)
      /\ UNCHANGED <<pinned, older, cacheIndex, prompt, stored, hitTokens, status>>
  BY <1>0 DEF Release
<1>5. PICK o \in InOrder(FreedEntries(r)) :
        free' = free \o [k \in DOMAIN o |-> table[r][o[k]]]
  BY <1>0 DEF Release
<1>6. /\ table[r] \in Seq(Block \cup {NoBlock}) /\ Len(table[r]) \in Nat
      /\ DOMAIN table[r] = 1 .. Len(table[r]) /\ Len(table[r]) <= TotalBlocks
      /\ table \in [Request -> Seq(Block \cup {NoBlock})]
  BY <1>1, <1>3, LenProperties DEF TypeOK
<1>7. /\ promised[r] \in Nat /\ promised[r] <= reserved
      /\ promised[r] = Cardinality(WaitingIn(table[r]))
  <2>1. promised[r] = Cardinality(WaitingIn(table[r]))
    BY <1>1, <1>3, PromisedIsWaiting
  <2>2. Cardinality(WaitingIn(table[r])) <= Cardinality(WaitingEntries(table))
    BY <1>3, <1>6, WaitingUpdate
  <2> QED BY <1>1, <1>3, <2>1, <2>2 DEF TypeOK
<1>8. free' \in Seq(Block) /\ Len(free) <= Len(free') /\ Len(free') \in Nat
  <2> DEFINE freed == [k \in DOMAIN o |-> table[r][o[k]]]
  <2>1. FreedEntries(r) \subseteq 1 .. Len(table[r])
    BY <1>6 DEF FreedEntries
  <2>2. \A i \in FreedEntries(r) : table[r][i] \in Block
    BY <1>6, <2>1, ElementOfSeq DEF FreedEntries
  <2>3. Cardinality(FreedEntries(r)) \in Nat
    <3>1. IsFiniteSet(1 .. Len(table[r]))
      BY <1>6, FS_Interval
    <3> QED BY <2>1, <3>1, FS_Subset, FS_CardinalityType
  <2>4. o \in [1 .. Cardinality(FreedEntries(r)) -> FreedEntries(r)]
    BY DEF InOrder
  <2>5. freed \in Seq(Block) /\ Len(freed) \in Nat
    BY <2>2, <2>3, <2>4
  <2> HIDE DEF freed
  <2>6. free \o freed \in Seq(Block) /\ Len(free \o freed) = Len(free) + Len(freed)
    BY <1>1, <2>5, ConcatProperties
  <2> QED BY <1>1, <1>5, <2>5, <2>6 DEF freed
<1>9. refs' \in [Block -> Nat]
  <2>1. ASSUME NEW b \in Block
        PROVE  Monus(refs[b], Occurrences(r, b, Len(table[r]))) \in Nat
    <3>1. IsFiniteSet(1 .. Len(table[r]))
      BY <1>6, FS_Interval
    <3>2. Occurrences(r, b, Len(table[r])) \in Nat
      BY <3>1, FS_Subset, FS_CardinalityType DEF Occurrences
    <3> QED BY <1>1, <3>2 DEF TypeOK, Monus
  <2> QED BY <1>4, <2>1
<1>10. used' \in [Block -> 0 .. BlockTokens]
  BY <1>1, <1>4, SizesAssumption DEF TypeOK
<1>11. /\ table' \in [Request -> Seq(Block \cup {NoBlock})] /\ table'[r] = <<>>
       /\ \A q \in Request \ {r} : table'[q] = table[q]
       /\ \A q \in Request : Len(table'[q]) <= TotalBlocks
  <2>1. <<>> \in Seq(Block \cup {NoBlock}) /\ Len(<<>>) = 0
    BY EmptySeq
  <2>2. /\ table \in [Request -> Seq(Block \cup {NoBlock})] /\ TotalBlocks \in Nat
        /\ \A q \in Request : Len(table[q]) <= TotalBlocks
    BY <1>1, SizesAssumption DEF TypeOK
  <2>3. table' = [table EXCEPT ![r] = <<>>] /\ r \in Request
    BY <1>3, <1>4
  <2> QED BY ONLY <2>1, <2>2, <2>3
<1>12. /\ promised' \in [Request -> Nat] /\ promised'[r] = 0
       /\ \A q \in Request \ {r} : promised'[q] = promised[q]
  BY <1>1, <1>3, <1>4 DEF TypeOK
<1>13. reserved' \in Nat /\ reserved' <= Len(free')
  BY <1>1, <1>4, <1>7, <1>8
<1>14. TypeOK'
  BY <1>1, <1>3, <1>4, <1>8, <1>9, <1>10, <1>11, <1>12, <1>13 DEF TypeOK
<1>15. TablesInShape'
  <2>1. \A q \in Request \ {r} : /\ HasShape(q)' <=> HasShape(q)
                                 /\ IsEmptyHanded(q)' <=> IsEmptyHanded(q)
    BY <1>4, <1>11, <1>12, ShapeUnchanged
  <2>2. IsEmptyHanded(r)'
    BY <1>11, <1>12 DEF IsEmptyHanded
  <2>3. calls[1].op = "release" /\ calls[1].request = r
    BY <1>0, <1>2, <1>3
  <2>4. Len(calls) = 1 /\ status[r] \in {"Finished", "Rejected"}
    BY <1>1, <1>3, <2>3 DEF TablesInShape, RequestInShape, CallInShape
  <2>5. DOMAIN calls' = {}
    BY <1>3, <1>4, <2>4
  <2> QED BY <1>1, <1>3, <1>4, <2>1, <2>2, <2>4, <2>5 DEF TablesInShape, RequestInShape, CallInShape
<1>16. reserved' = Cardinality(WaitingEntries(table'))
  <2>1. <<>> \in Seq(Block \cup {NoBlock}) /\ Len(<<>>) <= TotalBlocks
    BY EmptySeq, SizesAssumption
  <2>2. Cardinality(WaitingEntries([table EXCEPT ![r] = <<>>])) =
          Cardinality(WaitingEntries(table)) - Cardinality(WaitingIn(table[r]))
            + Cardinality(WaitingIn(<<>>))
    BY <1>3, <1>6, <2>1, WaitingUpdate
  <2>3. Cardinality(WaitingIn(<<>>)) = 0
    BY FS_EmptySet, WaitingIn(<<>>) = {} DEF WaitingIn, EntriesIn
  <2> QED BY <1>1, <1>4, <1>7, <2>2, <2>3
<1> QED BY <1>13, <1>14, <1>15, <1>16 DEF ReservationInv

-----------------------------------------------------------------------------
(* Theorems *)

\* ReservationInv is preserved by every step of the allocator.
LEMMA NextReservation == ReservationInv /\ [Next]_vars => ReservationInv'
<1> SUFFICES ASSUME ReservationInv, [Next]_vars PROVE ReservationInv'
  OBVIOUS
<1>0. ASSUME NEW S \in SUBSET Request, Expire(S) PROVE ReservationInv'
  BY <1>0, ExpireReservation
<1>1. ASSUME NEW r \in Request, AdmitImpossible(r) PROVE ReservationInv'
  BY <1>1, AdmitImpossibleReservation
<1>2. ASSUME NEW r \in Request, NEW hits \in 0 .. CompletePromptBlocks(r), Admit(r, hits)
      PROVE  ReservationInv'
  BY <1>2, AdmitReservation
<1>3. ASSUME NEW r \in Request, NEW hits \in 0 .. CompletePromptBlocks(r),
             AdmitTemporarilyUnavailable(r, hits)
      PROVE  ReservationInv'
  BY <1>3, AdmitUnavailableReservation
<1>4. ASSUME NEW r \in Request, NEW n \in 1 .. Len(prompt[r]), AppendPrefill(r, n)
      PROVE  ReservationInv'
  BY <1>4, AppendPrefillReservation
<1>5. ASSUME NEW r \in Request, NEW last \in BOOLEAN, AppendDecode(r, last)
      PROVE  ReservationInv'
  BY <1>5, AppendDecodeReservation
<1>6. ASSUME NEW r \in Request, GrowthExhausted(r) PROVE ReservationInv'
  BY <1>6, GrowthExhaustedReservation
<1>7. ASSUME CacheRefresh \/ CacheInsert PROVE ReservationInv'
  BY <1>7, CacheCallReservation
<1>8. ASSUME Release PROVE ReservationInv'
  BY <1>8, ReleaseReservation
<1>9. ASSUME UNCHANGED vars PROVE ReservationInv'
  <2>1. TypeOK'
    BY <1>9 DEF vars, cacheVars, requestVars, TypeOK, ReservationInv
  <2>2. TablesInShape'
    <3>1. \A q \in Request : /\ HasShape(q)' <=> HasShape(q)
                             /\ IsEmptyHanded(q)' <=> IsEmptyHanded(q)
      BY <1>9, ShapeUnchanged DEF vars, requestVars
    <3> QED BY <1>9, <3>1 DEF vars, requestVars, TablesInShape, RequestInShape, CallInShape, ReservationInv
  <2> QED BY <1>9, <2>1, <2>2 DEF vars, cacheVars, requestVars, ReservationInv
<1> QED
  BY <1>0, <1>1, <1>2, <1>3, <1>4, <1>5, <1>6, <1>7, <1>8, <1>9
  DEF Next, AdmitCall, AppendCall, Terminated

\* In every reachable state of every instance, each variable has its type.
THEOREM TypeCorrect == Spec => []TypeOK
<1>1. ReservationInv => TypeOK
  BY DEF ReservationInv
<1> QED BY <1>1, InitReservation, NextReservation, PTL DEF Spec

\* What the inductive invariant says of the promises.
LEMMA InvHonoursReservations == ReservationInv => ReservationsHonoured
<1> SUFFICES ASSUME ReservationInv PROVE ReservationsHonoured
  OBVIOUS
<1>1. \A r \in Request : promised[r] = Cardinality(WaitingIn(table[r]))
  BY PromisedIsWaiting DEF ReservationInv
<1> QED BY <1>1 DEF ReservationInv, ReservationsHonoured

\* In every reachable state, reserved_unmaterialized_ is the number of table
\* entries that wait for a page and the free list has a page for each.
THEOREM ReservationsAreHonoured == Spec => []ReservationsHonoured
BY InvHonoursReservations, InitReservation, NextReservation, PTL DEF Spec

\* In every reachable state the table of an active request has an entry for each
\* token it has stored and for its prompt, those past its tokens waiting for a page,
\* and the calls under way name entries that are there: append_tokens and
\* cache_completed_prompt_block index inside the table.
THEOREM TablesKeepTheirShape == Spec => []TablesInShape
<1>1. ReservationInv => TablesInShape
  BY DEF ReservationInv
<1> QED BY <1>1, InitReservation, NextReservation, PTL DEF Spec

\* What it says of the next prefill chunk.
LEMMA InvLetsPrefillProceed == ReservationInv => PrefillNeverFails
<1> SUFFICES ASSUME ReservationInv, NEW r \in Request, IsPrefilling(r),
                    NEW n \in 1 .. Len(prompt[r]) - stored[r]
             PROVE  /\ AppendFits(r, n)
                    /\ GrowthBlocks(r, n) = 0
                    /\ Cardinality(MissingEntries(r, n)) <= Len(free)
  BY DEF PrefillNeverFails
<1> DEFINE full == CeilDiv(stored[r], BlockTokens)
           need == NeededBlocks(r, n)
           len  == Len(table[r])
<1>1. /\ TypeOK /\ TablesInShape /\ HasShape(r) /\ reserved \in Nat
      /\ reserved <= Len(free) /\ Len(free) \in Nat
      /\ reserved = Cardinality(WaitingEntries(table))
      /\ table \in [Request -> Seq(Block \cup {NoBlock})] /\ len <= TotalBlocks
  BY LenProperties DEF ReservationInv, TablesInShape, RequestInShape, CallInShape, IsPrefilling, TypeOK
<1>2. /\ Len(prompt[r]) \in Nat /\ stored[r] \in Nat /\ n \in Nat \ {0}
      /\ stored[r] + n \in Nat /\ stored[r] + n <= Len(prompt[r])
      /\ BlockTokens \in Nat \ {0} /\ MaxNewTokens \in Nat \ {0}
  <2>1. Len(prompt[r]) \in Nat /\ stored[r] \in Nat
    BY <1>1, BlockCounts
  <2> QED BY <2>1, SizesAssumption
<1>3. need <= PromptBlocks(r)
  BY <1>2, CeilDivMonotonic DEF NeededBlocks, PromptBlocks
<1>4. /\ full \in Nat /\ need \in Nat /\ full <= need
      /\ Cardinality(MissingEntries(r, n)) = need - full
      /\ len \in Nat /\ full <= len /\ promised[r] = len - full
  BY <1>1, <1>2, AppendEntries
<1>5. need <= len
  <2>1. len = Greatest(full, PromptBlocks(r)) /\ PromptBlocks(r) \in Nat
    BY <1>1, BlockCounts DEF HasShape
  <2> HIDE DEF full, need, len
  <2> QED BY <1>3, <1>4, <2>1 DEF Greatest
<1>6. GrowthBlocks(r, n) = 0
  <2> HIDE DEF need, len
  <2>1. Monus(need, len) = 0
    BY <1>4, <1>5 DEF Monus
  <2> QED BY <2>1 DEF GrowthBlocks, need, len
<1>7. AppendFits(r, n)
  <2>1. Cardinality(Idle) \in Nat
    BY Idle \subseteq Contents, ContentsAssumption, FS_Subset, FS_CardinalityType DEF Idle
  <2>2. CanEnsure(0)
    BY <1>1, <2>1 DEF CanEnsure
  <2>3. n <= Len(prompt[r]) + MaxNewTokens - stored[r]
    BY <1>2
  <2>4. need <= TotalBlocks
    BY <1>1, <1>4, <1>5, SizesAssumption
  <2> QED BY <1>6, <2>2, <2>3, <2>4 DEF AppendFits
<1>8. promised[r] <= reserved
  <2>1. promised[r] = Cardinality(WaitingIn(table[r]))
    BY <1>1, PromisedIsWaiting
  <2> QED BY <1>1, <2>1, WaitingUpdate
<1>9. need - full <= Len(free)
  <2> HIDE DEF full, need, len
  <2> QED BY <1>1, <1>4, <1>5, <1>8
<1> QED BY <1>4, <1>6, <1>7, <1>9

\* "KV cache ran out of reserved blocks during prefill" is never thrown: in
\* every reachable state, every chunk of every admitted prompt can be stored.
THEOREM PrefillAlwaysFits == Spec => []PrefillNeverFails
BY InvLetsPrefillProceed, InitReservation, NextReservation, PTL DEF Spec

-----------------------------------------------------------------------------
(* Sequences of pages *)

PagesOf(s)  == {s[i] : i \in DOMAIN s}
Distinct(s) == \A i, j \in DOMAIN s : s[i] = s[j] => i = j

LEMMA ConcatPages ==
  ASSUME NEW s \in Seq(Block), NEW t \in Seq(Block)
  PROVE  /\ PagesOf(s \o t) = PagesOf(s) \cup PagesOf(t)
         /\ (Distinct(s) /\ Distinct(t) /\ PagesOf(s) \cap PagesOf(t) = {}) => Distinct(s \o t)
<1>1. /\ Len(s) \in Nat /\ DOMAIN s = 1 .. Len(s)
      /\ Len(t) \in Nat /\ DOMAIN t = 1 .. Len(t)
  BY LenProperties
<1>2. /\ Len(s \o t) = Len(s) + Len(t) /\ DOMAIN (s \o t) = 1 .. Len(s) + Len(t)
      /\ \A i \in 1 .. Len(s) + Len(t) :
           (s \o t)[i] = IF i <= Len(s) THEN s[i] ELSE t[i - Len(s)]
  BY <1>1, ConcatProperties, LenProperties
<1>3. \A i \in DOMAIN s : i \in DOMAIN (s \o t) /\ (s \o t)[i] = s[i]
  BY <1>1, <1>2
<1>4. \A i \in DOMAIN t : i + Len(s) \in DOMAIN (s \o t) /\ (s \o t)[i + Len(s)] = t[i]
  BY <1>1, <1>2
<1>5. ASSUME NEW i \in DOMAIN (s \o t)
      PROVE  \/ i \in DOMAIN s /\ (s \o t)[i] = s[i]
             \/ i - Len(s) \in DOMAIN t /\ (s \o t)[i] = t[i - Len(s)]
  <2>1. i \in 1 .. Len(s) + Len(t)
    BY <1>2
  <2>2. CASE i <= Len(s)
    BY <1>1, <1>2, <2>1, <2>2
  <2>3. CASE ~(i <= Len(s))
    <3>1. i - Len(s) \in 1 .. Len(t)
      BY <1>1, <2>1, <2>3
    <3> QED BY <1>1, <1>2, <2>1, <2>3, <3>1
  <2> QED BY <2>2, <2>3
<1>6. PagesOf(s \o t) = PagesOf(s) \cup PagesOf(t)
  <2>1. PagesOf(s \o t) \subseteq PagesOf(s) \cup PagesOf(t)
    BY <1>5 DEF PagesOf
  <2>2. PagesOf(s) \subseteq PagesOf(s \o t) /\ PagesOf(t) \subseteq PagesOf(s \o t)
    BY <1>3, <1>4 DEF PagesOf
  <2> QED BY <2>1, <2>2
<1>7. ASSUME Distinct(s), Distinct(t), PagesOf(s) \cap PagesOf(t) = {},
             NEW i \in DOMAIN (s \o t), NEW j \in DOMAIN (s \o t), (s \o t)[i] = (s \o t)[j]
      PROVE  i = j
  <2>1. i \in Int /\ j \in Int
    BY <1>2
  <2>2. \A k \in DOMAIN s, l \in DOMAIN t : s[k] # t[l]
    BY <1>7 DEF PagesOf
  <2> QED BY <1>1, <1>5, <1>7, <2>1, <2>2 DEF Distinct
<1> QED BY <1>6, <1>7 DEF Distinct

\* The last m pages of a stack, the top one first, and what they leave.
LEMMA PoppedPages ==
  ASSUME NEW s \in Seq(Block), NEW m \in Nat, m <= Len(s)
  PROVE  LET front == SubSeq(s, 1, Len(s) - m)
             popped == {s[Len(s) + 1 - k] : k \in 1 .. m}
         IN  /\ PagesOf(s) = PagesOf(front) \cup popped
             /\ Distinct(s) => /\ Distinct(front) /\ PagesOf(front) \cap popped = {}
                               /\ \A k, l \in 1 .. m : s[Len(s) + 1 - k] = s[Len(s) + 1 - l] => k = l
<1> DEFINE front == SubSeq(s, 1, Len(s) - m)
           popped == {s[Len(s) + 1 - k] : k \in 1 .. m}
<1>1. Len(s) \in Nat /\ DOMAIN s = 1 .. Len(s) /\ Len(s) - m \in Nat
  BY LenProperties
<1>2. /\ DOMAIN front = 1 .. Len(s) - m
      /\ \A i \in 1 .. Len(s) - m : front[i] = s[i]
  <2> DEFINE rest == Len(s) - m
  <2>1. \A i \in 1 .. rest : s[i] \in Block
    BY <1>1, ElementOfSeq
  <2>2. 1 \in Int /\ rest \in Nat
    BY <1>1
  <2> HIDE DEF rest
  <2>3. /\ SubSeq(s, 1, rest) \in Seq(Block)
        /\ Len(SubSeq(s, 1, rest)) = IF 1 <= rest THEN rest - 1 + 1 ELSE 0
        /\ \A i \in 1 .. rest - 1 + 1 : SubSeq(s, 1, rest)[i] = s[1 + i - 1]
    BY <2>1, <2>2, SubSeqProperties
  <2>4. Len(SubSeq(s, 1, rest)) = rest
    BY <2>2, <2>3
  <2>5. DOMAIN SubSeq(s, 1, rest) = 1 .. rest
    BY <2>3, <2>4, LenProperties
  <2>6. \A i \in 1 .. rest : SubSeq(s, 1, rest)[i] = s[i]
    BY <2>2, <2>3
  <2> QED BY <2>5, <2>6 DEF rest
<1> HIDE DEF front
<1>3. \A k \in 1 .. m : /\ Len(s) + 1 - k \in DOMAIN s
                        /\ Len(s) + 1 - k \notin DOMAIN front
  BY <1>1, <1>2
<1>4. \A i \in DOMAIN s : i \notin DOMAIN front =>
         Len(s) + 1 - i \in 1 .. m /\ i = Len(s) + 1 - (Len(s) + 1 - i)
  BY <1>1, <1>2
<1>5. DOMAIN front \subseteq DOMAIN s
  BY <1>1, <1>2
<1> DEFINE rest == DOMAIN s \ DOMAIN front
<1>8. popped = {s[i] : i \in rest}
  <2>1. \A k \in 1 .. m : \E i \in rest : s[Len(s) + 1 - k] = s[i]
    BY <1>3
  <2>2. \A i \in rest : \E k \in 1 .. m : s[i] = s[Len(s) + 1 - k]
    BY <1>4
  <2> HIDE DEF rest
  <2> QED BY <2>1, <2>2
<1> HIDE DEF popped
<1>6. PagesOf(s) = PagesOf(front) \cup popped
  BY <1>2, <1>5, <1>8 DEF PagesOf
<1>7. ASSUME Distinct(s)
      PROVE  /\ Distinct(front) /\ PagesOf(front) \cap popped = {}
             /\ \A k, l \in 1 .. m : s[Len(s) + 1 - k] = s[Len(s) + 1 - l] => k = l
  <2>1. Distinct(front)
    BY <1>2, <1>5, <1>7 DEF Distinct
  <2>2. PagesOf(front) \cap popped = {}
    BY <1>2, <1>5, <1>7, <1>8 DEF Distinct, PagesOf
  <2>3. ASSUME NEW k \in 1 .. m, NEW l \in 1 .. m, s[Len(s) + 1 - k] = s[Len(s) + 1 - l]
        PROVE  k = l
    <3>1. Len(s) + 1 - k = Len(s) + 1 - l
      BY <1>3, <1>7, <2>3 DEF Distinct
    <3> QED BY <1>1, <3>1
  <2> QED BY <2>1, <2>2, <2>3
<1> QED BY <1>6, <1>7 DEF front, popped

-----------------------------------------------------------------------------
(* What an eviction does to the pages *)

LEMMA EvictionPages ==
  ASSUME TypeOK, NEW n \in Nat, NEW o \in Evictions(n)
  PROVE  /\ FreeAfter(o) \in Seq(Block)
         /\ PagesOf(FreeAfter(o)) = FreePages \cup EvictedBlocks(o)
         /\ \A b \in EvictedBlocks(o) :
              b \in Block /\ refs[b] = 0 /\ \E h \in Contents : cacheIndex[h] = b
         /\ \A b \in Block : PinnedAfter(o)[b] <=> pinned[b] /\ b \notin EvictedBlocks(o)
         /\ \A h \in Contents :
              \/ IndexAfter(o)[h] = cacheIndex[h]
              \/ IndexAfter(o)[h] = NoBlock /\ cacheIndex[h] \in EvictedBlocks(o)
         /\ IndexIsExact =>
              \A h \in Contents :
                IndexAfter(o)[h] = IF cacheIndex[h] \in EvictedBlocks(o) THEN NoBlock ELSE cacheIndex[h]
         /\ (IndexIsExact /\ PagesConserved) => Distinct(FreeAfter(o))
<1> DEFINE evicted == [i \in DOMAIN o |-> cacheIndex[o[i]]]
<1>1. /\ free \in Seq(Block) /\ cacheIndex \in [Contents -> Block \cup {NoBlock}]
      /\ refs \in [Block -> Nat] /\ pinned \in [Block -> BOOLEAN]
  BY DEF TypeOK
<1>2. /\ EvictionCount(n) \in Nat /\ o \in [1 .. EvictionCount(n) -> Idle]
      /\ \A i, j \in DOMAIN o : i # j => o[i] # o[j]
  BY EvictionOutcome DEF Evictions
<1>3. \A i \in DOMAIN o : /\ o[i] \in Contents /\ cacheIndex[o[i]] # NoBlock
                          /\ cacheIndex[o[i]] \in Block /\ refs[cacheIndex[o[i]]] = 0
  BY <1>1, <1>2 DEF Idle
<1>4. evicted \in Seq(Block) /\ DOMAIN evicted = DOMAIN o
  BY <1>2, <1>3
<1>5. PagesOf(evicted) = EvictedBlocks(o)
  BY DEF PagesOf, EvictedBlocks
<1> HIDE DEF evicted
<1>6. /\ FreeAfter(o) \in Seq(Block)
      /\ PagesOf(FreeAfter(o)) = FreePages \cup EvictedBlocks(o)
  <2>1. FreeAfter(o) = free \o evicted
    BY DEF FreeAfter, evicted
  <2>2. PagesOf(free) = FreePages
    BY DEF PagesOf, FreePages
  <2> QED BY <1>1, <1>4, <1>5, <2>1, <2>2, ConcatPages, ConcatProperties
<1>7. \A b \in EvictedBlocks(o) :
        b \in Block /\ refs[b] = 0 /\ \E h \in Contents : cacheIndex[h] = b
  BY <1>3 DEF EvictedBlocks
<1>8. \A b \in Block : PinnedAfter(o)[b] <=> pinned[b] /\ b \notin EvictedBlocks(o)
  BY <1>1 DEF PinnedAfter
<1>9. \A h \in Contents :
        \/ IndexAfter(o)[h] = cacheIndex[h]
        \/ IndexAfter(o)[h] = NoBlock /\ cacheIndex[h] \in EvictedBlocks(o)
  BY DEF IndexAfter, EvictedBlocks
<1>10. ASSUME IndexIsExact, NEW h \in Contents
       PROVE  IndexAfter(o)[h] = IF cacheIndex[h] \in EvictedBlocks(o) THEN NoBlock ELSE cacheIndex[h]
  <2>1. CASE cacheIndex[h] \in EvictedBlocks(o)
    <3>1. PICK i \in DOMAIN o : cacheIndex[h] = cacheIndex[o[i]]
      BY <2>1 DEF EvictedBlocks
    <3>2. o[i] = h
      BY <1>3, <1>10, <3>1 DEF IndexIsExact
    <3> QED BY <2>1, <3>2 DEF IndexAfter
  <2>2. CASE cacheIndex[h] \notin EvictedBlocks(o)
    BY <1>9, <2>2
  <2> QED BY <2>1, <2>2
<1>11. ASSUME IndexIsExact, PagesConserved
       PROVE  Distinct(FreeAfter(o))
  <2>1. Distinct(evicted)
    BY <1>2, <1>3, <1>4, <1>11 DEF Distinct, evicted, IndexIsExact
  <2>2. Distinct(free) /\ PagesOf(free) = FreePages
    BY <1>11 DEF Distinct, PagesConserved, PagesOf, FreePages
  <2>3. FreePages \cap EvictedBlocks(o) = {}
    <3>1. \A b \in EvictedBlocks(o) : b \in CachedBlocks
      BY <1>7, <1>11 DEF IndexIsExact, CachedBlocks
    <3> QED BY <1>11, <3>1 DEF PagesConserved, AllocatedBlocks
  <2> QED BY <1>1, <1>4, <1>5, <2>1, <2>2, <2>3, ConcatPages DEF FreeAfter, evicted
<1> QED BY <1>6, <1>7, <1>8, <1>9, <1>10, <1>11

-----------------------------------------------------------------------------
(* Where the pages of an append come from *)

\* The entries that an append gives a page take the top of the free list in
\* order, the others keep theirs.
LEMMA AppendTable ==
  ASSUME ReservationInv, NEW r \in Request, HasShape(r), NEW n \in Nat \ {0},
         AppendFits(r, n), NEW o \in Evictions(GrowthBlocks(r, n))
  PROVE  LET full    == CeilDiv(stored[r], BlockTokens)
             need    == NeededBlocks(r, n)
             stack   == FreeAfter(o)
             after   == TableAfter(r, n, stack)
             m       == need - full
         IN  /\ stack \in Seq(Block) /\ m \in Nat /\ m <= Len(stack)
             /\ full \in Nat /\ need \in Nat
             /\ Cardinality(MissingEntries(r, n)) = m
             /\ MissingEntries(r, n) = full + 1 .. need
             /\ \A i \in full + 1 .. need :
                  i \in DOMAIN after /\ after[i] = stack[Len(stack) + 1 - (i - full)]
             /\ \A i \in 1 .. full : i \in DOMAIN table[r]
             /\ \A i \in DOMAIN table[r] : i \in DOMAIN after
             /\ \A i \in DOMAIN table[r] : i \notin full + 1 .. need => after[i] = table[r][i]
             /\ \A i \in DOMAIN table[r] : i \in full + 1 .. need => table[r][i] = NoBlock
             /\ \A i \in DOMAIN after : i \in full + 1 .. need \/ i \in DOMAIN table[r]
             /\ \A i \in DOMAIN after : i \in Nat
<1> DEFINE full == CeilDiv(stored[r], BlockTokens)
           need == NeededBlocks(r, n)
           grow == GrowthBlocks(r, n)
           len  == Len(table[r])
           depth == Len(FreeAfter(o))
<1>1. TypeOK /\ TablesInShape
  BY DEF ReservationInv
<1>2. /\ full \in Nat /\ need \in Nat /\ full <= need /\ grow \in Nat
      /\ MissingEntries(r, n) = full + 1 .. need
      /\ Cardinality(MissingEntries(r, n)) = need - full
      /\ \A i \in full + 1 .. need :
           Cardinality({j \in MissingEntries(r, n) : j <= i}) = i - full
      /\ len \in Nat /\ full <= len /\ promised[r] = len - full
      /\ len + grow = Greatest(need, len)
  BY <1>1, AppendEntries
<1>3. /\ FreeAfter(o) \in Seq(Block) /\ depth \in Nat /\ reserved + grow <= depth
  <2>1. CanEnsure(grow)
    BY DEF AppendFits
  <2>2. FreeAfter(o) \in Seq(Block)
    BY <1>1, <1>2, EvictionOutcome
  <2> QED BY <1>1, <1>2, <2>1, <2>2, EvictionOutcome, LenProperties
<1>4. promised[r] <= reserved /\ reserved \in Nat
  <2>1. table \in [Request -> Seq(Block \cup {NoBlock})] /\ len <= TotalBlocks
    BY <1>1 DEF TypeOK
  <2>2. Cardinality(WaitingIn(table[r])) <= Cardinality(WaitingEntries(table))
    BY <2>1, WaitingUpdate
  <2> QED BY <1>1, <2>2, PromisedIsWaiting DEF ReservationInv, TypeOK
<1>5. /\ DOMAIN table[r] = 1 .. len
      /\ \A i \in DOMAIN table[r] : table[r][i] = NoBlock <=> i > full
  BY <1>1, LenProperties DEF TypeOK, HasShape
<1>6. ASSUME NEW i \in full + 1 .. need
      PROVE  PoppedFor(r, n, i, FreeAfter(o)) = FreeAfter(o)[depth + 1 - (i - full)]
  BY <1>2, <1>6 DEF PoppedFor
<1> DEFINE after == TableAfter(r, n, FreeAfter(o))
<1>7. after = [i \in 1 .. len + grow |->
                 IF i \in full + 1 .. need THEN PoppedFor(r, n, i, FreeAfter(o))
                 ELSE IF i <= len THEN table[r][i] ELSE NoBlock]
  BY <1>2 DEF TableAfter
<1> HIDE DEF full, need, grow, len, depth, after
<1>8. /\ need - full \in Nat /\ need - full <= depth /\ need <= len + grow
      /\ len <= len + grow /\ len + grow \in Nat
      /\ \A i \in 1 .. len + grow : i \in full + 1 .. need \/ i \in 1 .. len
  BY <1>2, <1>3, <1>4 DEF Greatest
<1>9. DOMAIN after = 1 .. len + grow
  BY <1>7
<1>10. \A i \in full + 1 .. need :
         i \in DOMAIN after /\ after[i] = FreeAfter(o)[depth + 1 - (i - full)]
  <2>1. \A i \in full + 1 .. need : i \in 1 .. len + grow
    BY <1>2, <1>8
  <2> QED BY <1>6, <1>7, <1>9, <2>1
<1>11. \A i \in 1 .. len : i \in DOMAIN after /\ i <= len
  BY <1>2, <1>8, <1>9
<1>12. \A i \in 1 .. len : i \notin full + 1 .. need => after[i] = table[r][i]
  BY <1>7, <1>9, <1>11
<1>13. \A i \in DOMAIN table[r] : i \in full + 1 .. need => table[r][i] = NoBlock
  <2>1. \A i \in full + 1 .. need : i > full
    BY <1>2
  <2> QED BY <1>5, <2>1
<1>14. \A i \in 1 .. full : i \in DOMAIN table[r]
  BY <1>2, <1>5
<1>15. /\ \A i \in DOMAIN table[r] : i \in DOMAIN after
       /\ \A i \in DOMAIN table[r] : i \notin full + 1 .. need => after[i] = table[r][i]
  BY <1>5, <1>11, <1>12
<1>16. \A i \in DOMAIN after : (i \in full + 1 .. need \/ i \in DOMAIN table[r]) /\ i \in Nat
  BY <1>5, <1>8, <1>9
<1>17. need - full \in Nat /\ need - full <= depth
  BY <1>8
<1> QED
  BY <1>2, <1>3, <1>10, <1>13, <1>14, <1>15, <1>16, <1>17
  DEF full, need, depth, after

\* What an append does to the pages: it evicts, and moves pages from the free
\* list to entries that waited or are new.
LEMMA AppendPages ==
  ASSUME ReservationInv, NEW r \in Request, HasShape(r), NEW n \in Nat \ {0},
         AppendTokens(r, n)
  PROVE  \E o \in Evictions(GrowthBlocks(r, n)) :
           LET full    == CeilDiv(stored[r], BlockTokens)
               need    == NeededBlocks(r, n)
               missing == full + 1 .. need
               taken   == {table'[r][i] : i \in missing}
           IN  /\ pinned' = PinnedAfter(o) /\ cacheIndex' = IndexAfter(o)
               /\ GrowthBlocks(r, n) \in Nat /\ full \in Nat /\ need \in Nat
               /\ refs' = [b \in Block |-> IF b \in taken THEN 1 ELSE refs[b]]
               /\ table \in [Request -> Seq(Block \cup {NoBlock})]
               /\ table' = [table EXCEPT ![r] = table'[r]]
               /\ PagesOf(FreeAfter(o)) = FreePages' \cup taken
               /\ Distinct(FreeAfter(o)) =>
                    /\ Distinct(free') /\ FreePages' \cap taken = {}
                    /\ \A i, k \in missing : table'[r][i] = table'[r][k] => i = k
               /\ taken \subseteq Block
               /\ missing \subseteq DOMAIN table'[r]
               /\ \A i \in 1 .. full : i \in DOMAIN table[r]
               /\ \A i \in DOMAIN table[r] : i \in DOMAIN table'[r]
               /\ \A i \in DOMAIN table[r] : i \in missing => table[r][i] = NoBlock
               /\ \A i \in DOMAIN table[r] : i \notin missing => table'[r][i] = table[r][i]
               /\ \A i \in DOMAIN table'[r] : i \in missing \/ i \in DOMAIN table[r]
<1> DEFINE full    == CeilDiv(stored[r], BlockTokens)
           need    == NeededBlocks(r, n)
           missing == full + 1 .. need
           taken   == {table'[r][i] : i \in missing}
<1>1. TypeOK /\ AppendFits(r, n) /\ GrowthBlocks(r, n) \in Nat
  BY AppendEntries DEF ReservationInv, AppendTokens
<1>2. PICK o \in Evictions(GrowthBlocks(r, n)) :
        LET stack == FreeAfter(o)
            after == TableAfter(r, n, stack)
        IN  /\ free' = SubSeq(stack, 1, Len(stack) - Cardinality(MissingEntries(r, n)))
            /\ table' = [table EXCEPT ![r] = after]
            /\ refs' = [b \in Block |-> IF \E i \in MissingEntries(r, n) : after[i] = b
                                         THEN 1 ELSE refs[b]]
            /\ pinned' = PinnedAfter(o)
            /\ cacheIndex' = IndexAfter(o)
  BY DEF AppendTokens
<1> DEFINE stack == FreeAfter(o)
           after == TableAfter(r, n, stack)
           m     == need - full
<1>3. /\ stack \in Seq(Block) /\ m \in Nat /\ m <= Len(stack)
      /\ full \in Nat /\ need \in Nat
      /\ Cardinality(MissingEntries(r, n)) = m
      /\ MissingEntries(r, n) = missing
      /\ \A i \in missing : i \in DOMAIN after /\ after[i] = stack[Len(stack) + 1 - (i - full)]
      /\ \A i \in 1 .. full : i \in DOMAIN table[r]
      /\ \A i \in DOMAIN table[r] : i \in DOMAIN after
      /\ \A i \in DOMAIN table[r] : i \notin missing => after[i] = table[r][i]
      /\ \A i \in DOMAIN table[r] : i \in missing => table[r][i] = NoBlock
      /\ \A i \in DOMAIN after : i \in missing \/ i \in DOMAIN table[r]
  BY <1>1, AppendTable, SMTT(30)
<1> HIDE DEF full, need, after, stack
<1>4. table \in [Request -> Seq(Block \cup {NoBlock})] /\ table'[r] = after
  BY <1>1, <1>2 DEF TypeOK, after, stack
<1>5. table' = [table EXCEPT ![r] = table'[r]]
  BY <1>2, <1>4 DEF after, stack
<1>6. refs' = [b \in Block |-> IF b \in taken THEN 1 ELSE refs[b]]
  <2>1. \A b \in Block : (\E i \in MissingEntries(r, n) : after[i] = b) <=> b \in taken
    BY <1>3, <1>4
  <2> QED BY <1>2, <2>1 DEF after, stack
<1>7. /\ Len(stack) \in Nat
      /\ \A i \in missing : i - full \in 1 .. m
      /\ \A k \in 1 .. m : full + k \in missing /\ (full + k) - full = k
  BY <1>3, LenProperties
<1>8. taken = {stack[Len(stack) + 1 - k] : k \in 1 .. m}
  <2> DEFINE top(k) == stack[Len(stack) + 1 - k]
  <2>1. \A i \in missing : i - full \in 1 .. m /\ table'[r][i] = top(i - full)
    BY <1>3, <1>4, <1>7
  <2>2. ASSUME NEW k \in 1 .. m PROVE \E i \in missing : table'[r][i] = top(k)
    <3>1. full + k \in missing /\ table'[r][full + k] = top(k)
      BY <1>7, <2>1
    <3> QED BY <3>1
  <2>3. taken = {table'[r][i] : i \in missing}
    OBVIOUS
  <2> HIDE DEF missing, m, top, taken
  <2>4. taken = {top(k) : k \in 1 .. m}
    BY <2>1, <2>2, <2>3
  <2> QED BY <2>4 DEF top
<1>9. free' = SubSeq(stack, 1, Len(stack) - m)
  BY <1>2, <1>3 DEF stack
<1> HIDE DEF m, taken
<1>10. /\ PagesOf(stack) = PagesOf(free') \cup taken
       /\ Distinct(stack) =>
            /\ Distinct(free') /\ PagesOf(free') \cap taken = {}
            /\ \A k, l \in 1 .. m : stack[Len(stack) + 1 - k] = stack[Len(stack) + 1 - l] => k = l
  BY <1>3, <1>8, <1>9, PoppedPages
<1>11. PagesOf(free') = FreePages'
  BY DEF PagesOf, FreePages
<1>12. ASSUME Distinct(stack), NEW i \in missing, NEW k \in missing, table'[r][i] = table'[r][k]
       PROVE  i = k
  <2>0. i \in Int /\ k \in Int
    BY <1>3
  <2>1. i - full \in 1 .. m /\ k - full \in 1 .. m
    BY <1>7
  <2>2. stack[Len(stack) + 1 - (i - full)] = stack[Len(stack) + 1 - (k - full)]
    BY <1>3, <1>4, <1>12
  <2>3. i - full = k - full
    BY <1>10, <1>12, <2>1, <2>2
  <2> QED BY <1>3, <2>0, <2>3
<1>13. taken \subseteq Block
  <2>1. ASSUME NEW i \in missing PROVE table'[r][i] \in Block
    <3>1. Len(stack) + 1 - (i - full) \in 1 .. Len(stack)
      <4>1. i - full \in 1 .. m
        BY <1>7
      <4> QED BY <1>3, <1>7, <4>1
    <3> QED BY <1>3, <1>4, <3>1, ElementOfSeq
  <2> QED BY <2>1 DEF taken
<1>14. missing \subseteq DOMAIN after
  BY <1>3
<1> HIDE DEF missing
<1>15. WITNESS o \in Evictions(GrowthBlocks(r, n))
<1> QED
  BY <1>1, <1>2, <1>3, <1>4, <1>5, <1>6, <1>10, <1>11, <1>12, <1>13, <1>14
  DEF full, need, stack, missing, taken

\* What an admission does to the pages: it evicts, and its table begins with the
\* pages that hit, each in the place of the block whose content it was looked up
\* by, and waits for the others.
LEMMA AdmitPages ==
  ASSUME ReservationInv, NEW r \in Request, NEW hits \in 0 .. CompletePromptBlocks(r),
         Admit(r, hits)
  PROVE  /\ PromptBlocks(r) - hits \in Nat /\ hits \in Nat
         /\ hits <= PromptBlocks(r) /\ hits <= CompletePromptBlocks(r)
         /\ \E o \in Evictions(PromptBlocks(r) - hits) :
              free' = FreeAfter(o) /\ pinned' = PinnedAfter(o) /\ cacheIndex' = IndexAfter(o)
         /\ table \in [Request -> Seq(Block \cup {NoBlock})]
         /\ table[r] = <<>> /\ Len(table[r]) <= TotalBlocks
         /\ table' = [table EXCEPT ![r] = table'[r]]
         /\ table'[r] \in Seq(Block \cup {NoBlock}) /\ Len(table'[r]) <= TotalBlocks
         /\ DOMAIN table'[r] = 1 .. PromptBlocks(r)
         /\ \A i \in 1 .. hits :
              /\ table'[r][i] \in Block /\ pinned[table'[r][i]]
              /\ BlockContent(prompt[r], i) \in Contents
              /\ cacheIndex[BlockContent(prompt[r], i)] = table'[r][i]
         /\ \A i \in DOMAIN table'[r] : i \notin 1 .. hits => table'[r][i] = NoBlock
         /\ \A b \in Block : refs'[b] = refs[b] + Cardinality(EntriesIn(table'[r], b))
         /\ stored' = [stored EXCEPT ![r] = hits * BlockTokens]
         /\ prompt' = prompt /\ calls' = calls /\ calls = <<>>
<1> DEFINE blocks == PromptBlocks(r)
           entries == [i \in 1 .. blocks |->
                         IF i <= hits THEN HitBlocks(r, hits)[i] ELSE NoBlock]
<1>1. TypeOK /\ TablesInShape
  BY DEF ReservationInv
<1>2. /\ blocks \in Nat /\ hits \in Nat /\ hits <= blocks /\ blocks - hits \in Nat
      /\ hits <= CompletePromptBlocks(r) /\ Len(prompt[r]) \in Nat
      /\ CompletePromptBlocks(r) \in Nat /\ prompt[r] \in Prompts
  <2>1. /\ blocks \in Nat /\ CompletePromptBlocks(r) \in Nat
        /\ CompletePromptBlocks(r) <= blocks /\ Len(prompt[r]) \in Nat
    BY <1>1, BlockCounts
  <2> HIDE DEF blocks
  <2>2. hits \in Nat /\ hits <= CompletePromptBlocks(r)
    BY <2>1
  <2> QED BY <1>1, <2>1, <2>2 DEF TypeOK
<1>3. /\ calls = <<>> /\ calls' = calls /\ status[r] = "Queued" /\ blocks <= TotalBlocks
      /\ prompt' = prompt /\ IsHitRun(r, hits)
      /\ refs' = [b \in Block |-> refs[b] + HitRefs(r, hits, b)]
      /\ table' = [table EXCEPT ![r] = entries]
      /\ stored' = [stored EXCEPT ![r] = hits * BlockTokens]
  BY DEF Admit, HitTokens
<1>4. \E o \in Evictions(blocks - hits) :
        free' = FreeAfter(o) /\ pinned' = PinnedAfter(o) /\ cacheIndex' = IndexAfter(o)
  BY DEF Admit
<1>5. ASSUME NEW i \in 1 .. hits
      PROVE  /\ HitBlocks(r, hits)[i] \in Block /\ pinned[HitBlocks(r, hits)[i]]
             /\ BlockContent(prompt[r], i) \in Contents
             /\ cacheIndex[BlockContent(prompt[r], i)] = HitBlocks(r, hits)[i]
  <2>1. IsHit(r, i)
    BY <1>2, <1>3, <1>5 DEF IsHitRun
  <2>2. i \in 1 .. Len(prompt[r]) \div BlockTokens
    <3>1. i \in 1 .. CompletePromptBlocks(r)
      BY <1>2, <1>5
    <3> QED BY <3>1 DEF CompletePromptBlocks
  <2>3. BlockContent(prompt[r], i) \in Contents
    BY <1>2, <2>2 DEF Contents
  <2> QED BY <1>1, <2>1, <2>3 DEF IsHit, HitBlocks, TypeOK
<1> HIDE DEF blocks
<1>6. \A i \in 1 .. hits : i \in 1 .. blocks /\ i <= hits
  BY <1>2
<1>7. \A i \in 1 .. blocks : i \notin 1 .. hits => ~(i <= hits)
  BY <1>2
<1>8. /\ DOMAIN entries = 1 .. blocks
      /\ \A i \in 1 .. hits : entries[i] = HitBlocks(r, hits)[i]
      /\ \A i \in 1 .. blocks : i \notin 1 .. hits => entries[i] = NoBlock
  BY <1>6, <1>7
<1>9. entries \in Seq(Block \cup {NoBlock}) /\ Len(entries) = blocks
  <2>1. \A i \in 1 .. blocks : entries[i] \in Block \cup {NoBlock}
    BY <1>5, <1>8
  <2>2. entries \in [1 .. blocks -> Block \cup {NoBlock}]
    BY <2>1
  <2> HIDE DEF entries
  <2> QED BY <1>2, <2>2
<1> HIDE DEF entries
<1>10. table'[r] = entries /\ table \in [Request -> Seq(Block \cup {NoBlock})]
  BY <1>1, <1>3 DEF TypeOK
<1>11. table' = [table EXCEPT ![r] = table'[r]]
  BY <1>3, <1>10
<1>12. ASSUME NEW b \in Block
       PROVE  refs'[b] = refs[b] + Cardinality(EntriesIn(table'[r], b))
  <2>1. EntriesIn(entries, b) = {i \in 1 .. hits : HitBlocks(r, hits)[i] = b}
    <3>1. b # NoBlock
      BY DEF Block, NoBlock
    <3> QED BY <1>6, <1>8, <3>1 DEF EntriesIn
  <2> QED BY <1>3, <1>10, <2>1 DEF HitRefs
<1>13. table[r] = <<>> /\ Len(table[r]) <= TotalBlocks
  BY <1>1, <1>3 DEF TablesInShape, RequestInShape, IsEmptyHanded, TypeOK
<1> QED
  <2>1. Len(table'[r]) <= TotalBlocks
    BY <1>3, <1>9, <1>10
  <2>2. \A i \in 1 .. hits :
              /\ table'[r][i] \in Block /\ pinned[table'[r][i]]
              /\ BlockContent(prompt[r], i) \in Contents
              /\ cacheIndex[BlockContent(prompt[r], i)] = table'[r][i]
    BY <1>5, <1>8, <1>10
  <2> QED
    BY <1>2, <1>3, <1>4, <1>8, <1>9, <1>10, <1>11, <1>12, <1>13, <2>1, <2>2 DEF blocks

-----------------------------------------------------------------------------
(* What a release does to the pages *)

\* The last place of a set of places.
LEMMA LastOf ==
  ASSUME NEW n \in Nat, NEW S \in SUBSET (1 .. n), S # {}
  PROVE  \E i \in S : \A k \in S : k <= i
<1> DEFINE R == OpToRel(<, Nat)
           T == {n - i : i \in S}
<1>1. R = {p \in Nat \X Nat : p[1] < p[2]}
  BY DEF OpToRel
<1>2. IsWellFoundedOn(R, Nat)
  BY NatLessThanWellFounded
<1>3. T \subseteq Nat /\ T # {}
  <2>1. \A i \in S : n - i \in Nat
    OBVIOUS
  <2>2. PICK i \in S : TRUE
    OBVIOUS
  <2>3. n - i \in T
    OBVIOUS
  <2> QED BY <2>1, <2>3
<1> HIDE DEF R, T
<1>4. PICK x \in T : \A y \in T : ~(<<y, x>> \in R)
  BY <1>2, <1>3, WFMin
<1>5. PICK i \in S : x = n - i
  BY <1>4 DEF T
<1>6. ASSUME NEW k \in S PROVE k <= i
  <2>1. n - k \in T /\ n - k \in Nat /\ n - i \in Nat
    BY DEF T
  <2>2. ~(n - k < n - i)
    BY <1>1, <1>4, <1>5, <2>1
  <2> QED BY <2>1, <2>2
<1> QED BY <1>6

\* All entries that name a page are counted at the last of them.
LEMMA OccurrencesAre ==
  ASSUME TypeOK, NEW r \in Request, NEW b
  PROVE  /\ Occurrences(r, b, Len(table[r])) = Cardinality(EntriesIn(table[r], b))
         /\ EntriesIn(table[r], b) # {} =>
              \E i \in EntriesIn(table[r], b) :
                Occurrences(r, b, i) = Cardinality(EntriesIn(table[r], b))
<1>1. Len(table[r]) \in Nat /\ DOMAIN table[r] = 1 .. Len(table[r])
  BY LenProperties DEF TypeOK
<1>2. EntriesIn(table[r], b) = {j \in 1 .. Len(table[r]) : table[r][j] = b}
  BY <1>1 DEF EntriesIn
<1>3. ASSUME EntriesIn(table[r], b) # {}
      PROVE  \E i \in EntriesIn(table[r], b) :
               Occurrences(r, b, i) = Cardinality(EntriesIn(table[r], b))
  <2>1. PICK i \in EntriesIn(table[r], b) : \A k \in EntriesIn(table[r], b) : k <= i
    BY <1>1, <1>2, <1>3, LastOf
  <2>2. {j \in 1 .. i : table[r][j] = b} = EntriesIn(table[r], b)
    BY <1>1, <1>2, <2>1
  <2> QED BY <2>2 DEF Occurrences
<1> QED BY <1>2, <1>3 DEF Occurrences

\* What a release does to the pages.
LEMMA ReleasePages ==
  ASSUME ReservationInv, Release
  PROVE  \E r \in Request :
           /\ r = Head(calls).request
           /\ ~IsEmptyHanded(r) => HasShape(r)
           /\ table \in [Request -> Seq(Block \cup {NoBlock})] /\ Len(table[r]) <= TotalBlocks
           /\ table' = [table EXCEPT ![r] = <<>>]
           /\ \E o \in InOrder(FreedEntries(r)) :
                free' = free \o [k \in DOMAIN o |-> table[r][o[k]]]
           /\ FreePages' = FreePages \cup {table[r][i] : i \in FreedEntries(r)}
           /\ {table[r][i] : i \in FreedEntries(r)} \subseteq Block
           /\ FreedEntries(r) \subseteq DOMAIN table[r]
           /\ (/\ Distinct(free)
               /\ FreePages \cap {table[r][i] : i \in FreedEntries(r)} = {}
               /\ \A i, k \in FreedEntries(r) : table[r][i] = table[r][k] => i = k)
                 => Distinct(free')
           /\ \A b \in Block : refs'[b] = Monus(refs[b], Cardinality(EntriesIn(table[r], b)))
           /\ calls # <<>> /\ calls' = Tail(calls)
           /\ UNCHANGED <<pinned, cacheIndex, prompt, stored, status>>
<1>1. TypeOK /\ TablesInShape /\ free \in Seq(Block)
  BY DEF ReservationInv, TypeOK
<1>2. calls # <<>> /\ Head(calls) \in Calls
  <2>1. calls \in Seq(Calls) /\ calls # <<>>
    BY <1>1 DEF Release, TypeOK
  <2> QED BY <2>1, HeadTailProperties
<1>3. PICK r \in Request : r = Head(calls).request
  BY <1>2 DEF Calls
<1> DEFINE freed == {table[r][i] : i \in FreedEntries(r)}
<1>4. /\ refs' = [b \in Block |-> Monus(refs[b], Occurrences(r, b, Len(table[r])))]
      /\ table' = [table EXCEPT ![r] = <<>>]
      /\ calls' = Tail(calls)
      /\ UNCHANGED <<pinned, cacheIndex, prompt, stored, status>>
  BY <1>3 DEF Release
<1>5. PICK o \in InOrder(FreedEntries(r)) :
        free' = free \o [k \in DOMAIN o |-> table[r][o[k]]]
  BY <1>3 DEF Release
<1>6. /\ table[r] \in Seq(Block \cup {NoBlock}) /\ Len(table[r]) \in Nat
      /\ DOMAIN table[r] = 1 .. Len(table[r]) /\ Len(table[r]) <= TotalBlocks
      /\ table \in [Request -> Seq(Block \cup {NoBlock})]
  BY <1>1, LenProperties DEF TypeOK
<1>7. FreedEntries(r) \subseteq 1 .. Len(table[r])
  BY <1>6 DEF FreedEntries
<1>8. \A i \in FreedEntries(r) : table[r][i] \in Block
  BY <1>6, <1>7, ElementOfSeq DEF FreedEntries
<1>9. IsFiniteSet(FreedEntries(r)) /\ Cardinality(FreedEntries(r)) \in Nat
  <2>1. IsFiniteSet(1 .. Len(table[r]))
    BY <1>6, FS_Interval
  <2> QED BY <1>7, <2>1, FS_Subset, FS_CardinalityType
<1> DEFINE count == Cardinality(FreedEntries(r))
           tail  == [k \in DOMAIN o |-> table[r][o[k]]]
<1>10. /\ o \in [1 .. count -> FreedEntries(r)] /\ DOMAIN o = 1 .. count
       /\ \A k, l \in 1 .. count : k < l => o[k] < o[l]
  BY DEF InOrder
<1>11. tail \in Seq(Block) /\ DOMAIN tail = 1 .. count
  BY <1>8, <1>9, <1>10
<1>12. \A k, l \in 1 .. count : o[k] = o[l] => k = l
  <2> SUFFICES ASSUME NEW k \in 1 .. count, NEW l \in 1 .. count, o[k] = o[l] PROVE k = l
    OBVIOUS
  <2>1. o[k] \in Int /\ o[l] \in Int
    BY <1>7, <1>10
  <2> QED BY <1>9, <1>10, <2>1
<1>13. \A i \in FreedEntries(r) : \E k \in 1 .. count : o[k] = i
  <2>1. o \in Injection(1 .. count, FreedEntries(r))
    BY <1>10, <1>12 DEF Injection, IsInjective
  <2>2. IsFiniteSet(1 .. count) /\ Cardinality(1 .. count) = count
    BY <1>9, FS_Interval
  <2>3. o \in Surjection(1 .. count, FreedEntries(r))
    BY <1>9, <2>1, <2>2, FS_Injection
  <2> QED BY <2>3 DEF Surjection
<1>14. PagesOf(tail) = freed
  <2>1. \A k \in 1 .. count : o[k] \in FreedEntries(r) /\ tail[k] = table[r][o[k]]
    BY <1>10
  <2> HIDE DEF tail, count
  <2> QED BY <1>11, <1>13, <2>1 DEF PagesOf
<1>15. (\A i, k \in FreedEntries(r) : table[r][i] = table[r][k] => i = k) => Distinct(tail)
  <2> SUFFICES ASSUME \A i, k \in FreedEntries(r) : table[r][i] = table[r][k] => i = k,
                      NEW k \in 1 .. count, NEW l \in 1 .. count, tail[k] = tail[l]
               PROVE  k = l
    BY <1>11 DEF Distinct
  <2>1. o[k] \in FreedEntries(r) /\ o[l] \in FreedEntries(r) /\ table[r][o[k]] = table[r][o[l]]
    BY <1>10
  <2> HIDE DEF count
  <2> QED BY <1>12, <2>1
<1> HIDE DEF tail, freed, count
<1>16. PagesOf(free) = FreePages /\ PagesOf(free') = FreePages'
  BY DEF PagesOf, FreePages
<1>17. free' = free \o tail
  BY <1>5 DEF tail
<1>18. /\ FreePages' = FreePages \cup freed
       /\ (/\ Distinct(free)
           /\ FreePages \cap freed = {}
           /\ \A i, k \in FreedEntries(r) : table[r][i] = table[r][k] => i = k)
             => Distinct(free')
  BY <1>1, <1>11, <1>14, <1>15, <1>16, <1>17, ConcatPages
<1>19. \A b \in Block : refs'[b] = Monus(refs[b], Cardinality(EntriesIn(table[r], b)))
  BY <1>1, <1>4, OccurrencesAre
<1>20. freed \subseteq Block /\ FreedEntries(r) \subseteq DOMAIN table[r]
  BY <1>6, <1>7, <1>8 DEF freed
<1>21. ~IsEmptyHanded(r) => HasShape(r)
  BY <1>1 DEF TablesInShape, RequestInShape
<1> QED BY <1>2, <1>3, <1>4, <1>5, <1>6, <1>18, <1>19, <1>20, <1>21 DEF freed

-----------------------------------------------------------------------------
(* No page is lost *)

\* The pages and the entries of a table, and what they tell of each other.
PagesIn(t) == {t[i] : i \in DOMAIN t} \ {NoBlock}

LEMMA EntriesAndPages ==
  ASSUME NEW t \in [Request -> Seq(Block \cup {NoBlock})],
         \A r \in Request : Len(t[r]) <= TotalBlocks, NEW b \in Block
  PROVE  /\ IsFiniteSet(EntriesOf(t, b)) /\ Cardinality(EntriesOf(t, b)) \in Nat
         /\ \A r \in Request : b \in PagesIn(t[r]) <=> EntriesIn(t[r], b) # {}
         /\ \A r \in Request : \A i : <<r, i>> \in EntriesOf(t, b) <=> i \in EntriesIn(t[r], b)
         /\ EntriesOf(t, b) \subseteq Request \X Nat
<1>1. b # NoBlock
  BY DEF Block, NoBlock
<1>2. \A r \in Request : b \in PagesIn(t[r]) <=> EntriesIn(t[r], b) # {}
  BY <1>1 DEF PagesIn, EntriesIn
<1>3. IsFiniteSet(Request \X (1 .. TotalBlocks))
  <2>1. 1 \in Int /\ TotalBlocks \in Int
    BY SizesAssumption
  <2>2. IsFiniteSet(1 .. TotalBlocks)
    BY <2>1, FS_Interval
  <2> QED BY <2>2, FS_Product, RequestAssumption
<1>4. EntriesOf(t, b) \subseteq Request \X (1 .. TotalBlocks)
  BY DEF EntriesOf
<1>5. IsFiniteSet(EntriesOf(t, b)) /\ Cardinality(EntriesOf(t, b)) \in Nat
  BY <1>3, <1>4, FS_Subset, FS_CardinalityType
<1>6. ASSUME NEW r \in Request, NEW i
      PROVE  <<r, i>> \in EntriesOf(t, b) <=> i \in EntriesIn(t[r], b)
  <2>1. DOMAIN t[r] = 1 .. Len(t[r]) /\ Len(t[r]) \in Nat /\ Len(t[r]) <= TotalBlocks
    BY LenProperties
  <2>2. i \in DOMAIN t[r] => i \in 1 .. TotalBlocks
    BY <2>1, SizesAssumption
  <2> QED BY <2>2 DEF EntriesOf, EntriesIn
<1>7. EntriesOf(t, b) \subseteq Request \X Nat
  BY <1>4, SizesAssumption
<1> QED BY <1>2, <1>5, <1>6, <1>7

\* A page that an eviction takes from the index is on the free list afterwards.
LEMMA EvictionLosesNothing ==
  ASSUME TypeOK, NoBlockLost, PinnedPagesAreIndexed, NEW n \in Nat, NEW o \in Evictions(n),
         pinned' = PinnedAfter(o), cacheIndex' = IndexAfter(o)
  PROVE  /\ PinnedPagesAreIndexed'
         /\ \A b \in Block : \/ b \in PagesOf(FreeAfter(o))
                             \/ \E r \in Request : b \in Held(r)
                             \/ \E h \in Contents : cacheIndex'[h] = b
<1>1. /\ PagesOf(FreeAfter(o)) = FreePages \cup EvictedBlocks(o)
      /\ \A b \in Block : PinnedAfter(o)[b] <=> pinned[b] /\ b \notin EvictedBlocks(o)
      /\ \A h \in Contents :
           \/ IndexAfter(o)[h] = cacheIndex[h]
           \/ IndexAfter(o)[h] = NoBlock /\ cacheIndex[h] \in EvictedBlocks(o)
  BY EvictionPages
<1>2. \A h \in Contents : cacheIndex[h] \notin EvictedBlocks(o) => cacheIndex'[h] = cacheIndex[h]
  BY <1>1
<1>3. PinnedPagesAreIndexed'
  BY <1>1, <1>2 DEF PinnedPagesAreIndexed
<1> QED BY <1>1, <1>2, <1>3 DEF NoBlockLost

\* A step that leaves the pages alone loses none.
LEMMA LossUntouched ==
  ASSUME LossInv, ReservationInv', CallsAreCompleted',
         UNCHANGED <<refs, table, pinned, cacheIndex, free>>
  PROVE  LossInv'
BY DEF LossInv, NoBlockLost, RefsHaveHolders, PinnedPagesAreIndexed, FreePages, Held, Holders

\* Neither does an ensure_capacity that fails.
LEMMA FailedEnsureLoss ==
  ASSUME LossInv, ReservationInv', CallsAreCompleted', NEW n \in Nat, FailedEnsure(n), table' = table
  PROVE  LossInv'
<1>1. TypeOK /\ NoBlockLost /\ PinnedPagesAreIndexed /\ RefsHaveHolders
  BY DEF LossInv, ReservationInv
<1>2. PICK o \in Evictions(n) :
        free' = FreeAfter(o) /\ pinned' = PinnedAfter(o) /\ cacheIndex' = IndexAfter(o)
  BY DEF FailedEnsure
<1>3. /\ PinnedPagesAreIndexed'
      /\ \A b \in Block : \/ b \in PagesOf(FreeAfter(o))
                          \/ \E r \in Request : b \in Held(r)
                          \/ \E h \in Contents : cacheIndex'[h] = b
  BY <1>1, <1>2, EvictionLosesNothing
<1>4. FreePages' = PagesOf(FreeAfter(o))
  BY <1>2 DEF FreePages, PagesOf
<1>5. \A r \in Request : Held(r)' = Held(r)
  BY DEF Held
<1>6. NoBlockLost'
  BY <1>3, <1>4, <1>5 DEF NoBlockLost
<1>7. RefsHaveHolders'
  BY <1>1 DEF RefsHaveHolders, Holders, FailedEnsure
<1> QED BY <1>3, <1>6, <1>7 DEF LossInv

\* The pages that hit get a reference for each entry that names them.
LEMMA AdmitLoss ==
  ASSUME LossInv, ReservationInv', CallsAreCompleted', NEW r \in Request,
         NEW hits \in 0 .. CompletePromptBlocks(r), Admit(r, hits)
  PROVE  LossInv'
<1>1. TypeOK /\ NoBlockLost /\ PinnedPagesAreIndexed /\ RefsHaveHolders /\ ReservationInv
  BY DEF LossInv, ReservationInv
<1>2. /\ PromptBlocks(r) - hits \in Nat
      /\ table \in [Request -> Seq(Block \cup {NoBlock})]
      /\ table[r] = <<>> /\ Len(table[r]) <= TotalBlocks
      /\ table' = [table EXCEPT ![r] = table'[r]]
      /\ table'[r] \in Seq(Block \cup {NoBlock}) /\ Len(table'[r]) <= TotalBlocks
      /\ \A b \in Block : refs'[b] = refs[b] + Cardinality(EntriesIn(table'[r], b))
  BY <1>1, AdmitPages
<1>3. PICK o \in Evictions(PromptBlocks(r) - hits) :
        free' = FreeAfter(o) /\ pinned' = PinnedAfter(o) /\ cacheIndex' = IndexAfter(o)
  BY <1>1, AdmitPages
<1>4. /\ PinnedPagesAreIndexed'
      /\ \A b \in Block : \/ b \in PagesOf(FreeAfter(o))
                          \/ \E q \in Request : b \in Held(q)
                          \/ \E h \in Contents : cacheIndex'[h] = b
  BY <1>1, <1>2, <1>3, EvictionLosesNothing
<1>5. NoBlockLost'
  <2>1. FreePages' = PagesOf(FreeAfter(o))
    BY <1>3 DEF FreePages, PagesOf
  <2>2. \A q \in Request : \A b \in Block : b \in Held(q) => b \in Held(q)'
    <3>1. \A q \in Request : q # r => table'[q] = table[q]
      BY <1>2
    <3>2. Held(r) = {}
      BY <1>2 DEF Held
    <3>3. \A q \in Request : q # r => Held(q)' = Held(q)
      BY <3>1 DEF Held
    <3> QED BY <3>2, <3>3
  <2> QED BY <1>4, <2>1, <2>2 DEF NoBlockLost
<1>6. RefsHaveHolders'
  <2> SUFFICES ASSUME NEW b \in Block
               PROVE  refs'[b] <= Cardinality(EntriesOf(table', b))
    BY DEF RefsHaveHolders, Holders
  <2> DEFINE s == table'[r]
  <2>1. EntriesIn(table[r], b) = {}
    BY <1>2 DEF EntriesIn
  <2>2. Cardinality(EntriesIn(table[r], b)) = 0
    BY <2>1, FS_EmptySet
  <2>3. /\ s \in Seq(Block \cup {NoBlock}) /\ Len(s) <= TotalBlocks
        /\ table' = [table EXCEPT ![r] = s] /\ refs'[b] = refs[b] + Cardinality(EntriesIn(s, b))
    BY <1>2
  <2> HIDE DEF s
  <2>4. /\ Cardinality(EntriesOf([table EXCEPT ![r] = s], b)) =
             Cardinality(EntriesOf(table, b)) - Cardinality(EntriesIn(table[r], b))
               + Cardinality(EntriesIn(s, b))
        /\ Cardinality(EntriesOf(table, b)) \in Nat /\ Cardinality(EntriesIn(s, b)) \in Nat
    <3>1. /\ table \in [Request -> Seq(Block \cup {NoBlock})] /\ Len(table[r]) <= TotalBlocks
          /\ s \in Seq(Block \cup {NoBlock}) /\ Len(s) <= TotalBlocks
      BY <1>2, <2>3
    <3> QED BY ONLY <3>1, r \in Request, EntriesUpdate
  <2>5. refs[b] <= Cardinality(EntriesOf(table, b)) /\ refs[b] \in Nat
    BY <1>1 DEF RefsHaveHolders, Holders, TypeOK
  <2>6. Cardinality(EntriesOf(table', b)) =
          Cardinality(EntriesOf(table, b)) + Cardinality(EntriesIn(s, b))
    BY <2>2, <2>3, <2>4
  <2> QED BY <2>3, <2>4, <2>5, <2>6
<1> QED BY <1>4, <1>5, <1>6 DEF LossInv

\* A page that is taken from the free list goes into the table with the one
\* reference that it gets; no other entry changes.
LEMMA AppendLoss ==
  ASSUME LossInv, ReservationInv', CallsAreCompleted', NEW r \in Request, HasShape(r), NEW n \in Nat \ {0},
         AppendTokens(r, n)
  PROVE  LossInv'
<1>1. TypeOK /\ NoBlockLost /\ PinnedPagesAreIndexed /\ RefsHaveHolders /\ ReservationInv
  BY DEF LossInv, ReservationInv
<1> DEFINE full    == CeilDiv(stored[r], BlockTokens)
           need    == NeededBlocks(r, n)
           missing == full + 1 .. need
           taken   == {table'[r][i] : i \in missing}
<1>2. PICK o \in Evictions(GrowthBlocks(r, n)) :
        /\ pinned' = PinnedAfter(o) /\ cacheIndex' = IndexAfter(o)
        /\ GrowthBlocks(r, n) \in Nat
        /\ refs' = [b \in Block |-> IF b \in taken THEN 1 ELSE refs[b]]
        /\ table \in [Request -> Seq(Block \cup {NoBlock})]
        /\ table' = [table EXCEPT ![r] = table'[r]]
        /\ PagesOf(FreeAfter(o)) = FreePages' \cup taken
        /\ missing \subseteq DOMAIN table'[r]
        /\ \A i \in DOMAIN table[r] : i \in DOMAIN table'[r]
        /\ \A i \in DOMAIN table[r] : i \in missing => table[r][i] = NoBlock
        /\ \A i \in DOMAIN table[r] : i \notin missing => table'[r][i] = table[r][i]
  BY <1>1, AppendPages
<1>3. /\ PinnedPagesAreIndexed'
      /\ \A b \in Block : \/ b \in PagesOf(FreeAfter(o))
                          \/ \E q \in Request : b \in Held(q)
                          \/ \E h \in Contents : cacheIndex'[h] = b
  BY <1>1, <1>2, EvictionLosesNothing
<1> HIDE DEF missing
<1>4. \A q \in Request : q # r => table'[q] = table[q]
  BY <1>2
<1>5. ASSUME NEW b \in Block
      PROVE  /\ \A q \in Request : EntriesIn(table[q], b) \subseteq EntriesIn(table'[q], b)
             /\ b \in taken => EntriesIn(table'[r], b) # {}
  <2>1. b # NoBlock
    BY DEF Block, NoBlock
  <2>2. EntriesIn(table[r], b) \subseteq EntriesIn(table'[r], b)
    BY <1>2, <2>1 DEF EntriesIn
  <2>3. b \in taken => EntriesIn(table'[r], b) # {}
    BY <1>2 DEF EntriesIn
  <2> QED BY <1>4, <2>2, <2>3
<1> HIDE DEF taken
<1>6. /\ table' \in [Request -> Seq(Block \cup {NoBlock})]
      /\ \A q \in Request : Len(table'[q]) <= TotalBlocks
      /\ \A q \in Request : Len(table[q]) <= TotalBlocks
  BY <1>1 DEF ReservationInv, TypeOK
<1>7. ASSUME NEW b \in Block
      PROVE  /\ \A q \in Request : b \in PagesIn(table'[q]) <=> EntriesIn(table'[q], b) # {}
             /\ \A q \in Request : \A i : <<q, i>> \in EntriesOf(table', b) <=> i \in EntriesIn(table'[q], b)
             /\ IsFiniteSet(EntriesOf(table', b)) /\ Cardinality(EntriesOf(table', b)) \in Nat
  BY <1>6, EntriesAndPages
<1>8. ASSUME NEW b \in Block
      PROVE  /\ \A q \in Request : b \in PagesIn(table[q]) <=> EntriesIn(table[q], b) # {}
             /\ \A q \in Request : \A i : <<q, i>> \in EntriesOf(table, b) <=> i \in EntriesIn(table[q], b)
             /\ Cardinality(EntriesOf(table, b)) \in Nat
             /\ EntriesOf(table, b) \subseteq Request \X Nat
  BY <1>2, <1>6, EntriesAndPages
<1>9. NoBlockLost'
  <2>1. \A b \in Block : \A q \in Request : b \in Held(q) => b \in Held(q)'
    <3>1. \A b \in Block : \A q \in Request : b \in PagesIn(table[q]) => b \in PagesIn(table'[q])
      BY <1>5, <1>7, <1>8
    <3> QED BY <3>1 DEF Held, PagesIn
  <2>2. \A b \in Block : b \in taken => b \in Held(r)'
    <3>1. \A b \in Block : b \in taken => b \in PagesIn(table'[r])
      BY <1>5, <1>7
    <3> QED BY <3>1 DEF Held, PagesIn
  <2> QED BY <1>2, <1>3, <2>1, <2>2 DEF NoBlockLost
<1>10. RefsHaveHolders'
  <2> SUFFICES ASSUME NEW b \in Block PROVE refs'[b] <= Cardinality(EntriesOf(table', b))
    BY DEF RefsHaveHolders, Holders
  <2>1. CASE b \in taken
    <3>1. PICK i : i \in EntriesIn(table'[r], b)
      BY <1>5, <2>1
    <3>2. EntriesOf(table', b) # {}
      BY <1>7, <3>1
    <3>3. Cardinality(EntriesOf(table', b)) # 0
      BY <1>7, <3>2, FS_EmptySet
    <3> QED BY <1>2, <1>7, <2>1, <3>3
  <2>2. CASE b \notin taken
    <3>1. EntriesOf(table, b) \subseteq EntriesOf(table', b)
      BY <1>5, <1>7, <1>8
    <3>2. Cardinality(EntriesOf(table, b)) <= Cardinality(EntriesOf(table', b))
      BY <1>7, <3>1, FS_Subset
    <3>3. refs[b] <= Cardinality(EntriesOf(table, b)) /\ refs[b] \in Nat /\ refs'[b] = refs[b]
      BY <1>1, <1>2, <2>2 DEF RefsHaveHolders, Holders, TypeOK
    <3> QED BY <1>7, <1>8, <3>2, <3>3
  <2> QED BY <2>1, <2>2
<1> QED BY <1>3, <1>9, <1>10 DEF LossInv

\* A block of the prompt that is offered to the prefix cache has a content that
\* the index can hold and an entry of the table that has its page.
LEMMA OfferedBlock ==
  ASSUME ReservationInv, CallsAreCompleted, calls # <<>>, Head(calls).op = "cache"
  PROVE  \E r \in Request, i \in Nat \ {0} :
           /\ r = Head(calls).request /\ i = Head(calls).block
           /\ IsCompleted(r, i) /\ HasShape(r)
           /\ BlockContent(prompt[r], i) \in Contents
           /\ i \in DOMAIN table[r] /\ table[r][i] \in Block
<1>1. TypeOK /\ TablesInShape
  BY DEF ReservationInv
<1>2. /\ calls \in Seq(Calls) /\ Head(calls) = calls[1] /\ 1 \in DOMAIN calls
      /\ calls[1] \in Calls
  <2>1. calls \in Seq(Calls) /\ Len(calls) \in Nat /\ DOMAIN calls = 1 .. Len(calls)
    BY <1>1, LenProperties DEF TypeOK
  <2>2. Len(calls) >= 1
    BY <2>1, EmptySeq
  <2>3. 1 \in DOMAIN calls
    BY <2>1, <2>2
  <2> QED BY <2>1, <2>3, ElementOfSeq, HeadTailProperties
<1>3. PICK r \in Request, i \in Nat : r = Head(calls).request /\ i = Head(calls).block
  BY <1>2 DEF Calls
<1>4. IsCompleted(r, i) /\ CallInShape(calls[1])
  BY <1>1, <1>2, <1>3 DEF CallsAreCompleted, TablesInShape
<1> DEFINE full == CeilDiv(stored[r], BlockTokens)
<1>5. status[r] = "Active" /\ i \in 1 .. full /\ HasShape(r)
  <2>1. status[r] = "Active" /\ i \in 1 .. full
    BY <1>2, <1>3, <1>4 DEF CallInShape
  <2> QED BY <1>1, <2>1 DEF TablesInShape, RequestInShape
<1>6. full \in Nat /\ PromptBlocks(r) \in Nat /\ CompletePromptBlocks(r) \in Nat
  BY <1>1, BlockCounts
<1>7. /\ Len(table[r]) \in Nat /\ DOMAIN table[r] = 1 .. Len(table[r])
      /\ table[r] \in Seq(Block \cup {NoBlock})
  BY <1>1, LenProperties DEF TypeOK
<1>8. /\ Len(table[r]) = Greatest(full, PromptBlocks(r))
      /\ \A k \in DOMAIN table[r] : table[r][k] = NoBlock <=> k > full
  BY <1>5 DEF HasShape
<1> HIDE DEF full
<1>9. i # 0 /\ i \in 1 .. Len(table[r]) /\ ~(i > full)
  BY <1>5, <1>6, <1>7, <1>8 DEF Greatest
<1>10. table[r][i] \in Block
  BY <1>7, <1>8, <1>9, ElementOfSeq
<1>11. BlockContent(prompt[r], i) \in Contents
  <2>1. i \in 1 .. CompletePromptBlocks(r)
    BY <1>4, <1>6, <1>9 DEF IsCompleted
  <2>2. prompt[r] \in Prompts
    BY <1>1 DEF TypeOK
  <2> QED BY <2>1, <2>2 DEF Contents, CompletePromptBlocks
<1> QED BY <1>3, <1>4, <1>5, <1>7, <1>9, <1>10, <1>11

\* A prefill offers the blocks that its chunk completed.
LEMMA PrefillOffersCompleted ==
  ASSUME ReservationInv, NEW r \in Request, NEW n \in 1 .. Len(prompt[r]), AppendPrefill(r, n)
  PROVE  CallsAreCompleted'
<1> DEFINE first == stored[r] \div BlockTokens
           after == stored[r] + n
           end   == after \div BlockTokens
           size  == Len(prompt[r])
<1>1. /\ calls' = [k \in 1 .. end - first |-> CacheCall(r, first + k)]
      /\ after <= size /\ prompt' = prompt /\ stored' = [stored EXCEPT ![r] = @ + n]
  BY DEF AppendPrefill, AppendTokens
<1>2. /\ stored[r] \in Nat /\ size \in Nat /\ BlockTokens \in Nat \ {0} /\ n \in Nat
      /\ stored'[r] = after
  <2>1. TypeOK
    BY DEF ReservationInv
  <2>2. stored[r] \in Nat /\ size \in Nat
    BY <2>1, BlockCounts
  <2> QED BY <1>1, <2>1, <2>2, SizesAssumption DEF TypeOK
<1>3. after \in Nat
  BY <1>2
<1> HIDE DEF after, size
<1>4. first \in Nat /\ end \in Nat /\ BlockTokens * end <= after /\ end <= size \div BlockTokens
  <2>1. first \in Nat /\ end \in Nat
    BY <1>2, <1>3, CeilDivNext
  <2>2. after \in Int /\ size \in Int /\ after <= size
    BY <1>1, <1>2, <1>3 DEF after, size
  <2>3. end <= size \div BlockTokens
    BY <1>2, <2>2, DivMonotonic
  <2>4. BlockTokens * end <= after
    BY <1>2, <2>2, DivBounds
  <2> QED BY <2>1, <2>3, <2>4
<1> HIDE DEF first, end
<1>5. ASSUME NEW k \in 1 .. end - first
      PROVE  first + k <= size \div BlockTokens /\ (first + k) * BlockTokens <= after
  <2>1. first + k \in Int /\ first + k <= end
    BY <1>4
  <2>2. BlockTokens * (first + k) <= BlockTokens * end
    BY <1>2, <1>4, <2>1, TimesMonotonic
  <2>3. size \div BlockTokens \in Int
    BY <1>2, DivBounds
  <2>4. (first + k) * BlockTokens = BlockTokens * (first + k)
    BY <1>2, <2>1
  <2>5. BlockTokens * (first + k) \in Int /\ BlockTokens * end \in Int
    BY <1>2, <1>4, <2>1
  <2> QED BY <1>3, <1>4, <2>1, <2>2, <2>3, <2>4, <2>5
<1>6. ASSUME NEW k \in DOMAIN calls'
      PROVE  IsCompleted(calls[k].request, calls[k].block)'
  <2>1. k \in 1 .. end - first /\ calls'[k] = CacheCall(r, first + k)
    BY <1>1
  <2>2. calls'[k].request = r /\ calls'[k].block = first + k
    BY <2>1 DEF CacheCall
  <2>3. first + k <= size \div BlockTokens /\ (first + k) * BlockTokens <= after
    BY <1>5, <2>1
  <2> QED BY <1>1, <1>2, <2>2, <2>3 DEF IsCompleted, CompletePromptBlocks, size
<1> QED BY <1>6 DEF CallsAreCompleted

\* Every other step leaves only a release to be called, or one call less.
LEMMA NextCompleted ==
  ASSUME ReservationInv, CallsAreCompleted, [Next]_vars
  PROVE  CallsAreCompleted'
<1>1. ASSUME NEW r \in Request, NEW n \in 1 .. Len(prompt[r]), AppendPrefill(r, n)
      PROVE  CallsAreCompleted'
  BY <1>1, PrefillOffersCompleted
<1>2. ASSUME calls' = <<>> PROVE CallsAreCompleted'
  BY <1>2 DEF CallsAreCompleted
<1>3. ASSUME NEW r \in Request, calls' = <<ReleaseCall(r)>> PROVE CallsAreCompleted'
  <2>1. \A k \in DOMAIN calls' : calls'[k].op = "release"
    BY <1>3, LastCall
  <2> QED BY <2>1 DEF CallsAreCompleted
<1>4. ASSUME calls # <<>>, calls' = Tail(calls), UNCHANGED <<prompt, stored>>
      PROVE  CallsAreCompleted'
  <2>1. calls \in Seq(Calls) /\ Len(calls) \in Nat /\ DOMAIN calls = 1 .. Len(calls)
    BY LenProperties DEF ReservationInv, TypeOK
  <2>2. /\ Tail(calls) \in Seq(Calls) /\ Len(Tail(calls)) = Len(calls) - 1
        /\ \A k \in 1 .. Len(Tail(calls)) : Tail(calls)[k] = calls[k + 1]
    BY <1>4, <2>1, HeadTailProperties
  <2>3. \A k \in DOMAIN calls' : k + 1 \in DOMAIN calls /\ calls'[k] = calls[k + 1]
    BY <1>4, <2>1, <2>2, LenProperties
  <2> QED BY <1>4, <2>3 DEF CallsAreCompleted, IsCompleted, CompletePromptBlocks
<1>5. ASSUME UNCHANGED vars PROVE CallsAreCompleted'
  BY <1>5 DEF vars, requestVars, CallsAreCompleted, IsCompleted, CompletePromptBlocks
<1>6. ASSUME NEW r \in Request, AdmitCall(r) PROVE CallsAreCompleted'
  BY <1>2, <1>6 DEF AdmitCall, AdmitImpossible, Admit, AdmitTemporarilyUnavailable
<1>7. ASSUME NEW r \in Request, AppendCall(r) PROVE CallsAreCompleted'
  <2>1. ASSUME NEW last \in BOOLEAN, AppendDecode(r, last) PROVE CallsAreCompleted'
    BY <1>2, <1>3, <2>1 DEF AppendDecode
  <2>2. ASSUME GrowthExhausted(r) PROVE CallsAreCompleted'
    BY <1>3, <2>2 DEF GrowthExhausted
  <2> QED BY <1>1, <1>7, <2>1, <2>2 DEF AppendCall
<1>8. ASSUME NEW S \in SUBSET Request, Expire(S) PROVE CallsAreCompleted'
  BY <1>2, <1>8 DEF Expire
<1>9. ASSUME CacheRefresh \/ CacheInsert \/ Release PROVE CallsAreCompleted'
  BY <1>4, <1>9 DEF CacheRefresh, CacheInsert, Release, requestVars
<1> QED BY <1>5, <1>6, <1>7, <1>8, <1>9 DEF Next, Terminated

\* A page that enters the prefix cache is reachable through the index.
LEMMA CacheInsertLoss ==
  ASSUME LossInv, ReservationInv', CallsAreCompleted', CacheInsert
  PROVE  LossInv'
<1>1. ReservationInv /\ TypeOK /\ CallsAreCompleted
  BY DEF LossInv, ReservationInv
<1>2. PICK r \in Request, i \in Nat \ {0} :
        /\ r = Head(calls).request /\ i = Head(calls).block
        /\ BlockContent(prompt[r], i) \in Contents
        /\ i \in DOMAIN table[r] /\ table[r][i] \in Block
  BY <1>1, OfferedBlock DEF CacheInsert
<1> DEFINE h == BlockContent(prompt[r], i)
           b == table[r][i]
<1>3. /\ cacheIndex[h] = NoBlock
      /\ pinned' = [pinned EXCEPT ![b] = TRUE]
      /\ cacheIndex' = [cacheIndex EXCEPT ![h] = b]
      /\ UNCHANGED <<free, refs, table>>
  BY <1>2 DEF CacheInsert, requestVars
<1>4. h \in Contents /\ b \in Block
  BY <1>2
<1> HIDE DEF h, b
<1>5. cacheIndex'[h] = b /\ \A g \in Contents : g # h => cacheIndex'[g] = cacheIndex[g]
  BY <1>1, <1>3, <1>4 DEF TypeOK
<1>6. \A c \in Block, g \in Contents : cacheIndex[g] = c => cacheIndex'[g] = c
  BY <1>3, <1>5 DEF Block, NoBlock
<1>7. PinnedPagesAreIndexed'
  <2>1. \A c \in Block : pinned'[c] => pinned[c] \/ c = b
    BY <1>1, <1>3 DEF TypeOK
  <2> QED BY <1>4, <1>5, <1>6, <2>1 DEF LossInv, PinnedPagesAreIndexed
<1>8. NoBlockLost'
  BY <1>3, <1>6 DEF LossInv, NoBlockLost, FreePages, Held
<1> QED BY <1>3, <1>7, <1>8 DEF LossInv, RefsHaveHolders, Holders

\* A page that a release takes a reference from is freed unless another entry
\* names it or the index does.
LEMMA ReleaseLoss ==
  ASSUME LossInv, ReservationInv', CallsAreCompleted', Release
  PROVE  LossInv'
<1>1. /\ ReservationInv /\ TypeOK /\ NoBlockLost /\ RefsHaveHolders /\ PinnedPagesAreIndexed
  BY DEF LossInv, ReservationInv
<1>2. PICK r \in Request :
           /\ table \in [Request -> Seq(Block \cup {NoBlock})] /\ Len(table[r]) <= TotalBlocks
           /\ table' = [table EXCEPT ![r] = <<>>]
           /\ FreePages' = FreePages \cup {table[r][i] : i \in FreedEntries(r)}
           /\ \A b \in Block : refs'[b] = Monus(refs[b], Cardinality(EntriesIn(table[r], b)))
           /\ UNCHANGED <<pinned, cacheIndex>>
  BY <1>1, ReleasePages
<1>3. /\ \A q \in Request : q # r => table'[q] = table[q]
      /\ <<>> \in Seq(Block \cup {NoBlock}) /\ Len(<<>>) <= TotalBlocks
      /\ refs \in [Block -> Nat]
  BY <1>1, <1>2, EmptySeq, SizesAssumption DEF TypeOK
<1>4. RefsHaveHolders'
  <2> SUFFICES ASSUME NEW b \in Block PROVE refs'[b] <= Cardinality(EntriesOf(table', b))
    BY DEF RefsHaveHolders, Holders
  <2>1. EntriesIn(<<>>, b) = {}
    BY DEF EntriesIn
  <2>2. Cardinality(EntriesIn(<<>>, b)) = 0
    BY <2>1, FS_EmptySet
  <2>3. /\ Cardinality(EntriesOf([table EXCEPT ![r] = <<>>], b)) =
             Cardinality(EntriesOf(table, b)) - Cardinality(EntriesIn(table[r], b))
               + Cardinality(EntriesIn(<<>>, b))
        /\ Cardinality(EntriesOf(table, b)) \in Nat /\ Cardinality(EntriesIn(table[r], b)) \in Nat
        /\ Cardinality(EntriesIn(table[r], b)) <= Cardinality(EntriesOf(table, b))
    <3>1. /\ table \in [Request -> Seq(Block \cup {NoBlock})] /\ Len(table[r]) <= TotalBlocks
          /\ <<>> \in Seq(Block \cup {NoBlock}) /\ Len(<<>>) <= TotalBlocks
      BY <1>2, <1>3
    <3> QED BY ONLY <3>1, r \in Request, EntriesUpdate
  <2>4. refs[b] <= Cardinality(EntriesOf(table, b)) /\ refs[b] \in Nat
    BY <1>1 DEF RefsHaveHolders, Holders, TypeOK
  <2>5. Cardinality(EntriesOf(table', b)) =
          Cardinality(EntriesOf(table, b)) - Cardinality(EntriesIn(table[r], b))
    BY <1>2, <2>2, <2>3
  <2> QED BY <1>2, <2>3, <2>4, <2>5 DEF Monus
<1>5. ASSUME NEW b \in Block, EntriesIn(table[r], b) # {},
             b \notin {table[r][i] : i \in FreedEntries(r)}, ~pinned[b]
      PROVE  \E q \in Request : q # r /\ b \in Held(q)
  <2>1. PICK i \in EntriesIn(table[r], b) :
          Occurrences(r, b, i) = Cardinality(EntriesIn(table[r], b))
    BY <1>1, <1>5, OccurrencesAre
  <2>2. ~(Cardinality(EntriesIn(table[r], b)) >= refs[b])
    <3>1. table[r][i] = b /\ i \in DOMAIN table[r] /\ b # NoBlock
      BY <2>1 DEF EntriesIn, Block, NoBlock
    <3> QED BY <1>5, <2>1, <3>1 DEF FreedEntries
  <2>3. /\ Cardinality(EntriesIn(table[r], b)) \in Nat
        /\ Cardinality(EntriesElsewhere(table, b, r)) \in Nat
        /\ Cardinality(EntriesOf(table, b)) =
             Cardinality(EntriesIn(table[r], b)) + Cardinality(EntriesElsewhere(table, b, r))
    BY <1>2, EntriesSplit
  <2>4. refs[b] <= Cardinality(EntriesOf(table, b)) /\ refs[b] \in Nat
    BY <1>1 DEF RefsHaveHolders, Holders, TypeOK
  <2>5. Cardinality(EntriesElsewhere(table, b, r)) # 0
    BY <2>2, <2>3, <2>4
  <2>6. EntriesElsewhere(table, b, r) # {}
    BY <2>5, FS_EmptySet
  <2>7. PICK e \in EntriesOf(table, b) : e[1] # r
    BY <2>6 DEF EntriesElsewhere
  <2>8. e[1] \in Request /\ b \in Held(e[1])
    BY <2>7 DEF EntriesOf, Held, Block, NoBlock
  <2> QED BY <2>7, <2>8
<1>6. NoBlockLost'
  <2> SUFFICES ASSUME NEW b \in Block, b \notin FreePages', ~\E h \in Contents : cacheIndex'[h] = b
               PROVE  \E q \in Request : b \in Held(q)'
    BY DEF NoBlockLost
  <2>1. PICK q \in Request : b \in Held(q)
    BY <1>1, <1>2 DEF NoBlockLost
  <2>2. \A p \in Request : p # r => Held(p)' = Held(p)
    BY <1>3 DEF Held
  <2>3. CASE q # r
    BY <2>1, <2>2, <2>3
  <2>4. CASE q = r
    <3>1. EntriesIn(table[r], b) # {}
      BY <2>1, <2>4 DEF Held, EntriesIn
    <3>2. ~pinned[b]
      BY <1>1, <1>2 DEF PinnedPagesAreIndexed
    <3> QED BY <1>2, <1>5, <2>2, <3>1, <3>2
  <2> QED BY <2>3, <2>4
<1>7. PinnedPagesAreIndexed'
  BY <1>1, <1>2 DEF PinnedPagesAreIndexed
<1> QED BY <1>4, <1>6, <1>7 DEF LossInv

\* The empty cache has all its pages on the free list.
LEMMA InitLoss == Init => LossInv
<1> SUFFICES ASSUME Init PROVE LossInv
  OBVIOUS
<1>1. ReservationInv
  BY InitReservation
<1>2. NoBlockLost
  <2> SUFFICES ASSUME NEW b \in Block PROVE b \in FreePages
    BY DEF NoBlockLost
  <2>1. free = [i \in 1 .. TotalBlocks |-> TotalBlocks - i]
    BY DEF Init
  <2>2. TotalBlocks - b \in 1 .. TotalBlocks /\ TotalBlocks - (TotalBlocks - b) = b
    BY SizesAssumption DEF Block
  <2>3. TotalBlocks - b \in DOMAIN free /\ free[TotalBlocks - b] = b
    BY <2>1, <2>2
  <2> QED BY <2>3 DEF FreePages
<1>3. RefsHaveHolders
  <2> SUFFICES ASSUME NEW b \in Block PROVE refs[b] <= Cardinality(EntriesOf(table, b))
    BY DEF RefsHaveHolders, Holders
  <2>1. /\ table \in [Request -> Seq(Block \cup {NoBlock})]
        /\ \A r \in Request : Len(table[r]) <= TotalBlocks
    BY <1>1 DEF ReservationInv, TypeOK
  <2>2. Cardinality(EntriesOf(table, b)) \in Nat
    BY <2>1, EntriesAndPages
  <2>3. refs[b] = 0
    BY DEF Init
  <2> QED BY <2>2, <2>3
<1>4. PinnedPagesAreIndexed
  BY DEF Init, PinnedPagesAreIndexed
<1>5. CallsAreCompleted
  BY DEF Init, CallsAreCompleted
<1> QED BY <1>1, <1>2, <1>3, <1>4, <1>5 DEF LossInv

\* LossInv is preserved by every step of the allocator.
LEMMA NextLoss == LossInv /\ [Next]_vars => LossInv'
<1> SUFFICES ASSUME LossInv, [Next]_vars PROVE LossInv'
  OBVIOUS
<1>1. ReservationInv /\ TypeOK /\ TablesInShape /\ CallsAreCompleted
  BY DEF LossInv, ReservationInv
<1>2. ReservationInv' /\ CallsAreCompleted'
  BY <1>1, NextReservation, NextCompleted
<1>3. ASSUME UNCHANGED <<refs, table, pinned, cacheIndex, free>> PROVE LossInv'
  BY <1>2, <1>3, LossUntouched
<1>4. ASSUME NEW r \in Request, AdmitCall(r) PROVE LossInv'
  <2>1. ASSUME AdmitImpossible(r) PROVE LossInv'
    BY <1>3, <2>1 DEF AdmitImpossible, cacheVars
  <2>2. ASSUME NEW hits \in 0 .. CompletePromptBlocks(r), Admit(r, hits) PROVE LossInv'
    BY <1>2, <2>2, AdmitLoss
  <2>3. ASSUME NEW hits \in 0 .. CompletePromptBlocks(r), AdmitTemporarilyUnavailable(r, hits)
        PROVE  LossInv'
    <3>1. PromptBlocks(r) - hits \in Nat
      BY <1>1, BlockCounts
    <3>2. FailedEnsure(PromptBlocks(r) - hits) /\ table' = table
      BY <2>3 DEF AdmitTemporarilyUnavailable, requestVars
    <3> QED BY <1>2, <3>1, <3>2, FailedEnsureLoss
  <2> QED BY <1>4, <2>1, <2>2, <2>3 DEF AdmitCall
<1>5. ASSUME NEW r \in Request, status[r] = "Active" PROVE HasShape(r)
  BY <1>1, <1>5 DEF TablesInShape, RequestInShape
<1>6. ASSUME NEW r \in Request, AppendCall(r) PROVE LossInv'
  <2>1. ASSUME NEW n \in 1 .. Len(prompt[r]), AppendPrefill(r, n) PROVE LossInv'
    <3>1. n \in Nat \ {0} /\ AppendTokens(r, n) /\ HasShape(r)
      BY <1>1, <1>5, <2>1, BlockCounts DEF AppendPrefill, IsPrefilling
    <3> QED BY <1>2, <3>1, AppendLoss
  <2>2. ASSUME NEW last \in BOOLEAN, AppendDecode(r, last) PROVE LossInv'
    <3>1. 1 \in Nat \ {0} /\ AppendTokens(r, 1) /\ HasShape(r)
      BY <1>5, <2>2 DEF AppendDecode, IsDecoding
    <3> QED BY <1>2, <3>1, AppendLoss
  <2>3. ASSUME GrowthExhausted(r) PROVE LossInv'
    <3>1. CASE UNCHANGED cacheVars
      BY <1>3, <2>3, <3>1 DEF GrowthExhausted, cacheVars
    <3>2. CASE FailedEnsure(GrowthBlocks(r, 1))
      <4>1. HasShape(r) /\ table' = table
        BY <1>5, <2>3 DEF GrowthExhausted, IsDecoding
      <4>2. GrowthBlocks(r, 1) \in Nat
        BY <1>1, <4>1, AppendEntries
      <4> QED BY <1>2, <3>2, <4>1, <4>2, FailedEnsureLoss
    <3> QED BY <2>3, <3>1, <3>2 DEF GrowthExhausted
  <2> QED BY <1>6, <2>1, <2>2, <2>3 DEF AppendCall
<1>7. ASSUME NEW S \in SUBSET Request, Expire(S) PROVE LossInv'
  BY <1>3, <1>7 DEF Expire, cacheVars
<1>8. ASSUME CacheRefresh PROVE LossInv'
  BY <1>3, <1>8 DEF CacheRefresh, cacheVars, requestVars
<1>9. ASSUME CacheInsert PROVE LossInv'
  BY <1>2, <1>9, CacheInsertLoss
<1>10. ASSUME Release PROVE LossInv'
  BY <1>2, <1>10, ReleaseLoss
<1>11. ASSUME UNCHANGED vars PROVE LossInv'
  BY <1>3, <1>11 DEF vars, cacheVars, requestVars
<1> QED BY <1>4, <1>6, <1>7, <1>8, <1>9, <1>10, <1>11 DEF Next, Terminated

\* In every reachable state of every instance, whatever is evicted and whatever
\* hits, each page is free, in the table of a request, or reachable for eviction:
\* the allocator never leaks a page.
THEOREM NoPageIsLost == Spec => []NoBlockLost
<1>1. LossInv => NoBlockLost
  BY DEF LossInv
<1> QED BY <1>1, InitLoss, NextLoss, PTL DEF Spec

-----------------------------------------------------------------------------
(* A drained cache admits *)

\* A call that changes no request but those it leaves active or releases.
LEMMA OwedAfterCall ==
  ASSUME ReservationInv, ReleasesAreOwed, calls = <<>>,
         \A q \in Request : status'[q] \in {"Finished", "Rejected"} =>
           \/ /\ status[q] # "Active"
              /\ table'[q] = table[q] /\ promised'[q] = promised[q]
           \/ calls' = <<ReleaseCall(q)>>
  PROVE  ReleasesAreOwed'
<1> SUFFICES ASSUME NEW q \in Request, status'[q] \in {"Finished", "Rejected"}
             PROVE  IsEmptyHanded(q)' \/ \E k \in DOMAIN calls' : calls'[k] = ReleaseCall(q)
  BY DEF ReleasesAreOwed
<1>1. CASE calls' = <<ReleaseCall(q)>>
  <2> DEFINE call == ReleaseCall(q)
  <2>1. calls' = <<call>>
    BY <1>1
  <2> HIDE DEF call
  <2>2. 1 \in DOMAIN calls' /\ calls'[1] = call
    BY <2>1
  <2> QED BY <2>2 DEF call
<1>2. CASE status[q] # "Active" /\ table'[q] = table[q] /\ promised'[q] = promised[q]
  <2>1. status[q] \in {"Queued", "Finished", "Rejected"}
    BY <1>2 DEF ReservationInv, TypeOK, Phases
  <2>2. IsEmptyHanded(q)
    BY <2>1 DEF ReservationInv, TablesInShape, RequestInShape, ReleasesAreOwed
  <2> QED BY <1>2, <2>2 DEF IsEmptyHanded
<1> QED BY <1>1, <1>2

\* A call that was owed, and what is owed after it.
LEMMA OwedAfterOwed ==
  ASSUME ReservationInv, ReleasesAreOwed, calls # <<>>, calls' = Tail(calls),
         UNCHANGED status,
         NEW r \in Request, r = Head(calls).request,
         \A q \in Request \ {r} : table'[q] = table[q] /\ promised'[q] = promised[q],
         \/ Head(calls).op = "cache" /\ table'[r] = table[r] /\ promised'[r] = promised[r]
         \/ table'[r] = <<>> /\ promised'[r] = 0
  PROVE  ReleasesAreOwed'
<1> SUFFICES ASSUME NEW q \in Request, status[q] \in {"Finished", "Rejected"}
             PROVE  IsEmptyHanded(q)'
  BY DEF ReleasesAreOwed
<1>1. calls \in Seq(Calls) /\ DOMAIN calls = 1 .. Len(calls) /\ Head(calls) = calls[1]
  BY LenProperties DEF ReservationInv, TypeOK
<1>2. ASSUME NEW k \in DOMAIN calls, calls[k] = ReleaseCall(q)
      PROVE  Head(calls).op = "release" /\ q = r
  <2>1. calls[k].op = "release" /\ calls[k].request = q
    BY <1>2 DEF ReleaseCall
  <2>2. Len(calls) = 1
    BY <2>1 DEF ReservationInv, TablesInShape, CallInShape
  <2>3. k = 1
    BY <1>1, <2>2
  <2> QED BY <1>1, <2>1, <2>3
<1>3. CASE table'[r] = <<>> /\ promised'[r] = 0 /\ q = r
  BY <1>3 DEF IsEmptyHanded
<1>4. CASE ~(table'[r] = <<>> /\ promised'[r] = 0 /\ q = r)
  <2>1. ~\E k \in DOMAIN calls : calls[k] = ReleaseCall(q)
    BY <1>2, <1>4
  <2>2. IsEmptyHanded(q)
    BY <2>1 DEF ReleasesAreOwed
  <2>3. table'[q] = table[q] /\ promised'[q] = promised[q]
    BY <1>4
  <2> QED BY <2>2, <2>3 DEF IsEmptyHanded
<1> QED BY <1>3, <1>4

LEMMA NextOwes == ReservationInv /\ ReleasesAreOwed /\ [Next]_vars => ReleasesAreOwed'
<1> SUFFICES ASSUME ReservationInv, ReleasesAreOwed, [Next]_vars PROVE ReleasesAreOwed'
  OBVIOUS
<1>1. /\ status \in [Request -> Phases] /\ calls \in Seq(Calls)
      /\ table \in [Request -> Seq(Block \cup {NoBlock})] /\ promised \in [Request -> Nat]
  BY DEF ReservationInv, TypeOK
<1>2. ASSUME NEW r \in Request, AdmitCall(r) PROVE ReleasesAreOwed'
  <2>1. CASE AdmitImpossible(r)
    BY <1>1, <2>1, OwedAfterCall DEF AdmitImpossible
  <2>2. ASSUME NEW hits \in 0 .. CompletePromptBlocks(r), Admit(r, hits)
        PROVE  ReleasesAreOwed'
    <3>1. /\ calls = <<>> /\ status[r] = "Queued"
          /\ status' = [status EXCEPT ![r] = "Active"]
          /\ \A q \in Request \ {r} : table'[q] = table[q] /\ promised'[q] = promised[q]
      BY <1>1, <2>2 DEF Admit
    <3>2. \A q \in Request : status'[q] = IF q = r THEN "Active" ELSE status[q]
      BY <1>1, <3>1
    <3>3. ASSUME NEW q \in Request, status'[q] \in {"Finished", "Rejected"}
          PROVE  status[q] # "Active" /\ table'[q] = table[q] /\ promised'[q] = promised[q]
      BY <3>1, <3>2, <3>3
    <3> QED BY <3>1, <3>3, OwedAfterCall
  <2>3. ASSUME NEW hits \in 0 .. CompletePromptBlocks(r), AdmitTemporarilyUnavailable(r, hits)
        PROVE  ReleasesAreOwed'
    <3>1. calls = <<>> /\ UNCHANGED <<status, table, promised>>
      BY <2>3 DEF AdmitTemporarilyUnavailable, requestVars
    <3> QED BY <3>1, OwedAfterCall
  <2> QED BY <1>2, <2>1, <2>2, <2>3 DEF AdmitCall
<1>3. ASSUME NEW r \in Request, NEW n \in Nat, AppendTokens(r, n)
      PROVE  \A q \in Request \ {r} : table'[q] = table[q] /\ promised'[q] = promised[q]
  BY <1>1, <1>3 DEF AppendTokens
<1>4. ASSUME NEW r \in Request, AppendCall(r) PROVE ReleasesAreOwed'
  <2>1. ASSUME NEW n \in 1 .. Len(prompt[r]), AppendPrefill(r, n) PROVE ReleasesAreOwed'
    <3>1. calls = <<>> /\ UNCHANGED status /\ status[r] = "Active" /\ n \in Nat /\ AppendTokens(r, n)
      BY <2>1, BlockCounts DEF AppendPrefill, IsPrefilling, ReservationInv
    <3>2. ASSUME NEW q \in Request, status'[q] \in {"Finished", "Rejected"}
          PROVE  status[q] # "Active" /\ table'[q] = table[q] /\ promised'[q] = promised[q]
      BY <1>3, <3>1, <3>2
    <3> QED BY <3>1, <3>2, OwedAfterCall
  <2>2. ASSUME NEW last \in BOOLEAN, AppendDecode(r, last) PROVE ReleasesAreOwed'
    <3>1. calls = <<>> /\ status[r] = "Active" /\ AppendTokens(r, 1)
          /\ status' = (IF last THEN [status EXCEPT ![r] = "Finished"] ELSE status)
          /\ (last => calls' = <<ReleaseCall(r)>>)
      BY <2>2 DEF AppendDecode, IsDecoding
    <3>2. \A q \in Request \ {r} : table'[q] = table[q] /\ promised'[q] = promised[q]
      BY <1>3, <3>1
    <3>3. ASSUME NEW q \in Request, status'[q] \in {"Finished", "Rejected"}
          PROVE  \/ status[q] # "Active" /\ table'[q] = table[q] /\ promised'[q] = promised[q]
                 \/ calls' = <<ReleaseCall(q)>>
      <4>1. CASE q = r
        BY <1>1, <3>1, <3>3, <4>1
      <4>2. CASE q # r
        BY <1>1, <3>1, <3>2, <3>3, <4>2
      <4> QED BY <4>1, <4>2
    <3> QED BY <3>1, <3>3, OwedAfterCall
  <2>3. ASSUME GrowthExhausted(r) PROVE ReleasesAreOwed'
    <3>1. /\ calls = <<>> /\ status[r] = "Active" /\ UNCHANGED <<table, promised>>
          /\ status' = [status EXCEPT ![r] = "Rejected"] /\ calls' = <<ReleaseCall(r)>>
      BY <2>3 DEF GrowthExhausted, IsDecoding
    <3>2. ASSUME NEW q \in Request, status'[q] \in {"Finished", "Rejected"}
          PROVE  \/ status[q] # "Active" /\ table'[q] = table[q] /\ promised'[q] = promised[q]
                 \/ calls' = <<ReleaseCall(q)>>
      BY <1>1, <3>1, <3>2
    <3> QED BY <3>1, <3>2, OwedAfterCall
  <2> QED BY <1>4, <2>1, <2>2, <2>3 DEF AppendCall
<1>5. ASSUME NEW S \in SUBSET Request, Expire(S) PROVE ReleasesAreOwed'
  <2>1. /\ calls = <<>> /\ UNCHANGED <<table, promised>> /\ \A r \in S : status[r] = "Queued"
        /\ \A q \in Request : status'[q] = IF q \in S THEN "Rejected" ELSE status[q]
    BY <1>5 DEF Expire
  <2> QED BY <2>1, OwedAfterCall
<1>6. ASSUME CacheRefresh \/ CacheInsert \/ Release PROVE ReleasesAreOwed'
  <2>1. calls # <<>> /\ calls' = Tail(calls) /\ UNCHANGED status
    BY <1>6 DEF CacheRefresh, CacheInsert, Release, requestVars
  <2>0. Head(calls) \in Calls
    BY <1>1, <2>1, HeadTailProperties
  <2>2. PICK r \in Request : r = Head(calls).request
    BY <2>0 DEF Calls
  <2>3. CASE Release
    <3>1. /\ table' = [table EXCEPT ![r] = <<>>] /\ promised' = [promised EXCEPT ![r] = 0]
      BY <2>2, <2>3 DEF Release
    <3>2. /\ table'[r] = <<>> /\ promised'[r] = 0
          /\ \A q \in Request \ {r} : table'[q] = table[q] /\ promised'[q] = promised[q]
      BY <1>1, <3>1
    <3> QED BY <2>1, <2>2, <3>2, OwedAfterOwed
  <2>4. CASE CacheRefresh \/ CacheInsert
    <3>1. Head(calls).op = "cache" /\ UNCHANGED <<table, promised>>
      BY <2>4 DEF CacheRefresh, CacheInsert, requestVars
    <3> QED BY <2>1, <2>2, <3>1, OwedAfterOwed
  <2> QED BY <1>6, <2>3, <2>4
<1>7. ASSUME UNCHANGED vars PROVE ReleasesAreOwed'
  BY <1>7 DEF vars, requestVars, ReleasesAreOwed, IsEmptyHanded
<1> QED BY <1>2, <1>4, <1>5, <1>6, <1>7 DEF Next, Terminated

\* When nobody is active and no call is owed, nobody holds anything.
LEMMA NobodyHolds ==
  ASSUME LossInv, ReleasesAreOwed, calls = <<>>, NobodyActive
  PROVE  reserved = 0 /\ \A b \in Block : refs[b] = 0 /\ \A r \in Request : b \notin Held(r)
<1>1. ASSUME NEW r \in Request PROVE table[r] = <<>>
  <2>1. status[r] \in {"Queued", "Finished", "Rejected"}
    BY DEF LossInv, ReservationInv, TypeOK, Phases, NobodyActive
  <2>2. IsEmptyHanded(r)
    BY <2>1 DEF LossInv, ReservationInv, TablesInShape, RequestInShape, ReleasesAreOwed
  <2> QED BY <2>2 DEF IsEmptyHanded
<1>2. \A b : EntriesOf(table, b) = {}
  BY <1>1 DEF EntriesOf
<1>3. \A b : Cardinality(EntriesOf(table, b)) = 0
  BY <1>2, FS_EmptySet
<1>4. reserved = 0
  BY <1>3 DEF LossInv, ReservationInv, WaitingEntries
<1>5. ASSUME NEW b \in Block PROVE refs[b] = 0
  <2>1. refs[b] \in Nat /\ refs[b] <= 0
    BY <1>3 DEF LossInv, ReservationInv, TypeOK, RefsHaveHolders, Holders
  <2> QED BY <2>1
<1>6. \A r \in Request : Held(r) = {}
  BY <1>1 DEF Held
<1> QED BY <1>4, <1>5, <1>6

LEMMA BlocksAreCounted == IsFiniteSet(Block) /\ Cardinality(Block) = TotalBlocks
<1>1. 0 \in Int /\ TotalBlocks - 1 \in Int /\ TotalBlocks \in Nat \ {0}
  BY SizesAssumption
<1>2. /\ IsFiniteSet(0 .. TotalBlocks - 1)
      /\ Cardinality(0 .. TotalBlocks - 1)
           = IF 0 > TotalBlocks - 1 THEN 0 ELSE TotalBlocks - 1 - 0 + 1
  BY <1>1, FS_Interval
<1> QED BY <1>1, <1>2 DEF Block

\* Every page is then free or can be evicted, so any prompt that fits the cache
\* can be admitted.
LEMMA EmptyCacheFits ==
  ASSUME LossInv, ReleasesAreOwed, calls = <<>>, NobodyActive,
         NEW n \in Nat, n <= TotalBlocks
  PROVE  CanEnsure(n)
<1> DEFINE evictable == {cacheIndex[h] : h \in Idle}
<1>1. /\ reserved = 0
      /\ \A b \in Block : refs[b] = 0 /\ \A r \in Request : b \notin Held(r)
  BY NobodyHolds
<1>2. Block \subseteq FreePages \cup evictable
  <2> SUFFICES ASSUME NEW b \in Block, b \notin FreePages PROVE b \in evictable
    OBVIOUS
  <2>1. PICK h \in Contents : cacheIndex[h] = b
    BY <1>1 DEF LossInv, NoBlockLost
  <2>2. b # NoBlock
    BY DEF Block, NoBlock
  <2> QED BY <1>1, <2>1, <2>2 DEF Idle
<1>3. IsFiniteSet(Idle) /\ Cardinality(Idle) \in Nat /\ free \in Seq(Block) /\ Len(free) \in Nat
  <2>1. IsFiniteSet(Idle)
    BY Idle \subseteq Contents, ContentsAssumption, FS_Subset DEF Idle
  <2> QED BY <2>1, FS_CardinalityType, LenProperties DEF LossInv, ReservationInv, TypeOK
<1>4. IsFiniteSet(evictable) /\ Cardinality(evictable) <= Cardinality(Idle)
  <2> DEFINE f == [h \in Idle |-> cacheIndex[h]]
  <2>1. f \in Surjection(Idle, evictable)
    BY DEF Surjection
  <2> HIDE DEF f, evictable
  <2> QED BY <1>3, <2>1, FS_Surjection
<1>5. IsFiniteSet(FreePages) /\ Cardinality(FreePages) <= Len(free)
  <2>1. DOMAIN free = 1 .. Len(free) /\ free \in [1 .. Len(free) -> FreePages]
    BY <1>3, LenProperties DEF FreePages
  <2>2. free \in Surjection(1 .. Len(free), FreePages)
    BY <2>1 DEF Surjection, FreePages
  <2>3. IsFiniteSet(1 .. Len(free)) /\ Cardinality(1 .. Len(free)) = Len(free)
    <3>1. 1 \in Int /\ Len(free) \in Int
      BY <1>3
    <3>2. /\ IsFiniteSet(1 .. Len(free))
          /\ Cardinality(1 .. Len(free)) = IF 1 > Len(free) THEN 0 ELSE Len(free) - 1 + 1
      BY <3>1, FS_Interval
    <3> QED BY <1>3, <3>2
  <2> QED BY <2>2, <2>3, FS_Surjection
<1> HIDE DEF evictable
<1>6. IsFiniteSet(Block) /\ Cardinality(Block) = TotalBlocks
  BY BlocksAreCounted
<1>7. Cardinality(Block) <= Len(free) + Cardinality(Idle)
  <2>1. /\ IsFiniteSet(FreePages \cup evictable)
        /\ Cardinality(FreePages \cup evictable)
             = Cardinality(FreePages) + Cardinality(evictable) - Cardinality(FreePages \cap evictable)
    BY <1>4, <1>5, FS_Union
  <2>2. Cardinality(Block) <= Cardinality(FreePages \cup evictable)
    BY <1>2, <2>1, FS_Subset
  <2>3. IsFiniteSet(FreePages \cap evictable)
    BY <1>4, FS_Subset, FreePages \cap evictable \subseteq evictable
  <2>4. /\ Cardinality(FreePages) \in Nat /\ Cardinality(evictable) \in Nat
        /\ Cardinality(FreePages \cap evictable) \in Nat /\ Cardinality(Block) \in Nat
    BY <1>4, <1>5, <1>6, <2>3, FS_CardinalityType
  <2> QED BY <1>3, <1>4, <1>5, <2>1, <2>2, <2>4
<1> QED BY <1>1, <1>3, <1>6, <1>7, SizesAssumption DEF CanEnsure

\* Whatever was admitted, evicted, refused and released before: a cache without
\* active requests takes any prompt that is not larger than itself, so
\* TemporarilyUnavailable always names a request that is still to release
\* something (kv_cache.cpp:62, 150-175, 216-224).
THEOREM DrainedCachesAdmit == Spec => []DrainedCacheAdmits
<1>1. Init => ReleasesAreOwed
  BY DEF Init, ReleasesAreOwed
<1>2. LossInv /\ ReleasesAreOwed /\ [Next]_vars => ReleasesAreOwed'
  BY NextOwes DEF LossInv
<1>3. ASSUME LossInv, ReleasesAreOwed PROVE DrainedCacheAdmits
  <2>1. \A r \in Request : PromptBlocks(r) \in Nat
    BY <1>3, BlockCounts DEF LossInv, ReservationInv
  <2> QED BY <1>3, <2>1, EmptyCacheFits DEF DrainedCacheAdmits
<1> QED BY <1>1, <1>2, <1>3, InitLoss, NextLoss, PTL DEF Spec

-----------------------------------------------------------------------------
(* Pages are conserved while evicted pages are unreferenced *)

\* CachedPagesMatch, entry by entry.
LEMMA MatchesByEntry ==
  ASSUME TypeOK
  PROVE  CachedPagesMatch <=>
           \A h \in Contents, r \in Request : \A i \in DOMAIN table[r] :
             (cacheIndex[h] # NoBlock /\ cacheIndex[h] = table[r][i] /\ IsCompleted(r, i))
               => BlockContent(prompt[r], i) = h
<1>1. ASSUME NEW r \in Request
      PROVE  /\ DOMAIN table[r] = 1 .. Len(table[r]) /\ Len(table[r]) \in Nat
             /\ CompletePromptBlocks(r) \in Nat
  BY LenProperties, BlockCounts DEF TypeOK
<1>2. ASSUME NEW r \in Request, NEW i
      PROVE  i \in 1 .. Least(Len(table[r]), CompletePromptBlocks(r))
               <=> i \in DOMAIN table[r] /\ i <= CompletePromptBlocks(r)
  <2> DEFINE m == Len(table[r])
             c == CompletePromptBlocks(r)
  <2>1. m \in Nat /\ c \in Nat /\ DOMAIN table[r] = 1 .. m
    BY <1>1
  <2> HIDE DEF m, c
  <2>2. i \in 1 .. Least(m, c) <=> i \in 1 .. m /\ i <= c
    BY <2>1 DEF Least
  <2> QED BY <2>1, <2>2 DEF m, c
<1> QED BY <1>2 DEF CachedPagesMatch, IsCompleted

\* A page that an entry names is referenced, and one that the prefix cache does
\* not hold is named by that entry alone.
LEMMA EntriesAreReferenced ==
  ASSUME PagesInv, NEW r \in Request, NEW i \in DOMAIN table[r], table[r][i] # NoBlock
  PROVE  LET b == table[r][i]
         IN  /\ b \in Block /\ refs[b] # 0 /\ b \notin FreePages
             /\ ~pinned[b] => /\ refs[b] = 1
                              /\ EntriesIn(table[r], b) = {i}
                              /\ \A q \in Request, k \in Nat :
                                   (k \in DOMAIN table[q] /\ table[q][k] = b) => q = r /\ k = i
<1> DEFINE b == table[r][i]
<1>1. /\ TypeOK /\ RefsCountHolders /\ SharedEntriesArePinned /\ PagesConserved
  BY DEF PagesInv, ReservationInv
<1>2. /\ table \in [Request -> Seq(Block \cup {NoBlock})]
      /\ \A q \in Request : Len(table[q]) <= TotalBlocks
      /\ i \in Nat
  <2>1. table[r] \in Seq(Block \cup {NoBlock})
    BY <1>1 DEF TypeOK
  <2> QED BY <1>1, <2>1, LenProperties DEF TypeOK
<1>3. b \in Block
  BY <1>2, ElementOfSeq, LenProperties
<1> HIDE DEF b
<1>4. /\ IsFiniteSet(EntriesOf(table, b)) /\ Cardinality(EntriesOf(table, b)) \in Nat
      /\ \A q \in Request : \A k : <<q, k>> \in EntriesOf(table, b) <=> k \in EntriesIn(table[q], b)
      /\ EntriesOf(table, b) \subseteq Request \X Nat
  BY <1>2, <1>3, EntriesAndPages
<1>5. refs[b] = Cardinality(EntriesOf(table, b))
  BY <1>1, <1>3 DEF RefsCountHolders, Holders
<1>6. i \in EntriesIn(table[r], b)
  BY DEF EntriesIn, b
<1>7. refs[b] # 0
  <2>1. EntriesOf(table, b) # {}
    BY <1>4, <1>6
  <2> QED BY <1>4, <1>5, <2>1, FS_EmptySet
<1>8. b \notin FreePages
  <2>1. refs[b] > 0
    BY <1>1, <1>3, <1>7 DEF TypeOK
  <2> QED BY <1>1, <1>3, <2>1 DEF PagesConserved, AllocatedBlocks, ActiveBlocks
<1>9. ASSUME ~pinned[b], NEW q \in Request, NEW k \in DOMAIN table[q], table[q][k] = b
      PROVE  q = r /\ k = i
  BY <1>1, <1>3, <1>9 DEF SharedEntriesArePinned, b, Block, NoBlock
<1>10. ASSUME ~pinned[b]
       PROVE  refs[b] = 1 /\ EntriesIn(table[r], b) = {i}
  <2>1. EntriesIn(table[r], b) = {i}
    BY <1>6, <1>9, <1>10 DEF EntriesIn
  <2>2. EntriesOf(table, b) = {<<r, i>>}
    <3>1. ASSUME NEW q \in Request, NEW k \in Nat, <<q, k>> \in EntriesOf(table, b)
          PROVE  q = r /\ k = i
      <4>1. k \in EntriesIn(table[q], b)
        BY <1>4, <3>1
      <4> QED BY <1>9, <1>10, <4>1 DEF EntriesIn
    <3> QED BY <1>4, <1>6, <3>1
  <2> QED BY <1>5, <2>1, <2>2, FS_Singleton
<1> QED BY <1>3, <1>7, <1>8, <1>9, <1>10 DEF b

\* What PagesInv says of a page.
LEMMA FreeIsUnallocated ==
  ASSUME TypeOK, PagesConserved
  PROVE  /\ Distinct(free)
         /\ \A b \in Block : b \in FreePages <=> refs[b] = 0 /\ ~pinned[b]
         /\ FreePages \subseteq Block
<1>1. \A b \in Block : refs[b] \in Nat
  BY DEF TypeOK
<1> QED BY <1>1 DEF PagesConserved, Distinct, FreePages, AllocatedBlocks, ActiveBlocks, CachedBlocks

\* The parts of PagesInv that an eviction alone could disturb, for the pages that
\* keep what the index says of them.
LEMMA EvictionKeepsIndex ==
  ASSUME TypeOK, IndexIsExact, NEW n \in Nat, NEW o \in Evictions(n),
         pinned' = PinnedAfter(o), cacheIndex' = IndexAfter(o)
  PROVE  /\ IndexIsExact'
         /\ \A h \in Contents : cacheIndex'[h] # NoBlock => cacheIndex'[h] = cacheIndex[h]
         /\ \A b \in Block : pinned'[b] <=> pinned[b] /\ b \notin EvictedBlocks(o)
         /\ \A b \in EvictedBlocks(o) : b \in Block /\ refs[b] = 0 /\ pinned[b]
<1>1. /\ \A b \in EvictedBlocks(o) :
           b \in Block /\ refs[b] = 0 /\ \E h \in Contents : cacheIndex[h] = b
      /\ \A b \in Block : PinnedAfter(o)[b] <=> pinned[b] /\ b \notin EvictedBlocks(o)
      /\ \A h \in Contents :
           IndexAfter(o)[h] = IF cacheIndex[h] \in EvictedBlocks(o) THEN NoBlock ELSE cacheIndex[h]
  BY EvictionPages
<1>2. \A b \in Block : b # NoBlock
  BY DEF Block, NoBlock
<1>3. IndexIsExact'
  <2>1. ASSUME NEW g \in Contents, NEW h \in Contents, cacheIndex'[g] = cacheIndex'[h],
               cacheIndex'[g] # NoBlock
        PROVE  g = h
    BY <1>1, <2>1 DEF IndexIsExact
  <2>2. ASSUME NEW b \in Block
        PROVE  pinned'[b] <=> \E h \in Contents : cacheIndex'[h] = b
    BY <1>1, <1>2 DEF IndexIsExact
  <2> QED BY <2>1, <2>2 DEF IndexIsExact
<1> QED BY <1>1, <1>3 DEF IndexIsExact

\* A step that leaves the pages alone conserves them.
LEMMA PagesUntouched ==
  ASSUME PagesInv, ReservationInv', CallsAreCompleted',
         UNCHANGED <<refs, table, pinned, cacheIndex, free, prompt, stored>>
  PROVE  PagesInv'
<1>1. PagesConserved' /\ RefsCountHolders'
  BY DEF PagesInv, PagesConserved, FreePages, AllocatedBlocks, ActiveBlocks, CachedBlocks,
         RefsCountHolders, Holders
<1>2. CachedPagesMatch'
  BY DEF PagesInv, CachedPagesMatch, CompletePromptBlocks
<1> QED
  BY <1>1, <1>2
  DEF PagesInv, IndexIsExact, SharedEntriesArePinned, PinnedEntriesAreCompleted, IsCompleted,
      CompletePromptBlocks

\* An ensure_capacity that fails only evicts.
LEMMA FailedEnsurePages ==
  ASSUME PagesInv, ReservationInv', CallsAreCompleted', NEW n \in Nat, FailedEnsure(n),
         UNCHANGED <<table, prompt, stored>>
  PROVE  PagesInv'
<1>1. /\ TypeOK /\ TypeOK' /\ PagesConserved /\ RefsCountHolders /\ CachedPagesMatch
      /\ IndexIsExact /\ SharedEntriesArePinned /\ PinnedEntriesAreCompleted
  BY DEF PagesInv, ReservationInv
<1>2. PICK o \in Evictions(n) :
        free' = FreeAfter(o) /\ pinned' = PinnedAfter(o) /\ cacheIndex' = IndexAfter(o)
  BY DEF FailedEnsure
<1>3. refs' = refs
  BY DEF FailedEnsure
<1>4. /\ IndexIsExact'
      /\ \A h \in Contents : cacheIndex'[h] # NoBlock => cacheIndex'[h] = cacheIndex[h]
      /\ \A b \in Block : pinned'[b] <=> pinned[b] /\ b \notin EvictedBlocks(o)
      /\ \A b \in EvictedBlocks(o) : b \in Block /\ refs[b] = 0 /\ pinned[b]
  BY <1>1, <1>2, EvictionKeepsIndex
<1>5. Distinct(FreeAfter(o)) /\ PagesOf(FreeAfter(o)) = FreePages \cup EvictedBlocks(o)
  BY <1>1, EvictionPages
<1>6. /\ \A b \in Block : b \in FreePages <=> refs[b] = 0 /\ ~pinned[b]
      /\ FreePages \subseteq Block
  BY <1>1, FreeIsUnallocated
<1>7. PagesConserved'
  <2>1. FreePages' = FreePages \cup EvictedBlocks(o)
    BY <1>2, <1>5 DEF FreePages, PagesOf
  <2>2. \A b \in Block : refs[b] \in Nat
    BY <1>1 DEF TypeOK
  <2>3. FreePages' = Block \ AllocatedBlocks'
    BY <1>3, <1>4, <1>6, <2>1, <2>2 DEF AllocatedBlocks, ActiveBlocks, CachedBlocks
  <2>4. \A i, j \in DOMAIN free' : free'[i] = free'[j] => i = j
    BY <1>2, <1>5 DEF Distinct
  <2> QED BY <2>3, <2>4 DEF PagesConserved
<1>8. RefsCountHolders'
  BY <1>1, <1>3 DEF RefsCountHolders, Holders
<1>9. CachedPagesMatch'
  BY <1>1, <1>4 DEF CachedPagesMatch, CompletePromptBlocks
<1>10. SharedEntriesArePinned'
  <2> SUFFICES ASSUME NEW q \in Request, NEW r \in Request,
                      NEW i \in DOMAIN table[q], NEW k \in DOMAIN table[r],
                      table[q][i] = table[r][k], table[q][i] # NoBlock, ~(q = r /\ i = k)
               PROVE  pinned'[table[q][i]]
    BY DEF SharedEntriesArePinned
  <2>1. table[q][i] \in Block /\ refs[table[q][i]] # 0
    BY EntriesAreReferenced
  <2> QED BY <1>1, <1>4, <2>1 DEF SharedEntriesArePinned
<1>11. PinnedEntriesAreCompleted'
  <2> SUFFICES ASSUME NEW r \in Request, NEW i \in DOMAIN table[r], table[r][i] # NoBlock,
                      pinned'[table[r][i]]
               PROVE  IsCompleted(r, i)'
    BY DEF PinnedEntriesAreCompleted
  <2>1. table[r][i] \in Block
    BY EntriesAreReferenced
  <2>2. IsCompleted(r, i)
    BY <1>1, <1>4, <2>1 DEF PinnedEntriesAreCompleted
  <2> QED BY <2>2 DEF IsCompleted, CompletePromptBlocks
<1> QED BY <1>4, <1>7, <1>8, <1>9, <1>10, <1>11 DEF PagesInv

\* An admission references the pages that hit before anybody can take them,
\* because none of them was evicted to make room for the others.
LEMMA AdmitKeepsPages ==
  ASSUME PagesInv, ReservationInv', CallsAreCompleted', EvictsUnreferenced, NEW r \in Request,
         NEW hits \in 0 .. CompletePromptBlocks(r), Admit(r, hits)
  PROVE  PagesInv'
<1>1. /\ TypeOK /\ TypeOK' /\ PagesConserved /\ RefsCountHolders /\ CachedPagesMatch
      /\ IndexIsExact /\ SharedEntriesArePinned /\ PinnedEntriesAreCompleted /\ ReservationInv
  BY DEF PagesInv, ReservationInv
<1> DEFINE entries == table'[r]
<1>2. /\ PromptBlocks(r) - hits \in Nat /\ hits \in Nat /\ hits <= CompletePromptBlocks(r)
      /\ table \in [Request -> Seq(Block \cup {NoBlock})]
      /\ table[r] = <<>> /\ Len(table[r]) <= TotalBlocks
      /\ table' = [table EXCEPT ![r] = entries]
      /\ entries \in Seq(Block \cup {NoBlock}) /\ Len(entries) <= TotalBlocks
      /\ \A i \in 1 .. hits :
           /\ entries[i] \in Block /\ pinned[entries[i]]
           /\ BlockContent(prompt[r], i) \in Contents
           /\ cacheIndex[BlockContent(prompt[r], i)] = entries[i]
      /\ \A i \in DOMAIN entries : i \notin 1 .. hits => entries[i] = NoBlock
      /\ \A b \in Block : refs'[b] = refs[b] + Cardinality(EntriesIn(entries, b))
      /\ stored' = [stored EXCEPT ![r] = hits * BlockTokens]
      /\ prompt' = prompt
  BY <1>1, AdmitPages
<1>3. PICK o \in Evictions(PromptBlocks(r) - hits) :
        free' = FreeAfter(o) /\ pinned' = PinnedAfter(o) /\ cacheIndex' = IndexAfter(o)
  BY <1>1, AdmitPages
<1>4. /\ IndexIsExact'
      /\ \A h \in Contents : cacheIndex'[h] # NoBlock => cacheIndex'[h] = cacheIndex[h]
      /\ \A b \in Block : pinned'[b] <=> pinned[b] /\ b \notin EvictedBlocks(o)
      /\ \A b \in EvictedBlocks(o) : b \in Block /\ refs[b] = 0 /\ pinned[b]
  BY <1>1, <1>2, <1>3, EvictionKeepsIndex
<1>5. Distinct(FreeAfter(o)) /\ FreePages' = FreePages \cup EvictedBlocks(o)
  <2>1. Distinct(FreeAfter(o)) /\ PagesOf(FreeAfter(o)) = FreePages \cup EvictedBlocks(o)
    BY <1>1, <1>2, EvictionPages
  <2> QED BY <1>3, <2>1 DEF FreePages, PagesOf
<1>6. /\ \A b \in Block : b \in FreePages <=> refs[b] = 0 /\ ~pinned[b]
      /\ FreePages \subseteq Block
  BY <1>1, FreeIsUnallocated
<1>7. /\ \A q \in Request : q # r => table'[q] = table[q] /\ stored'[q] = stored[q]
      /\ stored'[r] = hits * BlockTokens /\ DOMAIN entries = 1 .. Len(entries)
      /\ \A q \in Request : q # r => stored'[q] = stored[q]
  BY <1>1, <1>2, LenProperties DEF TypeOK
<1> HIDE DEF entries
<1>8. table'[r] = entries
  BY DEF entries
<1>9. ASSUME NEW b \in Block
      PROVE  /\ refs[b] \in Nat /\ Cardinality(EntriesIn(entries, b)) \in Nat
             /\ Cardinality(EntriesIn(entries, b)) = 0 <=> EntriesIn(entries, b) = {}
             /\ refs'[b] = refs[b] + Cardinality(EntriesIn(entries, b))
  <2>1. IsFiniteSet(1 .. Len(entries)) /\ EntriesIn(entries, b) \subseteq 1 .. Len(entries)
    BY <1>2, <1>7, FS_Interval, LenProperties DEF EntriesIn
  <2>2. IsFiniteSet(EntriesIn(entries, b))
    BY <2>1, FS_Subset
  <2> QED BY <1>1, <1>2, <2>2, FS_CardinalityType, FS_EmptySet DEF TypeOK
<1>10. ASSUME NEW b \in EvictedBlocks(o) PROVE refs'[b] = 0
  BY <1>4, <1>5 DEF EvictsUnreferenced
<1>11. ASSUME NEW b \in Block, EntriesIn(entries, b) # {}
       PROVE  pinned[b] /\ b \notin EvictedBlocks(o) /\ pinned'[b]
  <2>1. PICK i \in DOMAIN entries : entries[i] = b
    BY <1>11 DEF EntriesIn
  <2>2. pinned[b]
    <3>1. b # NoBlock
      BY DEF Block, NoBlock
    <3>2. i \in 1 .. hits
      BY <1>2, <2>1, <3>1
    <3> QED BY <1>2, <2>1, <3>2
  <2>3. refs'[b] # 0
    BY <1>9, <1>11
  <2> QED BY <1>4, <1>10, <2>2, <2>3
<1>12. PagesConserved'
  <2>1. ASSUME NEW b \in Block
        PROVE  b \in FreePages' <=> refs'[b] = 0 /\ ~pinned'[b]
    <3>1. CASE b \in EvictedBlocks(o)
      BY <1>4, <1>5, <1>10, <3>1
    <3>2. CASE b \notin EvictedBlocks(o) /\ EntriesIn(entries, b) = {}
      BY <1>4, <1>5, <1>6, <1>9, <3>2
    <3>3. CASE EntriesIn(entries, b) # {}
      BY <1>4, <1>5, <1>6, <1>9, <1>11, <3>3
    <3> QED BY <3>1, <3>2, <3>3
  <2>2. \A b \in Block : refs'[b] \in Nat
    BY <1>1 DEF TypeOK
  <2>3. FreePages' \subseteq Block
    BY <1>4, <1>5, <1>6
  <2>4. FreePages' = Block \ AllocatedBlocks'
    BY <2>1, <2>2, <2>3 DEF AllocatedBlocks, ActiveBlocks, CachedBlocks
  <2>5. \A i, j \in DOMAIN free' : free'[i] = free'[j] => i = j
    BY <1>3, <1>5 DEF Distinct
  <2> QED BY <2>4, <2>5 DEF PagesConserved
<1>13. RefsCountHolders'
  <2> SUFFICES ASSUME NEW b \in Block PROVE refs'[b] = Cardinality(EntriesOf(table', b))
    BY DEF RefsCountHolders, Holders
  <2>1. EntriesIn(table[r], b) = {}
    BY <1>2 DEF EntriesIn
  <2>2. Cardinality(EntriesIn(table[r], b)) = 0
    BY <2>1, FS_EmptySet
  <2>3. /\ Cardinality(EntriesOf([table EXCEPT ![r] = entries], b)) =
             Cardinality(EntriesOf(table, b)) - Cardinality(EntriesIn(table[r], b))
               + Cardinality(EntriesIn(entries, b))
        /\ Cardinality(EntriesOf(table, b)) \in Nat
    <3>1. /\ table \in [Request -> Seq(Block \cup {NoBlock})] /\ Len(table[r]) <= TotalBlocks
          /\ entries \in Seq(Block \cup {NoBlock}) /\ Len(entries) <= TotalBlocks
      BY <1>2
    <3> QED BY ONLY <3>1, r \in Request, EntriesUpdate
  <2>4. refs[b] = Cardinality(EntriesOf(table, b))
    BY <1>1 DEF RefsCountHolders, Holders
  <2> QED BY <1>2, <1>9, <2>2, <2>3, <2>4
<1>14. CachedPagesMatch'
  <2> SUFFICES ASSUME NEW h \in Contents, NEW q \in Request,
                      NEW i \in 1 .. Least(Len(table'[q]), CompletePromptBlocks(q)),
                      cacheIndex'[h] # NoBlock, cacheIndex'[h] = table'[q][i],
                      i * BlockTokens <= stored'[q]
               PROVE  BlockContent(prompt[q], i) = h
    BY <1>2 DEF CachedPagesMatch, CompletePromptBlocks
  <2>1. CASE q # r
    BY <1>1, <1>4, <1>7, <2>1 DEF CachedPagesMatch
  <2>2. CASE q = r
    <3>1. i \in DOMAIN entries
      <4>1. Len(entries) \in Nat /\ CompletePromptBlocks(r) \in Nat
        BY <1>1, <1>2, LenProperties, BlockCounts
      <4> QED BY <1>7, <1>8, <2>2, <4>1 DEF Least
    <3>2. i \in 1 .. hits
      BY <1>2, <1>8, <2>2, <3>1
    <3> QED BY <1>1, <1>2, <1>4, <1>8, <2>2, <3>2 DEF IndexIsExact
  <2> QED BY <2>1, <2>2
<1>15. SharedEntriesArePinned'
  <2> SUFFICES ASSUME NEW p \in Request, NEW q \in Request,
                      NEW i \in DOMAIN table'[p], NEW k \in DOMAIN table'[q],
                      table'[p][i] = table'[q][k], table'[p][i] # NoBlock, ~(p = q /\ i = k)
               PROVE  pinned'[table'[p][i]]
    BY DEF SharedEntriesArePinned
  <2>1. ASSUME NEW j \in DOMAIN entries, entries[j] # NoBlock
        PROVE  pinned'[entries[j]]
    <3>1. entries[j] \in Block
      BY <1>2, <2>1
    <3>2. EntriesIn(entries, entries[j]) # {}
      BY DEF EntriesIn
    <3> QED BY <1>11, <3>1, <3>2
  <2>2. CASE p = r
    BY <1>8, <2>1, <2>2
  <2>3. CASE q = r
    BY <1>8, <2>1, <2>3
  <2>4. CASE p # r /\ q # r
    <3>1. table'[p] = table[p] /\ table'[q] = table[q]
      BY <1>7, <2>4
    <3>2. table[p][i] \in Block /\ refs[table[p][i]] # 0
      BY <3>1, EntriesAreReferenced
    <3>3. pinned[table[p][i]]
      BY <1>1, <3>1 DEF SharedEntriesArePinned
    <3> QED BY <1>4, <3>1, <3>2, <3>3
  <2> QED BY <2>2, <2>3, <2>4
<1>16. PinnedEntriesAreCompleted'
  <2> SUFFICES ASSUME NEW q \in Request, NEW i \in DOMAIN table'[q], table'[q][i] # NoBlock,
                      pinned'[table'[q][i]]
               PROVE  i <= CompletePromptBlocks(q) /\ i * BlockTokens <= stored'[q]
    BY <1>2 DEF PinnedEntriesAreCompleted, IsCompleted, CompletePromptBlocks
  <2>1. CASE q # r
    <3>1. table'[q] = table[q] /\ stored'[q] = stored[q]
      BY <1>7, <2>1
    <3>2. table[q][i] \in Block
      BY <3>1, EntriesAreReferenced
    <3> QED BY <1>1, <1>4, <3>1, <3>2 DEF PinnedEntriesAreCompleted, IsCompleted
  <2>2. CASE q = r
    <3>1. i \in 1 .. hits
      BY <1>2, <1>8, <2>2
    <3>2. i \in Int /\ i <= hits /\ hits \in Int /\ CompletePromptBlocks(r) \in Nat
      BY <1>1, <1>2, <3>1, BlockCounts
    <3>3. BlockTokens * i <= BlockTokens * hits
      BY <3>2, SizesAssumption, TimesMonotonic
    <3>4. i * BlockTokens <= hits * BlockTokens
      <4>1. i * BlockTokens = BlockTokens * i /\ hits * BlockTokens = BlockTokens * hits
        BY <3>2, SizesAssumption
      <4> QED BY <3>3, <4>1
    <3> QED BY <1>2, <1>7, <2>2, <3>2, <3>4
  <2> QED BY <2>1, <2>2
<1> QED BY <1>4, <1>12, <1>13, <1>14, <1>15, <1>16 DEF PagesInv

\* An append only takes pages that were free or that nobody referenced, each for
\* one entry, and completes blocks of which none can be in the index yet.
LEMMA AppendKeepsPages ==
  ASSUME PagesInv, ReservationInv', CallsAreCompleted', NEW r \in Request, HasShape(r),
         NEW n \in Nat \ {0}, AppendTokens(r, n)
  PROVE  PagesInv'
<1>1. /\ TypeOK /\ TypeOK' /\ PagesConserved /\ RefsCountHolders /\ CachedPagesMatch
      /\ IndexIsExact /\ SharedEntriesArePinned /\ PinnedEntriesAreCompleted /\ ReservationInv
  BY DEF PagesInv, ReservationInv
<1> DEFINE full    == CeilDiv(stored[r], BlockTokens)
           need    == NeededBlocks(r, n)
           missing == full + 1 .. need
           taken   == {table'[r][i] : i \in missing}
           after   == table'[r]
<1>2. PICK o \in Evictions(GrowthBlocks(r, n)) :
        /\ pinned' = PinnedAfter(o) /\ cacheIndex' = IndexAfter(o)
        /\ GrowthBlocks(r, n) \in Nat
        /\ refs' = [b \in Block |-> IF b \in taken THEN 1 ELSE refs[b]]
        /\ table \in [Request -> Seq(Block \cup {NoBlock})]
        /\ table' = [table EXCEPT ![r] = after]
        /\ PagesOf(FreeAfter(o)) = FreePages' \cup taken
        /\ Distinct(FreeAfter(o)) =>
             /\ Distinct(free') /\ FreePages' \cap taken = {}
             /\ \A i, k \in missing : after[i] = after[k] => i = k
        /\ taken \subseteq Block
        /\ missing \subseteq DOMAIN after
        /\ \A i \in DOMAIN table[r] : i \in DOMAIN after
        /\ \A i \in DOMAIN table[r] : i \in missing => table[r][i] = NoBlock
        /\ \A i \in DOMAIN table[r] : i \notin missing => after[i] = table[r][i]
        /\ \A i \in DOMAIN after : i \in missing \/ i \in DOMAIN table[r]
  BY <1>1, AppendPages
<1>3. /\ IndexIsExact'
      /\ \A h \in Contents : cacheIndex'[h] # NoBlock => cacheIndex'[h] = cacheIndex[h]
      /\ \A b \in Block : pinned'[b] <=> pinned[b] /\ b \notin EvictedBlocks(o)
      /\ \A b \in EvictedBlocks(o) : b \in Block /\ refs[b] = 0 /\ pinned[b]
  BY <1>1, <1>2, EvictionKeepsIndex
<1>4. Distinct(FreeAfter(o)) /\ PagesOf(FreeAfter(o)) = FreePages \cup EvictedBlocks(o)
  BY <1>1, <1>2, EvictionPages
<1>5. /\ \A b \in Block : b \in FreePages <=> refs[b] = 0 /\ ~pinned[b]
      /\ FreePages \subseteq Block
  BY <1>1, FreeIsUnallocated
<1>6. \A b \in taken : b \in Block /\ refs[b] = 0 /\ ~pinned'[b]
  BY <1>2, <1>3, <1>4, <1>5
<1>7. \A i \in missing : after[i] \in taken
  OBVIOUS
<1>8. /\ prompt' = prompt /\ stored' = [stored EXCEPT ![r] = @ + n]
      /\ stored'[r] = stored[r] + n /\ stored[r] \in Nat
      /\ \A q \in Request : q # r => table'[q] = table[q] /\ stored'[q] = stored[q]
  BY <1>1, <1>2 DEF AppendTokens, TypeOK
<1> HIDE DEF full, need, missing, taken, after
<1>9. table'[r] = after
  BY DEF after
\* An entry that names a page after the step is one that took it or an old one.
<1>10. ASSUME NEW q \in Request, NEW i \in DOMAIN table'[q], table'[q][i] # NoBlock
       PROVE  \/ q = r /\ i \in missing /\ table'[q][i] \in taken
              \/ /\ i \in DOMAIN table[q] /\ table'[q][i] = table[q][i]
                 /\ table[q][i] \in Block /\ refs[table[q][i]] # 0
                 /\ table[q][i] \notin taken
  <2>1. CASE q = r /\ i \in missing
    BY <1>7, <1>9, <2>1
  <2>2. CASE ~(q = r /\ i \in missing)
    <3>1. i \in DOMAIN table[q] /\ table'[q][i] = table[q][i]
      BY <1>2, <1>8, <1>9, <1>10, <2>2
    <3>2. table[q][i] \in Block /\ refs[table[q][i]] # 0
      BY <1>10, <3>1, EntriesAreReferenced
    <3> QED BY <1>6, <3>1, <3>2
  <2> QED BY <2>1, <2>2
<1>11. PagesConserved'
  <2>1. ASSUME NEW b \in Block
        PROVE  b \in FreePages' <=> refs'[b] = 0 /\ ~pinned'[b]
    <3>1. CASE b \in taken
      BY <1>2, <1>4, <3>1
    <3>2. CASE b \notin taken
      BY <1>2, <1>3, <1>4, <1>5, <3>2
    <3> QED BY <3>1, <3>2
  <2>2. \A b \in Block : refs'[b] \in Nat
    BY <1>1 DEF TypeOK
  <2>3. FreePages' \subseteq Block
    BY <1>2, <1>3, <1>4, <1>5
  <2>4. FreePages' = Block \ AllocatedBlocks'
    BY <2>1, <2>2, <2>3 DEF AllocatedBlocks, ActiveBlocks, CachedBlocks
  <2>5. \A i, j \in DOMAIN free' : free'[i] = free'[j] => i = j
    BY <1>2, <1>4 DEF Distinct
  <2> QED BY <2>4, <2>5 DEF PagesConserved
<1>12. RefsCountHolders'
  <2> SUFFICES ASSUME NEW b \in Block PROVE refs'[b] = Cardinality(EntriesOf(table', b))
    BY DEF RefsCountHolders, Holders
  <2>0. b # NoBlock
    BY DEF Block, NoBlock
  <2>1. /\ table' \in [Request -> Seq(Block \cup {NoBlock})]
        /\ \A q \in Request : Len(table'[q]) <= TotalBlocks
        /\ \A q \in Request : Len(table[q]) <= TotalBlocks
    BY <1>1 DEF TypeOK
  <2>2. /\ \A q \in Request : \A i : <<q, i>> \in EntriesOf(table, b) <=> i \in EntriesIn(table[q], b)
        /\ EntriesOf(table, b) \subseteq Request \X Nat
    BY <1>2, <2>1, EntriesAndPages
  <2>3. /\ \A q \in Request : \A i : <<q, i>> \in EntriesOf(table', b) <=> i \in EntriesIn(table'[q], b)
        /\ EntriesOf(table', b) \subseteq Request \X Nat
    BY <2>1, EntriesAndPages
  <2>4. CASE b \in taken
    <3>1. PICK i \in missing : after[i] = b
      BY <2>4 DEF taken, after
    <3>2. i \in EntriesIn(table'[r], b)
      BY <1>2, <1>9, <3>1 DEF EntriesIn
    <3>3. ASSUME NEW q \in Request, NEW k \in EntriesIn(table'[q], b)
          PROVE  q = r /\ k = i
      <4>1. k \in DOMAIN table'[q] /\ table'[q][k] = b
        BY DEF EntriesIn
      <4>2. q = r /\ k \in missing
        BY <1>10, <2>0, <2>4, <4>1
      <4> QED BY <1>2, <1>4, <1>9, <3>1, <4>1, <4>2
    <3>4. EntriesOf(table', b) = {<<r, i>>}
      BY <2>3, <3>2, <3>3
    <3> QED BY <1>2, <2>4, <3>4, FS_Singleton
  <2>5. CASE b \notin taken
    <3>1. ASSUME NEW q \in Request
          PROVE  EntriesIn(table'[q], b) = EntriesIn(table[q], b)
      <4>1. EntriesIn(table'[q], b) \subseteq EntriesIn(table[q], b)
        BY <1>10, <2>0, <2>5 DEF EntriesIn
      <4>2. EntriesIn(table[q], b) \subseteq EntriesIn(table'[q], b)
        BY <1>2, <1>8, <1>9, <2>0 DEF EntriesIn
      <4> QED BY <4>1, <4>2
    <3>2. EntriesOf(table', b) = EntriesOf(table, b)
      <4>1. \A q \in Request, i \in Nat :
              <<q, i>> \in EntriesOf(table', b) <=> <<q, i>> \in EntriesOf(table, b)
        BY <2>2, <2>3, <3>1
      <4> QED BY <2>2, <2>3, <4>1
    <3> QED BY <1>1, <1>2, <2>5, <3>2 DEF RefsCountHolders, Holders
  <2> QED BY <2>4, <2>5
<1>13. SharedEntriesArePinned'
  <2> SUFFICES ASSUME NEW p \in Request, NEW q \in Request,
                      NEW i \in DOMAIN table'[p], NEW k \in DOMAIN table'[q],
                      table'[p][i] = table'[q][k], table'[p][i] # NoBlock, ~(p = q /\ i = k)
               PROVE  pinned'[table'[p][i]]
    BY DEF SharedEntriesArePinned
  <2>1. table'[p][i] \notin taken
    <3>1. SUFFICES ASSUME table'[p][i] \in taken PROVE FALSE
      OBVIOUS
    <3>2. p = r /\ q = r /\ i \in missing /\ k \in missing
      BY <1>10, <3>1
    <3> QED BY <1>2, <1>4, <1>9, <3>2
  <2>2. /\ i \in DOMAIN table[p] /\ table'[p][i] = table[p][i]
        /\ table[p][i] \in Block /\ refs[table[p][i]] # 0
        /\ k \in DOMAIN table[q] /\ table'[q][k] = table[q][k]
    BY <1>10, <2>1
  <2>3. pinned[table[p][i]]
    BY <1>1, <2>2 DEF SharedEntriesArePinned
  <2> QED BY <1>3, <2>2, <2>3
<1>14. ASSUME NEW q \in Request, NEW i, IsCompleted(q, i), i \in Int
       PROVE  IsCompleted(q, i)'
  <2>1. i * BlockTokens \in Int
    BY <1>14, SizesAssumption
  <2>2. i * BlockTokens <= stored'[q]
    BY <1>8, <1>14, <2>1 DEF IsCompleted
  <2> QED BY <1>8, <1>14, <2>2 DEF IsCompleted, CompletePromptBlocks
<1>15. ASSUME NEW q \in Request, NEW i \in DOMAIN table[q] PROVE i \in Int
  BY <1>2, <1>15, LenProperties
<1>16. PinnedEntriesAreCompleted'
  <2> SUFFICES ASSUME NEW q \in Request, NEW i \in DOMAIN table'[q], table'[q][i] # NoBlock,
                      pinned'[table'[q][i]]
               PROVE  IsCompleted(q, i)'
    BY DEF PinnedEntriesAreCompleted
  <2>1. i \in DOMAIN table[q] /\ table'[q][i] = table[q][i] /\ table[q][i] \in Block
    BY <1>6, <1>10
  <2>2. IsCompleted(q, i)
    BY <1>1, <1>3, <2>1 DEF PinnedEntriesAreCompleted
  <2> QED BY <1>14, <1>15, <2>1, <2>2
<1>17. CachedPagesMatch'
  <2> SUFFICES ASSUME NEW h \in Contents, NEW q \in Request,
                      NEW i \in 1 .. Least(Len(table'[q]), CompletePromptBlocks(q)),
                      cacheIndex'[h] # NoBlock, cacheIndex'[h] = table'[q][i]
               PROVE  BlockContent(prompt[q], i) = h
    BY <1>8 DEF CachedPagesMatch, CompletePromptBlocks
  <2>1. i \in DOMAIN table'[q]
    <3>1. table'[q] \in Seq(Block \cup {NoBlock})
      BY <1>1 DEF TypeOK
    <3>2. Len(table'[q]) \in Nat /\ DOMAIN table'[q] = 1 .. Len(table'[q])
      BY <3>1, LenProperties
    <3>3. CompletePromptBlocks(q) \in Nat
      BY <1>1, BlockCounts
    <3> QED BY <3>2, <3>3 DEF Least
  <2>2. cacheIndex'[h] \in Block /\ pinned'[cacheIndex'[h]]
    <3>1. cacheIndex'[h] \in Block
      BY <1>1 DEF TypeOK
    <3> QED BY <1>3, <3>1 DEF IndexIsExact
  <2>3. i \in DOMAIN table[q] /\ table'[q][i] = table[q][i]
    BY <1>6, <1>10, <2>1, <2>2
  <2>4. cacheIndex[h] = table[q][i] /\ cacheIndex[h] # NoBlock /\ pinned[table[q][i]]
    BY <1>3, <2>2, <2>3
  <2>5. IsCompleted(q, i)
    BY <1>1, <2>3, <2>4 DEF PinnedEntriesAreCompleted
  <2> QED BY <1>1, <2>3, <2>4, <2>5, MatchesByEntry
<1> QED BY <1>3, <1>11, <1>12, <1>13, <1>16, <1>17 DEF PagesInv

\* A block enters the index with the content that the prompt has at its place:
\* its page is not there yet, since no other content can be in it.
LEMMA CacheInsertKeepsPages ==
  ASSUME PagesInv, ReservationInv', CallsAreCompleted', CacheInsert
  PROVE  PagesInv'
<1>1. /\ TypeOK /\ TypeOK' /\ PagesConserved /\ RefsCountHolders /\ CachedPagesMatch
      /\ IndexIsExact /\ SharedEntriesArePinned /\ PinnedEntriesAreCompleted /\ ReservationInv
      /\ CallsAreCompleted
  BY DEF PagesInv, ReservationInv
<1>2. PICK r \in Request, i \in Nat \ {0} :
        /\ r = Head(calls).request /\ i = Head(calls).block
        /\ IsCompleted(r, i)
        /\ BlockContent(prompt[r], i) \in Contents
        /\ i \in DOMAIN table[r] /\ table[r][i] \in Block
  BY <1>1, OfferedBlock DEF CacheInsert
<1> DEFINE h == BlockContent(prompt[r], i)
           b == table[r][i]
<1>3. /\ cacheIndex[h] = NoBlock
      /\ pinned' = [pinned EXCEPT ![b] = TRUE]
      /\ cacheIndex' = [cacheIndex EXCEPT ![h] = b]
      /\ UNCHANGED <<free, refs, table, prompt, stored>>
  BY <1>2 DEF CacheInsert, requestVars
<1>4. h \in Contents /\ b \in Block /\ b # NoBlock
  BY <1>2 DEF Block, NoBlock
<1>5. ~pinned[b] /\ \A g \in Contents : cacheIndex[g] # b
  <2>1. \A g \in Contents : cacheIndex[g] # b
    BY <1>1, <1>2, <1>3, <1>4, MatchesByEntry
  <2> QED BY <1>1, <1>4, <2>1 DEF IndexIsExact
<1>6. \A q \in Request : \A k \in DOMAIN table[q] : table[q][k] = b => q = r /\ k = i
  BY <1>1, <1>2, <1>4, <1>5 DEF SharedEntriesArePinned
<1>7. refs[b] # 0 /\ b \notin FreePages
  BY <1>2, <1>4, EntriesAreReferenced
<1>8. \A q \in Request : \A k \in DOMAIN table[q] : table[q][k] # NoBlock => table[q][k] \in Block
  BY EntriesAreReferenced
<1>9. IsCompleted(r, i)' /\ \A q \in Request : \A k : IsCompleted(q, k)' <=> IsCompleted(q, k)
  BY <1>2, <1>3 DEF IsCompleted, CompletePromptBlocks
<1> HIDE DEF b
<1>10. /\ \A c \in Block : pinned'[c] <=> pinned[c] \/ c = b
       /\ cacheIndex'[h] = b
       /\ \A g \in Contents : g # h => cacheIndex'[g] = cacheIndex[g]
  BY <1>1, <1>3, <1>4 DEF TypeOK
<1>11. h = BlockContent(prompt[r], i) /\ table[r][i] = b
  BY DEF b
<1> HIDE DEF h
<1>12. PagesConserved'
  <2>1. FreePages' = FreePages
    BY <1>3 DEF FreePages
  <2>2. ASSUME NEW c \in Block
        PROVE  c \in AllocatedBlocks' <=> c \in AllocatedBlocks
    BY <1>1, <1>3, <1>4, <1>7, <1>10, SMTT(30)
    DEF AllocatedBlocks, ActiveBlocks, CachedBlocks, TypeOK
  <2>3. FreePages' = Block \ AllocatedBlocks'
    BY <1>1, <2>1, <2>2 DEF PagesConserved
  <2> QED BY <1>1, <1>3, <2>3 DEF PagesConserved
<1>13. IndexIsExact'
  <2>1. ASSUME NEW f \in Contents, NEW g \in Contents, cacheIndex'[f] = cacheIndex'[g],
               cacheIndex'[f] # NoBlock
        PROVE  f = g
    BY <1>1, <1>5, <1>10, <2>1 DEF IndexIsExact
  <2>2. ASSUME NEW c \in Block
        PROVE  pinned'[c] <=> \E g \in Contents : cacheIndex'[g] = c
    <3>1. CASE c = b
      BY <1>4, <1>10, <3>1
    <3>2. CASE c # b
      <4>1. c # NoBlock
        BY DEF Block, NoBlock
      <4> QED BY <1>1, <1>3, <1>10, <3>2, <4>1 DEF IndexIsExact
    <3> QED BY <3>1, <3>2
  <2> QED BY <2>1, <2>2 DEF IndexIsExact
<1>14. CachedPagesMatch'
  <2> SUFFICES ASSUME NEW g \in Contents, NEW q \in Request, NEW k \in DOMAIN table[q],
                      cacheIndex'[g] # NoBlock, cacheIndex'[g] = table[q][k], IsCompleted(q, k)
               PROVE  BlockContent(prompt[q], k) = g
    <3>1. ASSUME NEW q \in Request,
                 NEW k \in 1 .. Least(Len(table[q]), CompletePromptBlocks(q)),
                 k * BlockTokens <= stored[q]
          PROVE  k \in DOMAIN table[q] /\ IsCompleted(q, k)
      <4>1. table[q] \in Seq(Block \cup {NoBlock})
        BY <1>1 DEF TypeOK
      <4>2. Len(table[q]) \in Nat /\ DOMAIN table[q] = 1 .. Len(table[q])
        BY <4>1, LenProperties
      <4>3. CompletePromptBlocks(q) \in Nat
        BY <1>1, BlockCounts
      <4> QED BY <3>1, <4>2, <4>3 DEF Least, IsCompleted
    <3> QED BY <1>3, <3>1 DEF CachedPagesMatch, CompletePromptBlocks
  <2>1. CASE g = h
    BY <1>6, <1>10, <1>11, <2>1
  <2>2. CASE g # h
    BY <1>1, <1>10, <2>2, MatchesByEntry
  <2> QED BY <2>1, <2>2
<1>15. SharedEntriesArePinned'
  BY <1>1, <1>3, <1>8, <1>10 DEF SharedEntriesArePinned
<1>16. PinnedEntriesAreCompleted'
  <2> SUFFICES ASSUME NEW q \in Request, NEW k \in DOMAIN table[q], table[q][k] # NoBlock,
                      pinned'[table[q][k]]
               PROVE  IsCompleted(q, k)
    BY <1>3, <1>9 DEF PinnedEntriesAreCompleted
  <2> QED BY <1>1, <1>2, <1>6, <1>8, <1>10 DEF PinnedEntriesAreCompleted
<1>17. RefsCountHolders'
  BY <1>1, <1>3 DEF RefsCountHolders, Holders
<1> QED BY <1>12, <1>13, <1>14, <1>15, <1>16, <1>17 DEF PagesInv

\* A release frees exactly the pages of its table that the prefix cache does not
\* hold: nobody else names them, so their only reference goes.
LEMMA ReleaseKeepsPages ==
  ASSUME PagesInv, ReservationInv', CallsAreCompleted', Release
  PROVE  PagesInv'
<1>1. /\ TypeOK /\ TypeOK' /\ PagesConserved /\ RefsCountHolders /\ CachedPagesMatch
      /\ IndexIsExact /\ SharedEntriesArePinned /\ PinnedEntriesAreCompleted /\ ReservationInv
  BY DEF PagesInv, ReservationInv
<1>2. PICK r \in Request :
           /\ table \in [Request -> Seq(Block \cup {NoBlock})] /\ Len(table[r]) <= TotalBlocks
           /\ table' = [table EXCEPT ![r] = <<>>]
           /\ FreePages' = FreePages \cup {table[r][i] : i \in FreedEntries(r)}
           /\ {table[r][i] : i \in FreedEntries(r)} \subseteq Block
           /\ FreedEntries(r) \subseteq DOMAIN table[r]
           /\ (/\ Distinct(free)
               /\ FreePages \cap {table[r][i] : i \in FreedEntries(r)} = {}
               /\ \A i, k \in FreedEntries(r) : table[r][i] = table[r][k] => i = k)
                 => Distinct(free')
           /\ \A b \in Block : refs'[b] = Monus(refs[b], Cardinality(EntriesIn(table[r], b)))
           /\ UNCHANGED <<pinned, cacheIndex, prompt, stored>>
  BY <1>1, ReleasePages
<1> DEFINE freed == {table[r][i] : i \in FreedEntries(r)}
<1>3. /\ \A q \in Request : q # r => table'[q] = table[q]
      /\ table'[r] = <<>>
      /\ <<>> \in Seq(Block \cup {NoBlock}) /\ Len(<<>>) <= TotalBlocks
      /\ refs \in [Block -> Nat]
  BY <1>1, <1>2, EmptySeq, SizesAssumption DEF TypeOK
<1>4. /\ Distinct(free)
      /\ \A b \in Block : b \in FreePages <=> refs[b] = 0 /\ ~pinned[b]
      /\ FreePages \subseteq Block
  BY <1>1, FreeIsUnallocated
<1>5. ASSUME NEW i \in FreedEntries(r)
      PROVE  /\ i \in DOMAIN table[r] /\ table[r][i] # NoBlock /\ ~pinned[table[r][i]]
             /\ table[r][i] \in Block /\ table[r][i] \notin FreePages /\ refs[table[r][i]] = 1
             /\ EntriesIn(table[r], table[r][i]) = {i}
  <2>1. i \in DOMAIN table[r] /\ table[r][i] # NoBlock /\ ~pinned[table[r][i]]
    BY <1>5 DEF FreedEntries
  <2> QED BY <2>1, EntriesAreReferenced
<1>6. ASSUME NEW b \in Block, EntriesIn(table[r], b) # {}, ~pinned[b]
      PROVE  b \in freed
  <2>1. PICK i \in EntriesIn(table[r], b) :
          Occurrences(r, b, i) = Cardinality(EntriesIn(table[r], b))
    BY <1>1, <1>6, OccurrencesAre
  <2>2. i \in DOMAIN table[r] /\ table[r][i] = b /\ b # NoBlock
    BY <2>1 DEF EntriesIn, Block, NoBlock
  <2>3. refs[b] = 1 /\ EntriesIn(table[r], b) = {i}
    BY <1>6, <2>2, EntriesAreReferenced
  <2>4. Occurrences(r, b, i) = 1
    BY <2>1, <2>3, FS_Singleton
  <2>5. i \in FreedEntries(r)
    BY <1>6, <2>2, <2>3, <2>4 DEF FreedEntries
  <2> QED BY <2>2, <2>5
<1>7. \A i, k \in FreedEntries(r) : table[r][i] = table[r][k] => i = k
  <2> SUFFICES ASSUME NEW i \in FreedEntries(r), NEW k \in FreedEntries(r),
                      table[r][i] = table[r][k]
               PROVE  i = k
    OBVIOUS
  <2>1. {i} = {k}
    BY <1>5
  <2> QED BY <2>1
<1>8. \A b \in freed : b \in Block /\ ~pinned[b] /\ b \notin FreePages /\ refs[b] = 1
                       /\ EntriesIn(table[r], b) # {}
  BY <1>5
<1>9. Distinct(free') /\ FreePages' = FreePages \cup freed
  BY <1>2, <1>4, <1>7, <1>8
<1> HIDE DEF freed
<1>10. ASSUME NEW b \in Block
       PROVE  /\ refs'[b] = Cardinality(EntriesOf(table', b))
              /\ refs[b] = Cardinality(EntriesIn(table[r], b)) + refs'[b]
              /\ Cardinality(EntriesIn(table[r], b)) \in Nat
              /\ refs'[b] \in Nat
              /\ Cardinality(EntriesIn(table[r], b)) = 0 <=> EntriesIn(table[r], b) = {}
  <2>1. EntriesIn(<<>>, b) = {}
    BY DEF EntriesIn
  <2>2. Cardinality(EntriesIn(<<>>, b)) = 0
    BY <2>1, FS_EmptySet
  <2>3. /\ Cardinality(EntriesOf([table EXCEPT ![r] = <<>>], b)) =
             Cardinality(EntriesOf(table, b)) - Cardinality(EntriesIn(table[r], b))
               + Cardinality(EntriesIn(<<>>, b))
        /\ Cardinality(EntriesOf(table, b)) \in Nat /\ Cardinality(EntriesIn(table[r], b)) \in Nat
        /\ Cardinality(EntriesIn(table[r], b)) <= Cardinality(EntriesOf(table, b))
    <3>1. /\ table \in [Request -> Seq(Block \cup {NoBlock})] /\ Len(table[r]) <= TotalBlocks
          /\ <<>> \in Seq(Block \cup {NoBlock}) /\ Len(<<>>) <= TotalBlocks
      BY <1>2, <1>3
    <3> QED BY ONLY <3>1, r \in Request, EntriesUpdate
  <2>4. refs[b] = Cardinality(EntriesOf(table, b)) /\ refs[b] \in Nat
    BY <1>1 DEF RefsCountHolders, Holders, TypeOK
  <2>5. Cardinality(EntriesOf(table', b)) =
          Cardinality(EntriesOf(table, b)) - Cardinality(EntriesIn(table[r], b))
    BY <1>2, <2>2, <2>3
  <2>6. IsFiniteSet(EntriesIn(table[r], b))
    <3>1. Len(table[r]) \in Nat /\ EntriesIn(table[r], b) \subseteq 1 .. Len(table[r])
      BY <1>2, LenProperties DEF EntriesIn
    <3>2. IsFiniteSet(1 .. Len(table[r]))
      BY <3>1, FS_Interval
    <3> QED BY <3>1, <3>2, FS_Subset
  <2>7. Cardinality(EntriesIn(table[r], b)) = 0 <=> EntriesIn(table[r], b) = {}
    BY <2>6, FS_EmptySet
  <2> QED BY <1>2, <2>3, <2>4, <2>5, <2>7 DEF Monus
<1>11. RefsCountHolders'
  BY <1>10 DEF RefsCountHolders, Holders
<1>12. PagesConserved'
  <2>1. ASSUME NEW b \in Block
        PROVE  b \in FreePages' <=> refs'[b] = 0 /\ ~pinned[b]
    <3>1. CASE b \in freed
      BY <1>8, <1>9, <1>10, <3>1
    <3>2. CASE b \notin freed
      BY <1>4, <1>6, <1>9, <1>10, <3>2
    <3> QED BY <3>1, <3>2
  <2>2. FreePages' \subseteq Block
    BY <1>4, <1>8, <1>9
  <2>3. FreePages' = Block \ AllocatedBlocks'
    BY <1>2, <1>10, <2>1, <2>2 DEF AllocatedBlocks, ActiveBlocks, CachedBlocks
  <2> QED BY <1>9, <2>3 DEF PagesConserved, Distinct
<1>13. IndexIsExact'
  BY <1>1, <1>2 DEF IndexIsExact
<1>14. CachedPagesMatch'
  <2>1. Len(table'[r]) = 0 /\ CompletePromptBlocks(r) \in Nat
    BY <1>1, <1>3, BlockCounts, EmptySeq
  <2>2. 1 .. Least(Len(table'[r]), CompletePromptBlocks(r)) = {}
    BY <2>1 DEF Least
  <2> SUFFICES ASSUME NEW h \in Contents, NEW q \in Request,
                      NEW i \in 1 .. Least(Len(table'[q]), CompletePromptBlocks(q)),
                      cacheIndex'[h] # NoBlock, cacheIndex'[h] = table'[q][i],
                      i * BlockTokens <= stored'[q]
               PROVE  BlockContent(prompt[q], i) = h
    BY <1>2 DEF CachedPagesMatch, CompletePromptBlocks
  <2>3. q # r /\ table'[q] = table[q]
    BY <1>3, <2>2
  <2> QED BY <1>1, <1>2, <2>3 DEF CachedPagesMatch
<1>15. DOMAIN table'[r] = {}
  BY <1>3
<1>16. SharedEntriesArePinned' /\ PinnedEntriesAreCompleted'
  BY <1>1, <1>2, <1>3, <1>15
  DEF SharedEntriesArePinned, PinnedEntriesAreCompleted, IsCompleted, CompletePromptBlocks
<1> QED BY <1>11, <1>12, <1>13, <1>14, <1>16 DEF PagesInv

\* The empty cache.
LEMMA InitPages == Init => PagesInv
<1> SUFFICES ASSUME Init PROVE PagesInv
  OBVIOUS
<1>1. ReservationInv /\ TypeOK
  BY InitReservation DEF ReservationInv
<1>2. \A r \in Request : table[r] = <<>> /\ DOMAIN table[r] = {}
  BY DEF Init
<1>3. PagesConserved
  <2>1. free = [i \in 1 .. TotalBlocks |-> TotalBlocks - i]
    BY DEF Init
  <2>2. \A i, j \in DOMAIN free : free[i] = free[j] => i = j
    <3>1. \A i, j \in 1 .. TotalBlocks : TotalBlocks - i = TotalBlocks - j => i = j
      BY SizesAssumption
    <3> QED BY <2>1, <3>1
  <2>3. \A b \in Block : b \in FreePages
    <3> SUFFICES ASSUME NEW b \in Block PROVE b \in FreePages
      OBVIOUS
    <3>1. TotalBlocks - b \in 1 .. TotalBlocks /\ TotalBlocks - (TotalBlocks - b) = b
      BY SizesAssumption DEF Block
    <3>2. TotalBlocks - b \in DOMAIN free /\ free[TotalBlocks - b] = b
      BY <2>1, <3>1
    <3> QED BY <3>2 DEF FreePages
  <2>4. FreePages \subseteq Block
    BY <1>1 DEF TypeOK, FreePages
  <2>5. AllocatedBlocks = {}
    BY DEF Init, AllocatedBlocks, ActiveBlocks, CachedBlocks
  <2> QED BY <2>2, <2>3, <2>4, <2>5 DEF PagesConserved
<1>4. RefsCountHolders
  <2> SUFFICES ASSUME NEW b \in Block PROVE refs[b] = Cardinality(EntriesOf(table, b))
    BY DEF RefsCountHolders, Holders
  <2>1. EntriesOf(table, b) = {}
    BY <1>2 DEF EntriesOf
  <2> QED BY <2>1, FS_EmptySet DEF Init
<1>5. \A h \in Contents : cacheIndex[h] = NoBlock
  BY DEF Init
<1>6. CachedPagesMatch
  BY <1>5 DEF CachedPagesMatch
<1>7. IndexIsExact
  BY <1>5 DEF Init, IndexIsExact, Block, NoBlock
<1>8. SharedEntriesArePinned /\ PinnedEntriesAreCompleted
  BY <1>2 DEF SharedEntriesArePinned, PinnedEntriesAreCompleted
<1>9. CallsAreCompleted
  BY DEF Init, CallsAreCompleted
<1> QED BY <1>1, <1>3, <1>4, <1>6, <1>7, <1>8, <1>9 DEF PagesInv

\* PagesInv is preserved by every step that evicts no page it then references.
LEMMA NextPages == PagesInv /\ [Next]_vars /\ [EvictsUnreferenced]_vars => PagesInv'
<1> SUFFICES ASSUME PagesInv, [Next]_vars, [EvictsUnreferenced]_vars PROVE PagesInv'
  OBVIOUS
<1>1. ReservationInv /\ TypeOK /\ TablesInShape /\ CallsAreCompleted
  BY DEF PagesInv, ReservationInv
<1>2. ReservationInv' /\ CallsAreCompleted'
  BY <1>1, NextReservation, NextCompleted
<1>3. ASSUME UNCHANGED <<refs, table, pinned, cacheIndex, free, prompt, stored>> PROVE PagesInv'
  BY <1>2, <1>3, PagesUntouched
<1>4. ASSUME UNCHANGED vars PROVE PagesInv'
  BY <1>3, <1>4 DEF vars, cacheVars, requestVars
<1>5. ASSUME NEW r \in Request, AdmitCall(r) PROVE PagesInv'
  <2>1. ASSUME AdmitImpossible(r) PROVE PagesInv'
    BY <1>3, <2>1 DEF AdmitImpossible, cacheVars
  <2>2. ASSUME NEW hits \in 0 .. CompletePromptBlocks(r), Admit(r, hits) PROVE PagesInv'
    BY <1>2, <1>4, <2>2, AdmitKeepsPages
  <2>3. ASSUME NEW hits \in 0 .. CompletePromptBlocks(r), AdmitTemporarilyUnavailable(r, hits)
        PROVE  PagesInv'
    <3>1. PromptBlocks(r) - hits \in Nat
      BY <1>1, BlockCounts
    <3>2. FailedEnsure(PromptBlocks(r) - hits) /\ UNCHANGED <<table, prompt, stored>>
      BY <2>3 DEF AdmitTemporarilyUnavailable, requestVars
    <3> QED BY <1>2, <3>1, <3>2, FailedEnsurePages
  <2> QED BY <1>5, <2>1, <2>2, <2>3 DEF AdmitCall
<1>6. ASSUME NEW r \in Request, status[r] = "Active" PROVE HasShape(r)
  BY <1>1, <1>6 DEF TablesInShape, RequestInShape
<1>7. ASSUME NEW r \in Request, AppendCall(r) PROVE PagesInv'
  <2>1. ASSUME NEW n \in 1 .. Len(prompt[r]), AppendPrefill(r, n) PROVE PagesInv'
    <3>1. n \in Nat \ {0} /\ AppendTokens(r, n) /\ HasShape(r)
      BY <1>1, <1>6, <2>1, BlockCounts DEF AppendPrefill, IsPrefilling
    <3> QED BY <1>2, <3>1, AppendKeepsPages
  <2>2. ASSUME NEW last \in BOOLEAN, AppendDecode(r, last) PROVE PagesInv'
    <3>1. 1 \in Nat \ {0} /\ AppendTokens(r, 1) /\ HasShape(r)
      BY <1>6, <2>2 DEF AppendDecode, IsDecoding
    <3> QED BY <1>2, <3>1, AppendKeepsPages
  <2>3. ASSUME GrowthExhausted(r) PROVE PagesInv'
    <3>1. CASE UNCHANGED cacheVars
      BY <1>3, <2>3, <3>1 DEF GrowthExhausted, cacheVars
    <3>2. CASE FailedEnsure(GrowthBlocks(r, 1))
      <4>1. HasShape(r) /\ UNCHANGED <<table, prompt, stored>>
        BY <1>6, <2>3 DEF GrowthExhausted, IsDecoding
      <4>2. GrowthBlocks(r, 1) \in Nat
        BY <1>1, <4>1, AppendEntries
      <4> QED BY <1>2, <3>2, <4>1, <4>2, FailedEnsurePages
    <3> QED BY <2>3, <3>1, <3>2 DEF GrowthExhausted
  <2> QED BY <1>7, <2>1, <2>2, <2>3 DEF AppendCall
<1>8. ASSUME NEW S \in SUBSET Request, Expire(S) PROVE PagesInv'
  BY <1>3, <1>8 DEF Expire, cacheVars
<1>9. ASSUME CacheRefresh PROVE PagesInv'
  BY <1>3, <1>9 DEF CacheRefresh, cacheVars, requestVars
<1>10. ASSUME CacheInsert PROVE PagesInv'
  BY <1>2, <1>10, CacheInsertKeepsPages
<1>11. ASSUME Release PROVE PagesInv'
  BY <1>2, <1>11, ReleaseKeepsPages
<1> QED BY <1>4, <1>5, <1>7, <1>8, <1>9, <1>10, <1>11 DEF Next, Terminated

\* EvictedPagesAreUnreferenced is what README.md:227 promises.  The code breaks it
\* in one way, an admission that evicts a block it has just hit (kv_cache.cpp:48-78);
\* the next five theorems say that this is the only way in which it can break the
\* bookkeeping of pages: as long as it does not happen, all of it is exact.
LEMMA PagesInvariant == Spec /\ EvictedPagesAreUnreferenced => []PagesInv
BY InitPages, NextPages, PTL DEF Spec, EvictedPagesAreUnreferenced

\* The free list names exactly the pages that nobody references and the cache
\* does not hold, each once (stats(), allocate_block, release).
THEOREM PagesStayConserved ==
  Spec /\ EvictedPagesAreUnreferenced => []PagesConserved
<1>1. PagesInv => PagesConserved
  BY DEF PagesInv
<1> QED BY <1>1, PagesInvariant, PTL

\* request_refs counts the block-table entries that name the page: release never
\* frees a page that somebody else still reads.
THEOREM RefsStayCounted ==
  Spec /\ EvictedPagesAreUnreferenced => []RefsCountHolders
<1>1. PagesInv => RefsCountHolders
  BY DEF PagesInv
<1> QED BY <1>1, PagesInvariant, PTL

\* A page the index offers for a content holds that content, through any number
\* of evictions and reuses of the page.
THEOREM CachedContentStays ==
  Spec /\ EvictedPagesAreUnreferenced => []CachedPagesMatch
<1>1. PagesInv => CachedPagesMatch
  BY DEF PagesInv
<1> QED BY <1>1, PagesInvariant, PTL

-----------------------------------------------------------------------------
(* The allocator implements PagePool *)

\* A page without a reference is in no table.
LEMMA UnreferencedIsUnheld ==
  ASSUME PagesInv, NEW b \in Block, refs[b] = 0
  PROVE  b \in Pool!Unheld
<1>1. ASSUME NEW q \in Request, b \in Held(q) PROVE FALSE
  <2>1. PICK i \in DOMAIN table[q] : table[q][i] = b /\ table[q][i] # NoBlock
    BY <1>1 DEF Held
  <2> QED BY <2>1, EntriesAreReferenced
<1>2. PoolHolders[b] = {}
  BY <1>1 DEF PoolHolders
<1> QED BY <1>2 DEF Pool!Unheld

\* What a call evicts is in the cache and held by nobody.
LEMMA EvictedAreEvictable ==
  ASSUME PagesInv, NEW n \in Nat, NEW o \in Evictions(n),
         pinned' = PinnedAfter(o), cacheIndex' = IndexAfter(o)
  PROVE  /\ EvictedBlocks(o) \in SUBSET Pool!Evictable
         /\ CachedBlocks' = CachedBlocks \ EvictedBlocks(o)
<1>1. /\ \A b \in Block : pinned'[b] <=> pinned[b] /\ b \notin EvictedBlocks(o)
      /\ \A b \in EvictedBlocks(o) : b \in Block /\ refs[b] = 0 /\ pinned[b]
  <2>1. TypeOK /\ IndexIsExact
    BY DEF PagesInv, ReservationInv
  <2> QED BY <2>1, EvictionKeepsIndex
<1>2. CachedBlocks' = CachedBlocks \ EvictedBlocks(o)
  BY <1>1 DEF CachedBlocks
<1>3. ASSUME NEW b \in EvictedBlocks(o) PROVE b \in Pool!Evictable
  BY <1>1, UnreferencedIsUnheld DEF Pool!Evictable, CachedBlocks
<1> QED BY <1>2, <1>3

\* One request's table changes, and it gains pages.
LEMMA HoldersGain ==
  ASSUME NEW r \in Request, NEW gained, table \in [Request -> Seq(Block \cup {NoBlock})],
         table' = [table EXCEPT ![r] = table'[r]], Held(r)' = Held(r) \cup gained
  PROVE  PoolHolders' = [p \in Block |-> IF p \in gained THEN PoolHolders[p] \cup {r}
                                         ELSE PoolHolders[p]]
<1>1. \A q \in Request : q # r => Held(q)' = Held(q)
  <2>1. \A q \in Request : q # r => table'[q] = table[q]
    OBVIOUS
  <2> QED BY <2>1 DEF Held
<1>2. ASSUME NEW p \in Block
      PROVE  {q \in Request : p \in Held(q)'} =
               IF p \in gained THEN {q \in Request : p \in Held(q)} \cup {r}
               ELSE {q \in Request : p \in Held(q)}
  BY <1>1
<1> QED BY <1>2 DEF PoolHolders

\* A call that evicts, shares and takes pages is an Acquire.
LEMMA CallAcquires ==
  ASSUME NEW r \in Request, NEW E \in SUBSET Pool!Evictable,
         NEW shared \in SUBSET (CachedBlocks \ E),
         NEW taken \in SUBSET (Pool!Unheld \ (CachedBlocks \ E)),
         CachedBlocks' = CachedBlocks \ E,
         PoolHolders' = [p \in Block |-> IF p \in shared \cup taken THEN PoolHolders[p] \cup {r}
                                         ELSE PoolHolders[p]]
  PROVE  Pool!Acquire(r)
BY Zenon DEF Pool!Acquire

\* An admission evicts unheld pages and shares pages that stay in the cache.
LEMMA AdmitAcquires ==
  ASSUME PagesInv, PagesInv', NEW r \in Request, NEW hits \in 0 .. CompletePromptBlocks(r),
         Admit(r, hits)
  PROVE  Pool!Acquire(r)
<1>1. TypeOK /\ ReservationInv /\ TypeOK' /\ PagesConserved' /\ PagesConserved /\ IndexIsExact
  BY DEF PagesInv, ReservationInv
<1> DEFINE entries == table'[r]
<1>2. /\ PromptBlocks(r) - hits \in Nat
      /\ table \in [Request -> Seq(Block \cup {NoBlock})] /\ table[r] = <<>>
      /\ table' = [table EXCEPT ![r] = entries]
      /\ entries \in Seq(Block \cup {NoBlock})
      /\ \A i \in 1 .. hits :
           entries[i] \in Block /\ pinned[entries[i]]
      /\ \A i \in DOMAIN entries : i \notin 1 .. hits => entries[i] = NoBlock
  BY <1>1, AdmitPages
<1>3. PICK o \in Evictions(PromptBlocks(r) - hits) :
        free' = FreeAfter(o) /\ pinned' = PinnedAfter(o) /\ cacheIndex' = IndexAfter(o)
  BY <1>1, AdmitPages
<1>4. /\ EvictedBlocks(o) \in SUBSET Pool!Evictable
      /\ CachedBlocks' = CachedBlocks \ EvictedBlocks(o)
  BY <1>2, <1>3, EvictedAreEvictable
<1>5. FreePages' = FreePages \cup EvictedBlocks(o)
  <2>1. PagesOf(FreeAfter(o)) = FreePages \cup EvictedBlocks(o)
    BY <1>1, <1>2, EvictionPages
  <2> QED BY <1>3, <2>1 DEF FreePages, PagesOf
<1>6. PagesIn(entries) \in SUBSET (CachedBlocks \ EvictedBlocks(o))
  <2> SUFFICES ASSUME NEW i \in DOMAIN entries, entries[i] # NoBlock
               PROVE  entries[i] \in CachedBlocks \ EvictedBlocks(o)
    BY DEF PagesIn
  <2>1. i \in 1 .. hits
    BY <1>2
  <2>2. entries[i] \in CachedBlocks
    BY <1>2, <2>1 DEF CachedBlocks
  <2>3. entries[i] \notin FreePages'
    <3>1. entries[i] \in Block /\ i \in EntriesIn(entries, entries[i])
      BY <1>2, <2>1 DEF EntriesIn
    <3>2. <<r, i>> \in EntriesOf(table', entries[i])
      <4>1. /\ table' \in [Request -> Seq(Block \cup {NoBlock})]
            /\ \A q \in Request : Len(table'[q]) <= TotalBlocks
        BY <1>1 DEF TypeOK
      <4>2. \A q \in Request : \A k :
              <<q, k>> \in EntriesOf(table', entries[i]) <=> k \in EntriesIn(table'[q], entries[i])
        BY <3>1, <4>1, EntriesAndPages
      <4> QED BY <3>1, <4>2
    <3>3. refs'[entries[i]] = Cardinality(EntriesOf(table', entries[i]))
          /\ refs'[entries[i]] \in Nat
      BY <1>1, <3>1 DEF PagesInv, RefsCountHolders, Holders, TypeOK
    <3>4. refs'[entries[i]] # 0
      <4>1. /\ table' \in [Request -> Seq(Block \cup {NoBlock})]
            /\ \A q \in Request : Len(table'[q]) <= TotalBlocks
        BY <1>1 DEF TypeOK
      <4>2. IsFiniteSet(EntriesOf(table', entries[i]))
        BY <3>1, <4>1, EntriesAndPages
      <4> QED BY <3>2, <3>3, <4>2, FS_EmptySet
    <3> QED BY <1>1, <3>1, <3>3, <3>4 DEF PagesConserved, AllocatedBlocks, ActiveBlocks
  <2> QED BY <1>5, <2>2, <2>3
<1>7. Held(r)' = Held(r) \cup PagesIn(entries)
  <2>1. Held(r)' = PagesIn(entries)
    BY DEF Held, PagesIn
  <2>2. Held(r) = {}
    BY <1>2, EmptySeq DEF Held
  <2> QED BY <2>1, <2>2
<1>8. PoolHolders' = [p \in Block |-> IF p \in PagesIn(entries) THEN PoolHolders[p] \cup {r}
                                      ELSE PoolHolders[p]]
  BY <1>2, <1>7, HoldersGain
<1> DEFINE E == EvictedBlocks(o)
           shared == PagesIn(entries)
<1> HIDE DEF E, shared
<1>9. /\ E \in SUBSET Pool!Evictable /\ shared \in SUBSET (CachedBlocks \ E)
      /\ {} \in SUBSET (Pool!Unheld \ (CachedBlocks \ E))
      /\ CachedBlocks' = CachedBlocks \ E /\ shared \cup {} = shared
  BY <1>4, <1>6 DEF E, shared
<1>10. PoolHolders' = [p \in Block |-> IF p \in shared \cup {} THEN PoolHolders[p] \cup {r}
                                      ELSE PoolHolders[p]]
  BY <1>8, <1>9 DEF shared
<1> QED BY <1>9, <1>10, CallAcquires

\* A call that fails for lack of pages has evicted unheld pages, at most.
LEMMA FailureAcquires ==
  ASSUME PagesInv, NEW r \in Request, NEW n \in Nat, FailedEnsure(n), table' = table
  PROVE  Pool!Acquire(r)
<1>1. PICK o \in Evictions(n) : pinned' = PinnedAfter(o) /\ cacheIndex' = IndexAfter(o)
  BY DEF FailedEnsure
<1> DEFINE E == EvictedBlocks(o)
<1>2. E \in SUBSET Pool!Evictable /\ CachedBlocks' = CachedBlocks \ E
  BY <1>1, EvictedAreEvictable
<1>3. PoolHolders' = PoolHolders /\ PoolHolders = [p \in Block |-> PoolHolders[p]]
  BY DEF PoolHolders, Held
<1> HIDE DEF E
<1>4. PoolHolders' = [p \in Block |-> IF p \in {} \cup {} THEN PoolHolders[p] \cup {r}
                                      ELSE PoolHolders[p]]
  BY <1>3
<1>5. /\ {} \in SUBSET (CachedBlocks \ E)
      /\ {} \in SUBSET (Pool!Unheld \ (CachedBlocks \ E))
  OBVIOUS
<1> QED BY <1>2, <1>4, <1>5, CallAcquires

\* An append evicts unheld pages and takes pages that are free then.
LEMMA AppendAcquires ==
  ASSUME PagesInv, NEW r \in Request, HasShape(r), NEW n \in Nat \ {0}, AppendTokens(r, n)
  PROVE  Pool!Acquire(r)
<1>1. ReservationInv /\ TypeOK /\ IndexIsExact /\ PagesConserved
  BY DEF PagesInv, ReservationInv
<1> DEFINE missing == CeilDiv(stored[r], BlockTokens) + 1 .. NeededBlocks(r, n)
           taken   == {table'[r][i] : i \in missing}
           after   == table'[r]
<1>2. PICK o \in Evictions(GrowthBlocks(r, n)) :
        /\ pinned' = PinnedAfter(o) /\ cacheIndex' = IndexAfter(o)
        /\ GrowthBlocks(r, n) \in Nat
        /\ table \in [Request -> Seq(Block \cup {NoBlock})]
        /\ table' = [table EXCEPT ![r] = after]
        /\ PagesOf(FreeAfter(o)) = FreePages' \cup taken
        /\ taken \subseteq Block
        /\ missing \subseteq DOMAIN after
        /\ \A i \in DOMAIN table[r] : i \in DOMAIN after
        /\ \A i \in DOMAIN table[r] : i \in missing => table[r][i] = NoBlock
        /\ \A i \in DOMAIN table[r] : i \notin missing => after[i] = table[r][i]
        /\ \A i \in DOMAIN after : i \in missing \/ i \in DOMAIN table[r]
  BY <1>1, AppendPages
<1> DEFINE E == EvictedBlocks(o)
<1>3. E \in SUBSET Pool!Evictable /\ CachedBlocks' = CachedBlocks \ E
  BY <1>2, EvictedAreEvictable
<1>4. PagesOf(FreeAfter(o)) = FreePages \cup E
  BY <1>1, <1>2, EvictionPages
<1>5. \A b \in E : refs[b] = 0
  BY <1>1, <1>2, EvictionPages
<1>6. \A b \in FreePages : b \in Block /\ refs[b] = 0 /\ ~pinned[b]
  BY <1>1, FreeIsUnallocated
<1> HIDE DEF taken, E, after, missing
<1>7. taken \in SUBSET (Pool!Unheld \ (CachedBlocks \ E))
  <2> SUFFICES ASSUME NEW b \in taken PROVE b \in Pool!Unheld /\ b \notin CachedBlocks \ E
    OBVIOUS
  <2>1. b \in Block /\ b \in FreePages \cup E
    BY <1>2, <1>4
  <2>2. refs[b] = 0
    BY <1>5, <1>6, <2>1
  <2> QED BY <1>6, <2>1, <2>2, UnreferencedIsUnheld DEF CachedBlocks
<1>8. Held(r)' = Held(r) \cup taken
  <2>1. Held(r)' = {after[i] : i \in DOMAIN after} \ {NoBlock}
    BY DEF Held, after
  <2>2. taken = {after[i] : i \in missing} /\ NoBlock \notin taken
    <3>1. NoBlock \notin Block
      BY DEF Block, NoBlock
    <3> QED BY <1>2, <3>1 DEF taken, after
  <2>3. ASSUME NEW i \in DOMAIN table[r], table[r][i] # NoBlock
        PROVE  i \in DOMAIN after /\ after[i] = table[r][i]
    BY <1>2, <2>3
  <2>4. ASSUME NEW i \in DOMAIN after, after[i] # NoBlock, i \notin missing
        PROVE  i \in DOMAIN table[r] /\ after[i] = table[r][i]
    BY <1>2, <2>4
  <2>5. Held(r) \cup taken \subseteq {after[i] : i \in DOMAIN after} \ {NoBlock}
    BY <1>2, <2>2, <2>3 DEF Held
  <2>6. {after[i] : i \in DOMAIN after} \ {NoBlock} \subseteq Held(r) \cup taken
    BY <2>2, <2>4 DEF Held
  <2> QED BY <2>1, <2>5, <2>6
<1>9. PoolHolders' = [p \in Block |-> IF p \in taken THEN PoolHolders[p] \cup {r}
                                      ELSE PoolHolders[p]]
  BY <1>2, <1>8, HoldersGain DEF after
<1>10. {} \in SUBSET (CachedBlocks \ E) /\ {} \cup taken = taken
  OBVIOUS
<1>11. PoolHolders' = [p \in Block |-> IF p \in {} \cup taken THEN PoolHolders[p] \cup {r}
                                      ELSE PoolHolders[p]]
  BY <1>9, <1>10
<1> QED BY <1>3, <1>7, <1>10, <1>11, CallAcquires

\* An offered block is kept for others by the request that holds it.
LEMMA CacheInsertKeeps ==
  ASSUME PagesInv, CacheInsert
  PROVE  \E r \in Request, b \in Block : Pool!Keep(r, b)
<1>1. TypeOK /\ ReservationInv /\ CallsAreCompleted
  BY DEF PagesInv, ReservationInv
<1>2. PICK r \in Request, i \in Nat \ {0} :
        /\ r = Head(calls).request /\ i = Head(calls).block
        /\ i \in DOMAIN table[r] /\ table[r][i] \in Block
  BY <1>1, OfferedBlock DEF CacheInsert
<1> DEFINE b == table[r][i]
<1>3. pinned' = [pinned EXCEPT ![b] = TRUE] /\ table' = table
  BY <1>2 DEF CacheInsert, requestVars
<1>4. CachedBlocks' = CachedBlocks \cup {b}
  BY <1>1, <1>2, <1>3 DEF CachedBlocks, TypeOK
<1>5. r \in PoolHolders[b]
  BY <1>2 DEF PoolHolders, Held, Block, NoBlock
<1>6. PoolHolders' = PoolHolders
  BY <1>3 DEF PoolHolders, Held
<1> HIDE DEF b
<1>7. b \in Block
  BY <1>2 DEF b
<1> QED BY <1>4, <1>5, <1>6, <1>7, Zenon DEF Pool!Keep

\* A release returns all that the request held.
LEMMA ReleaseGivesBack ==
  ASSUME PagesInv, Release
  PROVE  \E r \in Request : Pool!GiveBack(r)
<1>1. ReservationInv
  BY DEF PagesInv
<1>2. PICK r \in Request :
        /\ table \in [Request -> Seq(Block \cup {NoBlock})]
        /\ table' = [table EXCEPT ![r] = <<>>]
        /\ UNCHANGED pinned
  BY <1>1, ReleasePages
<1>3. Held(r)' = {} /\ \A q \in Request : q # r => Held(q)' = Held(q)
  <2>1. table'[r] = <<>> /\ \A q \in Request : q # r => table'[q] = table[q]
    BY <1>2
  <2> QED BY <2>1, EmptySeq DEF Held
<1>4. PoolHolders' = [p \in Block |-> PoolHolders[p] \ {r}]
  BY <1>3 DEF PoolHolders
<1>5. CachedBlocks' = CachedBlocks
  BY <1>2 DEF CachedBlocks
<1> QED BY <1>4, <1>5, Zenon DEF Pool!GiveBack

LEMMA NextImplementsPool ==
  PagesInv /\ PagesInv' /\ [Next]_vars => [Pool!Next]_(Pool!poolVars)
<1> SUFFICES ASSUME PagesInv, PagesInv', [Next]_vars PROVE [Pool!Next]_(Pool!poolVars)
  OBVIOUS
<1>1. ReservationInv /\ TypeOK /\ TablesInShape
  BY DEF PagesInv, ReservationInv
<1>2. ASSUME UNCHANGED <<table, pinned>> PROVE [Pool!Next]_(Pool!poolVars)
  BY <1>2 DEF Pool!poolVars, PoolHolders, Held, CachedBlocks
<1>3. ASSUME NEW r \in Request, Pool!Acquire(r) PROVE [Pool!Next]_(Pool!poolVars)
  BY <1>3, Zenon DEF Pool!Next
<1>4. ASSUME UNCHANGED vars PROVE [Pool!Next]_(Pool!poolVars)
  BY <1>2, <1>4 DEF vars, cacheVars, requestVars
<1>5. ASSUME NEW r \in Request, AdmitCall(r) PROVE [Pool!Next]_(Pool!poolVars)
  <2>1. ASSUME AdmitImpossible(r) PROVE [Pool!Next]_(Pool!poolVars)
    BY <1>2, <2>1 DEF AdmitImpossible, cacheVars
  <2>2. ASSUME NEW hits \in 0 .. CompletePromptBlocks(r), Admit(r, hits)
        PROVE  [Pool!Next]_(Pool!poolVars)
    BY <1>3, <2>2, AdmitAcquires
  <2>3. ASSUME NEW hits \in 0 .. CompletePromptBlocks(r), AdmitTemporarilyUnavailable(r, hits)
        PROVE  [Pool!Next]_(Pool!poolVars)
    <3>1. PromptBlocks(r) - hits \in Nat
      BY <1>1, BlockCounts
    <3>2. FailedEnsure(PromptBlocks(r) - hits) /\ table' = table
      BY <2>3 DEF AdmitTemporarilyUnavailable, requestVars
    <3> QED BY <1>3, <3>1, <3>2, FailureAcquires
  <2> QED BY <1>5, <2>1, <2>2, <2>3 DEF AdmitCall
<1>6. ASSUME NEW r \in Request, status[r] = "Active" PROVE HasShape(r)
  BY <1>1, <1>6 DEF TablesInShape, RequestInShape
<1>7. ASSUME NEW r \in Request, AppendCall(r) PROVE [Pool!Next]_(Pool!poolVars)
  <2>1. ASSUME NEW n \in 1 .. Len(prompt[r]), AppendPrefill(r, n)
        PROVE  [Pool!Next]_(Pool!poolVars)
    <3>1. n \in Nat \ {0} /\ AppendTokens(r, n) /\ HasShape(r)
      BY <1>1, <1>6, <2>1, BlockCounts DEF AppendPrefill, IsPrefilling
    <3> QED BY <1>3, <3>1, AppendAcquires
  <2>2. ASSUME NEW last \in BOOLEAN, AppendDecode(r, last) PROVE [Pool!Next]_(Pool!poolVars)
    <3>1. 1 \in Nat \ {0} /\ AppendTokens(r, 1) /\ HasShape(r)
      BY <1>6, <2>2 DEF AppendDecode, IsDecoding
    <3> QED BY <1>3, <3>1, AppendAcquires
  <2>3. ASSUME GrowthExhausted(r) PROVE [Pool!Next]_(Pool!poolVars)
    <3>1. CASE UNCHANGED cacheVars
      BY <1>2, <2>3, <3>1 DEF GrowthExhausted, cacheVars
    <3>2. CASE FailedEnsure(GrowthBlocks(r, 1))
      <4>1. HasShape(r) /\ table' = table
        BY <1>6, <2>3 DEF GrowthExhausted, IsDecoding
      <4>2. GrowthBlocks(r, 1) \in Nat
        BY <1>1, <4>1, AppendEntries
      <4> QED BY <1>3, <3>2, <4>1, <4>2, FailureAcquires
    <3> QED BY <2>3, <3>1, <3>2 DEF GrowthExhausted
  <2> QED BY <1>7, <2>1, <2>2, <2>3 DEF AppendCall
<1>8. ASSUME NEW S \in SUBSET Request, Expire(S) PROVE [Pool!Next]_(Pool!poolVars)
  BY <1>2, <1>8 DEF Expire, cacheVars
<1>9. ASSUME CacheRefresh PROVE [Pool!Next]_(Pool!poolVars)
  BY <1>2, <1>9 DEF CacheRefresh, cacheVars, requestVars
<1>10. ASSUME CacheInsert PROVE [Pool!Next]_(Pool!poolVars)
  BY <1>10, CacheInsertKeeps, Zenon DEF Pool!Next
<1>11. ASSUME Release PROVE [Pool!Next]_(Pool!poolVars)
  BY <1>11, ReleaseGivesBack, Zenon DEF Pool!Next
<1> QED BY <1>4, <1>5, <1>7, <1>8, <1>9, <1>10, <1>11 DEF Next, Terminated

LEMMA InitImplementsPool == Init => Pool!Init
<1> SUFFICES ASSUME Init PROVE PoolHolders = [p \in Block |-> {}] /\ CachedBlocks = {}
  BY DEF Pool!Init
<1>1. \A r \in Request : Held(r) = {}
  BY EmptySeq DEF Init, Held
<1> QED BY <1>1 DEF Init, PoolHolders, CachedBlocks

\* The allocator implements the page pool: a request only ever gets pages that are
\* free or stay in the cache, only unheld pages are evicted, and a release returns
\* everything.
THEOREM PagedImplementsPool ==
  Spec /\ EvictedPagesAreUnreferenced => ImplementsPool
BY InitImplementsPool, NextImplementsPool, PagesInvariant, PTL DEF Spec, ImplementsPool, Pool!Spec

-----------------------------------------------------------------------------
(* What follows from the page pool alone *)

LEMMA PoolShares == ImplementsPool => []Pool!SharedPagesAreKept
<1> DEFINE Inv == /\ PoolHolders \in [Block -> SUBSET Request]
                  /\ Pool!SharedPagesAreKept
<1>1. Pool!Init => Inv
  BY DEF Pool!Init, Pool!SharedPagesAreKept
<1>2. Inv /\ [Pool!Next]_(Pool!poolVars) => Inv'
  <2> SUFFICES ASSUME Inv, [Pool!Next]_(Pool!poolVars) PROVE Inv'
    OBVIOUS
  <2>1. ASSUME NEW r \in Request, Pool!Acquire(r) PROVE Inv'
    <3>1. PICK evicted \in SUBSET Pool!Evictable :
            \E shared \in SUBSET (CachedBlocks \ evicted),
               taken \in SUBSET (Pool!Unheld \ (CachedBlocks \ evicted)) :
              /\ CachedBlocks' = CachedBlocks \ evicted
              /\ PoolHolders' = [p \in Block |->
                                   IF p \in shared \cup taken THEN PoolHolders[p] \cup {r}
                                   ELSE PoolHolders[p]]
      BY <2>1 DEF Pool!Acquire
    <3>2. PICK shared \in SUBSET (CachedBlocks \ evicted),
               taken \in SUBSET (Pool!Unheld \ (CachedBlocks \ evicted)) :
              /\ CachedBlocks' = CachedBlocks \ evicted
              /\ PoolHolders' = [p \in Block |->
                                   IF p \in shared \cup taken THEN PoolHolders[p] \cup {r}
                                   ELSE PoolHolders[p]]
      BY <3>1
    <3>3. ASSUME NEW p \in Block, NEW x \in PoolHolders'[p], NEW y \in PoolHolders'[p], x # y
          PROVE  p \in CachedBlocks'
      <4>1. CASE p \in shared
        BY <3>2, <4>1
      <4>2. CASE p \in taken
        BY <3>2, <3>3, <4>2 DEF Pool!Unheld
      <4>3. CASE p \notin shared \cup taken
        BY <3>2, <3>3, <4>3 DEF Pool!SharedPagesAreKept, Pool!Evictable, Pool!Unheld
      <4> QED BY <4>1, <4>2, <4>3
    <3>4. PoolHolders' \in [Block -> SUBSET Request]
      BY <3>2
    <3>5. Block' = Block
      BY DEF Block
    <3> QED BY <3>3, <3>4, <3>5 DEF Pool!SharedPagesAreKept
  <2>2. ASSUME NEW r \in Request, NEW p \in Block, Pool!Keep(r, p) PROVE Inv'
    BY <2>2 DEF Pool!Keep, Pool!SharedPagesAreKept, Block
  <2>3. ASSUME NEW r \in Request, Pool!GiveBack(r) PROVE Inv'
    BY <2>3 DEF Pool!GiveBack, Pool!SharedPagesAreKept, Block
  <2>4. CASE UNCHANGED Pool!poolVars
    BY <2>4 DEF Pool!poolVars, Pool!SharedPagesAreKept, Block
  <2> QED BY <2>1, <2>2, <2>3, <2>4 DEF Pool!Next
<1> QED BY <1>1, <1>2, PTL DEF ImplementsPool, Pool!Spec

\* A page that two requests hold stays in the prefix cache, whatever is evicted,
\* cached and released in between (kv_cache.cpp:66-73, 105-140): there is no other way
\* for two requests to come by one page.
THEOREM SharingIsThroughTheCache ==
  Spec /\ EvictedPagesAreUnreferenced => []Pool!SharedPagesAreKept
BY PagedImplementsPool, PoolShares, PTL

-----------------------------------------------------------------------------
(* Appends write private pages *)

\* The pages an append writes to are in no other entry and not in the cache: those
\* it takes are new, and a block that was begun before is not a complete one.
LEMMA AppendWritesPrivately ==
  ASSUME PagesInv, PagesInv', NEW r \in Request, HasShape(r), NEW n \in Nat \ {0},
         AppendTokens(r, n), NEW i \in WrittenEntries(r, n)
  PROVE  /\ ~pinned'[table'[r][i]]
         /\ \A q \in Request : \A k \in DOMAIN table'[q] :
              table'[q][k] = table'[r][i] => q = r /\ k = i
<1>1. /\ ReservationInv /\ TypeOK /\ IndexIsExact /\ PagesConserved
      /\ PinnedEntriesAreCompleted /\ SharedEntriesArePinned'
  BY DEF PagesInv, ReservationInv
<1> DEFINE full    == CeilDiv(stored[r], BlockTokens)
           need    == NeededBlocks(r, n)
           missing == full + 1 .. need
           taken   == {table'[r][j] : j \in missing}
           after   == table'[r]
<1>2. PICK o \in Evictions(GrowthBlocks(r, n)) :
        /\ pinned' = PinnedAfter(o) /\ cacheIndex' = IndexAfter(o)
        /\ GrowthBlocks(r, n) \in Nat /\ full \in Nat /\ need \in Nat
        /\ PagesOf(FreeAfter(o)) = FreePages' \cup taken
        /\ taken \subseteq Block
        /\ missing \subseteq DOMAIN after
        /\ \A j \in 1 .. full : j \in DOMAIN table[r]
        /\ \A j \in DOMAIN table[r] : j \in DOMAIN after
        /\ \A j \in DOMAIN table[r] : j \notin missing => after[j] = table[r][j]
  BY <1>1, AppendPages
<1>3. /\ \A b \in Block : pinned'[b] <=> pinned[b] /\ b \notin EvictedBlocks(o)
      /\ \A b \in EvictedBlocks(o) : b \in Block /\ refs[b] = 0 /\ pinned[b]
  BY <1>1, <1>2, EvictionKeepsIndex
<1>4. PagesOf(FreeAfter(o)) = FreePages \cup EvictedBlocks(o)
  BY <1>1, <1>2, EvictionPages
<1>5. \A b \in FreePages : b \in Block /\ refs[b] = 0 /\ ~pinned[b]
  BY <1>1, FreeIsUnallocated
<1>6. /\ stored[r] \in Nat /\ stored[r] \div BlockTokens \in Nat /\ i \in Nat
      /\ i >= stored[r] \div BlockTokens + 1 /\ i <= need
      /\ i * BlockTokens > stored[r]
  <2>1. /\ stored[r] \in Nat /\ stored[r] \div BlockTokens \in Nat
        /\ i \in Nat /\ i >= stored[r] \div BlockTokens + 1 /\ i <= need
    BY <1>1, <1>2, AppendEntries, BlockCounts DEF WrittenEntries
  <2>2. /\ BlockTokens * (stored[r] \div BlockTokens + 1) <= BlockTokens * i
        /\ BlockTokens * (stored[r] \div BlockTokens + 1)
             = (stored[r] \div BlockTokens) * BlockTokens + BlockTokens
        /\ BlockTokens * i = i * BlockTokens /\ i * BlockTokens \in Int
    BY <2>1, SizesAssumption, TimesMonotonic
  <2>3. stored[r] < (stored[r] \div BlockTokens) * BlockTokens + BlockTokens
    <3>1. ASSUME NEW a \in Nat, NEW d \in Nat \ {0}
          PROVE  a < (a \div d) * d + d
      BY DivBounds
    <3> QED BY <2>1, <3>1, SizesAssumption
  <2>4. (stored[r] \div BlockTokens) * BlockTokens \in Int
    BY <2>1, SizesAssumption
  <2> QED BY <2>1, <2>2, <2>3, <2>4, SizesAssumption
<1> HIDE DEF full, need, missing, taken, after
<1>7. i \in DOMAIN after /\ after[i] \in Block /\ ~pinned'[after[i]]
  <2>1. CASE i \in missing
    <3>1. after[i] \in taken
      BY <2>1 DEF taken, after
    <3>2. after[i] \in Block /\ after[i] \in FreePages \cup EvictedBlocks(o)
      BY <1>2, <1>4, <3>1
    <3> QED BY <1>2, <1>3, <1>5, <2>1, <3>2
  <2>2. CASE i \notin missing
    <3>1. i \in 1 .. full /\ i \in DOMAIN table[r] /\ after[i] = table[r][i]
      BY <1>2, <1>6, <2>2 DEF missing
    <3>2. table[r][i] # NoBlock
      BY <1>2, <1>6, <3>1 DEF HasShape, full
    <3>3. table[r][i] \in Block
      BY <3>1, <3>2, EntriesAreReferenced
    <3>4. ~pinned[table[r][i]]
      <4>1. ASSUME pinned[table[r][i]] PROVE FALSE
        <5>1. i * BlockTokens <= stored[r]
          BY <1>1, <3>1, <3>2, <4>1 DEF PinnedEntriesAreCompleted, IsCompleted
        <5>2. i * BlockTokens \in Int
          BY <1>6, SizesAssumption
        <5> QED BY <1>6, <5>1, <5>2
      <4> QED BY <4>1
    <3> QED BY <1>2, <1>3, <3>1, <3>3, <3>4
  <2> QED BY <2>1, <2>2
<1>8. ASSUME NEW q \in Request, NEW k \in DOMAIN table'[q], table'[q][k] = after[i],
             ~(q = r /\ k = i)
      PROVE  FALSE
  <2>1. after[i] # NoBlock
    BY <1>7 DEF Block, NoBlock
  <2>2. i \in DOMAIN table'[r] /\ table'[r][i] = after[i]
    BY <1>7 DEF after
  <2> QED BY <1>1, <1>7, <1>8, <2>1, <2>2 DEF SharedEntriesArePinned
<1> QED BY <1>7, <1>8 DEF after

\* Only appends add to the tokens an admitted request has stored.
LEMMA OnlyAppendsStore ==
  ASSUME TypeOK, Next, NEW r \in Request, status[r] = "Active", stored'[r] > stored[r]
  PROVE  \/ \E n \in 1 .. Len(prompt[r]) : AppendPrefill(r, n)
         \/ \E last \in BOOLEAN : AppendDecode(r, last)
<1>1. stored \in [Request -> Nat]
  BY DEF TypeOK
<1>2. stored' # stored
  BY <1>1
<1>3. ASSUME NEW q \in Request, AdmitCall(q) PROVE FALSE
  <2>1. PICK hits \in 0 .. CompletePromptBlocks(q) : Admit(q, hits)
    BY <1>2, <1>3 DEF AdmitCall, AdmitImpossible, AdmitTemporarilyUnavailable, requestVars
  <2>2. q # r /\ stored' = [stored EXCEPT ![q] = HitTokens(hits)]
    BY <2>1 DEF Admit
  <2> QED BY <1>1, <2>2
<1>4. ASSUME NEW q \in Request, AppendCall(q)
      PROVE  \/ \E n \in 1 .. Len(prompt[r]) : AppendPrefill(r, n)
             \/ \E last \in BOOLEAN : AppendDecode(r, last)
  <2>1. \/ \E n \in 1 .. Len(prompt[q]) : AppendPrefill(q, n)
        \/ \E last \in BOOLEAN : AppendDecode(q, last)
    BY <1>2, <1>4 DEF AppendCall, GrowthExhausted
  <2>2. \E n : AppendTokens(q, n)
    BY <2>1 DEF AppendPrefill, AppendDecode
  <2>3. q = r
    BY <1>1, <2>2 DEF AppendTokens
  <2> QED BY <2>1, <2>3
<1> QED BY <1>2, <1>3, <1>4
  DEF Next, Expire, CacheRefresh, CacheInsert, Release, Terminated, vars, requestVars

LEMMA NextWritesPrivately ==
  PagesInv /\ PagesInv' /\ [Next]_vars =>
    [\A r \in Request : (status[r] = "Active" /\ stored'[r] > stored[r]) =>
       \A i \in stored[r] \div BlockTokens + 1 .. CeilDiv(stored'[r], BlockTokens) :
         /\ ~pinned'[table'[r][i]]
         /\ \A q \in Request : \A k \in DOMAIN table'[q] :
              table'[q][k] = table'[r][i] => q = r /\ k = i]_vars
<1> SUFFICES ASSUME PagesInv, PagesInv', Next, NEW r \in Request, status[r] = "Active",
                    stored'[r] > stored[r],
                    NEW i \in stored[r] \div BlockTokens + 1 .. CeilDiv(stored'[r], BlockTokens)
             PROVE  /\ ~pinned'[table'[r][i]]
                    /\ \A q \in Request : \A k \in DOMAIN table'[q] :
                         table'[q][k] = table'[r][i] => q = r /\ k = i
  OBVIOUS
<1>1. TypeOK /\ HasShape(r)
  BY DEF PagesInv, ReservationInv, TablesInShape, RequestInShape
<1>2. PICK n \in Nat \ {0} : AppendTokens(r, n)
  <2>1. Len(prompt[r]) \in Nat /\ 1 \in Nat \ {0}
    BY <1>1, BlockCounts
  <2> QED BY <1>1, <2>1, OnlyAppendsStore DEF AppendPrefill, AppendDecode
<1>3. i \in WrittenEntries(r, n)
  <2>1. stored'[r] = stored[r] + n
    BY <1>1, <1>2 DEF AppendTokens, TypeOK
  <2> QED BY <2>1 DEF WrittenEntries, NeededBlocks
<1> QED BY <1>1, <1>2, <1>3, AppendWritesPrivately

\* No append writes to a page that another entry names or that the cache can hand
\* out: there is no shared tail block to copy on write (README.md:226).
THEOREM AppendsStayPrivate ==
  Spec /\ EvictedPagesAreUnreferenced => AppendsWritePrivatePages
BY NextWritesPrivately, PagesInvariant, PTL DEF Spec, AppendsWritePrivatePages

-----------------------------------------------------------------------------
(* Without the prefix cache *)

\* Nothing is ever pinned, so nothing is evicted.
NothingPinned == \A b \in Block : ~pinned[b]

LEMMA NextPinsNothing ==
  ASSUME ~PrefixCacheEnabled
  PROVE  ReservationInv /\ NothingPinned /\ [Next]_vars
           => NothingPinned' /\ [EvictsUnreferenced]_vars
<1> SUFFICES ASSUME ReservationInv, NothingPinned, [Next]_vars
             PROVE  NothingPinned' /\ [EvictsUnreferenced]_vars
  OBVIOUS
<1>1. EvictsUnreferenced
  BY DEF NothingPinned, EvictsUnreferenced
<1>2. ASSUME NEW o, pinned' = PinnedAfter(o) PROVE NothingPinned'
  BY <1>2 DEF PinnedAfter, NothingPinned
<1>3. ASSUME pinned' = pinned PROVE NothingPinned'
  BY <1>3 DEF NothingPinned
<1>4. ASSUME NEW n, FailedEnsure(n) PROVE NothingPinned'
  BY <1>2, <1>4 DEF FailedEnsure
<1>5. ASSUME NEW r \in Request, NEW n, AppendTokens(r, n) PROVE NothingPinned'
  <2>1. \E o \in Evictions(GrowthBlocks(r, n)) : pinned' = PinnedAfter(o)
    BY <1>5 DEF AppendTokens
  <2> QED BY <1>2, <2>1
<1>6. ASSUME NEW r \in Request, AdmitCall(r) PROVE NothingPinned'
  BY <1>2, <1>3, <1>4, <1>6
  DEF AdmitCall, AdmitImpossible, Admit, AdmitTemporarilyUnavailable, cacheVars
<1>7. ASSUME NEW r \in Request, AppendCall(r) PROVE NothingPinned'
  BY <1>3, <1>4, <1>5, <1>7 DEF AppendCall, AppendPrefill, AppendDecode, GrowthExhausted, cacheVars
<1>8. ASSUME NEW S \in SUBSET Request, Expire(S) PROVE NothingPinned'
  BY <1>3, <1>8 DEF Expire, cacheVars
<1>9. ASSUME CacheRefresh \/ CacheInsert \/ Release PROVE NothingPinned'
  BY <1>3, <1>9 DEF CacheRefresh, CacheInsert, Release, cacheVars
<1>10. ASSUME UNCHANGED vars PROVE NothingPinned'
  BY <1>3, <1>10 DEF vars, cacheVars
<1> QED BY <1>1, <1>6, <1>7, <1>8, <1>9, <1>10 DEF Next, Terminated

LEMMA NothingIsPinned ==
  ASSUME ~PrefixCacheEnabled
  PROVE  Spec => []NothingPinned
<1>1. Init => NothingPinned
  BY DEF Init, NothingPinned
<1>2. ReservationInv /\ NothingPinned /\ [Next]_vars => NothingPinned'
  BY NextPinsNothing
<1> QED BY <1>1, <1>2, InitReservation, NextReservation, PTL DEF Spec

LEMMA PlainPages ==
  ASSUME ~PrefixCacheEnabled
  PROVE  Spec => EvictedPagesAreUnreferenced
<1>1. ReservationInv /\ NothingPinned /\ [Next]_vars => [EvictsUnreferenced]_vars
  BY NextPinsNothing
<1> QED BY <1>1, NothingIsPinned, InitReservation, NextReservation, PTL
        DEF Spec, EvictedPagesAreUnreferenced

\* With prefix_cache_enabled false all of it holds without a condition: pages are
\* conserved and counted,
THEOREM PlainPagesAreConserved ==
  ASSUME ~PrefixCacheEnabled
  PROVE  Spec => [](PagesConserved /\ RefsCountHolders)
<1>1. PagesInv => PagesConserved /\ RefsCountHolders
  BY DEF PagesInv
<1> QED BY <1>1, PlainPages, PagesInvariant, PTL

\* and the allocator implements the page pool.
THEOREM PlainImplementsPool ==
  ASSUME ~PrefixCacheEnabled
  PROVE  Spec => ImplementsPool /\ AppendsWritePrivatePages
BY PlainPages, PagedImplementsPool, AppendsStayPrivate, PTL

-----------------------------------------------------------------------------
(* Allocated pages store tokens *)

\* Pages that were allocated before and not evicted keep their tokens.
LEMMA StillStored ==
  ASSUME PagesInv, PagesInv', PagesStoreTokens,
         \A b \in Block : b \notin FreePages' => b \notin FreePages /\ used'[b] >= used[b]
  PROVE  PagesStoreTokens'
<1>1. TypeOK /\ TypeOK' /\ PagesConserved /\ PagesConserved'
  BY DEF PagesInv, ReservationInv
<1>2. ASSUME NEW b \in AllocatedBlocks' PROVE used'[b] > 0
  <2>1. b \in Block /\ b \notin FreePages'
    BY <1>1, <1>2 DEF PagesConserved, AllocatedBlocks, ActiveBlocks, CachedBlocks, Block
  <2>2. b \in AllocatedBlocks
    BY <1>1, <2>1 DEF PagesConserved, Block
  <2>3. used[b] \in Nat /\ used'[b] \in Nat
    BY <1>1, <2>1, SizesAssumption DEF TypeOK, Block
  <2> QED BY <2>1, <2>2, <2>3 DEF PagesStoreTokens
<1> QED BY <1>2 DEF PagesStoreTokens

\* An eviction empties only pages that it frees.
LEMMA EvictionStores ==
  ASSUME PagesInv, PagesInv', PagesStoreTokens, NEW n \in Nat, NEW o \in Evictions(n),
         free' = FreeAfter(o), used' = UsedAfter(o)
  PROVE  PagesStoreTokens'
<1>1. TypeOK
  BY DEF PagesInv, ReservationInv
<1>2. FreePages' = FreePages \cup EvictedBlocks(o)
  <2>1. PagesOf(FreeAfter(o)) = FreePages \cup EvictedBlocks(o)
    BY <1>1, EvictionPages
  <2>2. PagesOf(FreeAfter(o)) = FreePages'
    BY DEF FreePages, PagesOf
  <2> QED BY <2>1, <2>2
<1>3. ASSUME NEW b \in Block, b \notin FreePages'
      PROVE  b \notin FreePages /\ used'[b] >= used[b]
  <2>1. used[b] \in Int
    BY <1>1, SizesAssumption DEF TypeOK
  <2>2. used'[b] = used[b]
    BY <1>2, <1>3 DEF UsedAfter
  <2> QED BY <1>2, <1>3, <2>1, <2>2
<1> QED BY <1>3, StillStored

\* An append writes to every page it takes.
LEMMA AppendStores ==
  ASSUME PagesInv, PagesInv', PagesStoreTokens, NEW r \in Request, HasShape(r),
         NEW n \in Nat \ {0}, AppendTokens(r, n)
  PROVE  PagesStoreTokens'
<1> DEFINE full    == CeilDiv(stored[r], BlockTokens)
           need    == NeededBlocks(r, n)
           missing == full + 1 .. need
           filled  == (stored[r] + n) - (need - 1) * BlockTokens
<1>1. /\ ReservationInv /\ TypeOK /\ TypeOK' /\ PagesConserved /\ PagesConserved'
      /\ AppendFits(r, n)
  BY DEF PagesInv, ReservationInv, AppendTokens
<1>2. /\ MissingEntries(r, n) = missing /\ GrowthBlocks(r, n) \in Nat
      /\ full \in Nat /\ need \in Nat
  BY <1>1, AppendEntries
<1>3. missing \subseteq WrittenEntries(r, n)
  BY <1>2 DEF MissingEntries
<1>4. PICK o \in Evictions(GrowthBlocks(r, n)) :
        LET stack == FreeAfter(o)
            after == TableAfter(r, n, stack)
        IN  /\ free' = SubSeq(stack, 1, Len(stack) - Cardinality(MissingEntries(r, n)))
            /\ used' = [b \in Block |->
                 IF \E i \in WrittenEntries(r, n) \ {need} : after[i] = b THEN BlockTokens
                 ELSE IF after[need] = b THEN Greatest(filled, UsedAfter(o)[b])
                 ELSE UsedAfter(o)[b]]
  BY DEF AppendTokens
<1> DEFINE stack == FreeAfter(o)
           after == TableAfter(r, n, stack)
           m     == need - full
           taken == {after[i] : i \in missing}
<1>5. /\ stack \in Seq(Block) /\ m \in Nat /\ m <= Len(stack)
      /\ Cardinality(MissingEntries(r, n)) = m
      /\ \A i \in missing : after[i] = stack[Len(stack) + 1 - (i - full)]
  BY <1>1, AppendTable
<1>6. filled \in Int /\ filled > 0
  <2> DEFINE v == stored[r] + n
             c == CeilDiv(v, BlockTokens)
  <2>1. v \in Nat /\ BlockTokens \in Nat \ {0}
    <3>1. stored \in [Request -> Nat]
      BY <1>1 DEF TypeOK
    <3> QED BY <3>1, SizesAssumption
  <2>2. filled = v - (c - 1) * BlockTokens
    BY DEF NeededBlocks
  <2> HIDE DEF v, filled
  <2>3. c \in Nat /\ BlockTokens * c < v + BlockTokens
    BY <2>1, CeilDivBounds
  <2> HIDE DEF c
  <2>4. (c - 1) * BlockTokens = BlockTokens * c - BlockTokens /\ BlockTokens * c \in Int
    BY <2>1, <2>3
  <2> QED BY <2>1, <2>2, <2>3, <2>4
<1>7. /\ Len(stack) \in Nat
      /\ \A i \in missing : i - full \in 1 .. m
      /\ \A k \in 1 .. m : full + k \in missing /\ (full + k) - full = k
  BY <1>2, <1>5, LenProperties
<1> HIDE DEF stack, after, need, full, filled
<1>8. taken = {stack[Len(stack) + 1 - k] : k \in 1 .. m}
  <2> DEFINE top(k) == stack[Len(stack) + 1 - k]
  <2>1. \A i \in missing : i - full \in 1 .. m /\ after[i] = top(i - full)
    BY <1>5, <1>7
  <2>2. ASSUME NEW k \in 1 .. m PROVE \E i \in missing : after[i] = top(k)
    <3>1. full + k \in missing /\ after[full + k] = top(k)
      BY <1>7, <2>1
    <3> QED BY <3>1
  <2>3. taken = {after[i] : i \in missing}
    OBVIOUS
  <2> HIDE DEF missing, m, top, taken
  <2>4. taken = {top(k) : k \in 1 .. m}
    BY <2>1, <2>2, <2>3
  <2> QED BY <2>4 DEF top
<1>9. free' = SubSeq(stack, 1, Len(stack) - m)
  BY <1>4, <1>5 DEF stack
<1> HIDE DEF m, taken
<1>10. PagesOf(stack) = PagesOf(free') \cup taken
  BY <1>5, <1>8, <1>9, PoppedPages
<1>11. PagesOf(stack) = FreePages \cup EvictedBlocks(o) /\ PagesOf(free') = FreePages'
  BY <1>1, <1>2, EvictionPages DEF stack, PagesOf, FreePages
<1>12. ASSUME NEW b \in Block
       PROVE  /\ used'[b] = IF \E i \in WrittenEntries(r, n) \ {need} : after[i] = b THEN BlockTokens
                            ELSE IF after[need] = b THEN Greatest(filled, UsedAfter(o)[b])
                            ELSE UsedAfter(o)[b]
              /\ used[b] \in 0 .. BlockTokens
              /\ UsedAfter(o)[b] = IF b \in EvictedBlocks(o) THEN 0 ELSE used[b]
  BY <1>1, <1>4 DEF after, stack, need, filled, TypeOK, UsedAfter
<1>13. ASSUME NEW b \in taken, b \in Block PROVE used'[b] > 0
  <2>1. PICK i \in missing : after[i] = b
    BY <1>13 DEF taken
  <2>2. i \in WrittenEntries(r, n)
    BY <1>3, <2>1
  <2>3. CASE i # need
    <3>1. used'[b] = BlockTokens
      BY <1>12, <1>13, <2>1, <2>2, <2>3
    <3> QED BY <3>1, SizesAssumption
  <2>4. CASE i = need
    <3>1. used'[b] = BlockTokens \/ used'[b] = Greatest(filled, UsedAfter(o)[b])
      BY <1>12, <1>13, <2>1, <2>4
    <3>2. UsedAfter(o)[b] \in Int
      BY <1>12, <1>13, SizesAssumption
    <3> QED BY <1>6, <3>1, <3>2, SizesAssumption DEF Greatest
  <2> QED BY <2>3, <2>4
<1>14. ASSUME NEW b \in Block, b \notin FreePages', b \notin taken
       PROVE  b \notin FreePages /\ used'[b] >= used[b]
  <2>1. b \notin FreePages /\ b \notin EvictedBlocks(o)
    BY <1>10, <1>11, <1>14
  <2>2. UsedAfter(o)[b] = used[b] /\ used[b] \in Int /\ used[b] <= BlockTokens
    BY <1>12, <2>1, SizesAssumption
  <2>3. Greatest(filled, UsedAfter(o)[b]) >= used[b]
    BY <1>6, <2>2 DEF Greatest
  <2> QED BY <1>12, <2>1, <2>2, <2>3
<1>15. ASSUME NEW b \in AllocatedBlocks' PROVE used'[b] > 0
  <2>1. b \in Block /\ b \notin FreePages'
    BY <1>1, <1>15 DEF PagesConserved, AllocatedBlocks, ActiveBlocks, CachedBlocks, Block
  <2>2. CASE b \in taken
    BY <1>13, <2>1, <2>2
  <2>3. CASE b \notin taken
    <3>1. b \notin FreePages /\ used'[b] >= used[b]
      BY <1>14, <2>1, <2>3
    <3>2. b \in AllocatedBlocks
      BY <1>1, <2>1, <3>1 DEF PagesConserved
    <3>3. used[b] \in Nat /\ used'[b] \in Nat
      BY <1>1, <2>1, SizesAssumption DEF TypeOK, Block
    <3> QED BY <3>1, <3>2, <3>3 DEF PagesStoreTokens
  <2> QED BY <2>2, <2>3
<1> QED BY <1>15 DEF PagesStoreTokens

LEMMA NextStores ==
  ASSUME PagesInv, PagesInv', PagesStoreTokens, [Next]_vars
  PROVE  PagesStoreTokens'
<1>1. ReservationInv /\ TypeOK /\ TablesInShape
  BY DEF PagesInv, ReservationInv
<1>2. ASSUME UNCHANGED <<refs, pinned, used>> PROVE PagesStoreTokens'
  BY <1>2 DEF PagesStoreTokens, AllocatedBlocks, ActiveBlocks, CachedBlocks
<1>3. ASSUME NEW n \in Nat, FailedEnsure(n) PROVE PagesStoreTokens'
  BY <1>3, EvictionStores DEF FailedEnsure
<1>4. ASSUME NEW r \in Request, status[r] = "Active" PROVE HasShape(r)
  BY <1>1, <1>4 DEF TablesInShape, RequestInShape
<1>5. ASSUME NEW r \in Request, AdmitCall(r) PROVE PagesStoreTokens'
  <2>1. \A hits \in 0 .. CompletePromptBlocks(r) : PromptBlocks(r) - hits \in Nat
    BY <1>1, BlockCounts
  <2>2. CASE AdmitImpossible(r)
    BY <1>2, <2>2 DEF AdmitImpossible, cacheVars
  <2>3. ASSUME NEW hits \in 0 .. CompletePromptBlocks(r), Admit(r, hits)
        PROVE  PagesStoreTokens'
    <3>1. PICK o \in Evictions(PromptBlocks(r) - hits) : free' = FreeAfter(o) /\ used' = UsedAfter(o)
      BY <2>3 DEF Admit
    <3> QED BY <2>1, <3>1, EvictionStores
  <2>4. ASSUME NEW hits \in 0 .. CompletePromptBlocks(r), AdmitTemporarilyUnavailable(r, hits)
        PROVE  PagesStoreTokens'
    BY <1>3, <2>1, <2>4 DEF AdmitTemporarilyUnavailable
  <2> QED BY <1>5, <2>2, <2>3, <2>4 DEF AdmitCall
<1>6. ASSUME NEW r \in Request, AppendCall(r) PROVE PagesStoreTokens'
  <2>1. ASSUME NEW n \in 1 .. Len(prompt[r]), AppendPrefill(r, n) PROVE PagesStoreTokens'
    <3>1. n \in Nat \ {0} /\ AppendTokens(r, n) /\ HasShape(r)
      BY <1>1, <1>4, <2>1, BlockCounts DEF AppendPrefill, IsPrefilling
    <3> QED BY <3>1, AppendStores
  <2>2. ASSUME NEW last \in BOOLEAN, AppendDecode(r, last) PROVE PagesStoreTokens'
    <3>1. 1 \in Nat \ {0} /\ AppendTokens(r, 1) /\ HasShape(r)
      BY <1>4, <2>2 DEF AppendDecode, IsDecoding
    <3> QED BY <3>1, AppendStores
  <2>3. ASSUME GrowthExhausted(r) PROVE PagesStoreTokens'
    <3>1. CASE UNCHANGED cacheVars
      BY <1>2, <3>1 DEF cacheVars
    <3>2. CASE FailedEnsure(GrowthBlocks(r, 1))
      <4>1. GrowthBlocks(r, 1) \in Nat
        BY <1>1, <1>4, <2>3, AppendEntries DEF GrowthExhausted, IsDecoding
      <4> QED BY <1>3, <3>2, <4>1
    <3> QED BY <2>3, <3>1, <3>2 DEF GrowthExhausted
  <2> QED BY <1>6, <2>1, <2>2, <2>3 DEF AppendCall
<1>7. ASSUME NEW S \in SUBSET Request, Expire(S) PROVE PagesStoreTokens'
  BY <1>2, <1>7 DEF Expire, cacheVars
<1>8. ASSUME CacheRefresh PROVE PagesStoreTokens'
  BY <1>2, <1>8 DEF CacheRefresh, cacheVars
<1>9. ASSUME CacheInsert PROVE PagesStoreTokens'
  <2>1. FreePages' = FreePages /\ used' = used
    BY <1>9 DEF CacheInsert, FreePages
  <2>2. \A b \in Block : used[b] \in Int
    BY <1>1, SizesAssumption DEF TypeOK
  <2> QED BY <2>1, <2>2, StillStored
<1>10. ASSUME Release PROVE PagesStoreTokens'
  <2>1. PICK r \in Request :
          /\ r = Head(calls).request
          /\ FreePages' = FreePages \cup {table[r][i] : i \in FreedEntries(r)}
    BY <1>1, <1>10, ReleasePages
  <2>2. used' = [b \in Block |->
                  IF b \in {table[r][i] : i \in FreedEntries(r)} THEN 0 ELSE used[b]]
    BY <1>10, <2>1 DEF Release
  <2>3. \A b \in Block : used[b] \in Int
    BY <1>1, SizesAssumption DEF TypeOK
  <2> QED BY <2>1, <2>2, <2>3, StillStored
<1>11. ASSUME UNCHANGED vars PROVE PagesStoreTokens'
  BY <1>2, <1>11 DEF vars, cacheVars
<1> QED BY <1>5, <1>6, <1>7, <1>8, <1>9, <1>10, <1>11 DEF Next, Terminated

LEMMA StoredInvariant == Spec /\ EvictedPagesAreUnreferenced => []PagesStoreTokens
<1>1. Init => PagesStoreTokens
  BY DEF Init, PagesStoreTokens, AllocatedBlocks, ActiveBlocks, CachedBlocks
<1>2. PagesInv /\ PagesInv' /\ PagesStoreTokens /\ [Next]_vars => PagesStoreTokens'
  BY NextStores
<1> QED BY <1>1, <1>2, PagesInvariant, PTL DEF Spec
=============================================================================
