---------------------- MODULE ContiguousKvCache_proofs ----------------------
(***************************************************************************)
(* Contiguous runs never overlap and always hold the whole sequence, for   *)
(* every set of requests and every size of the cache.                      *)
(***************************************************************************)
EXTENDS ContiguousKvCache, BlockTheorems, SequenceTheorems

\* The length of a run, and that it holds what its request may store.
LEMMA NeededHoldsAll ==
  ASSUME TypeOK, NEW r \in Request
  PROVE  /\ size[r] \in Nat /\ TotalTokens(r) \in Nat \ {0}
         /\ Needed(r) \in Nat \ {0}
         /\ TotalTokens(r) <= Needed(r) * BlockTokens
<1>1. size[r] \in Nat /\ TotalTokens(r) \in Nat \ {0}
  <2>1. size[r] \in Nat
    BY PromptSizesAssumption DEF TypeOK
  <2>2. MaxNewTokens \in Nat \ {0}
    BY SizesAssumption
  <2> QED BY <2>1, <2>2 DEF TotalTokens
<1> DEFINE total == TotalTokens(r)
           c == CeilDiv(total, BlockTokens)
<1>2. c \in Nat /\ total <= BlockTokens * c
  BY <1>1, SizesAssumption, CeilDivBounds
<1> HIDE DEF total, c
<1>3. c # 0 /\ total <= c * BlockTokens
  <2>1. BlockTokens \in Nat \ {0} /\ total \in Nat \ {0}
    BY <1>1, SizesAssumption DEF total
  <2>2. c = 0 => BlockTokens * c = 0
    BY <2>1
  <2>3. c * BlockTokens = BlockTokens * c
    BY <1>2, <2>1
  <2> QED BY <1>2, <2>1, <2>2, <2>3
<1> QED BY <1>1, <1>2, <1>3 DEF total, c, Needed

\* Storing tokens in a run keeps every block within its size.
LEMMA UsedStaysInRange ==
  ASSUME TypeOK, NEW r \in Request, NEW n \in Nat
  PROVE  UsedAfter(r, n) \in [Block -> 0 .. BlockTokens]
<1> SUFFICES ASSUME NEW b \in Block PROVE UsedAfter(r, n)[b] \in 0 .. BlockTokens
  BY DEF UsedAfter
<1>1. used[b] \in 0 .. BlockTokens /\ stored[r] \in Nat /\ BlockTokens \in Nat \ {0}
  BY SizesAssumption DEF TypeOK
<1>2. CASE \E i \in WrittenEntries(r, n) : table[r][i] = b
  <2> DEFINE i == CHOOSE i \in WrittenEntries(r, n) : table[r][i] = b
             x == FilledTo(i, stored[r] + n)
  <2>1. i \in WrittenEntries(r, n)
    BY <1>2
  <2>2. i \in Int
    BY <2>1 DEF WrittenEntries
  <2>3. x \in Int /\ x <= BlockTokens
    <3> HIDE DEF i
    <3>1. (i - 1) * BlockTokens \in Int
      BY <1>1, <2>2
    <3> QED BY <1>1, <3>1 DEF FilledTo, Least
  <2>4. UsedAfter(r, n)[b] = Greatest(used[b], x)
    BY <1>2 DEF UsedAfter
  <2> HIDE DEF x
  <2> QED BY <1>1, <2>3, <2>4 DEF Greatest
<1>3. CASE ~ \E i \in WrittenEntries(r, n) : table[r][i] = b
  BY <1>1, <1>3 DEF UsedAfter
<1> QED BY <1>2, <1>3

\* Nothing is owned at first.
LEMMA InitContiguous == Init => ContiguousInv
<1> SUFFICES ASSUME Init PROVE ContiguousInv
  OBVIOUS
<1>1. TypeOK
  BY EmptySeq, SizesAssumption DEF Init, TypeOK, Phases
<1>2. RunsInShape
  BY DEF Init, RunsInShape
<1>3. \A r \in Request : Blocks(r) = {}
  BY EmptySeq DEF Init, Blocks
<1>4. OwnershipExact
  BY <1>3 DEF Init, OwnershipExact, RunsAreDisjoint, OwnedIsInARun
<1> QED BY <1>1, <1>2, <1>4 DEF ContiguousInv

\* A request that is turned away held nothing.
LEMMA TurnAway ==
  ASSUME ContiguousInv, NEW r \in Request, AdmitImpossible(r) \/ Expire(r)
  PROVE  ContiguousInv'
<1>1. /\ status[r] = "Queued" /\ status' = [status EXCEPT ![r] = "Rejected"]
      /\ UNCHANGED <<owned, used, size, table, stored>>
  BY DEF AdmitImpossible, Expire
<1>2. TypeOK'
  BY <1>1 DEF ContiguousInv, TypeOK, Phases
<1>3. RunsInShape'
  BY <1>1 DEF ContiguousInv, TypeOK, RunsInShape, Needed, TotalTokens, IsRun
<1>4. OwnershipExact'
  BY <1>1 DEF ContiguousInv, OwnershipExact, RunsAreDisjoint, OwnedIsInARun, Blocks
<1> QED BY <1>2, <1>3, <1>4 DEF ContiguousInv

\* An admission takes a run that nobody owned.
LEMMA AdmitTakesFreeRun ==
  ASSUME ContiguousInv, NEW r \in Request, Admit(r)
  PROVE  ContiguousInv'
<1> DEFINE n == Needed(r)
<1>1. PICK b \in Block :
        /\ IsFreeRun(b, n)
        /\ owned' = [c \in Block |-> owned[c] \/ c \in b .. b + n - 1]
        /\ table' = [table EXCEPT ![r] = [i \in 1 .. n |-> b + i - 1]]
  BY DEF Admit
<1>2. /\ status[r] = "Queued" /\ status' = [status EXCEPT ![r] = "Active"]
      /\ used' = used /\ size' = size /\ stored' = stored
  BY DEF Admit
<1>3. TypeOK /\ RunsInShape /\ OwnershipExact
  BY DEF ContiguousInv
<1>4. n \in Nat \ {0} /\ TotalTokens(r) \in Nat \ {0} /\ size[r] \in Nat
  BY <1>3, NeededHoldsAll
<1> DEFINE run == [i \in 1 .. n |-> b + i - 1]
<1> HIDE DEF n
<1>5. b \in Nat /\ b + n <= TotalBlocks /\ TotalBlocks \in Nat
      /\ \A c \in b .. b + n - 1 : ~owned[c]
  BY <1>1, SizesAssumption DEF IsFreeRun, Block
<1>6. run \in Seq(Block) /\ Len(run) = n /\ DOMAIN run = 1 .. n
      /\ \A i \in 1 .. n : run[i] = b + i - 1
  <2>1. \A i \in 1 .. n : b + i - 1 \in Block
    BY <1>4, <1>5 DEF Block
  <2> QED BY <1>4, <2>1
<1>7. {run[i] : i \in DOMAIN run} = b .. b + n - 1
  <2>1. ASSUME NEW c \in b .. b + n - 1 PROVE c \in {run[i] : i \in DOMAIN run}
    <3>1. c - b + 1 \in 1 .. n /\ run[c - b + 1] = c
      BY <1>4, <1>5, <1>6
    <3> QED BY <1>6, <3>1
  <2>2. ASSUME NEW i \in DOMAIN run PROVE run[i] \in b .. b + n - 1
    BY <1>4, <1>5, <1>6
  <2> QED BY <2>1, <2>2
<1> HIDE DEF run
<1>8. /\ table' \in [Request -> Seq(Block)] /\ table'[r] = run
      /\ \A q \in Request \ {r} : table'[q] = table[q]
  BY <1>1, <1>3, <1>6 DEF TypeOK, run
<1>9. TypeOK'
  <2>1. owned' \in [Block -> BOOLEAN]
    BY <1>1, <1>3 DEF TypeOK
  <2> QED BY <1>2, <1>3, <1>8, <2>1 DEF TypeOK, Phases
<1>10. RunsInShape'
  <2>1. IsRun(run)
    BY <1>4, <1>5, <1>6 DEF IsRun
  <2>2. \A q \in Request : Needed(q)' = Needed(q) /\ TotalTokens(q)' = TotalTokens(q)
    BY <1>2 DEF Needed, TotalTokens
  <2>3. stored[r] < TotalTokens(r)
    <3>1. stored[r] = 0
      BY <1>2, <1>3 DEF RunsInShape
    <3> QED BY <1>4, <3>1
  <2> QED BY <1>2, <1>3, <1>6, <1>8, <2>1, <2>2, <2>3 DEF RunsInShape, TypeOK, n
<1>11. /\ Blocks(r)' = b .. b + n - 1
       /\ \A q \in Request \ {r} : Blocks(q)' = Blocks(q)
  BY <1>7, <1>8 DEF Blocks
<1>12. \A q \in Request \ {r} : Blocks(q) \cap b .. b + n - 1 = {}
  <2> SUFFICES ASSUME NEW q \in Request \ {r}, NEW c \in Blocks(q), c \in b .. b + n - 1
               PROVE  FALSE
    OBVIOUS
  <2>1. c \in Block
    BY <1>4, <1>5 DEF Block
  <2>2. owned[c]
    BY <1>3, <2>1 DEF OwnershipExact, OwnedIsInARun
  <2> QED BY <1>5, <2>2
<1>13. RunsAreDisjoint'
  <2> SUFFICES ASSUME NEW p \in Request, NEW q \in Request, p # q
               PROVE  Blocks(p)' \cap Blocks(q)' = {}
    BY DEF RunsAreDisjoint
  <2>1. CASE p = r
    BY <1>11, <1>12, <2>1
  <2>2. CASE q = r
    BY <1>11, <1>12, <2>2
  <2>3. CASE p # r /\ q # r
    BY <1>3, <1>11, <2>3 DEF OwnershipExact, RunsAreDisjoint
  <2> QED BY <2>1, <2>2, <2>3
<1>14. Blocks(r) = {}
  <2>1. table[r] = <<>>
    BY <1>2, <1>3 DEF RunsInShape
  <2> QED BY <2>1, EmptySeq DEF Blocks
<1>15. OwnedIsInARun'
  <2> SUFFICES ASSUME NEW c \in Block
               PROVE  owned'[c] <=> \E q \in Request : c \in Blocks(q)'
    BY DEF OwnedIsInARun
  <2>1. owned'[c] <=> (owned[c] \/ c \in b .. b + n - 1)
    BY <1>1
  <2>2. owned[c] <=> \E q \in Request : c \in Blocks(q)
    BY <1>3 DEF OwnershipExact, OwnedIsInARun
  <2> QED BY <1>11, <1>14, <2>1, <2>2
<1> QED BY <1>9, <1>10, <1>13, <1>15 DEF ContiguousInv, OwnershipExact

\* Storing tokens moves no block.
LEMMA AppendKeepsRuns ==
  ASSUME ContiguousInv, NEW r \in Request,
         (\E n \in 1 .. size[r] : Prefill(r, n)) \/ Decode(r)
  PROVE  ContiguousInv'
<1>1. TypeOK /\ RunsInShape /\ OwnershipExact
  BY DEF ContiguousInv
<1>2. /\ size[r] \in Nat /\ TotalTokens(r) \in Nat \ {0} /\ stored[r] \in Nat
      /\ MaxNewTokens \in Nat \ {0} /\ TotalTokens(r) = size[r] + MaxNewTokens
  BY <1>1, NeededHoldsAll, SizesAssumption DEF TypeOK, TotalTokens
<1>3. PICK n \in Nat :
        /\ status[r] = "Active" /\ stored[r] + n < TotalTokens(r)
        /\ used' = UsedAfter(r, n)
        /\ stored' = [stored EXCEPT ![r] = @ + n]
        /\ UNCHANGED <<owned, size, table, status>>
  <2>1. CASE Decode(r)
    BY <2>1 DEF Decode
  <2>2. ASSUME NEW n \in 1 .. size[r], Prefill(r, n)
        PROVE  stored[r] + n < TotalTokens(r) /\ n \in Nat
    BY <1>2, <2>2 DEF Prefill
  <2>3. CASE \E n \in 1 .. size[r] : Prefill(r, n)
    BY <2>2, <2>3 DEF Prefill
  <2> QED BY <2>1, <2>3
<1>4. used' \in [Block -> 0 .. BlockTokens]
  BY <1>1, <1>3, UsedStaysInRange
<1>5. /\ stored' \in [Request -> Nat] /\ stored'[r] = stored[r] + n
      /\ \A q \in Request \ {r} : stored'[q] = stored[q]
  BY <1>1, <1>2, <1>3 DEF TypeOK
<1>6. TypeOK'
  BY <1>1, <1>3, <1>4, <1>5 DEF TypeOK
<1>7. RunsInShape'
  BY <1>1, <1>3, <1>5 DEF RunsInShape, TypeOK, Needed, TotalTokens, IsRun
<1>8. OwnershipExact'
  BY <1>1, <1>3 DEF OwnershipExact, RunsAreDisjoint, OwnedIsInARun, Blocks
<1> QED BY <1>6, <1>7, <1>8 DEF ContiguousInv

\* The last token gives the whole run back, and nothing else.
LEMMA LastTokenReturnsRun ==
  ASSUME ContiguousInv, NEW r \in Request, DecodeLast(r)
  PROVE  ContiguousInv'
<1>1. TypeOK /\ RunsInShape /\ OwnershipExact
  BY DEF ContiguousInv
<1>2. /\ status[r] = "Active" /\ status' = [status EXCEPT ![r] = "Finished"]
      /\ owned' = [b \in Block |-> owned[b] /\ b \notin Blocks(r)]
      /\ used' = [b \in Block |-> IF b \in Blocks(r) THEN 0 ELSE UsedAfter(r, 1)[b]]
      /\ table' = [table EXCEPT ![r] = <<>>]
      /\ stored' = [stored EXCEPT ![r] = @ + 1]
      /\ size' = size
  BY DEF DecodeLast
<1>3. UsedAfter(r, 1) \in [Block -> 0 .. BlockTokens]
  BY <1>1, UsedStaysInRange
<1>4. used' \in [Block -> 0 .. BlockTokens]
  BY <1>2, <1>3, SizesAssumption
<1>5. owned' \in [Block -> BOOLEAN] /\ \A b \in Block : owned'[b] <=> (owned[b] /\ b \notin Blocks(r))
  BY <1>1, <1>2 DEF TypeOK
<1>6. /\ table' \in [Request -> Seq(Block)] /\ table'[r] = <<>>
      /\ \A q \in Request \ {r} : table'[q] = table[q]
  BY <1>1, <1>2, EmptySeq DEF TypeOK
<1>7. TypeOK'
  BY <1>1, <1>2, <1>4, <1>5, <1>6 DEF TypeOK, Phases
<1>8. RunsInShape'
  BY <1>1, <1>2, <1>6 DEF RunsInShape, TypeOK, Needed, TotalTokens, IsRun
<1>9. Blocks(r)' = {} /\ \A q \in Request \ {r} : Blocks(q)' = Blocks(q)
  BY <1>6, EmptySeq DEF Blocks
<1>10. RunsAreDisjoint'
  <2> SUFFICES ASSUME NEW p \in Request, NEW q \in Request, p # q
               PROVE  Blocks(p)' \cap Blocks(q)' = {}
    BY DEF RunsAreDisjoint
  <2>1. CASE p = r \/ q = r
    BY <1>9, <2>1
  <2>2. CASE p # r /\ q # r
    BY <1>1, <1>9, <2>2 DEF OwnershipExact, RunsAreDisjoint
  <2> QED BY <2>1, <2>2
<1>11. OwnedIsInARun'
  <2> SUFFICES ASSUME NEW c \in Block
               PROVE  owned'[c] <=> \E q \in Request : c \in Blocks(q)'
    BY DEF OwnedIsInARun
  <2>1. owned[c] <=> \E q \in Request : c \in Blocks(q)
    BY <1>1 DEF OwnershipExact, OwnedIsInARun
  <2>2. \A q \in Request \ {r} : c \in Blocks(q) => c \notin Blocks(r)
    BY <1>1 DEF OwnershipExact, RunsAreDisjoint
  <2> QED BY <1>5, <1>9, <2>1, <2>2
<1> QED BY <1>7, <1>8, <1>10, <1>11 DEF ContiguousInv, OwnershipExact

\* ContiguousInv is preserved by every step.
LEMMA NextContiguous == ContiguousInv /\ [Next]_vars => ContiguousInv'
<1> SUFFICES ASSUME ContiguousInv, [Next]_vars PROVE ContiguousInv'
  OBVIOUS
<1>1. ASSUME NEW r \in Request, AdmitImpossible(r) \/ Expire(r) PROVE ContiguousInv'
  BY <1>1, TurnAway
<1>2. ASSUME NEW r \in Request, Admit(r) PROVE ContiguousInv'
  BY <1>2, AdmitTakesFreeRun
<1>3. ASSUME NEW r \in Request, (\E n \in 1 .. size[r] : Prefill(r, n)) \/ Decode(r)
      PROVE  ContiguousInv'
  BY <1>3, AppendKeepsRuns
<1>4. ASSUME NEW r \in Request, DecodeLast(r) PROVE ContiguousInv'
  BY <1>4, LastTokenReturnsRun
<1>5. ASSUME UNCHANGED vars PROVE ContiguousInv'
  <2>1. TypeOK'
    BY <1>5 DEF vars, ContiguousInv, TypeOK
  <2>2. RunsInShape'
    BY <1>5 DEF vars, ContiguousInv, RunsInShape, Needed, TotalTokens, IsRun
  <2>3. OwnershipExact'
    BY <1>5 DEF vars, ContiguousInv, OwnershipExact, RunsAreDisjoint, OwnedIsInARun, Blocks
  <2> QED BY <2>1, <2>2, <2>3 DEF ContiguousInv
<1> QED BY <1>1, <1>2, <1>3, <1>4, <1>5 DEF Next, Terminated

-----------------------------------------------------------------------------
(* Theorems *)

\* The inductive invariant holds in every reachable state: types, the shape of
\* the runs and who owns what.
THEOREM ContiguousInvariant == Spec => []ContiguousInv
BY InitContiguous, NextContiguous, PTL DEF Spec

\* No two requests ever share a block, and a block is owned exactly while it is
\* in the run of an active request: first fit and release are each other's
\* inverse whatever the order of admissions and completions.
THEOREM RunsNeverOverlap == Spec => []OwnershipExact
<1>1. ContiguousInv => OwnershipExact
  BY DEF ContiguousInv
<1> QED BY <1>1, ContiguousInvariant, PTL

\* After admission no append ever fails, in prefill or in decode.
THEOREM AppendsNeverFail == Spec => []AppendsAlwaysFit
<1>1. ContiguousInv => AppendsAlwaysFit
  <2> SUFFICES ASSUME ContiguousInv, NEW r \in Request, status[r] = "Active",
                      NEW n \in 1 .. TotalTokens(r) - stored[r]
               PROVE  AppendFits(r, n)
    BY DEF AppendsAlwaysFit
  <2>1. TypeOK /\ Len(table[r]) = Needed(r) /\ stored[r] \in Nat
    BY DEF ContiguousInv, RunsInShape, TypeOK
  <2>2. TotalTokens(r) \in Nat /\ Needed(r) \in Nat /\ TotalTokens(r) <= Needed(r) * BlockTokens
    BY <2>1, NeededHoldsAll
  <2>3. stored[r] + n <= TotalTokens(r)
    BY <2>1, <2>2
  <2>4. Needed(r) * BlockTokens \in Nat
    BY <2>2, SizesAssumption
  <2> QED BY <2>1, <2>2, <2>3, <2>4 DEF AppendFits
<1> QED BY <1>1, ContiguousInvariant, PTL

-----------------------------------------------------------------------------
(* The allocator implements PagePool *)

\* Steps that leave every table alone leave the holders alone.
LEMMA HoldingUnchanged == UNCHANGED table => UNCHANGED Holding
BY DEF Holding, Blocks

\* An admission takes free pages for one request.
LEMMA AdmitAcquires ==
  ASSUME ContiguousInv, NEW r \in Request, Admit(r)
  PROVE  Pool!Acquire(r)
<1> DEFINE n == Needed(r)
<1>1. PICK b \in Block :
        /\ IsFreeRun(b, n)
        /\ table' = [table EXCEPT ![r] = [i \in 1 .. n |-> b + i - 1]]
  BY DEF Admit
<1>2. /\ TypeOK /\ RunsInShape /\ OwnershipExact /\ status[r] = "Queued"
  BY DEF ContiguousInv, Admit
<1>3. n \in Nat \ {0} /\ b \in Nat
  BY <1>2, NeededHoldsAll, SizesAssumption DEF Block
<1> DEFINE run == [i \in 1 .. n |-> b + i - 1]
           taken == b .. b + n - 1
<1> HIDE DEF n
<1>4. {run[i] : i \in DOMAIN run} = taken
  <2>1. ASSUME NEW c \in taken PROVE c \in {run[i] : i \in DOMAIN run}
    <3>1. c - b + 1 \in 1 .. n /\ run[c - b + 1] = c
      BY <1>3
    <3> QED BY <3>1
  <2>2. ASSUME NEW i \in DOMAIN run PROVE run[i] \in taken
    BY <1>3
  <2> QED BY <2>1, <2>2
<1>5. taken \subseteq Block /\ \A c \in taken : ~owned[c]
  BY <1>1, <1>3, SizesAssumption DEF IsFreeRun, Block
<1> HIDE DEF run, taken
<1>6. Blocks(r)' = taken /\ \A q \in Request \ {r} : Blocks(q)' = Blocks(q)
  <2>1. table'[r] = run /\ \A q \in Request \ {r} : table'[q] = table[q]
    BY <1>1, <1>2 DEF TypeOK, run
  <2> QED BY <1>4, <2>1 DEF Blocks
<1>7. Blocks(r) = {}
  BY <1>2, EmptySeq DEF RunsInShape, Blocks
<1>8. taken \subseteq Pool!Unheld
  BY <1>2, <1>5 DEF OwnershipExact, OwnedIsInARun, Pool!Unheld, Holding
<1>9. Holding' = [p \in Block |-> IF p \in {} \cup taken THEN Holding[p] \cup {r} ELSE Holding[p]]
  <2>1. ASSUME NEW p \in Block
        PROVE  {q \in Request : p \in Blocks(q)'} =
                 IF p \in {} \cup taken THEN {q \in Request : p \in Blocks(q)} \cup {r}
                 ELSE {q \in Request : p \in Blocks(q)}
    BY <1>6, <1>7
  <2> QED BY <2>1 DEF Holding
<1> DEFINE none == {} \ {}
<1>10. none = {}
  OBVIOUS
<1>11. {} \in SUBSET Pool!Evictable /\ {} \in SUBSET none /\ taken \in SUBSET (Pool!Unheld \ none)
  BY <1>8, <1>10
<1> QED BY <1>9, <1>10, <1>11, Zenon DEF Pool!Acquire

\* A release takes back the pages of one request.
LEMMA LastTokenGivesBack ==
  ASSUME ContiguousInv, NEW r \in Request, DecodeLast(r)
  PROVE  Pool!GiveBack(r)
<1>1. /\ table' = [table EXCEPT ![r] = <<>>] /\ table \in [Request -> Seq(Block)]
  BY DEF DecodeLast, ContiguousInv, TypeOK
<1>2. Blocks(r)' = {} /\ \A q \in Request \ {r} : Blocks(q)' = Blocks(q)
  BY <1>1, EmptySeq DEF Blocks
<1>3. Holding' = [p \in Block |-> Holding[p] \ {r}]
  BY <1>2 DEF Holding
<1> QED BY <1>3 DEF Pool!GiveBack

\* The contiguous layout implements the page pool: every admission takes free
\* pages only, every release returns all, and no other call moves a page.
THEOREM ContiguousImplementsPool == Spec => ImplementsPool
<1>1. Init => Pool!Init
  <2> SUFFICES ASSUME Init PROVE Holding = [p \in Block |-> {}]
    BY DEF Pool!Init
  <2>1. \A r \in Request : Blocks(r) = {}
    BY EmptySeq DEF Init, Blocks
  <2> QED BY <2>1 DEF Holding
<1>2. ContiguousInv /\ [Next]_vars => [Pool!Next]_(Pool!poolVars)
  <2> SUFFICES ASSUME ContiguousInv, [Next]_vars, ~UNCHANGED table
               PROVE  Pool!Next
    BY HoldingUnchanged DEF Pool!poolVars
  <2>1. ASSUME NEW r \in Request, Admit(r) PROVE Pool!Next
    BY <2>1, AdmitAcquires DEF Pool!Next
  <2>2. ASSUME NEW r \in Request, DecodeLast(r) PROVE Pool!Next
    BY <2>2, LastTokenGivesBack DEF Pool!Next
  <2>3. (\E r \in Request : Admit(r)) \/ (\E r \in Request : DecodeLast(r))
    BY DEF Next, Terminated, vars, AdmitImpossible, Expire, Prefill, Decode
  <2> QED BY <2>1, <2>2, <2>3
<1> QED BY <1>1, <1>2, ContiguousInvariant, PTL DEF Spec, ImplementsPool, Pool!Spec

-----------------------------------------------------------------------------
(* The largest free run *)

\* The loop of stats() has a count at each block, from the count before it.
LEMMA FreeRunsAre ==
  ASSUME owned \in [Block -> BOOLEAN]
  PROVE  \A b \in Block : FreeRunAt[b] =
           IF owned[b] THEN 0 ELSE 1 + IF b = 0 THEN 0 ELSE FreeRunAt[b - 1]
<1> DEFINE last == TotalBlocks - 1
           P(m) == \E g \in [0 .. m -> Int] :
                     g = [b \in 0 .. m |->
                            IF owned[b] THEN 0 ELSE 1 + IF b = 0 THEN 0 ELSE g[b - 1]]
           S    == {m \in 0 .. last : P(m)}
           E(g) == g = [b \in Block |->
                          IF owned[b] THEN 0 ELSE 1 + IF b = 0 THEN 0 ELSE g[b - 1]]
<1>1. last \in Nat /\ Block = 0 .. last
  BY SizesAssumption DEF Block
<1> HIDE DEF last
<1>2. P(0)
  <2> DEFINE g == [b \in 0 .. 0 |-> IF owned[b] THEN 0 ELSE 1]
  <2>1. /\ g \in [0 .. 0 -> Int]
        /\ g = [b \in 0 .. 0 |-> IF owned[b] THEN 0 ELSE 1 + IF b = 0 THEN 0 ELSE g[b - 1]]
    OBVIOUS
  <2> HIDE DEF g
  <2> QED BY <2>1
<1>3. ASSUME NEW m \in 0 .. last, m < last, P(m) PROVE P(m + 1)
  <2>1. PICK g \in [0 .. m -> Int] :
          g = [b \in 0 .. m |-> IF owned[b] THEN 0 ELSE 1 + IF b = 0 THEN 0 ELSE g[b - 1]]
    BY <1>3
  <2> DEFINE top == IF owned[m + 1] THEN 0 ELSE 1 + g[m]
             h   == [b \in 0 .. m + 1 |-> IF b = m + 1 THEN top ELSE g[b]]
  <2>2. m \in Nat /\ g[m] \in Int /\ top \in Int
    BY <1>1
  <2>3. h \in [0 .. m + 1 -> Int]
    <3> HIDE DEF top
    <3> QED BY <2>2
  <2>4. ASSUME NEW b \in 0 .. m + 1
        PROVE  h[b] = IF owned[b] THEN 0 ELSE 1 + IF b = 0 THEN 0 ELSE h[b - 1]
    <3>1. CASE b = m + 1
      <4>1. b # 0 /\ b - 1 = m /\ h[b] = top /\ h[b - 1] = g[m]
        BY <2>2, <3>1
      <4> QED BY <3>1, <4>1
    <3>2. CASE b # m + 1
      <4>1. b \in 0 .. m /\ h[b] = g[b] /\ (b # 0 => h[b - 1] = g[b - 1])
        BY <2>2, <3>2
      <4>2. g[b] = IF owned[b] THEN 0 ELSE 1 + IF b = 0 THEN 0 ELSE g[b - 1]
        BY <2>1, <4>1
      <4> QED BY <4>1, <4>2
    <3> QED BY <3>1, <3>2
  <2>5. h = [b \in 0 .. m + 1 |->
               IF owned[b] THEN 0 ELSE 1 + IF b = 0 THEN 0 ELSE h[b - 1]]
    BY <2>4
  <2> HIDE DEF h
  <2> QED BY <2>3, <2>5
<1> HIDE DEF P
<1>4. P(last)
  <2>1. S \in SUBSET (0 .. last) /\ 0 \in S /\ \A m \in S : m < last => m + 1 \in S
    BY <1>1, <1>2, <1>3
  <2> HIDE DEF S
  <2>2. \A m \in 0 .. last : m \in S
    BY <1>1, <2>1, UpTo
  <2>3. last \in 0 .. last
    BY <1>1
  <2> QED BY <2>2, <2>3 DEF S
<1>5. \E g : E(g)
  BY <1>1, <1>4 DEF P
<1>6. FreeRunAt = CHOOSE g : E(g)
  BY DEF FreeRunAt
<1> HIDE DEF E
<1>7. E(FreeRunAt)
  BY <1>5, <1>6
<1> QED BY <1>7 DEF E

\* The count at a block is the length of the run that ends there.
RunEndsAt(b, n) ==
  /\ n \in 0 .. b + 1
  /\ \A c \in b - n + 1 .. b : ~owned[c]
  /\ n <= b => owned[b - n]

LEMMA FreeRunsEnd ==
  ASSUME owned \in [Block -> BOOLEAN]
  PROVE  \A b \in Block : RunEndsAt(b, FreeRunAt[b])
<1> DEFINE last == TotalBlocks - 1
           S    == {b \in 0 .. last : RunEndsAt(b, FreeRunAt[b])}
<1>1. last \in Nat /\ Block = 0 .. last
  BY SizesAssumption DEF Block
<1>2. \A b \in 0 .. last : FreeRunAt[b] =
        IF owned[b] THEN 0 ELSE 1 + IF b = 0 THEN 0 ELSE FreeRunAt[b - 1]
  BY <1>1, FreeRunsAre
<1> HIDE DEF last
<1>3. 0 \in S
  <2>1. 0 \in 0 .. last /\ FreeRunAt[0] = IF owned[0] THEN 0 ELSE 1
    BY <1>1, <1>2
  <2> QED BY <2>1 DEF RunEndsAt
<1>4. ASSUME NEW b \in S, b < last PROVE b + 1 \in S
  <2>1. PICK n \in 0 .. b + 1 : n = FreeRunAt[b] /\ RunEndsAt(b, n)
    BY DEF RunEndsAt
  <2>2. b \in Nat /\ b + 1 \in 0 .. last
    BY <1>1, <1>4
  <2>3. FreeRunAt[b + 1] = IF owned[b + 1] THEN 0 ELSE 1 + n
    BY <1>2, <2>1, <2>2
  <2>4. RunEndsAt(b + 1, IF owned[b + 1] THEN 0 ELSE 1 + n)
    <3>1. CASE owned[b + 1]
      <4>1. RunEndsAt(b + 1, 0)
        BY <2>2, <3>1 DEF RunEndsAt
      <4> QED BY <3>1, <4>1
    <3>2. CASE ~owned[b + 1]
      <4>1. 1 + n \in 0 .. (b + 1) + 1
        BY <2>2
      <4>2. ASSUME NEW c \in (b + 1) - (1 + n) + 1 .. b + 1 PROVE ~owned[c]
        <5>1. c = b + 1 \/ c \in b - n + 1 .. b
          BY <2>2
        <5> QED BY <2>1, <3>2, <5>1 DEF RunEndsAt
      <4>3. 1 + n <= b + 1 => owned[(b + 1) - (1 + n)]
        <5>1. (b + 1) - (1 + n) = b - n
          BY <2>2
        <5>2. 1 + n <= b + 1 => n <= b
          BY <2>2
        <5> QED BY <2>1, <5>1, <5>2 DEF RunEndsAt
      <4>4. RunEndsAt(b + 1, 1 + n)
        BY <4>1, <4>2, <4>3 DEF RunEndsAt
      <4> QED BY <3>2, <4>4
    <3> QED BY <3>1, <3>2
  <2> QED BY <2>2, <2>3, <2>4
<1>5. \A b \in 0 .. last : b \in S
  <2>1. S \in SUBSET (0 .. last)
    OBVIOUS
  <2> HIDE DEF S
  <2> QED BY <1>1, <1>3, <1>4, <2>1, UpTo
<1> QED BY <1>1, <1>5

\* The largest of them.
LEMMA LargestFreeRunIs ==
  ASSUME owned \in [Block -> BOOLEAN]
  PROVE  /\ \E b \in Block : LargestFreeRun = FreeRunAt[b]
         /\ \A b \in Block : FreeRunAt[b] <= LargestFreeRun
<1> DEFINE lengths == {FreeRunAt[b] : b \in Block}
<1>1. \A b \in Block : FreeRunAt[b] \in Nat /\ FreeRunAt[b] <= TotalBlocks
  <2> TAKE b \in Block
  <2>1. b \in Nat /\ b + 1 <= TotalBlocks /\ TotalBlocks \in Nat
    BY SizesAssumption DEF Block
  <2>2. FreeRunAt[b] \in 0 .. b + 1
    BY FreeRunsEnd DEF RunEndsAt
  <2> QED BY <2>1, <2>2
<1>2. /\ lengths \in SUBSET Nat /\ lengths # {} /\ TotalBlocks \in Nat
      /\ \A n \in lengths : n <= TotalBlocks
  <2>1. 0 \in Block
    BY SizesAssumption DEF Block
  <2> QED BY <1>1, <2>1, SizesAssumption
<1>3. LargestFreeRun = CHOOSE n \in lengths : \A m \in lengths : m <= n
  BY DEF LargestFreeRun
<1> HIDE DEF lengths
<1>4. \E n \in lengths : \A m \in lengths : m <= n
  BY <1>2, GreatestElement
<1>5. LargestFreeRun \in lengths /\ \A m \in lengths : m <= LargestFreeRun
  BY <1>3, <1>4
<1> QED BY <1>5 DEF lengths

\* stats() reports the length of the longest run that admission could find: first
\* fit fails only on fragmentation, and the metric says so (kv_cache.cpp:273-291,
\* 330-343).
THEOREM AdmissionMatchesTheMetric == Spec => []AdmitsWhatTheLargestRunHolds
<1>1. ASSUME ContiguousInv, NEW r \in Request
      PROVE  (\E b \in Block : IsFreeRun(b, Needed(r))) <=> Needed(r) <= LargestFreeRun
  <2> DEFINE n == Needed(r)
             T == TotalBlocks
  <2>1. n \in Nat \ {0} /\ T \in Nat \ {0} /\ owned \in [Block -> BOOLEAN]
        /\ Block = 0 .. T - 1
    BY <1>1, NeededHoldsAll, SizesAssumption DEF ContiguousInv, TypeOK, Block
  <2> HIDE DEF n, T
  <2>2. ASSUME NEW b \in Block, IsFreeRun(b, n) PROVE n <= LargestFreeRun
    <3>1. PICK e \in Block : e = b + n - 1
      BY <2>1, <2>2 DEF IsFreeRun, T
    <3>2. PICK m : m = FreeRunAt[e]
      OBVIOUS
    <3>3. m \in 0 .. e + 1 /\ (m <= e => owned[e - m])
      BY <2>1, <3>2, FreeRunsEnd DEF RunEndsAt
    <3>4. ASSUME m < n PROVE FALSE
      <4>1. m <= e /\ e - m \in b .. b + n - 1
        BY <2>1, <3>1, <3>3, <3>4
      <4> QED BY <2>2, <3>3, <4>1 DEF IsFreeRun
    <3>5. n <= m
      BY <2>1, <3>3, <3>4
    <3>6. PICK l : l = LargestFreeRun
      OBVIOUS
    <3>7. m <= l /\ l \in Int
      <4>1. PICK c \in Block : l = FreeRunAt[c]
        BY <2>1, <3>6, LargestFreeRunIs
      <4>2. l \in 0 .. c + 1
        BY <2>1, <4>1, FreeRunsEnd DEF RunEndsAt
      <4> QED BY <2>1, <3>2, <3>6, <4>2, LargestFreeRunIs
    <3> QED BY <2>1, <3>3, <3>5, <3>6, <3>7
  <2>3. ASSUME n <= LargestFreeRun PROVE \E b \in Block : IsFreeRun(b, n)
    <3>1. PICK e \in Block : LargestFreeRun = FreeRunAt[e]
      BY <2>1, LargestFreeRunIs
    <3>2. PICK m : m = FreeRunAt[e]
      OBVIOUS
    <3>3. m \in 0 .. e + 1 /\ (\A c \in e - m + 1 .. e : ~owned[c]) /\ n <= m
      BY <2>1, <2>3, <3>1, <3>2, FreeRunsEnd DEF RunEndsAt
    <3>4. PICK b \in Block : b = e - n + 1
      BY <2>1, <3>3
    <3>5. b + n <= T /\ \A c \in b .. b + n - 1 : c \in e - m + 1 .. e
      BY <2>1, <3>3, <3>4
    <3>6. IsFreeRun(b, n)
      BY <3>3, <3>5 DEF IsFreeRun, T
    <3> QED BY <3>6
  <2> QED BY <2>2, <2>3 DEF n
<1>2. ContiguousInv => AdmitsWhatTheLargestRunHolds
  BY <1>1 DEF AdmitsWhatTheLargestRunHolds
<1> QED BY <1>2, ContiguousInvariant, PTL
=============================================================================
