------------------------ MODULE ServingSimulator_proofs ------------------------
(***************************************************************************)
(* What holds of the run loop for every workload, every policy and every   *)
(* latency of the iterations.                                              *)
(***************************************************************************)
EXTENDS ServingSimulator, PagedKvCache_proofs

LEMMA Requests ==
  NumRequests \in Nat /\ Request = 1 .. NumRequests /\ Request \subseteq Nat
BY RequestAssumption, IndexAssumption, FS_CardinalityType DEF NumRequests

\* The first request in line is one that waits, and the first of them.
LEMMA FirstWaitingIs ==
  ASSUME WaitingRequests # {}
  PROVE  /\ FirstWaiting \in WaitingRequests /\ FirstWaiting \in Request
         /\ \A q \in WaitingRequests : FirstWaiting <= q
<1>1. WaitingRequests \in SUBSET Nat /\ WaitingRequests \subseteq Request
  BY Requests DEF WaitingRequests
<1>2. \E r \in WaitingRequests : \A q \in WaitingRequests : r <= q
  BY <1>1, LeastElement
<1> QED BY <1>1, <1>2 DEF FirstWaiting

\* The elements of a set of requests can be put in order.
LEMMA OrderExists ==
  \A n \in Nat : \A S \in SUBSET (1 .. n) : InOrder(S) # {}
<1> DEFINE P(n) == \A S \in SUBSET (1 .. n) : InOrder(S) # {}
           T == {n \in Nat : P(n)}
<1>1. P(0)
  <2> SUFFICES ASSUME NEW S \in SUBSET (1 .. 0) PROVE InOrder(S) # {}
    OBVIOUS
  <2>1. S = {} /\ Cardinality(S) = 0
    <3>1. 1 .. 0 = {}
      OBVIOUS
    <3> QED BY <3>1, FS_EmptySet
  <2>2. [i \in 1 .. 0 |-> i] \in InOrder(S)
    BY <2>1 DEF InOrder
  <2> QED BY <2>2
<1>2. ASSUME NEW n \in Nat, P(n) PROVE P(n + 1)
  <2> SUFFICES ASSUME NEW S \in SUBSET (1 .. n + 1) PROVE InOrder(S) # {}
    OBVIOUS
  <2>1. CASE n + 1 \notin S
    <3>1. S \in SUBSET (1 .. n)
      BY <2>1
    <3> QED BY <1>2, <3>1
  <2>2. CASE n + 1 \in S
    <3> DEFINE U == S \ {n + 1}
    <3>1. U \in SUBSET (1 .. n)
      OBVIOUS
    <3>2. PICK o : o \in InOrder(U)
      BY <1>2, <3>1
    <3>3. IsFiniteSet(U) /\ S = U \cup {n + 1} /\ n + 1 \notin U
      <4>1. IsFiniteSet(1 .. n)
        BY FS_Interval
      <4>2. IsFiniteSet(U)
        BY <3>1, <4>1, FS_Subset
      <4> QED BY <2>2, <4>2
    <3>4. Cardinality(S) = Cardinality(U) + 1 /\ Cardinality(U) \in Nat
      BY <3>3, FS_AddElement, FS_CardinalityType
    <3> DEFINE c == Cardinality(U)
               p == [i \in 1 .. c + 1 |-> IF i <= c THEN o[i] ELSE n + 1]
    <3>5. o \in [1 .. c -> U] /\ \A i, j \in 1 .. c : i < j => o[i] < o[j]
      BY <3>2 DEF InOrder
    <3> HIDE DEF c
    <3>6. c \in Nat /\ Cardinality(S) = c + 1
      BY <3>4 DEF c
    <3>7. p \in [1 .. c + 1 -> S]
      BY <2>2, <3>5, <3>6
    <3>8. ASSUME NEW i \in 1 .. c + 1, NEW j \in 1 .. c + 1, i < j PROVE p[i] < p[j]
      <4>1. i \in 1 .. c /\ i <= c
        BY <3>6, <3>8
      <4>2. o[i] \in 1 .. n
        BY <3>1, <3>5, <4>1
      <4>3. CASE j <= c
        BY <3>5, <3>6, <3>8, <4>1, <4>3
      <4>4. CASE ~(j <= c)
        BY <4>1, <4>2, <4>4
      <4> QED BY <4>3, <4>4
    <3>9. p \in InOrder(S)
      BY <3>6, <3>7, <3>8 DEF InOrder
    <3> QED BY <3>9
  <2> QED BY <2>1, <2>2
<1>3. T = Nat
  <2>1. T \in SUBSET Nat /\ 0 \in T /\ \A n \in T : n + 1 \in T
    BY <1>1, <1>2
  <2> QED BY <2>1, SetInduction
<1> QED BY <1>3

LEMMA AscendingIs ==
  ASSUME NEW S \in SUBSET Request
  PROVE  /\ Ascending(S) \in Seq(S) /\ Len(Ascending(S)) = Cardinality(S)
         /\ \A i, j \in 1 .. Len(Ascending(S)) : i < j => Ascending(S)[i] < Ascending(S)[j]
         /\ Ascending(S) = <<>> <=> S = {}
         /\ IsFiniteSet(S)
<1>1. Ascending(S) \in InOrder(S)
  BY Requests, OrderExists DEF Ascending
<1>2. IsFiniteSet(S) /\ Cardinality(S) \in Nat
  BY RequestAssumption, FS_Subset, FS_CardinalityType
<1>3. Ascending(S) \in [1 .. Cardinality(S) -> S]
  BY <1>1 DEF InOrder
<1>4. Ascending(S) \in Seq(S) /\ Len(Ascending(S)) = Cardinality(S)
  BY <1>2, <1>3, LenProperties, IsASeq
<1>5. Ascending(S) = <<>> <=> S = {}
  BY <1>2, <1>4, FS_EmptySet, EmptySeq, LenProperties
<1> QED BY <1>1, <1>2, <1>4, <1>5 DEF InOrder

-----------------------------------------------------------------------------
(* schedule_iteration *)

\* The budget that is left along the requests exists, and is what it says.
LEMMA LeftAfterIs ==
  ASSUME TypeOK, NEW b \in Nat
  PROVE  /\ LeftAfter(b) \in [0 .. NumRequests -> Int]
         /\ LeftAfter(b)[0] = b
         /\ \A r \in Request :
              LeftAfter(b)[r] = LeftAfter(b)[r - 1] - Chunk(r, LeftAfter(b)[r - 1])
<1> DEFINE spent(r, x) == x - Chunk(r, x)
           P(n) == \E g \in [0 .. n -> Int] :
                     g = [r \in 0 .. n |-> IF r = 0 THEN b ELSE spent(r, g[r - 1])]
           T == {n \in Nat : n <= NumRequests => P(n)}
<1>1. ASSUME NEW r \in Request, NEW x \in Int PROVE spent(r, x) \in Int
  BY BlockCounts, ServiceAssumption DEF Chunk, Least
<1> HIDE DEF spent
<1>2. P(0)
  <2> DEFINE g == [r \in 0 .. 0 |-> b]
  <2>1. g \in [0 .. 0 -> Int]
    OBVIOUS
  <2>2. g = [r \in 0 .. 0 |-> IF r = 0 THEN b ELSE spent(r, g[r - 1])]
    OBVIOUS
  <2> HIDE DEF g
  <2> QED BY <2>1, <2>2
<1>3. ASSUME NEW n \in Nat, n + 1 <= NumRequests, P(n) PROVE P(n + 1)
  <2>1. PICK g \in [0 .. n -> Int] :
          g = [r \in 0 .. n |-> IF r = 0 THEN b ELSE spent(r, g[r - 1])]
    BY <1>3
  <2> DEFINE h == [r \in 0 .. n + 1 |-> IF r = n + 1 THEN spent(n + 1, g[n]) ELSE g[r]]
  <2>2. n + 1 \in Request /\ spent(n + 1, g[n]) \in Int
    BY <1>1, <1>3, Requests
  <2>3. h \in [0 .. n + 1 -> Int]
    BY <2>2
  <2>4. ASSUME NEW r \in 0 .. n + 1
        PROVE  h[r] = IF r = 0 THEN b ELSE spent(r, h[r - 1])
    <3>1. CASE r = n + 1
      BY <3>1
    <3>2. CASE r # n + 1
      <4>1. r \in 0 .. n /\ h[r] = g[r] /\ (r # 0 => h[r - 1] = g[r - 1])
        BY <3>2
      <4>2. g[r] = IF r = 0 THEN b ELSE spent(r, g[r - 1])
        BY <2>1, <4>1
      <4> QED BY <4>1, <4>2
    <3> QED BY <3>1, <3>2
  <2>5. h = [r \in 0 .. n + 1 |-> IF r = 0 THEN b ELSE spent(r, h[r - 1])]
    BY <2>3, <2>4
  <2> QED BY <2>3, <2>5
<1> HIDE DEF P
<1>4. T = Nat
  <2>1. T \in SUBSET Nat /\ 0 \in T
    BY <1>2
  <2>2. ASSUME NEW n \in T PROVE n + 1 \in T
    <3>1. n + 1 <= NumRequests => n <= NumRequests
      BY Requests
    <3> QED BY <1>3, <3>1
  <2> QED BY <2>1, <2>2, SetInduction
<1>5. PICK g \in [0 .. NumRequests -> Int] :
        g = [r \in 0 .. NumRequests |-> IF r = 0 THEN b ELSE spent(r, g[r - 1])]
  BY <1>4, Requests DEF P
<1> DEFINE E(f) == f = [r \in 0 .. NumRequests |-> IF r = 0 THEN b ELSE f[r - 1] - Chunk(r, f[r - 1])]
<1>6. LeftAfter(b) = CHOOSE f : E(f)
  BY DEF LeftAfter
<1>7. E(g)
  BY <1>5 DEF spent
<1> HIDE DEF E
<1>8. E(LeftAfter(b))
  BY <1>6, <1>7
<1>9. LeftAfter(b) = [r \in 0 .. NumRequests |->
                        IF r = 0 THEN b ELSE spent(r, LeftAfter(b)[r - 1])]
  BY <1>8 DEF E, spent
<1>10. \A r \in 0 .. NumRequests : LeftAfter(b)[r] \in Int
  <2> DEFINE U == {n \in Nat : n <= NumRequests => LeftAfter(b)[n] \in Int}
  <2>1. 0 \in U
    BY <1>9, Requests
  <2>2. ASSUME NEW n \in U, n + 1 <= NumRequests PROVE LeftAfter(b)[n + 1] \in Int
    <3>1. n + 1 \in Request /\ LeftAfter(b)[n] \in Int
      BY <2>2, Requests
    <3>2. LeftAfter(b)[n + 1] = spent(n + 1, LeftAfter(b)[n])
      <4>1. n + 1 \in 0 .. NumRequests /\ n + 1 # 0 /\ (n + 1) - 1 = n
        BY <2>2, Requests
      <4>2. \A r \in 0 .. NumRequests :
              LeftAfter(b)[r] = IF r = 0 THEN b ELSE spent(r, LeftAfter(b)[r - 1])
        BY <1>9
      <4> HIDE DEF U
      <4> QED BY <4>1, <4>2
    <3>3. spent(n + 1, LeftAfter(b)[n]) \in Int
      BY <1>1, <3>1
    <3> QED BY <3>2, <3>3
  <2>3. U = Nat
    <3>1. ASSUME NEW n \in U PROVE n + 1 \in U
      <4>1. n \in Nat
        OBVIOUS
      <4>2. CASE n + 1 <= NumRequests
        BY <2>2, <4>1, <4>2
      <4>3. CASE ~(n + 1 <= NumRequests)
        BY <4>1, <4>3
      <4> QED BY <4>2, <4>3
    <3>2. U \in SUBSET Nat
      OBVIOUS
    <3> HIDE DEF U
    <3> QED BY <2>1, <3>1, <3>2, SetInduction
  <2> QED BY <2>3, Requests
<1>11. LeftAfter(b)[0] = b
  BY <1>9, Requests
<1>12. ASSUME NEW r \in Request
       PROVE  LeftAfter(b)[r] = LeftAfter(b)[r - 1] - Chunk(r, LeftAfter(b)[r - 1])
  BY <1>9, Requests DEF spent
<1>13. LeftAfter(b) \in [0 .. NumRequests -> Int]
  BY <1>9, <1>10
<1> QED BY <1>11, <1>12, <1>13

\* A chunk is no more than the budget and the rest of the prompt, and it is
\* something whenever there is a budget and a rest.
LEMMA ChunkIs ==
  ASSUME TypeOK, NEW r \in Request, NEW left \in Nat
  PROVE  /\ Chunk(r, left) \in Nat /\ Chunk(r, left) <= left
         /\ Chunk(r, left) > 0 =>
              IsPrefilling(r) /\ Chunk(r, left) \in 1 .. Len(prompt[r]) - stored[r]
         /\ (IsPrefilling(r) /\ left > 0) => Chunk(r, left) > 0
         /\ ~IsPrefilling(r) => Chunk(r, left) = 0
<1>1. Len(prompt[r]) \in Nat /\ stored[r] \in Nat /\ ChunkTokens \in Nat \ {0}
  BY BlockCounts, ServiceAssumption
<1>2. IsPrefilling(r) => stored[r] < Len(prompt[r])
  BY DEF IsPrefilling
<1> QED BY <1>1, <1>2 DEF Chunk, Least

\* What is left of the budget never is negative and never grows.
LEMMA BudgetIsKept ==
  ASSUME TypeOK, NEW b \in Nat
  PROVE  /\ \A n \in 0 .. NumRequests : LeftAfter(b)[n] \in Nat /\ LeftAfter(b)[n] <= b
         /\ LeftAfter(b)[0] = b
         /\ \A r \in Request :
              /\ LeftAfter(b)[r - 1] \in Nat /\ LeftAfter(b)[r] \in Nat
              /\ LeftAfter(b)[r - 1] - LeftAfter(b)[r] = Chunk(r, LeftAfter(b)[r - 1])
<1> DEFINE left == LeftAfter(b)
           T == {n \in Nat : n <= NumRequests => left[n] \in Nat /\ left[n] <= b}
<1>1. /\ left \in [0 .. NumRequests -> Int] /\ left[0] = b
      /\ \A r \in Request : left[r] = left[r - 1] - Chunk(r, left[r - 1])
  BY LeftAfterIs
<1> HIDE DEF left
<1>2. ASSUME NEW n \in Nat, n + 1 <= NumRequests, left[n] \in Nat, left[n] <= b
      PROVE  left[n + 1] \in Nat /\ left[n + 1] <= b
  <2>1. n + 1 \in Request /\ (n + 1) - 1 = n
    BY <1>2, Requests
  <2>2. left[n + 1] = left[n] - Chunk(n + 1, left[n])
    BY <1>1, <2>1
  <2>3. Chunk(n + 1, left[n]) \in Nat /\ Chunk(n + 1, left[n]) <= left[n]
    BY <1>2, <2>1, ChunkIs
  <2> QED BY <1>2, <2>2, <2>3
<1>3. T = Nat
  <2>1. T \in SUBSET Nat /\ 0 \in T
    BY <1>1
  <2>2. ASSUME NEW n \in T PROVE n + 1 \in T
    <3>1. n \in Nat /\ (n + 1 <= NumRequests => n <= NumRequests)
      BY Requests
    <3> QED BY <1>2, <3>1
  <2> HIDE DEF T
  <2> QED BY <2>1, <2>2, SetInduction
<1>4. \A n \in 0 .. NumRequests : left[n] \in Nat /\ left[n] <= b
  BY <1>3, Requests
<1>5. ASSUME NEW r \in Request
      PROVE  /\ left[r - 1] \in Nat /\ left[r] \in Nat
             /\ left[r - 1] - left[r] = Chunk(r, left[r - 1])
  <2>1. r \in 0 .. NumRequests /\ r - 1 \in 0 .. NumRequests
    BY Requests
  <2>2. left[r - 1] \in Nat /\ left[r] \in Nat
    BY <1>4, <2>1
  <2>3. Chunk(r, left[r - 1]) \in Nat
    BY <2>2, ChunkIs
  <2> QED BY <1>1, <2>2, <2>3
<1> QED BY <1>1, <1>4, <1>5 DEF left

\* Budget that is offered to nobody is left.
LEMMA BudgetIsLeft ==
  ASSUME TypeOK, NEW b \in Nat, \A r \in Request : Chunk(r, LeftAfter(b)[r - 1]) = 0
  PROVE  \A n \in 0 .. NumRequests : LeftAfter(b)[n] = b
<1> DEFINE left == LeftAfter(b)
           T == {n \in Nat : n <= NumRequests => left[n] = b}
<1>1. /\ left[0] = b
      /\ \A r \in Request : /\ left[r - 1] \in Nat /\ left[r] \in Nat
                            /\ left[r - 1] - left[r] = 0
  BY BudgetIsKept
<1> HIDE DEF left
<1>2. ASSUME NEW n \in Nat, n + 1 <= NumRequests, left[n] = b PROVE left[n + 1] = b
  <2>1. n + 1 \in Request /\ (n + 1) - 1 = n
    BY <1>2, Requests
  <2> QED BY <1>1, <1>2, <2>1
<1>3. T = Nat
  <2>1. T \in SUBSET Nat /\ 0 \in T
    BY <1>1
  <2>2. ASSUME NEW n \in T PROVE n + 1 \in T
    <3>1. n \in Nat /\ (n + 1 <= NumRequests => n <= NumRequests)
      BY Requests
    <3> QED BY <1>2, <3>1
  <2> HIDE DEF T
  <2> QED BY <2>1, <2>2, SetInduction
<1> QED BY <1>3, Requests DEF left

\* The prefill part of an iteration: valid items, one per request, and at least
\* one when there is a budget and a request that prefills.
LEMMA PrefillWorkIs ==
  ASSUME TypeOK, NEW b \in Nat
  PROVE  /\ PrefillWork(b) \in Seq(Items)
         /\ \A k \in 1 .. Len(PrefillWork(b)) :
              ~PrefillWork(b)[k].decode /\ ItemIsValid(PrefillWork(b)[k])
         /\ \A k, l \in 1 .. Len(PrefillWork(b)) :
              PrefillWork(b)[k].request = PrefillWork(b)[l].request => k = l
         /\ (b > 0 /\ \E r \in Request : IsPrefilling(r)) => PrefillWork(b) # <<>>
         /\ LeftAfter(b)[NumRequests] \in Nat /\ LeftAfter(b)[NumRequests] <= b
         /\ (\A r \in Request : ~IsPrefilling(r)) => LeftAfter(b)[NumRequests] = b
<1> DEFINE left     == LeftAfter(b)
           chunk(r) == left[r - 1] - left[r]
           due      == {r \in Request : chunk(r) > 0}
           chosen   == Ascending(due)
           w        == [k \in 1 .. Len(chosen) |-> PrefillItem(chosen[k], chunk(chosen[k]))]
<1>1. PrefillWork(b) = w
  BY DEF PrefillWork
<1>2. /\ \A n \in 0 .. NumRequests : left[n] \in Nat /\ left[n] <= b
      /\ left[0] = b
      /\ \A r \in Request : left[r - 1] \in Nat /\ chunk(r) = Chunk(r, left[r - 1])
  BY BudgetIsKept
<1>3. /\ chosen \in Seq(due) /\ Len(chosen) \in Nat
      /\ \A i, j \in 1 .. Len(chosen) : i < j => chosen[i] < chosen[j]
      /\ chosen = <<>> <=> due = {}
  <2>1. due \in SUBSET Request
    OBVIOUS
  <2> HIDE DEF due
  <2> QED BY <2>1, AscendingIs, LenProperties
<1>4. ASSUME NEW r \in due
      PROVE  /\ r \in Request /\ chunk(r) \in Nat /\ chunk(r) > 0 /\ IsPrefilling(r)
             /\ chunk(r) \in 1 .. Len(prompt[r]) - stored[r]
  <2>1. r \in Request /\ chunk(r) > 0 /\ chunk(r) = Chunk(r, left[r - 1]) /\ left[r - 1] \in Nat
    BY <1>2
  <2> HIDE DEF chunk, due
  <2> QED BY <2>1, ChunkIs
<1>5. (b > 0 /\ \E r \in Request : IsPrefilling(r)) => due # {}
  <2> SUFFICES ASSUME b > 0, NEW r \in Request, IsPrefilling(r), due = {} PROVE FALSE
    OBVIOUS
  <2>1. ASSUME NEW q \in Request PROVE Chunk(q, left[q - 1]) = 0
    <3>1. Chunk(q, left[q - 1]) \in Nat /\ chunk(q) = Chunk(q, left[q - 1])
      BY <1>2, ChunkIs
    <3>2. ~(chunk(q) > 0)
      OBVIOUS
    <3> HIDE DEF chunk
    <3> QED BY <3>1, <3>2
  <2>2. \A n \in 0 .. NumRequests : left[n] = b
    BY <2>1, BudgetIsLeft
  <2>3. left[r - 1] = b
    BY <2>2, Requests
  <2>4. Chunk(r, b) > 0
    BY ChunkIs
  <2>5. Chunk(r, b) = 0
    BY <2>1, <2>3
  <2> QED BY <2>4, <2>5
<1>6. (\A r \in Request : ~IsPrefilling(r)) => left[NumRequests] = b
  <2> SUFFICES ASSUME \A r \in Request : ~IsPrefilling(r) PROVE left[NumRequests] = b
    OBVIOUS
  <2>1. \A r \in Request : Chunk(r, left[r - 1]) = 0
    BY <1>2, ChunkIs
  <2>2. \A n \in 0 .. NumRequests : left[n] = b
    BY <2>1, BudgetIsLeft
  <2> QED BY <2>2, Requests
<1>7. left[NumRequests] \in Nat /\ left[NumRequests] <= b
  BY <1>2, Requests
<1> HIDE DEF left, chunk, due
<1>8. ASSUME NEW k \in 1 .. Len(chosen)
      PROVE  chosen[k] \in due /\ chosen[k] \in Request /\ w[k] = PrefillItem(chosen[k], chunk(chosen[k]))
  <2>1. chosen[k] \in due
    BY <1>3, ElementOfSeq
  <2> QED BY <1>4, <2>1
<1> HIDE DEF chosen
<1>9. w \in Seq(Items) /\ Len(w) = Len(chosen)
  <2>1. \A k \in 1 .. Len(chosen) : PrefillItem(chosen[k], chunk(chosen[k])) \in Items
    BY <1>4, <1>8 DEF PrefillItem, Items
  <2> QED BY <1>3, <2>1
<1>10. ASSUME NEW k \in 1 .. Len(w) PROVE ~w[k].decode /\ ItemIsValid(w[k])
  <2>1. w[k] = PrefillItem(chosen[k], chunk(chosen[k])) /\ chosen[k] \in due
    BY <1>8, <1>9
  <2> QED BY <1>4, <2>1 DEF PrefillItem, ItemIsValid
<1>11. ASSUME NEW k \in 1 .. Len(w), NEW l \in 1 .. Len(w), w[k].request = w[l].request
       PROVE  k = l
  <2>1. chosen[k] = chosen[l] /\ chosen[k] \in Nat
    BY <1>8, <1>9, <1>11, Requests DEF PrefillItem
  <2>2. ~(k < l) /\ ~(l < k)
    BY <1>3, <1>9, <2>1
  <2> QED BY <1>3, <1>9, <2>2
<1>12. due # {} => w # <<>>
  <2>1. due # {} => Len(chosen) # 0
    BY <1>3, EmptySeq, LenProperties
  <2> QED BY <1>9, <2>1, EmptySeq
<1> HIDE DEF w
<1> QED BY <1>1, <1>5, <1>6, <1>7, <1>9, <1>10, <1>11, <1>12 DEF left

\* A sum of two places of a rotation wraps around at most once.
LEMMA WrapsOnce ==
  ASSUME NEW m \in Nat \ {0}, NEW x \in Nat, x < m + m
  PROVE  x % m = IF x < m THEN x ELSE x - m
<1>1. CASE x < m
  <2>1. x \div m = 0
    BY <1>1, DivUnique
  <2> QED BY <1>1
<1>2. CASE ~(x < m)
  <2>1. (x - m) % m = x - m
    BY <1>2
  <2>2. x % m = (x - m) % m
    OBVIOUS
  <2> QED BY <1>2, <2>1, <2>2
<1> QED BY <1>1, <1>2

LEMMA RemainderIs ==
  ASSUME NEW x \in Nat, NEW m \in Nat \ {0}
  PROVE  x % m \in 0 .. m - 1
OBVIOUS

\* The decode part of an iteration: valid items, one per request, and at least
\* one when there is a budget and a request that decodes.
LEMMA DecodeWorkIs ==
  ASSUME TypeOK, NEW b \in Nat, offset \in 0 .. NumRequests
  PROVE  /\ DecodeWork(b) \in Seq(Items)
         /\ \A k \in 1 .. Len(DecodeWork(b)) :
              DecodeWork(b)[k].decode /\ ItemIsValid(DecodeWork(b)[k])
         /\ \A k, l \in 1 .. Len(DecodeWork(b)) :
              DecodeWork(b)[k].request = DecodeWork(b)[l].request => k = l
         /\ (b > 0 /\ \E r \in Request : IsDecoding(r)) => DecodeWork(b) # <<>>
         /\ DecodeCount(b) \in Nat /\ DecodeCount(b) <= b
         /\ (\A r \in Request : ~IsDecoding(r)) => DecodeCount(b) = 0
         /\ OffsetAfter(b) \in 0 .. NumRequests
<1> DEFINE due   == {r \in Request : IsDecoding(r)}
           cands == DecodeCandidates
           m     == Len(cands)
           c     == DecodeCount(b)
           at(k) == ((Rotation + k - 1) % m) + 1
           w     == [k \in 1 .. c |-> DecodeItem(cands[at(k)])]
<1>1. /\ cands \in Seq(due) /\ m = Cardinality(due) /\ m \in Nat
      /\ \A i, j \in 1 .. m : i < j => cands[i] < cands[j]
      /\ cands = <<>> <=> due = {}
  <2>1. due \in SUBSET Request /\ cands = Ascending(due)
    BY DEF DecodeCandidates
  <2> HIDE DEF due
  <2> QED BY <2>1, AscendingIs, LenProperties
<1>2. m <= NumRequests
  <2>1. Cardinality(due) <= Cardinality(Request)
    BY RequestAssumption, FS_Subset
  <2> QED BY <1>1, <2>1 DEF NumRequests
<1>3. m = 0 <=> due = {}
  BY <1>1, EmptySeq, LenProperties
<1>4. c \in Nat /\ c <= b /\ c <= m /\ (c = 0 <=> b = 0 \/ m = 0)
  BY <1>1 DEF DecodeCount, Least
<1> HIDE DEF due
<1>5. m # 0 => Rotation \in 0 .. m - 1
  <2>1. offset \in Nat /\ Rotation = offset % m
    BY Requests DEF Rotation
  <2> HIDE DEF m
  <2> QED BY <1>1, <2>1, RemainderIs
<1>6. OffsetAfter(b) \in 0 .. NumRequests
  <2>1. CASE cands = <<>>
    BY <2>1 DEF OffsetAfter
  <2>2. CASE cands # <<>>
    <3>1. m \in Nat \ {0} /\ Rotation + c \in Nat
      BY <1>1, <1>3, <1>4, <1>5, <2>2
    <3>2. (Rotation + c) % m \in 0 .. m - 1
      BY <3>1, RemainderIs
    <3>3. OffsetAfter(b) = (Rotation + c) % m
      BY <2>2 DEF OffsetAfter
    <3> QED BY <1>1, <1>2, <3>2, <3>3, Requests
  <2> QED BY <2>1, <2>2
<1>7. (\E r \in Request : IsDecoding(r)) <=> due # {}
  BY DEF due
<1> HIDE DEF m, cands, c
<1>8. ASSUME NEW k \in 1 .. c
      PROVE  /\ m # 0 /\ at(k) \in 1 .. m
             /\ at(k) = IF Rotation + k - 1 < m THEN Rotation + k ELSE Rotation + k - m
             /\ cands[at(k)] \in due
  <2>1. m \in Nat \ {0} /\ Rotation \in 0 .. m - 1 /\ k <= m
    BY <1>1, <1>4, <1>5, <1>8
  <2>2. Rotation + k - 1 \in Nat /\ Rotation + k - 1 < m + m
    BY <2>1
  <2>3. \A x \in Nat : x < m + m => x % m = IF x < m THEN x ELSE x - m
    BY <2>1, WrapsOnce
  <2>4. at(k) \in 1 .. m
    BY <2>1, <2>2, <2>3
  <2>5. cands[at(k)] \in due
    BY <1>1, <2>4, ElementOfSeq DEF m
  <2> QED BY <2>1, <2>2, <2>3, <2>4, <2>5
<1> HIDE DEF at
<1>9. ASSUME NEW k \in 1 .. c, NEW l \in 1 .. c, at(k) = at(l)
      PROVE  k = l
  <2>0. m # 0
    BY <1>8
  <2>1. m \in Nat \ {0} /\ Rotation \in 0 .. m - 1 /\ k <= m /\ l <= m
    BY <1>1, <1>4, <1>5, <2>0
  <2> QED BY <1>8, <1>9, <2>1
<1>10. \A k \in 1 .. c : cands[at(k)] \in Request /\ IsDecoding(cands[at(k)])
  BY <1>8 DEF due
<1>11. w \in Seq(Items) /\ Len(w) = c
  <2>1. \A k \in 1 .. c : DecodeItem(cands[at(k)]) \in Items
    BY <1>10 DEF DecodeItem, Items
  <2> QED BY <1>4, <2>1
<1>12. ASSUME NEW k \in 1 .. c PROVE w[k].decode /\ ItemIsValid(w[k])
  BY <1>10 DEF DecodeItem, ItemIsValid
<1>13. ASSUME NEW k \in 1 .. c, NEW l \in 1 .. c, w[k].request = w[l].request
       PROVE  k = l
  <2>1. cands[at(k)] = cands[at(l)]
    BY <1>13 DEF DecodeItem
  <2>2. at(k) \in 1 .. m /\ at(l) \in 1 .. m /\ cands[at(k)] \in Nat
    BY <1>8, <1>10, Requests
  <2>3. ~(at(k) < at(l)) /\ ~(at(l) < at(k))
    BY <1>1, <2>1, <2>2
  <2>4. at(k) = at(l)
    BY <1>1, <2>2, <2>3
  <2> QED BY <1>9, <2>4
<1>14. (b > 0 /\ \E r \in Request : IsDecoding(r)) => w # <<>>
  BY <1>3, <1>4, <1>7, <1>11, EmptySeq
<1>15. DecodeWork(b) = w
  BY DEF DecodeWork, at, m, cands, c
<1>16. (\A r \in Request : ~IsDecoding(r)) => c = 0
  BY <1>3, <1>4, <1>7
<1> HIDE DEF w
<1> QED BY <1>4, <1>6, <1>11, <1>12, <1>13, <1>14, <1>15, <1>16 DEF c

\* Two lists of items for different requests make a list of items.
LEMMA JoinedWork ==
  ASSUME TypeOK, NEW v \in Seq(Items), NEW w \in Seq(Items),
         \A k \in 1 .. Len(v) : ItemIsValid(v[k]),
         \A k \in 1 .. Len(w) : ItemIsValid(w[k]),
         \A k, l \in 1 .. Len(v) : v[k].request = v[l].request => k = l,
         \A k, l \in 1 .. Len(w) : w[k].request = w[l].request => k = l,
         \A k \in 1 .. Len(v), l \in 1 .. Len(w) : v[k].decode # w[l].decode
  PROVE  /\ v \o w \in Seq(Items)
         /\ \A k \in 1 .. Len(v \o w) : ItemIsValid((v \o w)[k])
         /\ \A k, l \in 1 .. Len(v \o w) :
              (v \o w)[k].request = (v \o w)[l].request => k = l
         /\ (v # <<>> \/ w # <<>>) => v \o w # <<>>
<1> DEFINE u == v \o w
<1>1. /\ u \in Seq(Items) /\ Len(u) = Len(v) + Len(w)
      /\ Len(v) \in Nat /\ Len(w) \in Nat
      /\ \A i \in 1 .. Len(u) : u[i] = IF i <= Len(v) THEN v[i] ELSE w[i - Len(v)]
  BY ConcatProperties, LenProperties
<1>2. \A k \in 1 .. Len(v) : v[k] \in Items
  BY ElementOfSeq
<1>3. \A k \in 1 .. Len(w) : w[k] \in Items
  BY ElementOfSeq
<1>4. ASSUME NEW i \in Items, NEW j \in Items, ItemIsValid(i), ItemIsValid(j), i.request = j.request
      PROVE  i.decode = j.decode
  <2>1. i.request \in Request /\ i.decode \in BOOLEAN /\ j.decode \in BOOLEAN
    BY DEF Items
  <2>2. ~(IsDecoding(i.request) /\ IsPrefilling(i.request))
    BY <2>1, BlockCounts DEF IsDecoding, IsPrefilling
  <2> QED BY <1>4, <2>1, <2>2, Zenon DEF ItemIsValid
<1> HIDE DEF u
<1>5. ASSUME NEW k \in 1 .. Len(u)
      PROVE  \/ k \in 1 .. Len(v) /\ u[k] = v[k]
             \/ k - Len(v) \in 1 .. Len(w) /\ u[k] = w[k - Len(v)]
  BY <1>1
<1>6. \A k \in 1 .. Len(u) : ItemIsValid(u[k])
  BY <1>5
<1>7. ASSUME NEW k \in 1 .. Len(u), NEW l \in 1 .. Len(u), u[k].request = u[l].request
      PROVE  k = l
  <2>1. \A i \in 1 .. Len(v), j \in 1 .. Len(w) : v[i].request # w[j].request
    BY <1>2, <1>3, <1>4
  <2>2. CASE k \in 1 .. Len(v) /\ u[k] = v[k]
    <3>1. l \in 1 .. Len(v) /\ u[l] = v[l]
      <4>1. ~(l - Len(v) \in 1 .. Len(w) /\ u[l] = w[l - Len(v)])
        BY <1>7, <2>1, <2>2
      <4> QED BY <1>5, <4>1
    <3> QED BY <1>7, <2>2, <3>1
  <2>3. CASE k - Len(v) \in 1 .. Len(w) /\ u[k] = w[k - Len(v)]
    <3>1. l - Len(v) \in 1 .. Len(w) /\ u[l] = w[l - Len(v)]
      BY <1>5, <1>7, <2>1, <2>3
    <3>2. k - Len(v) = l - Len(v)
      BY <1>7, <2>3, <3>1
    <3> QED BY <1>1, <3>2
  <2> QED BY <1>5, <2>2, <2>3
<1>8. (v # <<>> \/ w # <<>>) => u # <<>>
  <2>1. \A s \in Seq(Items) : s = <<>> <=> Len(s) = 0
    BY EmptySeq, LenProperties
  <2> QED BY <1>1, <2>1
<1> QED BY <1>1, <1>6, <1>7, <1>8 DEF u

\* The work of an iteration names each request once, asks of it what its phase
\* allows, and is not empty while a request is active.
LEMMA ScheduleIs ==
  ASSUME TypeOK, offset \in 0 .. NumRequests
  PROVE  /\ ScheduledWork \in Seq(Items)
         /\ \A k \in 1 .. Len(ScheduledWork) : ItemIsValid(ScheduledWork[k])
         /\ \A k, l \in 1 .. Len(ScheduledWork) :
              ScheduledWork[k].request = ScheduledWork[l].request => k = l
         /\ ActiveRequests # {} => ScheduledWork # <<>>
         /\ OffsetAfter(DecodeBudget) \in 0 .. NumRequests
         /\ PrefillTokens \in Nat
<1>1. TokenBudget \in Nat \ {0}
  BY ServiceAssumption
<1>2. DecodeCount(TokenBudget) \in Nat /\ DecodeCount(TokenBudget) <= TokenBudget
  BY <1>1, DecodeWorkIs
<1>3. /\ LeftAfter(TokenBudget)[NumRequests] \in Nat
      /\ LeftAfter(TokenBudget)[NumRequests] <= TokenBudget
  BY <1>1, PrefillWorkIs
<1>4. DecodeBudget \in Nat /\ PrefillBudget \in Nat
  BY <1>1, <1>2, <1>3, ServiceAssumption DEF DecodeBudget, PrefillBudget
<1> DEFINE d == DecodeWork(DecodeBudget)
           p == PrefillWork(PrefillBudget)
<1>5. /\ d \in Seq(Items) /\ \A k \in 1 .. Len(d) : d[k].decode /\ ItemIsValid(d[k])
      /\ \A k, l \in 1 .. Len(d) : d[k].request = d[l].request => k = l
      /\ (DecodeBudget > 0 /\ \E r \in Request : IsDecoding(r)) => d # <<>>
      /\ OffsetAfter(DecodeBudget) \in 0 .. NumRequests
  BY <1>4, DecodeWorkIs
<1>6. /\ p \in Seq(Items) /\ \A k \in 1 .. Len(p) : ~p[k].decode /\ ItemIsValid(p[k])
      /\ \A k, l \in 1 .. Len(p) : p[k].request = p[l].request => k = l
      /\ (PrefillBudget > 0 /\ \E r \in Request : IsPrefilling(r)) => p # <<>>
      /\ LeftAfter(PrefillBudget)[NumRequests] \in Nat
      /\ LeftAfter(PrefillBudget)[NumRequests] <= PrefillBudget
  BY <1>4, PrefillWorkIs
<1>7. PrefillTokens \in Nat
  BY <1>4, <1>6 DEF PrefillTokens
<1>8. ActiveRequests # {} => d # <<>> \/ p # <<>>
  <2> SUFFICES ASSUME NEW r \in Request, status[r] = "Active" PROVE d # <<>> \/ p # <<>>
    BY DEF ActiveRequests
  <2>1. IsDecoding(r) \/ IsPrefilling(r)
    BY BlockCounts DEF IsDecoding, IsPrefilling
  <2>2. CASE DecodeFirst
    <3>1. CASE \E q \in Request : IsDecoding(q)
      BY <1>1, <1>5, <2>2, <3>1 DEF DecodeBudget
    <3>2. CASE \A q \in Request : ~IsDecoding(q)
      <4>1. DecodeCount(TokenBudget) = 0
        BY <1>1, <3>2, DecodeWorkIs
      <4>2. PrefillBudget > 0
        BY <1>1, <2>2, <4>1 DEF PrefillBudget
      <4> QED BY <1>6, <2>1, <3>2, <4>2
    <3> QED BY <3>1, <3>2
  <2>3. CASE ~DecodeFirst
    <3>1. CASE \E q \in Request : IsPrefilling(q)
      BY <1>1, <1>6, <2>3, <3>1 DEF PrefillBudget
    <3>2. CASE \A q \in Request : ~IsPrefilling(q)
      <4>1. LeftAfter(TokenBudget)[NumRequests] = TokenBudget
        BY <1>1, <3>2, PrefillWorkIs
      <4>2. DecodeBudget > 0
        BY <1>1, <2>3, <4>1 DEF DecodeBudget
      <4> QED BY <1>5, <2>1, <3>2, <4>2
    <3> QED BY <3>1, <3>2
  <2> QED BY <2>2, <2>3
<1> HIDE DEF d, p
<1>9. ScheduledWork = IF DecodeFirst THEN d \o p ELSE p \o d
  BY DEF ScheduledWork, d, p
<1>10. /\ d \o p \in Seq(Items) /\ \A k \in 1 .. Len(d \o p) : ItemIsValid((d \o p)[k])
       /\ \A k, l \in 1 .. Len(d \o p) : (d \o p)[k].request = (d \o p)[l].request => k = l
       /\ (d # <<>> \/ p # <<>>) => d \o p # <<>>
  <2>1. \A k \in 1 .. Len(d), l \in 1 .. Len(p) : d[k].decode # p[l].decode
    BY <1>5, <1>6
  <2> QED BY <1>5, <1>6, <2>1, JoinedWork
<1>11. /\ p \o d \in Seq(Items) /\ \A k \in 1 .. Len(p \o d) : ItemIsValid((p \o d)[k])
       /\ \A k, l \in 1 .. Len(p \o d) : (p \o d)[k].request = (p \o d)[l].request => k = l
       /\ (p # <<>> \/ d # <<>>) => p \o d # <<>>
  <2>1. \A k \in 1 .. Len(p), l \in 1 .. Len(d) : p[k].decode # d[l].decode
    BY <1>5, <1>6
  <2> QED BY <1>5, <1>6, <2>1, JoinedWork
<1>12. CASE DecodeFirst
  BY <1>5, <1>7, <1>8, <1>9, <1>10, <1>12
<1>13. CASE ~DecodeFirst
  BY <1>5, <1>7, <1>8, <1>9, <1>11, <1>13
<1> QED BY <1>12, <1>13

-----------------------------------------------------------------------------
(* The loop asks of the cache what its specification allows *)

LEMMA LoopCallsCache == LoopInv /\ [SimNext]_simVars => [Next]_vars
<1> SUFFICES ASSUME LoopInv, [SimNext]_simVars PROVE [Next]_vars
  OBVIOUS
<1>1. work \in Seq(Items) /\ TypeOK
  BY DEF LoopInv, SimTypeOK
<1>2. ASSUME NEW r \in Request, AdmitCall(r) \/ AppendCall(r) PROVE Next
  BY <1>2 DEF Next
<1>3. ASSUME Arrive PROVE [Next]_vars
  <2>1. ExpiredAt(now') \in SUBSET Request
    BY DEF ExpiredAt
  <2> QED BY <1>3, <2>1 DEF Arrive, Next
<1>4. ASSUME RejectImpossible \/ AdmitFirst \/ HoldTheLine PROVE Next
  <2>1. FirstWaiting \in Request
    BY <1>4, FirstWaitingIs DEF RejectImpossible, AdmitFirst, HoldTheLine, MayAdmit
  <2>2. AdmitCall(FirstWaiting)
    BY <1>4 DEF RejectImpossible, AdmitFirst, HoldTheLine, AdmitCall
  <2> QED BY <1>2, <2>1, <2>2
<1>5. ASSUME AdmissionDone \/ Schedule \/ EndIteration \/ Done \/ UNCHANGED simVars
      PROVE  UNCHANGED vars
  BY <1>5 DEF AdmissionDone, Schedule, EndIteration, Done, simVars
<1>6. ASSUME CompletePrefill PROVE Next
  <2>1. Head(work) \in Items
    BY <1>1, <1>6, HeadTailProperties DEF CompletePrefill
  <2> DEFINE r == Head(work).request
             n == Head(work).prefill
  <2>2. r \in Request /\ n \in Nat \ {0} /\ AppendPrefill(r, n)
    BY <1>6, <2>1 DEF CompletePrefill, Items
  <2>3. n \in 1 .. Len(prompt[r])
    BY <1>1, <2>2, BlockCounts DEF AppendPrefill
  <2>4. AppendCall(r)
    BY <2>2, <2>3 DEF AppendCall
  <2> QED BY <1>2, <2>2, <2>4
<1>7. ASSUME CompleteDecode \/ RejectGrowth PROVE Next
  <2>1. Head(work) \in Items
    BY <1>1, <1>7, HeadTailProperties DEF CompleteDecode, RejectGrowth
  <2> DEFINE r == Head(work).request
  <2>2. r \in Request
    BY <2>1 DEF Items
  <2>3. AppendCall(r)
    <3>1. CASE CompleteDecode
      <4> DEFINE last == Generated(r) + 1 >= actualOutput[r]
      <4>1. last \in BOOLEAN /\ AppendDecode(r, last)
        BY <3>1 DEF CompleteDecode
      <4> HIDE DEF last
      <4> QED BY <4>1 DEF AppendCall
    <3>2. CASE RejectGrowth
      BY <3>2 DEF RejectGrowth, AppendCall
    <3> QED BY <1>7, <3>1, <3>2
  <2> QED BY <1>2, <2>2, <2>3
<1>8. ASSUME FinishItem PROVE Next
  BY <1>8 DEF FinishItem, Next
<1> QED BY <1>3, <1>4, <1>5, <1>6, <1>7, <1>8 DEF SimNext

-----------------------------------------------------------------------------
(* What the steps of the loop leave alone *)

\* Arrivals are sorted: those that have come are the first ones.
LEMMA ArrivedAre ==
  ASSUME SimTypeOK, NEW t \in Nat,
         \A q, r \in Request : q < r => arrival[q] <= arrival[r]
  PROVE  LET S == {r \in Request : arrival[r] <= t}
         IN  /\ Cardinality(S) \in 0 .. NumRequests
             /\ \A r \in Request : r < 1 + Cardinality(S) <=> arrival[r] <= t
<1> DEFINE S == {r \in Request : arrival[r] <= t}
           c == Cardinality(S)
           T == Request \ S
<1>1. \A r \in Request : arrival[r] \in Nat
  BY TimesAssumption DEF SimTypeOK
<1>2. \A q, r \in Request : q < r /\ r \in S => q \in S
  BY <1>1
<1>3. NumRequests \in Nat /\ Request = 1 .. NumRequests
  BY Requests
<1>4. CASE T = {}
  <2>1. S = 1 .. NumRequests
    BY <1>3, <1>4
  <2>2. c = NumRequests
    <3> HIDE DEF S
    <3>1. 1 \in Int /\ NumRequests \in Int
      BY <1>3
    <3>2. Cardinality(1 .. NumRequests) = NumRequests
      BY <1>3, <3>1, FS_Interval
    <3> QED BY <2>1, <3>2
  <2>3. \A r \in Request : r \in S /\ r < 1 + NumRequests
    BY <1>3, <1>4
  <2> HIDE DEF c
  <2>4. c \in 0 .. NumRequests /\ \A r \in Request : r < 1 + c <=> r \in S
    <3> HIDE DEF S
    <3> QED BY <1>3, <2>2, <2>3
  <2> QED BY <2>4 DEF c
<1>5. CASE T # {}
  <2>1. T \in SUBSET Nat
    BY Requests
  <2>2. PICK m \in T : \A x \in T : m <= x
    BY <1>5, <2>1, LeastElement
  <2>3. m \in Request /\ m \notin S
    BY <2>2
  <2>4. S = 1 .. m - 1
    <3>1. ASSUME NEW x \in 1 .. m - 1 PROVE x \in S
      BY <1>3, <2>2, <2>3, <3>1
    <3>2. ASSUME NEW x \in S PROVE x \in 1 .. m - 1
      BY <1>2, <1>3, <2>3, <3>2
    <3> HIDE DEF S
    <3> QED BY <3>1, <3>2
  <2>5. c = m - 1
    <3> HIDE DEF S
    <3>1. 1 \in Int /\ m - 1 \in Int /\ ~(m < 1)
      BY <1>3, <2>3
    <3>2. Cardinality(1 .. m - 1) = IF 1 > m - 1 THEN 0 ELSE m - 1 - 1 + 1
      BY <3>1, FS_Interval
    <3>3. Cardinality(1 .. m - 1) = m - 1
      BY <1>3, <2>3, <3>2
    <3> QED BY <2>4, <3>3
  <2> HIDE DEF c
  <2>6. c \in 0 .. NumRequests /\ \A r \in Request : r < 1 + c <=> r \in S
    <3> HIDE DEF S
    <3> QED BY <1>3, <2>3, <2>4, <2>5
  <2> QED BY <2>6 DEF c
<1> QED BY <1>4, <1>5

\* The timestamps of one request.
RequestInOrder(r) ==
  /\ StampsMatch(r)
  /\ status[r] = "Queued" => stored[r] = 0
  /\ admittedAt[r] <= now /\ firstToken[r] <= now
  /\ admittedAt[r] # NoTime =>
       arrival[r] <= admittedAt[r] /\ admittedAt[r] - arrival[r] <= TtftSlo

LEMMA InvOrders == LoopInv => \A r \in Request : RequestInOrder(r)
BY DEF LoopInv, StampsAreInThePast, AdmittedWithinSlo, TimestampsMatchPhases, RequestInOrder

\* A request that a step does not touch stays in order while time passes.
LEMMA OthersStayInOrder ==
  ASSUME SimTypeOK, now' \in Nat, now <= now', NEW r \in Request, RequestInOrder(r),
         status'[r] = status[r], stored'[r] = stored[r], prompt'[r] = prompt[r],
         arrival'[r] = arrival[r], actualOutput'[r] = actualOutput[r],
         admittedAt'[r] = admittedAt[r], firstToken'[r] = firstToken[r],
         finishedAt'[r] = finishedAt[r]
  PROVE  RequestInOrder(r)'
<1>1. now \in Nat /\ NoTime = -1
  BY DEF SimTypeOK, NoTime
<1>2. admittedAt[r] \in Nat \cup {-1} /\ firstToken[r] \in Nat \cup {-1}
      /\ finishedAt[r] \in Nat \cup {-1}
  BY DEF SimTypeOK, NoTime
<1>3. Prefetched(r)' = Prefetched(r) /\ Generated(r)' = Generated(r)
  BY DEF Prefetched, Generated
<1>4. StampsMatch(r)'
  BY <1>1, <1>2, <1>3 DEF RequestInOrder, StampsMatch
<1> QED BY <1>1, <1>2, <1>4 DEF RequestInOrder

ItemsAreValid == \A k \in DOMAIN work : ItemIsValid(work[k])

LEMMA WorkUntouched ==
  ASSUME LoopInv, UNCHANGED <<work, prompt, status, stored>>
  PROVE  ItemsAreValid' /\ WorkIsDistinct'
BY DEF LoopInv, ItemsAreValid, ItemIsValid, IsDecoding, IsPrefilling, WorkIsDistinct

\* What is left of the work stays valid when only the request of the item at its
\* head is touched.
LEMMA WorkStays ==
  ASSUME LoopInv, work # <<>>, work' = Tail(work), prompt' = prompt,
         \A q \in Request \ {Head(work).request} :
           status'[q] = status[q] /\ stored'[q] = stored[q]
  PROVE  work' \in Seq(Items) /\ ItemsAreValid' /\ WorkIsDistinct'
<1>1. work \in Seq(Items) /\ Len(work) \in Nat /\ Len(work) # 0
  <2>1. work \in Seq(Items)
    BY DEF LoopInv, SimTypeOK
  <2> QED BY <2>1, EmptySeq, LenProperties
<1>2. /\ Head(work) = work[1]
      /\ work' \in Seq(Items) /\ Len(work') = Len(work) - 1
      /\ \A k \in 1 .. Len(work') : work'[k] = work[k + 1]
  BY <1>1, HeadTailProperties
<1>3. DOMAIN work = 1 .. Len(work) /\ DOMAIN work' = 1 .. Len(work')
  BY <1>1, <1>2, LenProperties
<1>4. \A k \in DOMAIN work' : k + 1 \in DOMAIN work /\ work'[k] = work[k + 1] /\ k + 1 # 1
  BY <1>1, <1>2, <1>3
<1>5. 1 \in DOMAIN work /\ \A k, l \in DOMAIN work : work[k].request = work[l].request => k = l
  BY <1>1, <1>3 DEF LoopInv, WorkIsDistinct
<1>6. WorkIsDistinct'
  <2> SUFFICES ASSUME NEW k \in DOMAIN work', NEW l \in DOMAIN work',
                      work'[k].request = work'[l].request
               PROVE  k = l
    BY DEF WorkIsDistinct
  <2>1. k + 1 = l + 1
    BY <1>4, <1>5
  <2> QED BY <1>3, <2>1
<1>7. ItemsAreValid'
  <2> SUFFICES ASSUME NEW k \in DOMAIN work' PROVE ItemIsValid(work[k])'
    BY DEF ItemsAreValid
  <2>1. PICK i \in Items : work'[k] = i /\ work[k + 1] = i /\ ItemIsValid(i)
    BY <1>1, <1>3, <1>4 DEF LoopInv
  <2>2. i.request \in Request \ {Head(work).request}
    BY <1>2, <1>4, <1>5, <2>1 DEF Items
  <2>3. ItemIsValid(i)'
    <3>1. /\ status'[i.request] = status[i.request] /\ stored'[i.request] = stored[i.request]
      BY <2>2
    <3> QED BY <2>1, <3>1 DEF ItemIsValid, IsDecoding, IsPrefilling
  <2> QED BY <2>1, <2>3
<1> QED BY <1>2, <1>6, <1>7

\* No step but an admission makes a request active.
LEMMA NobodyBecomesActive ==
  ASSUME LoopInv, \A q \in Request : status'[q] = "Active" => status[q] = "Active"
  PROVE  Cardinality(ActiveRequests') <= MaxActive
<1>1. IsFiniteSet(ActiveRequests) /\ ActiveRequests' \in SUBSET ActiveRequests
  BY RequestAssumption, FS_Subset DEF ActiveRequests
<1>2. Cardinality(ActiveRequests') <= Cardinality(ActiveRequests)
  BY <1>1, FS_Subset
<1>3. IsFiniteSet(ActiveRequests')
  BY <1>1, FS_Subset
<1> QED BY <1>1, <1>2, <1>3, FS_CardinalityType, ServiceAssumption DEF LoopInv

LEMMA StampTypes ==
  ASSUME SimTypeOK, NEW r \in Request
  PROVE  /\ NoTime = -1 /\ now \in Nat /\ arrival[r] \in Nat
         /\ stored[r] \in Nat /\ Len(prompt[r]) \in Nat
         /\ actualOutput[r] \in Nat \ {0} /\ actualOutput[r] <= MaxNewTokens
         /\ admittedAt[r] \in Nat \cup {-1}
         /\ firstToken[r] \in Nat \cup {-1}
         /\ finishedAt[r] \in Nat \cup {-1}
<1>1. NoTime = -1 /\ now \in Nat /\ arrival[r] \in Nat
  BY TimesAssumption DEF SimTypeOK, NoTime
<1>2. stored[r] \in Nat /\ Len(prompt[r]) \in Nat
  BY BlockCounts DEF SimTypeOK
<1>3. actualOutput[r] \in Nat \ {0} /\ actualOutput[r] <= MaxNewTokens
  BY SizesAssumption DEF SimTypeOK
<1>4. /\ admittedAt[r] \in Nat \cup {-1} /\ firstToken[r] \in Nat \cup {-1}
      /\ finishedAt[r] \in Nat \cup {-1}
  BY <1>1 DEF SimTypeOK
<1> QED BY <1>1, <1>2, <1>3, <1>4

\* The tokens stored beyond the prompt.
LEMMA GeneratedFrom ==
  \A s, l \in Nat : s - Least(s, l) = IF s <= l THEN 0 ELSE s - l
BY DEF Least

LEMMA InvAgain ==
  ASSUME ReservationInv', SimTypeOK', LoopIsInOrder', ArrivalsAreInOrder', DecidedInOrder',
         Cardinality(ActiveRequests') <= MaxActive, ItemsAreValid', WorkIsDistinct',
         \A r \in Request : RequestInOrder(r)'
  PROVE  LoopInv'
<1>1. StampsAreInThePast' /\ AdmittedWithinSlo' /\ TimestampsMatchPhases'
  BY DEF RequestInOrder, StampsAreInThePast, AdmittedWithinSlo, TimestampsMatchPhases
<1> QED BY <1>1 DEF LoopInv, ItemsAreValid

-----------------------------------------------------------------------------
(* Each step of the loop keeps the invariant *)

LEMMA InitLoop == SimInit => LoopInv
<1> SUFFICES ASSUME SimInit PROVE LoopInv
  OBVIOUS
<1>1. ReservationInv /\ TypeOK
  BY InitReservation DEF SimInit, ReservationInv
<1>2. NoTime = -1 /\ NumRequests \in Nat /\ now = 0
  BY Requests DEF NoTime, SimInit
<1>3. ActiveRequests = {} /\ Cardinality(ActiveRequests) = 0
  <2>1. ActiveRequests = {}
    BY DEF SimInit, Init, ActiveRequests
  <2> QED BY <2>1, FS_EmptySet
<1>4. SimTypeOK
  <2>1. work = <<>> /\ work \in Seq(Items)
    BY EmptySeq DEF SimInit
  <2> QED BY <1>1, <1>2, <2>1 DEF SimInit, SimTypeOK
<1>5. LoopIsInOrder
  BY DEF SimInit, Init, LoopIsInOrder
<1>6. \A r \in Request : status[r] = "Queued" /\ stored[r] = 0
  BY DEF SimInit, Init
<1>7. ArrivalsAreInOrder
  <2>1. \A q, r \in Request : q < r => arrival[q] <= arrival[r]
    BY DEF SimInit
  <2>2. \A r \in Request : ~(r < 1)
    BY Requests
  <2> QED BY <1>6, <2>1, <2>2 DEF SimInit, ArrivalsAreInOrder
<1>8. DecidedInOrder
  BY <1>6 DEF DecidedInOrder
<1>9. (\A k \in DOMAIN work : ItemIsValid(work[k])) /\ WorkIsDistinct
  <2>1. DOMAIN work = {}
    BY DEF SimInit
  <2> QED BY <2>1 DEF WorkIsDistinct
<1>10. AdmittedWithinSlo
  BY DEF SimInit, AdmittedWithinSlo
<1>11. StampsAreInThePast
  BY <1>2, <1>6 DEF SimInit, StampsAreInThePast
<1>12. TimestampsMatchPhases
  <2> SUFFICES ASSUME NEW r \in Request PROVE StampsMatch(r)
    BY DEF TimestampsMatchPhases
  <2>1. Generated(r) = 0
    <3>1. stored[r] = 0 /\ Len(prompt[r]) \in Nat
      BY <1>1, <1>6, BlockCounts
    <3>2. 0 - Least(0, Len(prompt[r])) = 0
      BY <3>1, GeneratedFrom
    <3> QED BY <3>1, <3>2 DEF Generated, Prefetched
  <2>2. actualOutput[r] \in Nat /\ actualOutput[r] >= 1
    BY <1>4, SizesAssumption DEF SimTypeOK
  <2> QED BY <1>2, <1>6, <2>1, <2>2 DEF SimInit, StampsMatch
<1>13. Cardinality(ActiveRequests) <= MaxActive
  BY <1>3, ServiceAssumption
<1> QED BY <1>1, <1>4, <1>5, <1>7, <1>8, <1>9, <1>10, <1>11, <1>12, <1>13 DEF LoopInv

\* Only the head of the line is decided by an admission.
LEMMA HeadIsDecided ==
  ASSUME LoopInv, MayAdmit, NEW r, r = FirstWaiting,
         \A q \in Request \ {r} : status'[q] = status[q],
         UNCHANGED <<pc, now, nextArrival, arrival>>, status'[r] # "Queued"
  PROVE  /\ r \in Request /\ status[r] = "Queued"
         /\ arrival[r] <= now /\ now - arrival[r] <= TtftSlo
         /\ DecidedInOrder' /\ ArrivalsAreInOrder'
<1>1. /\ r \in Request /\ r \in WaitingRequests /\ r \in Nat
      /\ \A q \in WaitingRequests : r <= q
  BY FirstWaitingIs, Requests DEF MayAdmit
<1>2. status[r] = "Queued" /\ arrival[r] <= now
  BY <1>1 DEF WaitingRequests
<1>3. r < nextArrival /\ now - arrival[r] <= TtftSlo
  BY <1>1, <1>2 DEF MayAdmit, LoopInv, ArrivalsAreInOrder
<1>4. \A q \in Request : q \in Nat /\ arrival[q] \in Nat /\ now \in Nat
  BY Requests, TimesAssumption DEF LoopInv, SimTypeOK
<1>5. \A q \in Request : q < r => status[q] # "Queued"
  <2> SUFFICES ASSUME NEW q \in Request, q < r, status[q] = "Queued" PROVE FALSE
    OBVIOUS
  <2>1. arrival[q] <= arrival[r]
    BY <1>1 DEF LoopInv, ArrivalsAreInOrder
  <2>2. q \in WaitingRequests
    BY <1>1, <1>2, <1>4, <2>1 DEF WaitingRequests
  <2> QED BY <1>1, <1>4, <2>2
<1>6. DecidedInOrder'
  <2> SUFFICES ASSUME NEW p \in Request, NEW q \in Request, p < q, status'[q] # "Queued"
               PROVE  status'[p] # "Queued"
    BY DEF DecidedInOrder
  <2>1. CASE q = r
    BY <1>1, <1>4, <1>5, <2>1
  <2>2. CASE q # r
    BY <2>2 DEF LoopInv, DecidedInOrder
  <2> QED BY <2>1, <2>2
<1>7. ArrivalsAreInOrder'
  <2>1. \A q \in Request : status'[q] # "Queued" => q < nextArrival
    BY <1>3 DEF LoopInv, ArrivalsAreInOrder
  <2>2. \A q \in Request : status'[q] = "Queued" => status[q] = "Queued"
    BY <1>2
  <2> QED BY <2>1, <2>2 DEF LoopInv, ArrivalsAreInOrder
<1> QED BY <1>1, <1>2, <1>3, <1>6, <1>7

\* A request that is refused while it waits has no timestamps.
LEMMA RefusedStaysInOrder ==
  ASSUME SimTypeOK, NEW r \in Request, RequestInOrder(r), now' \in Nat, now <= now',
         status[r] = "Queued", status'[r] = "Rejected", stored'[r] = stored[r],
         UNCHANGED <<prompt, arrival, actualOutput, admittedAt, firstToken, finishedAt>>
  PROVE  RequestInOrder(r)'
<1>1. admittedAt[r] = NoTime /\ stored[r] = 0
  BY DEF RequestInOrder, StampsMatch
<1>2. /\ NoTime = -1 /\ now \in Nat /\ Len(prompt[r]) \in Nat
      /\ actualOutput[r] \in Nat \ {0}
      /\ firstToken[r] \in Nat \cup {-1} /\ finishedAt[r] \in Nat \cup {-1}
  BY StampTypes
<1>3. Generated(r) = 0 /\ Generated(r)' = 0
  <2>1. 0 - Least(0, Len(prompt[r])) = 0
    BY <1>2, GeneratedFrom
  <2> QED BY <1>1, <2>1 DEF Generated, Prefetched
<1>4. StampsMatch(r)'
  BY <1>1, <1>2, <1>3 DEF RequestInOrder, StampsMatch
<1> QED BY <1>1, <1>2, <1>4 DEF RequestInOrder

LEMMA RejectImpossibleLoop ==
  ASSUME LoopInv, ReservationInv', RejectImpossible PROVE LoopInv'
<1>1. PICK r \in Request : r = FirstWaiting
  BY FirstWaitingIs DEF RejectImpossible, MayAdmit
<1>2. /\ MayAdmit /\ AdmitImpossible(r)
      /\ UNCHANGED <<pc, now, nextArrival, offset, work, processed>>
      /\ UNCHANGED <<arrival, actualOutput, admittedAt, firstToken, finishedAt>>
  BY <1>1 DEF RejectImpossible, loopVars, workloadVars, stampVars
<1>3. /\ status' = [status EXCEPT ![r] = "Rejected"] /\ UNCHANGED <<prompt, stored, calls>>
      /\ status \in [Request -> Phases]
  BY <1>2 DEF AdmitImpossible, LoopInv, SimTypeOK, TypeOK
<1>4. \A q \in Request : status'[q] = IF q = r THEN "Rejected" ELSE status[q]
  BY <1>2, <1>3
<1>5. /\ status[r] = "Queued" /\ arrival[r] <= now /\ now - arrival[r] <= TtftSlo
      /\ DecidedInOrder' /\ ArrivalsAreInOrder'
  BY <1>1, <1>2, <1>4, HeadIsDecided
<1>6. SimTypeOK'
  BY <1>1, <1>2 DEF LoopInv, SimTypeOK, ReservationInv
<1>7. LoopIsInOrder'
  BY <1>1, <1>2, <1>3 DEF LoopInv, LoopIsInOrder, MayAdmit
<1>8. Cardinality(ActiveRequests') <= MaxActive
  BY <1>4, NobodyBecomesActive
<1>9. ItemsAreValid' /\ WorkIsDistinct'
  <2>1. work = <<>> /\ DOMAIN work' = {}
    BY <1>1, <1>2 DEF LoopInv, LoopIsInOrder, MayAdmit
  <2> QED BY <2>1 DEF ItemsAreValid, WorkIsDistinct
<1>10. ASSUME NEW q \in Request PROVE RequestInOrder(q)'
  <2>1. CASE q # r
    <3>1. now' \in Nat /\ now <= now' /\ SimTypeOK /\ RequestInOrder(q)
      BY <1>1, <1>2, InvOrders DEF LoopInv, SimTypeOK
    <3> QED BY <1>1, <1>2, <1>3, <1>4, <2>1, <3>1, OthersStayInOrder
  <2>2. CASE q = r
    <3>1. now' \in Nat /\ now <= now' /\ SimTypeOK /\ RequestInOrder(r)
      BY <1>1, <1>2, InvOrders DEF LoopInv, SimTypeOK
    <3> QED BY <1>2, <1>3, <1>4, <1>5, <2>2, <3>1, RefusedStaysInOrder
  <2> QED BY <2>1, <2>2
<1> QED BY <1>5, <1>6, <1>7, <1>8, <1>9, <1>10, InvAgain

\* A step between two handlers, or a call that only concerns the cache, decides
\* nothing.
LEMMA NothingDecided ==
  ASSUME LoopInv, UNCHANGED <<status, stored, prompt, work, now, nextArrival, arrival,
                              actualOutput, admittedAt, firstToken, finishedAt>>,
         pc' = "admit" => pc = "admit"
  PROVE  /\ ArrivalsAreInOrder' /\ DecidedInOrder'
         /\ Cardinality(ActiveRequests') <= MaxActive
         /\ ItemsAreValid' /\ WorkIsDistinct'
         /\ \A r \in Request : RequestInOrder(r)'
<1>1. ArrivalsAreInOrder' /\ DecidedInOrder'
  BY DEF LoopInv, ArrivalsAreInOrder, DecidedInOrder
<1>2. Cardinality(ActiveRequests') <= MaxActive
  BY NobodyBecomesActive
<1>3. ASSUME NEW r \in Request PROVE RequestInOrder(r)'
  <2>1. now' \in Nat /\ now <= now' /\ SimTypeOK /\ RequestInOrder(r)
    BY InvOrders DEF LoopInv, SimTypeOK
  <2> QED BY <2>1, OthersStayInOrder
<1> QED BY <1>1, <1>2, <1>3, WorkUntouched

LEMMA HandlerEndsLoop ==
  ASSUME LoopInv, ReservationInv', HoldTheLine \/ AdmissionDone \/ EndIteration
  PROVE  LoopInv'
<1>1. /\ UNCHANGED <<now, nextArrival, offset, work, processed>>
      /\ UNCHANGED <<arrival, actualOutput, admittedAt, firstToken, finishedAt>>
      /\ UNCHANGED <<status, stored, prompt, calls>>
  BY DEF HoldTheLine, AdmissionDone, EndIteration, loopVars, workloadVars, stampVars,
         AdmitTemporarilyUnavailable, requestVars, vars
<1>2. pc' \in {"arrive", "schedule", "done"} /\ (pc' = "schedule" => ActiveRequests # {})
  BY DEF HoldTheLine, AdmissionDone, EndIteration, AfterAdmission
<1>3. SimTypeOK'
  BY <1>1, <1>2 DEF LoopInv, SimTypeOK, ReservationInv
<1>4. work = <<>> /\ calls = <<>>
  BY DEF HoldTheLine, AdmissionDone, EndIteration, MayAdmit, LoopInv, LoopIsInOrder
<1>5. LoopIsInOrder'
  BY <1>1, <1>2, <1>4 DEF LoopIsInOrder, ActiveRequests
<1> QED BY <1>1, <1>2, <1>3, <1>5, NothingDecided, InvAgain

LEMMA FinishItemLoop ==
  ASSUME LoopInv, ReservationInv', FinishItem PROVE LoopInv'
<1>1. /\ pc = "complete" /\ UNCHANGED <<pc, now, nextArrival, offset, work, processed>>
      /\ UNCHANGED <<arrival, actualOutput, admittedAt, firstToken, finishedAt>>
      /\ UNCHANGED <<status, stored, prompt>>
  BY DEF FinishItem, loopVars, workloadVars, stampVars, requestVars,
         CacheRefresh, CacheInsert, Release
<1>2. SimTypeOK'
  BY <1>1 DEF LoopInv, SimTypeOK, ReservationInv
<1>3. LoopIsInOrder'
  BY <1>1 DEF LoopIsInOrder
<1> QED BY <1>1, <1>2, <1>3, NothingDecided, InvAgain

LEMMA IdleLoop ==
  ASSUME LoopInv, ReservationInv', UNCHANGED simVars PROVE LoopInv'
<1>1. /\ UNCHANGED <<pc, now, nextArrival, offset, work, processed>>
      /\ UNCHANGED <<arrival, actualOutput, admittedAt, firstToken, finishedAt>>
      /\ UNCHANGED <<status, stored, prompt, calls>>
  BY DEF simVars, vars, requestVars, loopVars, workloadVars, stampVars
<1>2. SimTypeOK' /\ LoopIsInOrder'
  BY <1>1 DEF LoopInv, SimTypeOK, ReservationInv, LoopIsInOrder, ActiveRequests
<1> QED BY <1>1, <1>2, NothingDecided, InvAgain

LEMMA ScheduleLoop ==
  ASSUME LoopInv, ReservationInv', Schedule PROVE LoopInv'
<1>1. /\ pc = "schedule" /\ pc' = "complete"
      /\ work' = ScheduledWork /\ offset' = OffsetAfter(DecodeBudget)
      /\ processed' = processed + PrefillTokens
      /\ UNCHANGED <<nextArrival, arrival, actualOutput, admittedAt, firstToken, finishedAt>>
      /\ UNCHANGED <<status, stored, prompt, calls>>
  BY DEF Schedule, vars, requestVars, workloadVars, stampVars
<1>2. now' \in Nat /\ now <= now'
  BY TimesAssumption DEF Schedule, LoopInv, SimTypeOK
<1>3. /\ ScheduledWork \in Seq(Items)
      /\ \A k \in 1 .. Len(ScheduledWork) : ItemIsValid(ScheduledWork[k])
      /\ \A k, l \in 1 .. Len(ScheduledWork) :
           ScheduledWork[k].request = ScheduledWork[l].request => k = l
      /\ OffsetAfter(DecodeBudget) \in 0 .. NumRequests
      /\ PrefillTokens \in Nat
  BY ScheduleIs DEF LoopInv, SimTypeOK
<1>4. SimTypeOK'
  BY <1>1, <1>2, <1>3 DEF LoopInv, SimTypeOK, ReservationInv
<1>5. LoopIsInOrder'
  BY <1>1 DEF LoopIsInOrder
<1>6. DecidedInOrder'
  BY <1>1 DEF LoopInv, DecidedInOrder
<1>7. ArrivalsAreInOrder'
  <2>1. \A r \in Request : arrival[r] \in Nat /\ now \in Nat
    BY TimesAssumption DEF LoopInv, SimTypeOK
  <2> QED BY <1>1, <1>2, <2>1 DEF LoopInv, ArrivalsAreInOrder
<1>8. Cardinality(ActiveRequests') <= MaxActive
  BY <1>1, NobodyBecomesActive
<1>9. ItemsAreValid' /\ WorkIsDistinct'
  <2>1. DOMAIN work' = 1 .. Len(work')
    BY <1>1, <1>3, LenProperties
  <2>2. WorkIsDistinct'
    BY <1>1, <1>3, <2>1 DEF WorkIsDistinct
  <2>3. ASSUME NEW k \in DOMAIN work' PROVE ItemIsValid(work[k])'
    <3>1. PICK i \in Items : work'[k] = i /\ ItemIsValid(i)
      BY <1>1, <1>3, <2>1
    <3>2. ItemIsValid(i)'
      BY <1>1, <3>1 DEF ItemIsValid, IsDecoding, IsPrefilling
    <3> QED BY <3>1, <3>2
  <2> QED BY <2>2, <2>3 DEF ItemsAreValid
<1>10. ASSUME NEW r \in Request PROVE RequestInOrder(r)'
  <2>1. SimTypeOK /\ RequestInOrder(r)
    BY InvOrders DEF LoopInv
  <2> QED BY <1>1, <1>2, <2>1, OthersStayInOrder
<1> QED BY <1>4, <1>5, <1>6, <1>7, <1>8, <1>9, <1>10, InvAgain

LEMMA ArriveLoop ==
  ASSUME LoopInv, ReservationInv', Arrive PROVE LoopInv'
<1> DEFINE E == ExpiredAt(now')
<1>1. /\ pc = "arrive" /\ pc' = "admit" /\ now' = TimeOfArrivals
      /\ nextArrival' = 1 + Cardinality({r \in Request : arrival[r] <= now'})
      /\ UNCHANGED <<offset, work, processed>>
      /\ UNCHANGED <<arrival, actualOutput, admittedAt, firstToken, finishedAt>>
  BY DEF Arrive, workloadVars, stampVars
<1>2. /\ UNCHANGED <<stored, prompt, calls>>
      /\ \A r \in Request : status'[r] = IF r \in E THEN "Rejected" ELSE status[r]
  <2>1. CASE Expire(E)
    BY <2>1 DEF Expire
  <2>2. CASE E = {} /\ UNCHANGED vars
    BY <2>2 DEF vars, requestVars
  <2> QED BY <2>1, <2>2 DEF Arrive
<1>3. \A r \in Request : arrival[r] \in Nat /\ now \in Nat /\ r \in Nat /\ TtftSlo \in Nat
  BY Requests, TimesAssumption DEF LoopInv, SimTypeOK
<1>4. now' \in Nat /\ now <= now'
  <2>1. CASE ActiveRequests = {} /\ nextArrival <= NumRequests
    <3>1. nextArrival \in Request
      BY <2>1, Requests DEF LoopInv, SimTypeOK
    <3> QED BY <1>1, <1>3, <2>1, <3>1 DEF TimeOfArrivals, Greatest
  <2>2. CASE ~(ActiveRequests = {} /\ nextArrival <= NumRequests)
    BY <1>1, <2>2 DEF TimeOfArrivals, LoopInv, SimTypeOK
  <2> QED BY <2>1, <2>2
<1>5. \A r \in E : status[r] = "Queued" /\ arrival[r] <= now' /\ now' - arrival[r] > TtftSlo
  BY DEF ExpiredAt
<1>6. \A r \in Request : (status[r] = "Queued" /\ r \notin E /\ arrival[r] <= now')
                            => now' - arrival[r] <= TtftSlo
  BY <1>3, <1>4 DEF ExpiredAt
<1>7. \A q, r \in Request : q < r => arrival[q] <= arrival[r]
  BY DEF LoopInv, ArrivalsAreInOrder
<1>8. nextArrival' \in 1 .. NumRequests + 1 /\ \A r \in Request : r < nextArrival' <=> arrival[r] <= now'
  <2>1. PICK t \in Nat : t = now'
    BY <1>4
  <2>2. SimTypeOK
    BY DEF LoopInv
  <2>3. Cardinality({r \in Request : arrival[r] <= t}) \in 0 .. NumRequests
        /\ \A r \in Request : r < 1 + Cardinality({q \in Request : arrival[q] <= t}) <=> arrival[r] <= t
    BY <1>7, <2>2, ArrivedAre
  <2> QED BY <1>1, <2>1, <2>3, Requests
<1>9. SimTypeOK'
  BY <1>1, <1>4, <1>8 DEF LoopInv, SimTypeOK, ReservationInv
<1>10. LoopIsInOrder'
  BY <1>1, <1>2 DEF LoopInv, LoopIsInOrder
<1> HIDE DEF E
<1>11. DecidedInOrder'
  <2> SUFFICES ASSUME NEW q \in Request, NEW r \in Request, q < r, status'[r] # "Queued"
               PROVE  status'[q] # "Queued"
    BY DEF DecidedInOrder
  <2>1. CASE r \in E
    <3>1. arrival[q] <= now' /\ now' - arrival[q] > TtftSlo
      BY <1>3, <1>4, <1>5, <1>7, <2>1
    <3> QED BY <1>2, <1>3, <1>4, <1>6, <3>1
  <2>2. CASE r \notin E
    <3>1. status[q] # "Queued"
      BY <1>2, <2>2 DEF LoopInv, DecidedInOrder
    <3> QED BY <1>2, <3>1
  <2> QED BY <2>1, <2>2
<1>12. ArrivalsAreInOrder'
  <2>1. ASSUME NEW r \in Request, status'[r] # "Queued" PROVE r < nextArrival'
    <3>1. CASE r \in E
      BY <1>5, <1>8, <3>1
    <3>2. CASE r \notin E
      <4>1. arrival[r] <= now
        BY <1>2, <2>1, <3>2 DEF LoopInv, ArrivalsAreInOrder
      <4> QED BY <1>3, <1>4, <1>8, <4>1
    <3> QED BY <3>1, <3>2
  <2>2. ASSUME NEW r \in Request, arrival[r] <= now', status'[r] = "Queued"
        PROVE  now' - arrival[r] <= TtftSlo
    BY <1>2, <1>6, <2>2
  <2> QED BY <1>1, <1>7, <1>8, <2>1, <2>2 DEF ArrivalsAreInOrder
<1>13. Cardinality(ActiveRequests') <= MaxActive
  BY <1>2, NobodyBecomesActive
<1>14. ItemsAreValid' /\ WorkIsDistinct'
  <2>1. work = <<>> /\ DOMAIN work' = {}
    BY <1>1 DEF LoopInv, LoopIsInOrder
  <2> QED BY <2>1 DEF ItemsAreValid, WorkIsDistinct
<1>15. ASSUME NEW r \in Request PROVE RequestInOrder(r)'
  <2>1. SimTypeOK /\ RequestInOrder(r)
    BY InvOrders DEF LoopInv
  <2>2. CASE r \in E
    BY <1>1, <1>2, <1>4, <1>5, <2>1, <2>2, RefusedStaysInOrder
  <2>3. CASE r \notin E
    BY <1>1, <1>2, <1>4, <2>1, <2>3, OthersStayInOrder
  <2> QED BY <2>2, <2>3
<1> QED BY <1>9, <1>10, <1>11, <1>12, <1>13, <1>14, <1>15, InvAgain

\* The tokens of a prefix hit are tokens of the prompt.
LEMMA WholeBlocksFit ==
  ASSUME NEW l \in Nat, NEW d \in Nat \ {0}, NEW h \in Nat, h <= l \div d
  PROVE  h * d \in Nat /\ h * d <= l
<1>1. PICK q \in Int : q = l \div d /\ d * q <= l
  BY DivBounds
<1>2. d * h <= d * q
  BY <1>1, TimesMonotonic
<1> QED BY <1>1, <1>2

LEMMA AdmitFirstLoop ==
  ASSUME LoopInv, ReservationInv', AdmitFirst PROVE LoopInv'
<1>1. PICK r \in Request : r = FirstWaiting
  BY FirstWaitingIs DEF AdmitFirst, MayAdmit
<1>2. PICK hits \in 0 .. CompletePromptBlocks(r) : Admit(r, hits)
  BY <1>1 DEF AdmitFirst
<1>3. /\ MayAdmit /\ UNCHANGED <<pc, now, nextArrival, offset, work, processed>>
      /\ UNCHANGED <<arrival, actualOutput, firstToken, finishedAt>>
      /\ admittedAt' = [admittedAt EXCEPT ![r] = now]
  BY <1>1 DEF AdmitFirst, loopVars, workloadVars
<1>4. /\ status' = [status EXCEPT ![r] = "Active"]
      /\ stored' = [stored EXCEPT ![r] = HitTokens(hits)]
      /\ UNCHANGED <<prompt, calls>>
  BY <1>2 DEF Admit
<1>5. \A q \in Request :
        /\ status'[q] = IF q = r THEN "Active" ELSE status[q]
        /\ stored'[q] = IF q = r THEN HitTokens(hits) ELSE stored[q]
        /\ admittedAt'[q] = IF q = r THEN now ELSE admittedAt[q]
  BY <1>3, <1>4 DEF LoopInv, SimTypeOK, TypeOK
<1>6. /\ status[r] = "Queued" /\ arrival[r] <= now /\ now - arrival[r] <= TtftSlo
      /\ DecidedInOrder' /\ ArrivalsAreInOrder'
  BY <1>1, <1>3, <1>5, HeadIsDecided
<1>7. SimTypeOK'
  BY <1>3 DEF LoopInv, SimTypeOK, ReservationInv
<1>8. LoopIsInOrder'
  BY <1>3, <1>4 DEF LoopInv, LoopIsInOrder, MayAdmit
<1>9. Cardinality(ActiveRequests') <= MaxActive
  <2>1. IsFiniteSet(ActiveRequests)
    BY RequestAssumption, FS_Subset DEF ActiveRequests
  <2>2. ActiveRequests' = ActiveRequests \cup {r} /\ r \notin ActiveRequests
    BY <1>5, <1>6 DEF ActiveRequests
  <2>3. Cardinality(ActiveRequests') = Cardinality(ActiveRequests) + 1
    BY <2>1, <2>2, FS_AddElement
  <2> QED BY <1>3, <2>1, <2>3, FS_CardinalityType, ServiceAssumption DEF MayAdmit
<1>10. ItemsAreValid' /\ WorkIsDistinct'
  <2>1. work = <<>> /\ DOMAIN work' = {}
    BY <1>3 DEF LoopInv, LoopIsInOrder, MayAdmit
  <2> QED BY <2>1 DEF ItemsAreValid, WorkIsDistinct
<1>11. SimTypeOK /\ RequestInOrder(r)
  BY InvOrders DEF LoopInv
<1>12. RequestInOrder(r)'
  <2>1. admittedAt[r] = NoTime /\ stored[r] = 0
    BY <1>6, <1>11 DEF RequestInOrder, StampsMatch
  <2>2. /\ NoTime = -1 /\ now \in Nat /\ Len(prompt[r]) \in Nat
        /\ actualOutput[r] \in Nat \ {0}
        /\ firstToken[r] \in Nat \cup {-1} /\ finishedAt[r] \in Nat \cup {-1}
    BY <1>11, StampTypes
  <2>3. Generated(r) = 0
    <3>1. 0 - Least(0, Len(prompt[r])) = 0
      BY <2>2, GeneratedFrom
    <3> QED BY <2>1, <3>1 DEF Generated, Prefetched
  <2>4. firstToken[r] = NoTime /\ finishedAt[r] = NoTime
    BY <1>6, <1>11, <2>1, <2>3 DEF RequestInOrder, StampsMatch
  <2>5. Generated(r)' = 0
    <3>1. HitTokens(hits) \in Nat /\ HitTokens(hits) <= Len(prompt[r])
      <4>1. /\ BlockTokens \in Nat \ {0} /\ hits \in Nat
            /\ hits <= Len(prompt[r]) \div BlockTokens
        BY <1>2, <1>11, BlockCounts, SizesAssumption DEF CompletePromptBlocks, SimTypeOK
      <4> QED BY <2>2, <4>1, WholeBlocksFit DEF HitTokens
    <3>2. HitTokens(hits) - Least(HitTokens(hits), Len(prompt[r])) = 0
      BY <2>2, <3>1, GeneratedFrom
    <3> QED BY <1>4, <1>5, <3>2 DEF Generated, Prefetched
  <2>6. StampsMatch(r)'
    BY <1>3, <1>5, <2>2, <2>4, <2>5 DEF StampsMatch
  <2> QED BY <1>3, <1>5, <1>6, <2>2, <2>4, <2>6 DEF RequestInOrder
<1>13. ASSUME NEW q \in Request, q # r PROVE RequestInOrder(q)'
  <2>1. now' \in Nat /\ now <= now' /\ RequestInOrder(q)
    BY <1>3, <1>11, InvOrders DEF SimTypeOK
  <2> QED BY <1>3, <1>4, <1>5, <1>11, <1>13, <2>1, OthersStayInOrder
<1> QED BY <1>6, <1>7, <1>8, <1>9, <1>10, <1>12, <1>13, InvAgain

\* What the completion of an item at the head of the work leaves alone.
LEMMA ItemCompletes ==
  ASSUME LoopInv, NEW r \in Request, work # <<>>, r = Head(work).request,
         pc = "complete", work' = Tail(work),
         UNCHANGED <<pc, now, nextArrival, prompt, arrival, actualOutput>>,
         status[r] = "Active",
         \A q \in Request \ {r} :
           /\ status'[q] = status[q] /\ stored'[q] = stored[q]
           /\ admittedAt'[q] = admittedAt[q] /\ firstToken'[q] = firstToken[q]
           /\ finishedAt'[q] = finishedAt[q],
         status'[r] # "Queued"
  PROVE  /\ work' \in Seq(Items) /\ ItemsAreValid' /\ WorkIsDistinct'
         /\ LoopIsInOrder' /\ DecidedInOrder' /\ ArrivalsAreInOrder'
         /\ Cardinality(ActiveRequests') <= MaxActive
         /\ \A q \in Request \ {r} : RequestInOrder(q)'
<1>1. work' \in Seq(Items) /\ ItemsAreValid' /\ WorkIsDistinct'
  BY WorkStays
<1>2. LoopIsInOrder'
  BY DEF LoopIsInOrder
<1>3. \A q \in Request : status'[q] # "Queued" <=> status[q] # "Queued"
  OBVIOUS
<1>4. DecidedInOrder' /\ ArrivalsAreInOrder'
  BY <1>3 DEF LoopInv, DecidedInOrder, ArrivalsAreInOrder
<1>5. \A q \in Request : status'[q] = "Active" => status[q] = "Active"
  OBVIOUS
<1>6. Cardinality(ActiveRequests') <= MaxActive
  BY <1>5, NobodyBecomesActive
<1>7. ASSUME NEW q \in Request \ {r} PROVE RequestInOrder(q)'
  <2>1. now' \in Nat /\ now <= now' /\ SimTypeOK /\ RequestInOrder(q)
    BY InvOrders DEF LoopInv, SimTypeOK
  <2> QED BY <2>1, OthersStayInOrder
<1> QED BY <1>1, <1>2, <1>4, <1>6, <1>7

LEMMA CompletePrefillLoop ==
  ASSUME LoopInv, ReservationInv', CompletePrefill PROVE LoopInv'
<1>1. work \in Seq(Items) /\ work # <<>> /\ Head(work) \in Items
  BY HeadTailProperties DEF LoopInv, SimTypeOK, CompletePrefill
<1>2. PICK r \in Request, n \in Nat : r = Head(work).request /\ n = Head(work).prefill
  BY <1>1 DEF Items
<1>3. /\ pc = "complete" /\ work' = Tail(work) /\ n > 0
      /\ UNCHANGED <<pc, now, nextArrival, offset, processed>>
      /\ UNCHANGED <<arrival, actualOutput, admittedAt, firstToken, finishedAt>>
      /\ AppendPrefill(r, n)
  BY <1>2 DEF CompletePrefill, workloadVars, stampVars
<1>4. /\ stored' = [stored EXCEPT ![r] = @ + n] /\ UNCHANGED <<prompt, status>>
      /\ status[r] = "Active" /\ stored[r] < Len(prompt[r])
      /\ stored[r] + n <= Len(prompt[r])
  BY <1>3 DEF AppendPrefill, AppendTokens, IsPrefilling
<1>5. \A q \in Request : stored'[q] = IF q = r THEN stored[r] + n ELSE stored[q]
  BY <1>4 DEF LoopInv, SimTypeOK, TypeOK
<1>6. /\ work' \in Seq(Items) /\ ItemsAreValid' /\ WorkIsDistinct'
      /\ LoopIsInOrder' /\ DecidedInOrder' /\ ArrivalsAreInOrder'
      /\ Cardinality(ActiveRequests') <= MaxActive
      /\ \A q \in Request \ {r} : RequestInOrder(q)'
  BY <1>1, <1>2, <1>3, <1>4, <1>5, ItemCompletes
<1>7. SimTypeOK'
  BY <1>3, <1>6 DEF LoopInv, SimTypeOK, ReservationInv
<1>8. RequestInOrder(r)'
  <2>1. SimTypeOK /\ RequestInOrder(r)
    BY InvOrders DEF LoopInv
  <2>2. stored[r] \in Nat /\ Len(prompt[r]) \in Nat
    BY <2>1, StampTypes
  <2>3. Generated(r) = 0 /\ Generated(r)' = 0
    <3>1. /\ stored[r] - Least(stored[r], Len(prompt[r])) = 0
          /\ (stored[r] + n) - Least(stored[r] + n, Len(prompt[r])) = 0
      BY <1>2, <1>4, <2>2, GeneratedFrom
    <3> QED BY <1>4, <1>5, <3>1 DEF Generated, Prefetched
  <2>4. StampsMatch(r)'
    BY <1>3, <1>4, <2>1, <2>3 DEF RequestInOrder, StampsMatch
  <2> QED BY <1>3, <1>4, <2>1, <2>4 DEF RequestInOrder
<1> QED BY <1>6, <1>7, <1>8, InvAgain

LEMMA CompleteDecodeLoop ==
  ASSUME LoopInv, ReservationInv', CompleteDecode PROVE LoopInv'
<1>1. work \in Seq(Items) /\ work # <<>> /\ Head(work) \in Items
  BY HeadTailProperties DEF LoopInv, SimTypeOK, CompleteDecode
<1>2. PICK r \in Request : r = Head(work).request
  BY <1>1 DEF Items
<1>3. PICK last \in BOOLEAN : last <=> Generated(r) + 1 >= actualOutput[r]
  OBVIOUS
<1>4. /\ pc = "complete" /\ work' = Tail(work)
      /\ UNCHANGED <<pc, now, nextArrival, offset, processed>>
      /\ UNCHANGED <<arrival, actualOutput, admittedAt>>
      /\ AppendDecode(r, Generated(r) + 1 >= actualOutput[r])
      /\ firstToken' = [firstToken EXCEPT ![r] = IF @ = NoTime THEN now ELSE @]
      /\ finishedAt' = IF Generated(r) + 1 >= actualOutput[r]
                       THEN [finishedAt EXCEPT ![r] = now] ELSE finishedAt
  BY <1>2 DEF CompleteDecode, workloadVars
<1>5. /\ stored' = [stored EXCEPT ![r] = @ + 1] /\ UNCHANGED prompt
      /\ status[r] = "Active" /\ Len(prompt[r]) <= stored[r]
      /\ status' = IF Generated(r) + 1 >= actualOutput[r]
                   THEN [status EXCEPT ![r] = "Finished"] ELSE status
  <2>1. SimTypeOK
    BY DEF LoopInv
  <2> QED BY <1>4, <2>1, StampTypes DEF AppendDecode, AppendTokens, IsDecoding
<1>6. \A q \in Request :
        /\ stored'[q] = IF q = r THEN stored[r] + 1 ELSE stored[q]
        /\ status'[q] = IF q = r /\ last THEN "Finished" ELSE status[q]
        /\ firstToken'[q] = IF q = r /\ firstToken[r] = NoTime THEN now ELSE firstToken[q]
        /\ finishedAt'[q] = IF q = r /\ last THEN now ELSE finishedAt[q]
  BY <1>3, <1>4, <1>5 DEF LoopInv, SimTypeOK, TypeOK
<1>7. /\ work' \in Seq(Items) /\ ItemsAreValid' /\ WorkIsDistinct'
      /\ LoopIsInOrder' /\ DecidedInOrder' /\ ArrivalsAreInOrder'
      /\ Cardinality(ActiveRequests') <= MaxActive
      /\ \A q \in Request \ {r} : RequestInOrder(q)'
  <2>1. status'[r] # "Queued"
    BY <1>5, <1>6
  <2> QED BY <1>1, <1>2, <1>4, <1>5, <1>6, <2>1, ItemCompletes
<1>8. SimTypeOK'
  BY <1>4, <1>7 DEF LoopInv, SimTypeOK, ReservationInv
<1>9. RequestInOrder(r)'
  <2>1. SimTypeOK /\ RequestInOrder(r)
    BY InvOrders DEF LoopInv
  <2>2. /\ NoTime = -1 /\ now \in Nat /\ stored[r] \in Nat /\ Len(prompt[r]) \in Nat
        /\ actualOutput[r] \in Nat \ {0}
        /\ admittedAt[r] \in Nat \cup {-1} /\ firstToken[r] \in Nat \cup {-1}
        /\ finishedAt[r] \in Nat \cup {-1}
    BY <2>1, StampTypes
  <2>3. PICK g \in Nat : g = Generated(r) /\ Generated(r)' = g + 1
    <3>1. /\ stored[r] - Least(stored[r], Len(prompt[r])) = stored[r] - Len(prompt[r])
          /\ (stored[r] + 1) - Least(stored[r] + 1, Len(prompt[r]))
               = (stored[r] - Len(prompt[r])) + 1
          /\ stored[r] - Len(prompt[r]) \in Nat
      BY <1>5, <2>2, GeneratedFrom
    <3> QED BY <1>5, <1>6, <3>1 DEF Generated, Prefetched
  <2>4. /\ g < actualOutput[r] /\ admittedAt[r] # NoTime /\ admittedAt[r] <= now
        /\ firstToken[r] <= now /\ finishedAt[r] = NoTime
        /\ firstToken[r] # NoTime => admittedAt[r] <= firstToken[r]
    BY <1>5, <2>1, <2>2, <2>3 DEF RequestInOrder, StampsMatch
  <2>5. last <=> g + 1 = actualOutput[r]
    BY <1>3, <2>2, <2>3, <2>4
  <2>6. /\ firstToken'[r] # NoTime /\ admittedAt[r] <= firstToken'[r] /\ firstToken'[r] <= now
        /\ last => finishedAt'[r] = now /\ status'[r] = "Finished"
        /\ ~last => finishedAt'[r] = NoTime /\ status'[r] = "Active"
    BY <1>5, <1>6, <2>2, <2>4
  <2>7. StampsMatch(r)'
    BY <1>4, <2>2, <2>3, <2>4, <2>5, <2>6 DEF StampsMatch
  <2> QED BY <1>4, <2>1, <2>2, <2>4, <2>6, <2>7 DEF RequestInOrder
<1> QED BY <1>7, <1>8, <1>9, InvAgain

LEMMA RejectGrowthLoop ==
  ASSUME LoopInv, ReservationInv', RejectGrowth PROVE LoopInv'
<1>1. work \in Seq(Items) /\ work # <<>> /\ Head(work) \in Items
  BY HeadTailProperties DEF LoopInv, SimTypeOK, RejectGrowth
<1>2. PICK r \in Request : r = Head(work).request
  BY <1>1 DEF Items
<1>3. /\ pc = "complete" /\ work' = Tail(work)
      /\ UNCHANGED <<pc, now, nextArrival, offset, processed>>
      /\ UNCHANGED <<arrival, actualOutput, admittedAt, firstToken>>
      /\ GrowthExhausted(r) /\ finishedAt' = [finishedAt EXCEPT ![r] = now]
  BY <1>2 DEF RejectGrowth, workloadVars
<1>4. /\ status' = [status EXCEPT ![r] = "Rejected"] /\ UNCHANGED <<prompt, stored>>
      /\ status[r] = "Active"
  BY <1>3 DEF GrowthExhausted, IsDecoding
<1>5. \A q \in Request :
        /\ status'[q] = IF q = r THEN "Rejected" ELSE status[q]
        /\ finishedAt'[q] = IF q = r THEN now ELSE finishedAt[q]
  BY <1>3, <1>4 DEF LoopInv, SimTypeOK, TypeOK
<1>6. /\ work' \in Seq(Items) /\ ItemsAreValid' /\ WorkIsDistinct'
      /\ LoopIsInOrder' /\ DecidedInOrder' /\ ArrivalsAreInOrder'
      /\ Cardinality(ActiveRequests') <= MaxActive
      /\ \A q \in Request \ {r} : RequestInOrder(q)'
  <2>1. status'[r] # "Queued"
    BY <1>5
  <2> QED BY <1>1, <1>2, <1>3, <1>4, <1>5, <2>1, ItemCompletes
<1>7. SimTypeOK'
  BY <1>3, <1>6 DEF LoopInv, SimTypeOK, ReservationInv
<1>8. RequestInOrder(r)'
  <2>1. SimTypeOK /\ RequestInOrder(r)
    BY InvOrders DEF LoopInv
  <2>2. NoTime = -1 /\ now \in Nat /\ firstToken[r] \in Nat \cup {-1}
    BY <2>1, StampTypes
  <2>3. Generated(r)' = Generated(r)
    BY <1>4 DEF Generated, Prefetched
  <2>4. StampsMatch(r)'
    BY <1>3, <1>4, <1>5, <2>1, <2>2, <2>3 DEF RequestInOrder, StampsMatch
  <2> QED BY <1>3, <1>4, <1>5, <2>1, <2>4 DEF RequestInOrder
<1> QED BY <1>6, <1>7, <1>8, InvAgain

LEMMA NextLoop == LoopInv /\ [SimNext]_simVars => LoopInv'
<1> SUFFICES ASSUME LoopInv, [SimNext]_simVars PROVE LoopInv'
  OBVIOUS
<1>1. ReservationInv'
  BY LoopCallsCache, NextReservation DEF LoopInv
<1>2. CASE Arrive
  BY <1>1, <1>2, ArriveLoop
<1>3. CASE RejectImpossible
  BY <1>1, <1>3, RejectImpossibleLoop
<1>4. CASE AdmitFirst
  BY <1>1, <1>4, AdmitFirstLoop
<1>5. CASE HoldTheLine \/ AdmissionDone \/ EndIteration
  BY <1>1, <1>5, HandlerEndsLoop
<1>6. CASE Schedule
  BY <1>1, <1>6, ScheduleLoop
<1>7. CASE CompletePrefill
  BY <1>1, <1>7, CompletePrefillLoop
<1>8. CASE CompleteDecode
  BY <1>1, <1>8, CompleteDecodeLoop
<1>9. CASE RejectGrowth
  BY <1>1, <1>9, RejectGrowthLoop
<1>10. CASE FinishItem
  BY <1>1, <1>10, FinishItemLoop
<1>11. CASE Done \/ UNCHANGED simVars
  BY <1>1, <1>11, IdleLoop DEF Done
<1> QED BY <1>2, <1>3, <1>4, <1>5, <1>6, <1>7, <1>8, <1>9, <1>10, <1>11 DEF SimNext

-----------------------------------------------------------------------------
(* Nobody waits without a reason *)

\* The longest run of the first n numbers in a set.
LEMMA LongestRun ==
  ASSUME NEW n \in Nat, NEW H
  PROVE  \E k \in 0 .. n : (\A i \in 1 .. k : i \in H) /\ (k < n => k + 1 \notin H)
<1> DEFINE T == (1 .. n) \ H
<1>1. CASE T = {}
  <2>1. n \in 0 .. n /\ \A i \in 1 .. n : i \in H
    BY <1>1
  <2> QED BY <2>1
<1>2. CASE T # {}
  <2>1. T \in SUBSET Nat
    OBVIOUS
  <2>2. PICK m \in T : \A x \in T : m <= x
    BY <1>2, <2>1, LeastElement
  <2>3. m \in 1 .. n /\ m \notin H
    BY <2>2
  <2>4. \A i \in 1 .. m - 1 : i \in H
    BY <2>2, <2>3
  <2>5. m - 1 \in 0 .. n /\ (m - 1) + 1 = m
    BY <2>3
  <2> QED BY <2>3, <2>4, <2>5
<1> QED BY <1>1, <1>2

\* A failed ensure_capacity leaves nothing that could be evicted, and is not
\* enough all the same.
LEMMA FailureLeavesNothing ==
  ASSUME TypeOK, NEW n \in Nat, FailedEnsure(n)
  PROVE  /\ Len(free') \in Nat /\ Len(free') < reserved + n /\ Idle' = {}
         /\ refs' = refs /\ reserved' = reserved
         /\ \A b \in Block : pinned'[b] => pinned[b]
         /\ \A h \in Contents : cacheIndex'[h] # NoBlock => cacheIndex'[h] = cacheIndex[h]
<1>1. PICK o \in Evictions(n) :
        /\ free' = FreeAfter(o) /\ pinned' = PinnedAfter(o) /\ cacheIndex' = IndexAfter(o)
  BY DEF FailedEnsure
<1>2. refs' = refs /\ reserved' = reserved /\ ~CanEnsure(n)
  BY DEF FailedEnsure
<1>3. /\ Len(free) \in Nat /\ reserved \in Nat
      /\ IsFiniteSet(Idle) /\ Cardinality(Idle) \in Nat
  <2>1. IsFiniteSet(Idle)
    BY Idle \subseteq Contents, ContentsAssumption, FS_Subset DEF Idle
  <2> QED BY <2>1, LenProperties, FS_CardinalityType DEF TypeOK
<1>4. EvictionCount(n) = Cardinality(Idle)
  BY <1>2, <1>3 DEF CanEnsure, EvictionCount, Least, Monus
<1>5. Len(free') = Len(free) + Cardinality(Idle)
  BY <1>1, <1>4, EvictionOutcome
<1>6. Len(free') < reserved + n
  BY <1>2, <1>3, <1>5 DEF CanEnsure
<1>7. \A h \in Idle : \E i \in DOMAIN o : o[i] = h
  <2> DEFINE c == Cardinality(Idle)
  <2>1. o \in [1 .. c -> Idle] /\ \A i, j \in 1 .. c : o[i] = o[j] => i = j
    BY <1>4 DEF Evictions
  <2> HIDE DEF c
  <2>2. o \in Injection(1 .. c, Idle)
    BY <2>1 DEF Injection, IsInjective
  <2>3. Cardinality(1 .. c) = Cardinality(Idle)
    <3>1. c \in Nat /\ 1 \in Int /\ c \in Int
      BY <1>3 DEF c
    <3>2. Cardinality(1 .. c) = IF 1 > c THEN 0 ELSE c - 1 + 1
      BY <3>1, FS_Interval
    <3> QED BY <3>1, <3>2 DEF c
  <2>4. o \in Surjection(1 .. c, Idle)
    BY <1>3, <2>2, <2>3, FS_Injection
  <2> QED BY <2>1, <2>4 DEF Surjection
<1>8. ASSUME NEW h \in Contents, cacheIndex'[h] # NoBlock
      PROVE  cacheIndex'[h] = cacheIndex[h] /\ h \notin Idle
  BY <1>1, <1>7, <1>8 DEF IndexAfter
<1>9. Idle' = {}
  BY <1>2, <1>8 DEF Idle
<1>10. \A b \in Block : pinned'[b] => pinned[b]
  BY <1>1 DEF PinnedAfter
<1> QED BY <1>2, <1>3, <1>5, <1>6, <1>8, <1>9, <1>10

\* So it is not enough for any shorter run of hits, and no run got longer.
LEMMA HoldTheLineHasReason ==
  ASSUME LoopInv, HoldTheLine
  PROVE  NobodyWaitsWithoutReason'
<1>1. PICK r \in Request : r = FirstWaiting
  BY FirstWaitingIs DEF HoldTheLine, MayAdmit
<1>2. PICK hits \in 0 .. CompletePromptBlocks(r) : AdmitTemporarilyUnavailable(r, hits)
  BY <1>1 DEF HoldTheLine
<1>3. /\ PromptBlocks(r) <= TotalBlocks /\ IsHitRun(r, hits)
      /\ FailedEnsure(PromptBlocks(r) - hits)
      /\ UNCHANGED <<prompt, status, now, arrival>>
  BY <1>2 DEF AdmitTemporarilyUnavailable, HoldTheLine, requestVars, loopVars, workloadVars
<1>4. FirstWaiting' = r
  <2>1. WaitingRequests' = WaitingRequests
    BY <1>3 DEF WaitingRequests
  <2> QED BY <1>1, <2>1 DEF FirstWaiting
<1> DEFINE c == CompletePromptBlocks(r)
<1>5. /\ TypeOK /\ c \in Nat /\ PromptBlocks(r) \in Nat /\ hits \in 0 .. c
      /\ PromptBlocks(r) - hits \in Nat /\ reserved \in Nat
      /\ c' = c /\ PromptBlocks(r)' = PromptBlocks(r)
  <2>1. /\ TypeOK /\ c \in Nat /\ PromptBlocks(r) \in Nat /\ c <= PromptBlocks(r)
        /\ reserved \in Nat
    BY BlockCounts DEF LoopInv, SimTypeOK, TypeOK
  <2>2. c' = c /\ PromptBlocks(r)' = PromptBlocks(r)
    BY <1>3 DEF CompletePromptBlocks, PromptBlocks
  <2> HIDE DEF c
  <2>3. hits \in 0 .. c
    BY DEF c
  <2> QED BY <2>1, <2>2, <2>3
<1>6. /\ Len(free') \in Nat /\ Len(free') < reserved + (PromptBlocks(r) - hits)
      /\ Idle' = {} /\ reserved' = reserved
      /\ \A b \in Block : pinned'[b] => pinned[b]
      /\ \A h \in Contents : cacheIndex'[h] # NoBlock => cacheIndex'[h] = cacheIndex[h]
  BY <1>3, <1>5, FailureLeavesNothing
<1> DEFINE H == {i \in 1 .. c : IsHit(r, i)'}
<1>7. PICK k \in 0 .. c : (\A i \in 1 .. k : i \in H) /\ (k < c => k + 1 \notin H)
  <2> HIDE DEF c, H
  <2> QED BY <1>5, LongestRun
<1>8. \A i \in H : IsHit(r, i)
  <2> SUFFICES ASSUME NEW i \in 1 .. c, IsHit(r, i)' PROVE IsHit(r, i)
    OBVIOUS
  <2>1. BlockContent(prompt[r], i) \in Contents
    <3>1. prompt[r] \in Prompts /\ i \in 1 .. Len(prompt[r]) \div BlockTokens
      BY <1>5 DEF TypeOK, CompletePromptBlocks
    <3> QED BY <3>1 DEF Contents
  <2> QED BY <1>3, <1>5, <1>6, <2>1 DEF IsHit, TypeOK
<1>9. \E m \in 0 .. c : m <= hits /\ IsHitRun(r, m)'
  <2>1. CASE PrefixCacheEnabled
    <3>1. k <= hits
      <4> HIDE DEF c, H
      <4>1. hits < c => hits + 1 \notin H
        BY <1>3, <1>8, <2>1 DEF IsHitRun, c
      <4>2. ~(k > hits)
        BY <1>5, <1>7, <4>1
      <4> QED BY <1>5, <1>7, <4>2
    <3>2. IsHitRun(r, k)'
      <4>1. \A i \in 1 .. k : IsHit(r, i)'
        BY <1>7
      <4>2. k < c => ~IsHit(r, k + 1)'
        <5>1. k < c => k + 1 \in 1 .. c
          BY <1>5, <1>7
        <5> QED BY <1>7, <5>1
      <4> QED BY <1>5, <2>1, <4>1, <4>2 DEF IsHitRun
    <3> QED BY <1>7, <3>1, <3>2
  <2>2. CASE ~PrefixCacheEnabled
    <3>1. IsHitRun(r, 0)' /\ 0 \in 0 .. c /\ 0 <= hits
      BY <1>5, <2>2 DEF IsHitRun
    <3> QED BY <3>1
  <2> QED BY <2>1, <2>2
<1>10. PICK m \in 0 .. c : m <= hits /\ IsHitRun(r, m)'
  BY <1>9
<1>11. ~CanEnsure(PromptBlocks(r) - m)'
  <2>1. Cardinality(Idle') = 0
    BY <1>6, FS_EmptySet
  <2>2. Len(free') + 0 < reserved' + (PromptBlocks(r) - m)
    BY <1>5, <1>6, <1>10
  <2>3. (PromptBlocks(r) - m)' = PromptBlocks(r) - m
    BY <1>5
  <2> QED BY <1>5, <1>6, <2>1, <2>2, <2>3 DEF CanEnsure
<1> QED BY <1>3, <1>4, <1>5, <1>10, <1>11 DEF NobodyWaitsWithoutReason

LEMMA NextHasReason ==
  LoopInv /\ NobodyWaitsWithoutReason /\ [SimNext]_simVars => NobodyWaitsWithoutReason'
<1> SUFFICES ASSUME LoopInv, NobodyWaitsWithoutReason, [SimNext]_simVars
             PROVE  NobodyWaitsWithoutReason'
  OBVIOUS
<1>1. CASE HoldTheLine
  BY <1>1, HoldTheLineHasReason
<1>2. CASE AdmissionDone
  <2>1. /\ UNCHANGED <<status, arrival, now>>
        /\ ~(Cardinality(ActiveRequests) < MaxActive /\ WaitingRequests # {})
    BY <1>2 DEF AdmissionDone, MayAdmit, vars, requestVars, loopVars, workloadVars
  <2>2. ActiveRequests' = ActiveRequests /\ WaitingRequests' = WaitingRequests
    BY <2>1 DEF ActiveRequests, WaitingRequests
  <2> QED BY <2>1, <2>2 DEF NobodyWaitsWithoutReason
<1>3. CASE Arrive \/ RejectImpossible \/ AdmitFirst \/ Schedule \/ CompletePrefill
           \/ CompleteDecode \/ RejectGrowth \/ FinishItem \/ EndIteration
  <2>1. pc' # "schedule"
    BY <1>3 DEF Arrive, RejectImpossible, AdmitFirst, MayAdmit, Schedule, CompletePrefill,
                CompleteDecode, RejectGrowth, FinishItem, EndIteration
  <2> QED BY <2>1 DEF NobodyWaitsWithoutReason
<1>4. CASE Done \/ UNCHANGED simVars
  <2>1. /\ UNCHANGED <<pc, now, arrival, status, prompt>>
        /\ UNCHANGED <<free, refs, pinned, cacheIndex, reserved>>
    BY <1>4 DEF Done, simVars, vars, cacheVars, requestVars, loopVars, workloadVars
  <2>2. ActiveRequests' = ActiveRequests /\ WaitingRequests' = WaitingRequests
        /\ FirstWaiting' = FirstWaiting /\ Idle' = Idle
    BY <2>1 DEF ActiveRequests, WaitingRequests, FirstWaiting, Idle
  <2>3. ASSUME NEW r, NEW hits
        PROVE  /\ IsHitRun(r, hits)' = IsHitRun(r, hits)
               /\ PromptBlocks(r)' = PromptBlocks(r)
               /\ CompletePromptBlocks(r)' = CompletePromptBlocks(r)
               /\ CanEnsure(PromptBlocks(r) - hits)' = CanEnsure(PromptBlocks(r) - hits)
    BY <2>1, <2>2 DEF IsHitRun, IsHit, CompletePromptBlocks, PromptBlocks, CanEnsure
  <2> QED BY <2>1, <2>2, <2>3 DEF NobodyWaitsWithoutReason
<1> QED BY <1>1, <1>2, <1>3, <1>4 DEF SimNext

-----------------------------------------------------------------------------
(* What the end of the run leaves in the cache *)

\* What EndsDrained says without counting pages.
NothingIsHeld ==
  pc = "done" =>
    /\ AllTerminal
    /\ nextArrival = NumRequests + 1
    /\ reserved = 0
    /\ \A b \in Block : refs[b] = 0

\* Admission does not stop at the first in line of an empty cache, which would be
\* admitted.
LEMMA EmptyCacheIsNoReason ==
  ASSUME LoopInv, LossInv, ReleasesAreOwed, HoldTheLine
  PROVE  ActiveRequests # {}
<1> SUFFICES ASSUME ActiveRequests = {} PROVE FALSE
  OBVIOUS
<1>1. MayAdmit /\ calls = <<>> /\ NobodyActive
  BY DEF HoldTheLine, MayAdmit, LoopInv, LoopIsInOrder, NobodyActive, ActiveRequests
<1>2. PICK r \in Request : r = FirstWaiting
  BY <1>1, FirstWaitingIs DEF MayAdmit
<1>3. PICK hits \in 0 .. CompletePromptBlocks(r) : AdmitTemporarilyUnavailable(r, hits)
  BY <1>2 DEF HoldTheLine
<1>4. PromptBlocks(r) <= TotalBlocks /\ ~CanEnsure(PromptBlocks(r) - hits)
  BY <1>3 DEF AdmitTemporarilyUnavailable, FailedEnsure
<1>5. PromptBlocks(r) \in Nat /\ CompletePromptBlocks(r) \in Nat /\ CompletePromptBlocks(r) <= PromptBlocks(r)
  BY BlockCounts DEF LoopInv, SimTypeOK
<1>6. PromptBlocks(r) - hits \in Nat /\ PromptBlocks(r) - hits <= TotalBlocks
  BY <1>4, <1>5, SizesAssumption
<1>7. CanEnsure(PromptBlocks(r) - hits)
  BY <1>1, <1>6, EmptyCacheFits
<1> QED BY <1>4, <1>7

\* Nor does it stop early when a place is free.
LEMMA NobodyStaysInLine ==
  ASSUME LoopInv, AdmissionDone, ActiveRequests = {}
  PROVE  WaitingRequests = {}
<1>1. Cardinality(ActiveRequests) = 0 /\ MaxActive \in Nat \ {0}
  BY FS_EmptySet, ServiceAssumption
<1> QED BY <1>1 DEF AdmissionDone, MayAdmit

\* Admission ends the run only when everybody has come and nobody waits: the
\* first in line of an empty cache would be admitted.
LEMMA NextDrains ==
  ASSUME LoopInv, LossInv, ReleasesAreOwed, NothingIsHeld, [SimNext]_simVars
  PROVE  NothingIsHeld'
<1>1. ASSUME calls = <<>>, UNCHANGED <<refs, reserved, status, nextArrival>>,
             AllTerminal, nextArrival = NumRequests + 1
      PROVE  NothingIsHeld'
  <2>1. ActiveRequests = {}
    BY <1>1 DEF AllTerminal, ActiveRequests
  <2>2. reserved = 0 /\ \A b \in Block : refs[b] = 0
    BY <1>1, <2>1, NobodyHolds DEF NobodyActive, ActiveRequests
  <2> QED BY <1>1, <2>2 DEF NothingIsHeld, AllTerminal
<1>2. /\ nextArrival \in 1 .. NumRequests + 1 /\ NumRequests \in Nat /\ Request = 1 .. NumRequests
      /\ \A r \in Request : status[r] \in Phases
      /\ \A r \in Request : /\ r < nextArrival => arrival[r] <= now
                            /\ status[r] # "Queued" => r < nextArrival
  BY Requests DEF LoopInv, SimTypeOK, TypeOK, ArrivalsAreInOrder
<1>3. CASE AdmissionDone
  <2>1. CASE pc' = "done"
    <3>1. /\ ActiveRequests = {} /\ ~(nextArrival <= NumRequests) /\ pc = "admit"
          /\ UNCHANGED <<refs, reserved, status, nextArrival>>
      BY <1>3, <2>1 DEF AdmissionDone, AfterAdmission, vars, cacheVars, requestVars, loopVars
    <3>2. WaitingRequests = {}
      BY <1>3, <3>1, NobodyStaysInLine
    <3>3. nextArrival = NumRequests + 1
      BY <1>2, <3>1
    <3>4. ASSUME NEW r \in Request PROVE status[r] \in {"Finished", "Rejected"}
      <4>1. arrival[r] <= now
        BY <1>2, <3>3
      <4>2. status[r] # "Queued" /\ status[r] # "Active"
        BY <3>1, <3>2, <4>1 DEF WaitingRequests, ActiveRequests
      <4> QED BY <1>2, <4>2 DEF Phases
    <3>5. calls = <<>>
      BY <3>1 DEF LoopInv, LoopIsInOrder
    <3> QED BY <1>1, <3>1, <3>3, <3>4, <3>5 DEF AllTerminal
  <2>2. CASE pc' # "done"
    BY <2>2 DEF NothingIsHeld
  <2> QED BY <2>1, <2>2
<1>4. CASE HoldTheLine
  <2>1. CASE pc' = "done"
    <3>1. ActiveRequests = {}
      BY <1>4, <2>1 DEF HoldTheLine, AfterAdmission
    <3> QED BY <1>4, <3>1, EmptyCacheIsNoReason
  <2>2. CASE pc' # "done"
    BY <2>2 DEF NothingIsHeld
  <2> QED BY <2>1, <2>2
<1>5. CASE EndIteration
  <2>1. CASE pc' = "done"
    <3>1. calls = <<>> /\ AllTerminal /\ UNCHANGED <<refs, reserved, status, nextArrival>>
      BY <1>5, <2>1 DEF EndIteration, vars, cacheVars, requestVars, loopVars
    <3>2. nextArrival = NumRequests + 1
      <4>1. \A r \in Request : r < nextArrival
        BY <1>2, <3>1 DEF AllTerminal
      <4> QED BY <1>2, <4>1
    <3> QED BY <1>1, <3>1, <3>2
  <2>2. CASE pc' # "done"
    BY <2>2 DEF NothingIsHeld
  <2> QED BY <2>1, <2>2
<1>6. CASE Arrive \/ RejectImpossible \/ AdmitFirst \/ Schedule \/ CompletePrefill
           \/ CompleteDecode \/ RejectGrowth \/ FinishItem
  <2>1. pc' # "done"
    BY <1>6 DEF Arrive, RejectImpossible, AdmitFirst, MayAdmit, Schedule, CompletePrefill,
                CompleteDecode, RejectGrowth, FinishItem
  <2> QED BY <2>1 DEF NothingIsHeld
<1>7. CASE Done \/ UNCHANGED simVars
  BY <1>7 DEF Done, simVars, vars, cacheVars, requestVars, loopVars, NothingIsHeld, AllTerminal
<1> QED BY <1>3, <1>4, <1>5, <1>6, <1>7 DEF SimNext

\* The pages that are then neither free nor cached are none.
LEMMA PagesAddUp ==
  ASSUME PagesInv, \A b \in Block : refs[b] = 0
  PROVE  Len(free) + Cardinality(CachedBlocks) = TotalBlocks
<1>1. AllocatedBlocks = CachedBlocks /\ CachedBlocks \subseteq Block
  BY DEF AllocatedBlocks, ActiveBlocks, CachedBlocks
<1>2. FreePages = Block \ CachedBlocks /\ \A i, j \in DOMAIN free : free[i] = free[j] => i = j
  BY <1>1 DEF PagesInv, PagesConserved
<1>3. /\ free \in Seq(Block) /\ Len(free) \in Nat /\ DOMAIN free = 1 .. Len(free)
  BY LenProperties DEF PagesInv, ReservationInv, TypeOK
<1>4. IsFiniteSet(Block) /\ Cardinality(Block) = TotalBlocks
  BY BlocksAreCounted
<1>5. Cardinality(FreePages) = TotalBlocks - Cardinality(CachedBlocks)
      /\ IsFiniteSet(CachedBlocks)
  <2>1. /\ IsFiniteSet(CachedBlocks) /\ Block \cap CachedBlocks = CachedBlocks
    BY <1>1, <1>4, FS_Subset
  <2> QED BY <1>2, <1>4, <2>1, FS_Difference
<1>6. Cardinality(FreePages) = Len(free)
  <2>1. free \in [1 .. Len(free) -> FreePages]
    BY <1>3 DEF FreePages
  <2>2. free \in Surjection(1 .. Len(free), FreePages) /\ free \in Injection(1 .. Len(free), FreePages)
    BY <1>2, <1>3, <2>1 DEF Surjection, Injection, IsInjective, FreePages
  <2>3. IsFiniteSet(1 .. Len(free)) /\ Cardinality(1 .. Len(free)) = Len(free)
    <3>1. 1 \in Int /\ Len(free) \in Int
      BY <1>3
    <3>2. /\ IsFiniteSet(1 .. Len(free))
          /\ Cardinality(1 .. Len(free)) = IF 1 > Len(free) THEN 0 ELSE Len(free) - 1 + 1
      BY <3>1, FS_Interval
    <3> QED BY <1>3, <3>2
  <2> QED BY <2>2, <2>3, FS_Surjection
<1>7. Cardinality(CachedBlocks) \in Nat
  BY <1>5, FS_CardinalityType
<1> QED BY <1>3, <1>5, <1>6, <1>7, SizesAssumption

-----------------------------------------------------------------------------
(* What an iteration is given *)

\* Each element of a set of requests has a place in its order, and one only.
LEMMA AscendingCovers ==
  ASSUME NEW S \in SUBSET Request, NEW r \in S
  PROVE  \E k \in 1 .. Len(Ascending(S)) : Ascending(S)[k] = r
<1> DEFINE o == Ascending(S)
           n == Len(o)
<1>1. /\ o \in Seq(S) /\ n = Cardinality(S) /\ IsFiniteSet(S) /\ n \in Nat
      /\ \A i, j \in 1 .. n : i < j => o[i] < o[j]
  BY AscendingIs, LenProperties
<1>2. o \in [1 .. n -> S]
  BY <1>1, LenProperties
<1> HIDE DEF o
<1>3. ASSUME NEW i \in 1 .. n, NEW j \in 1 .. n, o[i] = o[j] PROVE i = j
  <2>1. o[i] \in Nat
    BY <1>2, Requests
  <2>2. ~(i < j) /\ ~(j < i)
    BY <1>1, <1>3, <2>1
  <2> QED BY <1>1, <2>2
<1>4. IsFiniteSet(1 .. n) /\ Cardinality(1 .. n) = n
  <2>1. 1 \in Int /\ n \in Int
    BY <1>1
  <2>2. /\ IsFiniteSet(1 .. n)
        /\ Cardinality(1 .. n) = IF 1 > n THEN 0 ELSE n - 1 + 1
    BY <2>1, FS_Interval
  <2> QED BY <1>1, <2>2
<1> HIDE DEF n
<1>5. o \in Injection(1 .. n, S)
  BY <1>2, <1>3 DEF Injection, IsInjective
<1>6. o \in Surjection(1 .. n, S)
  BY <1>1, <1>4, <1>5, FS_Injection
<1>7. \E k \in 1 .. n : o[k] = r
  BY <1>6 DEF Surjection
<1> QED BY <1>7 DEF o, n

\* The budget falls along the requests, and where nobody takes of it, it does not.
LEMMA LeftFalls ==
  ASSUME TypeOK, NEW b \in Nat, NEW p \in 0 .. NumRequests, NEW q \in 0 .. NumRequests, p <= q
  PROVE  /\ LeftAfter(b)[p] \in Nat /\ LeftAfter(b)[q] \in Nat
         /\ LeftAfter(b)[q] <= LeftAfter(b)[p]
         /\ (\A r \in Request : (p < r /\ r <= q) => LeftAfter(b)[r] = LeftAfter(b)[r - 1]) =>
              LeftAfter(b)[q] = LeftAfter(b)[p]
<1> DEFINE left == LeftAfter(b)
           Nobody(n) == \A r \in Request : (p < r /\ r <= n) => left[r] = left[r - 1]
           S == {n \in 0 .. NumRequests : p <= n =>
                   left[n] <= left[p] /\ (Nobody(n) => left[n] = left[p])}
<1>1. /\ \A n \in 0 .. NumRequests : left[n] \in Nat
      /\ \A r \in Request : /\ left[r - 1] \in Nat /\ left[r] \in Nat
                            /\ left[r - 1] - left[r] = Chunk(r, left[r - 1])
                            /\ Chunk(r, left[r - 1]) \in Nat
  BY BudgetIsKept, ChunkIs
<1> HIDE DEF left
<1>2. ASSUME NEW n \in S, n < NumRequests PROVE n + 1 \in S
  <2>1. /\ n \in 0 .. NumRequests /\ n + 1 \in 0 .. NumRequests
        /\ n + 1 \in Request /\ (n + 1) - 1 = n
    BY <1>2, Requests
  <2>2. left[n + 1] \in Nat /\ left[n] \in Nat /\ left[p] \in Nat /\ left[n + 1] <= left[n]
    <3>1. left[n] - left[n + 1] \in Nat
      BY <1>1, <2>1
    <3> QED BY <1>1, <2>1, <3>1
  <2>3. CASE p <= n
    <3>1. left[n] <= left[p] /\ (Nobody(n) => left[n] = left[p])
      BY <1>2, <2>3
    <3>2. ASSUME Nobody(n + 1) PROVE left[n + 1] = left[p]
      <4>1. left[n + 1] = left[n]
        BY <2>1, <2>3, <3>2
      <4>2. ASSUME NEW r \in Request, p < r, r <= n PROVE left[r] = left[r - 1]
        <5>1. r <= n + 1
          BY <2>1, <4>2, Requests
        <5> QED BY <3>2, <4>2, <5>1
      <4>3. Nobody(n)
        BY <4>2
      <4> QED BY <3>1, <4>1, <4>3
    <3> HIDE DEF Nobody
    <3>3. left[n + 1] <= left[p]
      BY <2>2, <3>1
    <3> QED BY <2>1, <3>2, <3>3
  <2>4. CASE p = n + 1
    BY <2>1, <2>2, <2>4
  <2>5. CASE ~(p <= n + 1)
    BY <2>1, <2>5
  <2> QED BY <2>1, <2>3, <2>4, <2>5
<1>3. S \in SUBSET (0 .. NumRequests) /\ 0 \in S
  <2>1. 0 \in 0 .. NumRequests /\ (p <= 0 => p = 0) /\ left[0] \in Nat
    BY <1>1, Requests
  <2> QED BY <2>1
<1>4. q \in S
  <2> HIDE DEF S
  <2>1. \A n \in 0 .. NumRequests : n \in S
    BY <1>2, <1>3, Requests, UpTo
  <2> QED BY <2>1
<1> QED BY <1>1, <1>4 DEF left

\* The chunks of the items of PrefillWork are the chunks of the requests, and add
\* up to what they took of the budget.
LEMMA PrefillTokensAre ==
  ASSUME TypeOK, NEW b \in Nat
  PROVE  LET w == PrefillWork(b)
         IN  /\ \A k \in 1 .. Len(w) :
                  w[k].prefill = Chunk(w[k].request, LeftAfter(b)[w[k].request - 1])
             /\ \A r \in Request : Chunk(r, LeftAfter(b)[r - 1]) # 0 =>
                  \E k \in 1 .. Len(w) : w[k].request = r
             /\ SumTo(Len(w), [k \in 1 .. Len(w) |-> w[k].prefill])
                  = b - LeftAfter(b)[NumRequests]
<1> DEFINE left     == LeftAfter(b)
           chunk(r) == left[r - 1] - left[r]
           due      == {r \in Request : chunk(r) > 0}
           chosen   == Ascending(due)
           m        == Len(chosen)
           w        == [k \in 1 .. m |-> PrefillItem(chosen[k], chunk(chosen[k]))]
           x        == [k \in 0 .. m |-> IF k = 0 THEN left[0] ELSE left[chosen[k]]]
           f        == [k \in 1 .. m |-> w[k].prefill]
<1>1. PrefillWork(b) = w
  BY DEF PrefillWork
<1>2. /\ \A n \in 0 .. NumRequests : left[n] \in Nat
      /\ left[0] = b
      /\ \A r \in Request : /\ left[r - 1] \in Nat /\ left[r] \in Nat
                            /\ chunk(r) = Chunk(r, left[r - 1]) /\ chunk(r) \in Nat
  BY BudgetIsKept, ChunkIs
<1>3. /\ chosen \in Seq(due) /\ m \in Nat
      /\ \A i, j \in 1 .. m : i < j => chosen[i] < chosen[j]
      /\ \A r \in due : \E k \in 1 .. m : chosen[k] = r
  <2>1. due \in SUBSET Request
    OBVIOUS
  <2> HIDE DEF due
  <2> QED BY <2>1, AscendingIs, AscendingCovers, LenProperties
<1>4. ASSUME NEW k \in 1 .. m
      PROVE  chosen[k] \in Request /\ chosen[k] \in Nat
  <2>1. chosen[k] \in due
    BY <1>3, ElementOfSeq
  <2> QED BY <2>1, Requests
<1>5. \A r \in Request : r \notin due => left[r] = left[r - 1]
  <2> SUFFICES ASSUME NEW r \in Request, r \notin due PROVE left[r] = left[r - 1]
    OBVIOUS
  <2>1. chunk(r) \in Nat /\ ~(chunk(r) > 0) /\ left[r - 1] \in Nat /\ left[r] \in Nat
    BY <1>2
  <2> HIDE DEF left, due
  <2> QED BY <2>1
<1>6. ASSUME NEW r \in Request, Chunk(r, left[r - 1]) # 0 PROVE r \in due
  <2>1. chunk(r) \in Nat /\ chunk(r) # 0
    BY <1>2, <1>6
  <2> HIDE DEF left
  <2> QED BY <2>1
<1>7. ASSUME NEW p \in 0 .. NumRequests, NEW q \in 0 .. NumRequests, p <= q,
             \A k \in 1 .. m : ~(p < chosen[k] /\ chosen[k] <= q)
      PROVE  left[q] = left[p]
  <2>1. \A r \in Request : (p < r /\ r <= q) => left[r] = left[r - 1]
    BY <1>3, <1>5, <1>7
  <2> HIDE DEF due
  <2> QED BY <1>7, <2>1, LeftFalls
<1> HIDE DEF left, chosen, m, due
<1>8. ASSUME NEW k \in 1 .. m PROVE f[k] = x[k - 1] - x[k]
  <2>1. chosen[k] \in Request /\ chosen[k] \in Nat /\ chosen[k] - 1 \in 0 .. NumRequests
        /\ k \in 0 .. m /\ k - 1 \in 0 .. m
    BY <1>3, <1>4, Requests
  <2>2. f[k] = left[chosen[k] - 1] - left[chosen[k]] /\ x[k] = left[chosen[k]]
    BY <2>1 DEF PrefillItem
  <2>3. CASE k = 1
    <3>1. \A j \in 1 .. m : ~(0 < chosen[j] /\ chosen[j] <= chosen[k] - 1)
      <4> SUFFICES ASSUME NEW j \in 1 .. m PROVE chosen[k] <= chosen[j]
        BY <1>4, <2>1
      <4>1. j = k \/ k < j
        BY <2>3
      <4> QED BY <1>3, <1>4, <4>1
    <3>2. 0 \in 0 .. NumRequests /\ 0 <= chosen[k] - 1
      BY <2>1, Requests
    <3>3. left[chosen[k] - 1] = left[0]
      BY <1>7, <2>1, <3>1, <3>2
    <3> QED BY <2>1, <2>2, <2>3, <3>3
  <2>4. CASE k # 1
    <3>1. /\ k - 1 \in 1 .. m /\ chosen[k - 1] \in Request /\ chosen[k - 1] \in Nat
          /\ chosen[k - 1] \in 0 .. NumRequests /\ chosen[k - 1] < chosen[k]
      <4>1. k - 1 \in 1 .. m /\ k - 1 < k
        BY <1>3, <2>4
      <4>2. chosen[k - 1] < chosen[k]
        BY <1>3, <4>1
      <4> QED BY <1>4, <4>1, <4>2, Requests
    <3>2. \A j \in 1 .. m : ~(chosen[k - 1] < chosen[j] /\ chosen[j] <= chosen[k] - 1)
      <4> SUFFICES ASSUME NEW j \in 1 .. m
                   PROVE  chosen[j] <= chosen[k - 1] \/ chosen[k] <= chosen[j]
        BY <1>4, <2>1, <3>1
      <4>1. j < k - 1 \/ j = k - 1 \/ j = k \/ k < j
        BY <1>3
      <4> QED BY <1>3, <1>4, <3>1, <4>1
    <3>3. left[chosen[k] - 1] = left[chosen[k - 1]]
      BY <1>7, <2>1, <3>1, <3>2
    <3>4. x[k - 1] = left[chosen[k - 1]]
      BY <2>1, <2>4
    <3> QED BY <2>2, <3>3, <3>4
  <2> QED BY <2>3, <2>4
<1>9. x[m] = left[NumRequests] /\ x[0] = b
  <2>1. CASE m = 0
    <3>1. left[NumRequests] = left[0]
      BY <1>7, <2>1, Requests
    <3> QED BY <1>2, <2>1, <3>1
  <2>2. CASE m # 0
    <3>1. m \in 1 .. m /\ chosen[m] \in 0 .. NumRequests /\ chosen[m] \in Nat
      BY <1>3, <1>4, <2>2, Requests
    <3>2. \A j \in 1 .. m : ~(chosen[m] < chosen[j] /\ chosen[j] <= NumRequests)
      <4> SUFFICES ASSUME NEW j \in 1 .. m PROVE chosen[j] <= chosen[m]
        BY <1>4, <3>1
      <4>1. j = m \/ j < m
        BY <1>3
      <4> QED BY <1>3, <1>4, <3>1, <4>1
    <3>3. left[NumRequests] = left[chosen[m]]
      BY <1>7, <3>1, <3>2, Requests
    <3> QED BY <1>2, <1>3, <2>2, <3>3
  <2> QED BY <2>1, <2>2
<1>10. x \in [0 .. m -> Int] /\ f \in [1 .. m -> Int]
  <2>1. \A k \in 0 .. m : x[k] \in Int
    <3> SUFFICES ASSUME NEW k \in 0 .. m PROVE x[k] \in Int
      OBVIOUS
    <3>1. k # 0 => k \in 1 .. m
      BY <1>3
    <3>2. k # 0 => left[chosen[k]] \in Nat
      BY <1>2, <1>4, <3>1
    <3> QED BY <1>2, <3>2
  <2>2. \A k \in 1 .. m : f[k] \in Int
    <3> SUFFICES ASSUME NEW k \in 1 .. m PROVE f[k] \in Int
      OBVIOUS
    <3>1. k \in 0 .. m /\ k - 1 \in 0 .. m
      BY <1>3
    <3>2. x[k] \in Int /\ x[k - 1] \in Int /\ f[k] = x[k - 1] - x[k]
      BY <1>8, <2>1, <3>1
    <3> QED BY <3>2
  <2> QED BY <2>1, <2>2
<1>11. Len(w) = m
  BY <1>3
<1>12. \A k \in 1 .. m : /\ w[k].request = chosen[k] /\ w[k].request \in Request
                         /\ w[k].prefill = Chunk(w[k].request, left[w[k].request - 1])
  BY <1>2, <1>4 DEF PrefillItem
<1>13. SumTo(m, f) = b - left[NumRequests]
  <2> HIDE DEF f, x
  <2>1. SumTo(m, f) = x[0] - x[m]
    BY <1>3, <1>8, <1>10, SumTelescopes
  <2> QED BY <1>9, <2>1
<1>14. \A r \in Request : Chunk(r, left[r - 1]) # 0 => \E k \in 1 .. m : w[k].request = r
  BY <1>3, <1>6, <1>12
<1>15. SumTo(m, [k \in 1 .. m |-> w[k].prefill]) = b - left[NumRequests]
  BY <1>13
<1> HIDE DEF w, f, x
<1> QED BY <1>1, <1>11, <1>12, <1>14, <1>15 DEF left

\* How far a place is ahead of the rotation.
LEMMA RotatedTo ==
  ASSUME NEW m \in Nat \ {0}, NEW rot \in 0 .. m - 1, NEW at \in 0 .. m - 1
  PROVE  /\ (at + m - rot) % m = IF at < rot THEN at + m - rot ELSE at - rot
         /\ (at + m - rot) % m \in 0 .. m - 1
         /\ \A k \in 1 .. m : (rot + k - 1) % m = at <=> k = ((at + m - rot) % m) + 1
<1> DEFINE a == (at + m - rot) % m
<1>1. \A x \in Nat : x < m + m => x % m = IF x < m THEN x ELSE x - m
  BY WrapsOnce
<1>2. a = IF at < rot THEN at + m - rot ELSE at - rot
  <2>1. at + m - rot \in Nat /\ at + m - rot < m + m
    OBVIOUS
  <2>2. a = IF at + m - rot < m THEN at + m - rot ELSE at + m - rot - m
    BY <1>1, <2>1
  <2> QED BY <2>2
<1> HIDE DEF a
<1>3. a \in 0 .. m - 1
  BY <1>2
<1>4. ASSUME NEW k \in 1 .. m PROVE (rot + k - 1) % m = at <=> k = a + 1
  <2>1. rot + k - 1 \in Nat /\ rot + k - 1 < m + m
    OBVIOUS
  <2>2. (rot + k - 1) % m = IF rot + k - 1 < m THEN rot + k - 1 ELSE rot + k - 1 - m
    BY <1>1, <2>1
  <2> QED BY <1>2, <2>2
<1> QED BY <1>2, <1>3, <1>4 DEF a

\* How far a place is ahead of another in a rotation of m places, and where a
\* rotation is after c places.
PlacesTo(m, rot, at) == (at + m - rot) % m
Rotated(m, rot, c)   == (rot + c) % m

\* A rotation by c brings a place that is further ahead c places forward.
LEMMA RotatedBy ==
  ASSUME NEW m \in Nat \ {0}, NEW rot \in 0 .. m - 1, NEW at \in 0 .. m - 1, NEW c \in 0 .. m,
         c <= PlacesTo(m, rot, at)
  PROVE  /\ Rotated(m, rot, c) \in 0 .. m - 1
         /\ PlacesTo(m, Rotated(m, rot, c), at) = PlacesTo(m, rot, at) - c
<1> DEFINE next == (rot + c) % m
           y    == at + m - next
<1>1. \A x \in Nat : x < m + m => x % m = IF x < m THEN x ELSE x - m
  BY WrapsOnce
<1>2. (at + m - rot) % m = IF at < rot THEN at + m - rot ELSE at - rot
  BY RotatedTo
<1>3. next = IF rot + c < m THEN rot + c ELSE rot + c - m
  <2>1. rot + c \in Nat /\ rot + c < m + m
    OBVIOUS
  <2> QED BY <1>1, <2>1
<1> HIDE DEF next
<1>4. next \in 0 .. m - 1
  BY <1>3
<1>5. y % m = IF y < m THEN y ELSE y - m
  <2>1. y \in Nat /\ y < m + m
    BY <1>4
  <2> HIDE DEF y
  <2> QED BY <1>1, <2>1
<1>6. (IF y < m THEN y ELSE y - m) = ((at + m - rot) % m) - c
  BY <1>2, <1>3 DEF PlacesTo
<1> QED BY <1>4, <1>5, <1>6 DEF next, PlacesTo, Rotated

\* The place of a decoding request among the candidates.
LEMMA AheadIs ==
  ASSUME TypeOK, offset \in 0 .. NumRequests, NEW r \in Request, IsDecoding(r)
  PROVE  \E m \in Nat \ {0} : \E at \in 1 .. m :
           /\ m = Len(DecodeCandidates) /\ Rotation \in 0 .. m - 1
           /\ \A k \in 1 .. m : DecodeCandidates[k] = r <=> k = at
           /\ Ahead(r) = ((at - 1) + m - Rotation) % m
<1> DEFINE due   == {q \in Request : IsDecoding(q)}
           cands == DecodeCandidates
           m     == Len(cands)
<1>1. /\ cands \in Seq(due) /\ m \in Nat
      /\ \A i, j \in 1 .. m : i < j => cands[i] < cands[j]
      /\ \E k \in 1 .. m : cands[k] = r
  <2>1. due \in SUBSET Request /\ cands = Ascending(due) /\ r \in due
    BY DEF DecodeCandidates
  <2> HIDE DEF due
  <2> QED BY <2>1, AscendingIs, AscendingCovers, LenProperties
<1>2. DOMAIN cands = 1 .. m
  BY <1>1, LenProperties
<1>3. PICK at \in 1 .. m : cands[at] = r
  BY <1>1
<1> HIDE DEF cands
<1>4. ASSUME NEW k \in 1 .. m, cands[k] = r PROVE k = at
  <2>1. ~(k < at) /\ ~(at < k)
    BY <1>1, <1>3, <1>4, Requests
  <2> QED BY <1>1, <2>1
<1>5. m \in Nat \ {0}
  BY <1>1, <1>3
<1>6. Rotation \in 0 .. m - 1
  <2>1. offset \in Nat /\ Rotation = offset % m
    BY Requests DEF Rotation, cands
  <2> HIDE DEF m
  <2> QED BY <1>5, <2>1, RemainderIs
<1>7. at = CHOOSE k \in DOMAIN cands : cands[k] = r
  BY <1>2, <1>3, <1>4
<1>8. Ahead(r) = ((at - 1) + m - Rotation) % m
  BY <1>7 DEF Ahead, cands
<1>9. \A k \in 1 .. m : cands[k] = r <=> k = at
  BY <1>3, <1>4
<1> HIDE DEF m
<1> QED BY <1>3, <1>5, <1>6, <1>8, <1>9 DEF m, cands

\* The candidates that an iteration serves are the first ones of the rotation.
LEMMA DecodeTokensAre ==
  ASSUME TypeOK, NEW b \in Nat, offset \in 0 .. NumRequests
  PROVE  LET w == DecodeWork(b)
         IN  /\ Len(w) = DecodeCount(b)
             /\ DecodeCount(b) \in Nat /\ DecodeCount(b) <= Len(DecodeCandidates)
             /\ \A k \in 1 .. Len(w) : w[k].decode /\ w[k].prefill = 0
             /\ \A r \in Request : IsDecoding(r) =>
                  /\ Ahead(r) \in 0 .. Len(DecodeCandidates) - 1
                  /\ Ahead(r) < DecodeCount(b) => \E k \in 1 .. Len(w) : w[k].request = r
                  /\ \A k \in 1 .. Len(w) : w[k].request = r => Ahead(r) < DecodeCount(b)
<1> DEFINE c == DecodeCount(b)
           w == DecodeWork(b)
           M == Len(DecodeCandidates)
<1>1. c \in Nat /\ c <= M /\ M \in Nat
  <2>1. M \in Nat
    <3>1. DecodeCandidates \in Seq({r \in Request : IsDecoding(r)})
      BY AscendingIs DEF DecodeCandidates
    <3> QED BY <3>1, LenProperties
  <2> QED BY <2>1 DEF DecodeCount, Least
<1>2. w = [k \in 1 .. c |->
             DecodeItem(DecodeCandidates[((Rotation + k - 1) % M) + 1])]
  BY DEF DecodeWork
<1> HIDE DEF c, w
<1>3. Len(w) = c
  BY <1>1, <1>2
<1>4. \A k \in 1 .. c : /\ w[k].decode /\ w[k].prefill = 0
                        /\ w[k].request = DecodeCandidates[((Rotation + k - 1) % M) + 1]
  BY <1>2 DEF DecodeItem
<1>5. ASSUME NEW r \in Request, IsDecoding(r)
      PROVE  /\ Ahead(r) \in 0 .. M - 1
             /\ Ahead(r) < c => \E k \in 1 .. c : w[k].request = r
             /\ \A k \in 1 .. c : w[k].request = r => Ahead(r) < c
  <2>0. PICK m \in Nat \ {0} : \E at \in 1 .. m :
          /\ m = M /\ Rotation \in 0 .. m - 1
          /\ \A k \in 1 .. m : DecodeCandidates[k] = r <=> k = at
          /\ Ahead(r) = ((at - 1) + m - Rotation) % m
    BY <1>5, AheadIs
  <2>1. PICK at \in 1 .. m :
          /\ m = M /\ Rotation \in 0 .. m - 1
          /\ \A k \in 1 .. m : DecodeCandidates[k] = r <=> k = at
          /\ Ahead(r) = ((at - 1) + m - Rotation) % m
    BY <2>0
  <2> HIDE DEF M
  <2>2. at - 1 \in 0 .. m - 1 /\ c \in 0 .. m
    BY <1>1, <2>1
  <2>3. /\ Ahead(r) \in 0 .. m - 1
        /\ \A k \in 1 .. m : (Rotation + k - 1) % m = at - 1 <=> k = Ahead(r) + 1
    <3> DEFINE place == at - 1
               rot   == Rotation
               a     == Ahead(r)
    <3>1. place \in 0 .. m - 1 /\ rot \in 0 .. m - 1 /\ a = (place + m - rot) % m
      BY <2>1, <2>2
    <3> HIDE DEF place, rot, a
    <3>2. place \in 0 .. m - 1 /\ rot \in 0 .. m - 1
      BY <3>1
    <3>3. /\ (place + m - rot) % m \in 0 .. m - 1
          /\ \A k \in 1 .. m : (rot + k - 1) % m = place <=> k = ((place + m - rot) % m) + 1
      BY <3>2, RotatedTo
    <3>4. a \in 0 .. m - 1 /\ \A k \in 1 .. m : (rot + k - 1) % m = place <=> k = a + 1
      BY <3>1, <3>3
    <3> QED BY <3>4 DEF place, rot, a
  <2>4. ASSUME NEW k \in 1 .. c PROVE w[k].request = r <=> k = Ahead(r) + 1
    <3>1. k \in 1 .. m /\ Rotation + k - 1 \in Nat
      BY <1>1, <2>1, <2>2
    <3>2. (Rotation + k - 1) % m \in 0 .. m - 1
      BY <3>1, RemainderIs
    <3> DEFINE z == (Rotation + k - 1) % m
    <3>3. w[k].request = DecodeCandidates[z + 1] /\ (z = at - 1 <=> k = Ahead(r) + 1)
      BY <1>4, <2>1, <2>3, <3>1
    <3>4. z + 1 \in 1 .. m /\ z \in Int
      BY <3>2
    <3> HIDE DEF z
    <3>5. DecodeCandidates[z + 1] = r <=> z + 1 = at
      BY <2>1, <3>4
    <3>6. z + 1 = at <=> z = at - 1
      BY <3>4
    <3> QED BY <3>3, <3>5, <3>6
  <2>5. Ahead(r) < c => Ahead(r) + 1 \in 1 .. c
    BY <1>1, <2>3
  <2>6. \A k \in 1 .. c : k = Ahead(r) + 1 => Ahead(r) < c
    BY <1>1, <2>3
  <2> QED BY <2>1, <2>3, <2>4, <2>5, <2>6
<1> QED BY <1>1, <1>3, <1>4, <1>5 DEF c, w

\* The tokens of a list of items.
LEMMA TokensAre ==
  ASSUME NEW w \in Seq(Items)
  PROVE  /\ TokensScheduled(w) \in Int /\ PrefillIn(w) \in Int
         /\ (\A k \in 1 .. Len(w) : w[k].decode) => TokensScheduled(w) = Len(w)
         /\ (\A k \in 1 .. Len(w) : w[k].prefill = 0) => PrefillIn(w) = 0
         /\ (\A k \in 1 .. Len(w) : ~w[k].decode) => TokensScheduled(w) = PrefillIn(w)
<1> DEFINE n == Len(w)
           t == [k \in 1 .. n |-> Tokens(w[k])]
           f == [k \in 1 .. n |-> w[k].prefill]
<1>1. n \in Nat /\ \A k \in 1 .. n : w[k] \in Items
  BY LenProperties, ElementOfSeq
<1>2. \A k \in 1 .. n : w[k].prefill \in Int /\ Tokens(w[k]) \in Int
  BY <1>1 DEF Items, Tokens
<1>3. t \in [1 .. n -> Int] /\ f \in [1 .. n -> Int]
  BY <1>2
<1>4. TokensScheduled(w) = SumTo(n, t) /\ PrefillIn(w) = SumTo(n, f)
  BY DEF TokensScheduled, PrefillIn
<1>5. (\A k \in 1 .. n : w[k].decode) => t = [k \in 1 .. n |-> 1]
  BY DEF Tokens
<1>6. (\A k \in 1 .. n : w[k].prefill = 0) => f = [k \in 1 .. n |-> 0]
  OBVIOUS
<1>7. (\A k \in 1 .. n : ~w[k].decode) => t = f
  BY DEF Tokens
<1> HIDE DEF n, t, f
<1>8. SumTo(n, t) \in Int /\ SumTo(n, f) \in Int
  <2>1. /\ Sums(n, t) \in [0 .. n -> Int] /\ Sums(n, f) \in [0 .. n -> Int]
        /\ n \in 0 .. n
    BY <1>1, <1>3, SumsAre
  <2> QED BY <2>1 DEF SumTo
<1>9. t = [k \in 1 .. n |-> 1] => SumTo(n, t) = n
  BY <1>1, SumOfSame
<1>10. f = [k \in 1 .. n |-> 0] => SumTo(n, f) = 0
  BY <1>1, SumOfSame
<1> QED BY <1>4, <1>5, <1>6, <1>7, <1>8, <1>9, <1>10 DEF n

LEMMA JoinedTokens ==
  ASSUME NEW v \in Seq(Items), NEW w \in Seq(Items)
  PROVE  /\ TokensScheduled(v \o w) = TokensScheduled(v) + TokensScheduled(w)
         /\ PrefillIn(v \o w) = PrefillIn(v) + PrefillIn(w)
<1> DEFINE u == v \o w
           n == Len(v)
           m == Len(w)
<1>1. /\ n \in Nat /\ m \in Nat /\ Len(u) = n + m
      /\ \A k \in 1 .. n : u[k] = v[k] /\ v[k] \in Items
      /\ \A k \in 1 .. m : u[n + k] = w[k] /\ w[k] \in Items
      /\ \A k \in 1 .. n + m : u[k] \in Items
  <2>1. /\ u \in Seq(Items) /\ Len(u) = n + m /\ n \in Nat /\ m \in Nat
        /\ \A i \in 1 .. Len(u) : u[i] = IF i <= n THEN v[i] ELSE w[i - n]
    BY ConcatProperties, LenProperties
  <2>2. /\ \A k \in 1 .. n : v[k] \in Items
        /\ \A k \in 1 .. m : w[k] \in Items
        /\ \A k \in 1 .. Len(u) : u[k] \in Items
    BY <2>1, ElementOfSeq
  <2> HIDE DEF u, n, m
  <2> QED BY <2>1, <2>2
<1>2. \A i \in Items : i.prefill \in Int /\ Tokens(i) \in Int
  BY DEF Items, Tokens
<1> HIDE DEF u, n, m
<1>3. SumTo(n + m, [k \in 1 .. n + m |-> Tokens(u[k])])
        = SumTo(n, [k \in 1 .. n |-> Tokens(v[k])]) + SumTo(m, [k \in 1 .. m |-> Tokens(w[k])])
  <2> DEFINE h == [k \in 1 .. n + m |-> Tokens(u[k])]
             f == [k \in 1 .. n |-> Tokens(v[k])]
             g == [k \in 1 .. m |-> Tokens(w[k])]
  <2>1. /\ h \in [1 .. n + m -> Int] /\ f \in [1 .. n -> Int] /\ g \in [1 .. m -> Int]
        /\ \A k \in 1 .. n : h[k] = f[k]
        /\ \A k \in 1 .. m : h[n + k] = g[k]
    BY <1>1, <1>2
  <2> HIDE DEF f, g, h
  <2>2. SumTo(n + m, h) = SumTo(n, f) + SumTo(m, g)
    BY <1>1, <2>1, SumSplits
  <2> QED BY <2>2 DEF f, g, h
<1>4. SumTo(n + m, [k \in 1 .. n + m |-> u[k].prefill])
        = SumTo(n, [k \in 1 .. n |-> v[k].prefill]) + SumTo(m, [k \in 1 .. m |-> w[k].prefill])
  <2> DEFINE h == [k \in 1 .. n + m |-> u[k].prefill]
             f == [k \in 1 .. n |-> v[k].prefill]
             g == [k \in 1 .. m |-> w[k].prefill]
  <2>1. /\ \A k \in 1 .. n + m : u[k].prefill \in Int
        /\ \A k \in 1 .. n : v[k].prefill \in Int /\ k \in 1 .. n + m /\ u[k] = v[k]
        /\ \A k \in 1 .. m : w[k].prefill \in Int /\ n + k \in 1 .. n + m /\ u[n + k] = w[k]
    BY <1>1, <1>2
  <2>2. h \in [1 .. n + m -> Int] /\ f \in [1 .. n -> Int] /\ g \in [1 .. m -> Int]
    BY <2>1
  <2>3. (\A k \in 1 .. n : h[k] = f[k]) /\ \A k \in 1 .. m : h[n + k] = g[k]
    BY <2>1
  <2> HIDE DEF f, g, h
  <2>4. SumTo(n + m, h) = SumTo(n, f) + SumTo(m, g)
    BY <1>1, <2>2, <2>3, SumSplits
  <2> QED BY <2>4 DEF f, g, h
<1> QED BY <1>1, <1>3, <1>4 DEF TokensScheduled, PrefillIn, n, m, u

\* What a list that names no request twice gives to a request.
LEMMA TokensOfIs ==
  ASSUME NEW w \in Seq(Items), NEW r \in Request,
         \A k, l \in 1 .. Len(w) : w[k].request = w[l].request => k = l
  PROVE  /\ \A k \in 1 .. Len(w) : w[k].request = r => TokensOf(r, w) = Tokens(w[k])
         /\ (\A k \in 1 .. Len(w) : w[k].request # r) => TokensOf(r, w) = 0
<1> DEFINE n == Len(w)
           f == [k \in 1 .. n |-> IF w[k].request = r THEN Tokens(w[k]) ELSE 0]
<1>1. n \in Nat /\ \A k \in 1 .. n : w[k] \in Items
  BY LenProperties, ElementOfSeq
<1>2. \A k \in 1 .. n : Tokens(w[k]) \in Int
  BY <1>1 DEF Items, Tokens
<1>3. TokensOf(r, w) = SumTo(n, f) /\ f \in [1 .. n -> Int]
  BY <1>2 DEF TokensOf
<1>4. ASSUME NEW k \in 1 .. n, w[k].request = r PROVE SumTo(n, f) = Tokens(w[k])
  <2>1. f[k] = Tokens(w[k]) /\ \A l \in 1 .. n : l # k => f[l] = 0
    BY <1>4
  <2> HIDE DEF f, n
  <2> QED BY <1>1, <1>3, <2>1, SumOfOne
<1>5. ASSUME \A k \in 1 .. n : w[k].request # r PROVE SumTo(n, f) = 0
  <2>1. f = [k \in 1 .. n |-> 0]
    BY <1>5
  <2> HIDE DEF f, n
  <2> QED BY <1>1, <2>1, SumOfSame
<1> QED BY <1>3, <1>4, <1>5

\* The budgets of the two classes, and the tokens that are scheduled from them.
LEMMA BudgetsAre ==
  ASSUME TypeOK, offset \in 0 .. NumRequests
  PROVE  /\ TokenBudget \in Nat \ {0} /\ DecodeBudget \in Nat /\ PrefillBudget \in Nat
         /\ DecodeCount(DecodeBudget) \in Nat /\ Len(DecodeCandidates) \in Nat
         /\ DecodeCount(DecodeBudget) = Least(DecodeBudget, Len(DecodeCandidates))
         /\ LeftAfter(PrefillBudget)[NumRequests] \in Nat
         /\ LeftAfter(PrefillBudget)[NumRequests] <= PrefillBudget
         /\ PrefillTokens = PrefillBudget - LeftAfter(PrefillBudget)[NumRequests]
         /\ IF DecodeFirst
            THEN DecodeBudget = TokenBudget
                 /\ PrefillBudget = TokenBudget - DecodeCount(DecodeBudget)
            ELSE PrefillBudget = TokenBudget
                 /\ DecodeBudget = LeftAfter(PrefillBudget)[NumRequests]
<1>1. TokenBudget \in Nat \ {0}
  BY ServiceAssumption
<1>2. DecodeCount(TokenBudget) \in Nat /\ DecodeCount(TokenBudget) <= TokenBudget
  BY <1>1, DecodeWorkIs
<1>3. /\ LeftAfter(TokenBudget)[NumRequests] \in Nat
      /\ LeftAfter(TokenBudget)[NumRequests] <= TokenBudget
  BY <1>1, PrefillWorkIs
<1>4. DecodeBudget \in Nat /\ PrefillBudget \in Nat
  BY <1>1, <1>2, <1>3, ServiceAssumption DEF DecodeBudget, PrefillBudget
<1>5. /\ LeftAfter(PrefillBudget)[NumRequests] \in Nat
      /\ LeftAfter(PrefillBudget)[NumRequests] <= PrefillBudget
  BY <1>4, PrefillWorkIs
<1>6. DecodeCount(DecodeBudget) \in Nat
  BY <1>4, DecodeWorkIs
<1>7. Len(DecodeCandidates) \in Nat
  <2>1. DecodeCandidates \in Seq({r \in Request : IsDecoding(r)})
    BY AscendingIs DEF DecodeCandidates
  <2> QED BY <2>1, LenProperties
<1>8. DecodeCount(DecodeBudget) = Least(DecodeBudget, Len(DecodeCandidates))
  BY DEF DecodeCount
<1>9. PrefillTokens = PrefillBudget - LeftAfter(PrefillBudget)[NumRequests]
  BY DEF PrefillTokens
<1>10. CASE DecodeFirst
  <2>1. DecodeBudget = TokenBudget /\ PrefillBudget = TokenBudget - DecodeCount(DecodeBudget)
    BY <1>10 DEF DecodeBudget, PrefillBudget
  <2> QED BY <1>1, <1>4, <1>5, <1>6, <1>7, <1>8, <1>9, <1>10, <2>1
<1>11. CASE ~DecodeFirst
  <2>1. PrefillBudget = TokenBudget /\ DecodeBudget = LeftAfter(PrefillBudget)[NumRequests]
    BY <1>11 DEF DecodeBudget, PrefillBudget
  <2> QED BY <1>1, <1>4, <1>5, <1>6, <1>7, <1>8, <1>9, <1>11, <2>1
<1> QED BY <1>10, <1>11

\* The elements of two sequences in a row are those of the two.
ElementsOf(u, v, w) ==
  /\ \A k \in 1 .. Len(u) : \/ \E i \in 1 .. Len(v) : u[k] = v[i]
                            \/ \E i \in 1 .. Len(w) : u[k] = w[i]
  /\ \A i \in 1 .. Len(v) : \E k \in 1 .. Len(u) : u[k] = v[i]
  /\ \A i \in 1 .. Len(w) : \E k \in 1 .. Len(u) : u[k] = w[i]

LEMMA RowElements ==
  ASSUME NEW u, NEW v \in Seq(Items), NEW w \in Seq(Items), u = v \o w
  PROVE  ElementsOf(u, v, w)
<1> DEFINE n == Len(v)
           m == Len(w)
<1>1. /\ Len(v \o w) = n + m /\ n \in Nat /\ m \in Nat
      /\ \A i \in 1 .. Len(v \o w) : (v \o w)[i] = IF i <= n THEN v[i] ELSE w[i - n]
  BY ConcatProperties, LenProperties
<1>2. Len(u) = n + m
  BY <1>1
<1>3. \A i \in 1 .. n + m : u[i] = IF i <= n THEN v[i] ELSE w[i - n]
  BY <1>1
<1> HIDE DEF n, m
<1>4. \A i \in 1 .. n : i \in 1 .. n + m /\ u[i] = v[i]
  <2> TAKE i \in 1 .. n
  <2>1. i \in 1 .. n + m /\ i <= n
    BY <1>1
  <2> QED BY <1>3, <2>1
<1>5. \A i \in 1 .. m : n + i \in 1 .. n + m /\ u[n + i] = w[i]
  <2> TAKE i \in 1 .. m
  <2>1. n + i \in 1 .. n + m /\ ~(n + i <= n) /\ (n + i) - n = i
    BY <1>1
  <2> QED BY <1>3, <2>1
<1>6. ASSUME NEW k \in 1 .. Len(u)
      PROVE  (\E i \in 1 .. n : u[k] = v[i]) \/ \E i \in 1 .. m : u[k] = w[i]
  <2>1. k \in 1 .. n \/ (k - n \in 1 .. m /\ n + (k - n) = k)
    BY <1>1, <1>2
  <2>2. CASE k \in 1 .. n
    BY <1>4, <2>2
  <2>3. CASE k - n \in 1 .. m /\ n + (k - n) = k
    <3>1. u[n + (k - n)] = w[k - n]
      BY <1>5, <2>3
    <3> QED BY <2>3, <3>1
  <2> QED BY <2>1, <2>2, <2>3
<1>7. \A i \in 1 .. n : \E k \in 1 .. Len(u) : u[k] = v[i]
  BY <1>2, <1>4
<1>8. \A i \in 1 .. m : \E k \in 1 .. Len(u) : u[k] = w[i]
  BY <1>2, <1>5
<1> QED BY <1>6, <1>7, <1>8 DEF n, m, ElementsOf

\* The items of an iteration are those of the two classes.
LEMMA ElementsOfWork ==
  ASSUME NEW d \in Seq(Items), NEW p \in Seq(Items),
         ScheduledWork = IF DecodeFirst THEN d \o p ELSE p \o d
  PROVE  ElementsOf(ScheduledWork, d, p)
<1>1. CASE ScheduledWork = d \o p
  BY <1>1, RowElements
<1>2. CASE ScheduledWork = p \o d
  <2>1. ElementsOf(ScheduledWork, p, d)
    BY <1>2, RowElements
  <2> QED BY <2>1 DEF ElementsOf
<1> QED BY <1>1, <1>2

\* What an iteration gives to each request, and in all.
LEMMA ServedIs ==
  ASSUME TypeOK, offset \in 0 .. NumRequests
  PROVE  /\ TokensScheduled(ScheduledWork) = DecodeCount(DecodeBudget) + PrefillTokens
         /\ PrefillIn(ScheduledWork) = PrefillTokens
         /\ \A r \in Request :
              TokensOf(r, ScheduledWork) =
                IF IsPrefilling(r) THEN Chunk(r, LeftAfter(PrefillBudget)[r - 1])
                ELSE IF IsDecoding(r) /\ Ahead(r) < DecodeCount(DecodeBudget) THEN 1
                ELSE 0
<1> DEFINE d == DecodeWork(DecodeBudget)
           p == PrefillWork(PrefillBudget)
           w == ScheduledWork
<1>1. DecodeBudget \in Nat /\ PrefillBudget \in Nat /\ DecodeCount(DecodeBudget) \in Nat
  BY BudgetsAre
<1>2. /\ d \in Seq(Items) /\ Len(d) = DecodeCount(DecodeBudget)
      /\ \A k \in 1 .. Len(d) : d[k].decode /\ d[k].prefill = 0
      /\ \A r \in Request : IsDecoding(r) =>
           /\ Ahead(r) < DecodeCount(DecodeBudget) => \E k \in 1 .. Len(d) : d[k].request = r
           /\ \A k \in 1 .. Len(d) : d[k].request = r => Ahead(r) < DecodeCount(DecodeBudget)
  <2>1. d \in Seq(Items)
    BY <1>1, DecodeWorkIs
  <2>2. PICK b \in Nat : b = DecodeBudget
    BY <1>1
  <2>3. /\ Len(DecodeWork(b)) = DecodeCount(b)
        /\ \A k \in 1 .. Len(DecodeWork(b)) :
             DecodeWork(b)[k].decode /\ DecodeWork(b)[k].prefill = 0
        /\ \A r \in Request : IsDecoding(r) =>
             /\ Ahead(r) < DecodeCount(b) =>
                  \E k \in 1 .. Len(DecodeWork(b)) : DecodeWork(b)[k].request = r
             /\ \A k \in 1 .. Len(DecodeWork(b)) :
                  DecodeWork(b)[k].request = r => Ahead(r) < DecodeCount(b)
    BY DecodeTokensAre
  <2> QED BY <2>1, <2>2, <2>3
<1>3. /\ p \in Seq(Items) /\ \A k \in 1 .. Len(p) : ~p[k].decode
      /\ \A k \in 1 .. Len(p) :
           p[k].prefill = Chunk(p[k].request, LeftAfter(PrefillBudget)[p[k].request - 1])
      /\ \A r \in Request : Chunk(r, LeftAfter(PrefillBudget)[r - 1]) # 0 =>
           \E k \in 1 .. Len(p) : p[k].request = r
      /\ PrefillIn(p) = PrefillTokens
  <2>1. p \in Seq(Items) /\ \A k \in 1 .. Len(p) : ~p[k].decode
    BY <1>1, PrefillWorkIs
  <2> QED BY <1>1, <2>1, PrefillTokensAre DEF PrefillIn, PrefillTokens
<1>4. w = IF DecodeFirst THEN d \o p ELSE p \o d
  BY DEF ScheduledWork
<1>5. /\ w \in Seq(Items) /\ Len(w) \in Nat
      /\ \A k \in 1 .. Len(w) : ItemIsValid(w[k]) /\ w[k] \in Items
      /\ \A k, l \in 1 .. Len(w) : w[k].request = w[l].request => k = l
  BY ScheduleIs, LenProperties, ElementOfSeq
<1> HIDE DEF d, p
<1>6. /\ \A k \in 1 .. Len(w) : \/ \E i \in 1 .. Len(d) : w[k] = d[i]
                                \/ \E i \in 1 .. Len(p) : w[k] = p[i]
      /\ \A i \in 1 .. Len(d) : \E k \in 1 .. Len(w) : w[k] = d[i]
      /\ \A i \in 1 .. Len(p) : \E k \in 1 .. Len(w) : w[k] = p[i]
  <2>1. d \in Seq(Items) /\ p \in Seq(Items)
    BY <1>2, <1>3
  <2> QED BY <1>4, <2>1, ElementsOfWork DEF ElementsOf
<1>7. TokensScheduled(d) = DecodeCount(DecodeBudget) /\ PrefillIn(d) = 0
      /\ TokensScheduled(p) = PrefillTokens /\ PrefillTokens \in Int
  BY <1>2, <1>3, TokensAre
<1>8. /\ TokensScheduled(w) = DecodeCount(DecodeBudget) + PrefillTokens
      /\ PrefillIn(w) = PrefillTokens
  <2>1. CASE DecodeFirst
    <3>1. TokensScheduled(w) = TokensScheduled(d) + TokensScheduled(p)
          /\ PrefillIn(w) = PrefillIn(d) + PrefillIn(p)
      BY <1>2, <1>3, <1>4, <2>1, JoinedTokens
    <3> QED BY <1>3, <1>7, <3>1
  <2>2. CASE ~DecodeFirst
    <3>1. TokensScheduled(w) = TokensScheduled(p) + TokensScheduled(d)
          /\ PrefillIn(w) = PrefillIn(p) + PrefillIn(d)
      BY <1>2, <1>3, <1>4, <2>2, JoinedTokens
    <3> QED BY <1>1, <1>3, <1>7, <3>1
  <2> QED BY <2>1, <2>2
<1> HIDE DEF w
<1>9. ASSUME NEW r \in Request
      PROVE  TokensOf(r, w) =
               IF IsPrefilling(r) THEN Chunk(r, LeftAfter(PrefillBudget)[r - 1])
               ELSE IF IsDecoding(r) /\ Ahead(r) < DecodeCount(DecodeBudget) THEN 1
               ELSE 0
  <2>1. ~(IsDecoding(r) /\ IsPrefilling(r))
    BY BlockCounts DEF IsDecoding, IsPrefilling
  <2>2. CASE \E k \in 1 .. Len(w) : w[k].request = r
    <3>1. PICK k \in 1 .. Len(w) : w[k].request = r
      BY <2>2
    <3>2. TokensOf(r, w) = Tokens(w[k])
      BY <1>5, <3>1, TokensOfIs
    <3>3. CASE w[k].decode
      <4>1. IsDecoding(r)
        BY <1>5, <3>1, <3>3 DEF ItemIsValid
      <4>2. PICK i \in 1 .. Len(d) : w[k] = d[i]
        BY <1>3, <1>6, <3>3
      <4>3. Ahead(r) < DecodeCount(DecodeBudget)
        BY <1>2, <3>1, <4>1, <4>2
      <4> QED BY <2>1, <3>2, <3>3, <4>1, <4>3 DEF Tokens
    <3>4. CASE ~w[k].decode
      <4>1. IsPrefilling(r)
        BY <1>5, <3>1, <3>4 DEF ItemIsValid
      <4>2. PICK i \in 1 .. Len(p) : w[k] = p[i]
        BY <1>2, <1>6, <3>4
      <4>3. w[k].prefill = Chunk(r, LeftAfter(PrefillBudget)[r - 1])
        BY <1>3, <3>1, <4>2
      <4> QED BY <3>2, <3>4, <4>1, <4>3 DEF Tokens
    <3> QED BY <3>3, <3>4
  <2>3. CASE \A k \in 1 .. Len(w) : w[k].request # r
    <3>1. TokensOf(r, w) = 0
      BY <1>5, <2>3, TokensOfIs
    <3>2. ASSUME Chunk(r, LeftAfter(PrefillBudget)[r - 1]) # 0 PROVE FALSE
      <4>1. PICK i \in 1 .. Len(p) : p[i].request = r
        BY <1>3, <3>2
      <4>2. PICK k \in 1 .. Len(w) : w[k] = p[i]
        BY <1>6
      <4> QED BY <2>3, <4>1, <4>2
    <3>3. IsDecoding(r) => ~(Ahead(r) < DecodeCount(DecodeBudget))
      BY <1>2, <1>6, <2>3
    <3> QED BY <3>1, <3>2, <3>3
  <2> QED BY <2>2, <2>3
<1> QED BY <1>8, <1>9 DEF w

\* A request that prefills gets all that an iteration may give it when budget is
\* left after it, and a request that decodes when the rotation reaches everybody.
LEMMA SharesAre ==
  ASSUME TypeOK, offset \in 0 .. NumRequests, NEW r \in Request
  PROVE  /\ TokensOf(r, ScheduledWork) \in Nat /\ FullShare(r) \in Nat
         /\ TokensOf(r, ScheduledWork) <= FullShare(r)
         /\ ~IsDecoding(r) =>
              /\ LeftAfter(PrefillBudget)[NumRequests] > 0 =>
                   TokensOf(r, ScheduledWork) = FullShare(r)
              /\ PrefillBudget = 0 => TokensOf(r, ScheduledWork) = 0
         /\ IsDecoding(r) =>
              /\ FullShare(r) = 1 /\ ~IsPrefilling(r)
              /\ DecodeCount(DecodeBudget) = Len(DecodeCandidates) =>
                   TokensOf(r, ScheduledWork) = 1
              /\ DecodeCount(DecodeBudget) = 0 => TokensOf(r, ScheduledWork) = 0
<1> DEFINE b    == PrefillBudget
           left == LeftAfter(b)
           t    == TokensOf(r, ScheduledWork)
           c    == DecodeCount(DecodeBudget)
<1>1. b \in Nat /\ DecodeBudget \in Nat /\ c \in Nat /\ ChunkTokens \in Nat \ {0}
  BY BudgetsAre, ServiceAssumption
<1>2. t = IF IsPrefilling(r) THEN Chunk(r, left[r - 1])
          ELSE IF IsDecoding(r) /\ Ahead(r) < c THEN 1 ELSE 0
  BY ServedIs
<1>3. /\ Len(prompt[r]) \in Nat /\ stored[r] \in Nat
      /\ ~(IsDecoding(r) /\ IsPrefilling(r))
      /\ IsPrefilling(r) => stored[r] < Len(prompt[r])
  BY BlockCounts DEF IsDecoding, IsPrefilling
<1>4. IsDecoding(r) => Ahead(r) \in 0 .. Len(DecodeCandidates) - 1
  BY <1>1, DecodeTokensAre
<1> HIDE DEF t, c
<1>5. CASE IsPrefilling(r)
  <2>1. /\ r \in 0 .. NumRequests /\ r - 1 \in 0 .. NumRequests /\ r <= NumRequests
        /\ 0 \in 0 .. NumRequests /\ NumRequests \in 0 .. NumRequests /\ 0 <= r - 1
    BY Requests
  <2>2. /\ left[r - 1] \in Nat /\ left[r] \in Nat /\ left[NumRequests] \in Nat
        /\ left[NumRequests] <= left[r] /\ left[r - 1] <= left[0] /\ left[0] = b
        /\ left[r - 1] - left[r] = Chunk(r, left[r - 1])
    <3>1. left[NumRequests] <= left[r] /\ left[NumRequests] \in Nat
      BY <1>1, <2>1, LeftFalls
    <3>2. left[r - 1] <= left[0]
      BY <1>1, <2>1, LeftFalls
    <3> HIDE DEF b
    <3> QED BY <1>1, <3>1, <3>2, BudgetIsKept
  <2> HIDE DEF left, b
  <2>3. t = Least(Least(Len(prompt[r]) - stored[r], ChunkTokens), left[r - 1])
    BY <1>2, <1>5 DEF Chunk
  <2>4. FullShare(r) = Least(ChunkTokens, Len(prompt[r]) - stored[r])
    BY <1>3, <1>5 DEF FullShare
  <2>5. t = left[r - 1] - left[r]
    BY <1>2, <1>5, <2>2
  <2>6. t \in Nat /\ FullShare(r) \in Nat /\ t <= FullShare(r)
    BY <1>1, <1>3, <1>5, <2>2, <2>3, <2>4, SMTT(30) DEF Least
  <2>7. left[NumRequests] > 0 => t = FullShare(r)
    BY <1>1, <1>3, <1>5, <2>2, <2>3, <2>4, <2>5, SMTT(30) DEF Least
  <2>8. b = 0 => t = 0
    BY <1>1, <2>2, <2>5, <2>6
  <2> QED BY <1>3, <1>5, <2>6, <2>7, <2>8 DEF t, left, b
<1>6. CASE IsDecoding(r)
  <2>1. FullShare(r) = 1 /\ t = IF Ahead(r) < c THEN 1 ELSE 0
    BY <1>2, <1>3, <1>6 DEF FullShare
  <2>2. Ahead(r) \in Nat /\ Ahead(r) < Len(DecodeCandidates)
    <3>1. Len(DecodeCandidates) \in Nat
      BY BudgetsAre
    <3> QED BY <1>4, <1>6, <3>1
  <2> HIDE DEF left, b
  <2> QED BY <1>3, <1>6, <2>1, <2>2 DEF t, c
<1>7. CASE ~IsPrefilling(r) /\ ~IsDecoding(r)
  <2>1. FullShare(r) = 0 /\ t = 0
    BY <1>2, <1>7 DEF FullShare
  <2> HIDE DEF left, b
  <2> QED BY <1>7, <2>1 DEF t
<1> QED BY <1>5, <1>6, <1>7
-----------------------------------------------------------------------------
(* What a step of the scheduler does *)

LEMMA OnlySchedule ==
  ASSUME SimNext, pc = "schedule"
  PROVE  Schedule
BY DEF SimNext, Arrive, RejectImpossible, AdmitFirst, HoldTheLine, AdmissionDone, MayAdmit,
       CompletePrefill, CompleteDecode, RejectGrowth, FinishItem, EndIteration, Done

\* What an iteration is given, and to whom.
LEMMA BudgetIsUsed ==
  ASSUME TypeOK, offset \in 0 .. NumRequests
  PROVE  LET total == TokensScheduled(ScheduledWork)
             Served(r) == TokensOf(r, ScheduledWork)
         IN  /\ total <= TokenBudget
             /\ \A r \in Request : Served(r) <= FullShare(r)
             /\ total < TokenBudget => \A r \in Request : Served(r) = FullShare(r)
             /\ \A q, r \in ActiveRequests :
                  (IsDecoding(q) /\ IsPrefilling(r)) =>
                    IF DecodeFirst THEN Served(r) > 0 => Served(q) = 1
                    ELSE Served(q) > 0 => Served(r) = FullShare(r)
<1> DEFINE total     == TokensScheduled(ScheduledWork)
           Served(r) == TokensOf(r, ScheduledWork)
           c         == DecodeCount(DecodeBudget)
           n         == Len(DecodeCandidates)
           left      == LeftAfter(PrefillBudget)[NumRequests]
           B         == TokenBudget
           D         == DecodeBudget
           P         == PrefillBudget
<1>1. total = c + (P - left)
  BY ServedIs, BudgetsAre
<1>2. /\ B \in Nat \ {0} /\ D \in Nat /\ P \in Nat /\ c \in Nat /\ n \in Nat /\ left \in Nat
      /\ c = IF D <= n THEN D ELSE n
      /\ left <= P
      /\ IF DecodeFirst THEN D = B /\ P = B - c ELSE P = B /\ D = left
  BY BudgetsAre DEF Least
<1>3. \A r \in Request :
        /\ Served(r) \in Nat /\ FullShare(r) \in Nat /\ Served(r) <= FullShare(r)
        /\ ~IsDecoding(r) =>
             /\ left > 0 => Served(r) = FullShare(r)
             /\ P = 0 => Served(r) = 0
        /\ IsDecoding(r) =>
             /\ FullShare(r) = 1 /\ ~IsPrefilling(r)
             /\ c = n => Served(r) = 1
             /\ c = 0 => Served(r) = 0
  BY SharesAre
<1> HIDE DEF total, Served, c, n, left, B, D, P
<1>4. total <= B
  BY <1>1, <1>2
<1>5. total < B => left > 0 /\ c = n
  <2>1. CASE DecodeFirst
    BY <1>1, <1>2, <2>1
  <2>2. CASE ~DecodeFirst
    BY <1>1, <1>2, <2>2
  <2> QED BY <2>1, <2>2
<1>6. total < B => \A r \in Request : Served(r) = FullShare(r)
  BY <1>3, <1>5
<1>7. ASSUME NEW q \in ActiveRequests, NEW r \in ActiveRequests, IsDecoding(q), IsPrefilling(r)
      PROVE  IF DecodeFirst THEN Served(r) > 0 => Served(q) = 1
             ELSE Served(q) > 0 => Served(r) = FullShare(r)
  <2>1. q \in Request /\ r \in Request /\ ~IsDecoding(r)
    BY <1>3, <1>7 DEF ActiveRequests
  <2>2. CASE DecodeFirst
    <3>1. c = n \/ P = 0
      BY <1>2, <2>2
    <3> QED BY <1>3, <1>7, <2>1, <2>2, <3>1
  <2>3. CASE ~DecodeFirst
    <3>1. left > 0 \/ c = 0
      BY <1>2, <2>3
    <3> QED BY <1>3, <1>7, <2>1, <2>3, <3>1
  <2> QED BY <2>2, <2>3
<1> QED BY <1>3, <1>4, <1>6, <1>7 DEF total, Served, B

\* Whom an iteration passes over moves forward.
LEMMA RotationMoves ==
  ASSUME TypeOK, offset \in 0 .. NumRequests, UNCHANGED vars,
         offset' = OffsetAfter(DecodeBudget),
         NEW r \in Request, IsDecoding(r), TokensOf(r, ScheduledWork) = 0
  PROVE  Ahead(r)' = Ahead(r) - (TokensScheduled(ScheduledWork) - PrefillTokens)
<1> DEFINE D == DecodeCandidates
           c == DecodeCount(DecodeBudget)
<1>1. DecodeCandidates' = D
  BY DEF DecodeCandidates, IsDecoding, vars, requestVars
<1>2. PICK m \in Nat \ {0} : \E k \in 1 .. m :
        /\ m = Len(D) /\ Rotation \in 0 .. m - 1
        /\ \A i \in 1 .. m : D[i] = r <=> i = k
        /\ Ahead(r) = ((k - 1) + m - Rotation) % m
  BY AheadIs
<1>3. PICK k \in 1 .. m :
        /\ m = Len(D) /\ Rotation \in 0 .. m - 1
        /\ \A i \in 1 .. m : D[i] = r <=> i = k
        /\ Ahead(r) = ((k - 1) + m - Rotation) % m
  BY <1>2
<1>4. DOMAIN D = 1 .. m
  <2>1. D \in Seq({q \in Request : IsDecoding(q)})
    BY AscendingIs DEF DecodeCandidates
  <2> QED BY <1>3, <2>1, LenProperties
<1>5. (CHOOSE i \in DOMAIN D : D[i] = r) = k
  BY <1>3, <1>4
<1>6. D # <<>>
  BY <1>3
<1>7. c \in Nat /\ c <= m /\ ~(Ahead(r) < c)
  <2>1. ~IsPrefilling(r)
    BY SharesAre
  <2> QED BY <1>3, <2>1, BudgetsAre, ServedIs DEF Least
<1>8. TokensScheduled(ScheduledWork) = c + PrefillTokens /\ PrefillTokens \in Int
  BY ServedIs, BudgetsAre
<1>9. offset' = ((Rotation + c) % m)
  BY <1>3, <1>6 DEF OffsetAfter
<1> HIDE DEF D, c
<1>10. Ahead(r)' = (k - 1 + m - ((offset') % m)) % m
  <2>1. Ahead(r)' = LET at == CHOOSE i \in DOMAIN DecodeCandidates' : DecodeCandidates'[i] = r
                    IN  (at - 1 + Len(DecodeCandidates') - ((offset') % Len(DecodeCandidates')))
                          % Len(DecodeCandidates')
    BY DEF Ahead, Rotation
  <2> QED BY <1>1, <1>3, <1>5, <2>1
<1>11. k - 1 \in 0 .. m - 1 /\ c \in 0 .. m /\ c <= (k - 1 + m - Rotation) % m
  <2> DEFINE a == (k - 1 + m - Rotation) % m
  <2>1. Ahead(r) = a /\ a \in 0 .. m - 1
    BY <1>3, RotatedTo
  <2> HIDE DEF a
  <2>2. c <= a
    BY <1>7, <2>1
  <2> QED BY <1>7, <2>2 DEF a
<1>12. /\ (Rotation + c) % m \in 0 .. m - 1
       /\ (k - 1 + m - ((Rotation + c) % m)) % m = ((k - 1 + m - Rotation) % m) - c
  <2> DEFINE at  == k - 1
             rot == Rotation
  <2>1. /\ rot \in 0 .. m - 1 /\ at \in 0 .. m - 1 /\ c \in 0 .. m
        /\ c <= (at + m - rot) % m
    BY <1>3, <1>11
  <2> HIDE DEF at, rot
  <2>2. /\ (rot + c) % m \in 0 .. m - 1
        /\ (at + m - ((rot + c) % m)) % m = ((at + m - rot) % m) - c
    <3>1. c <= PlacesTo(m, rot, at)
      BY <2>1 DEF PlacesTo
    <3>2. /\ Rotated(m, rot, c) \in 0 .. m - 1
          /\ PlacesTo(m, Rotated(m, rot, c), at) = PlacesTo(m, rot, at) - c
      BY <2>1, <3>1, RotatedBy
    <3> QED BY <3>2 DEF PlacesTo, Rotated
  <2> QED BY <2>2 DEF at, rot
<1>13. ((Rotation + c) % m) % m = (Rotation + c) % m
  <2> DEFINE next == (Rotation + c) % m
  <2>1. next \in 0 .. m - 1
    BY <1>12
  <2> HIDE DEF next
  <2>2. next % m = next
    BY <2>1
  <2> QED BY <2>2 DEF next
<1>14. Ahead(r)' = Ahead(r) - c
  BY <1>3, <1>9, <1>10, <1>12, <1>13
<1>15. c = TokensScheduled(ScheduledWork) - PrefillTokens
  BY <1>7, <1>8
<1> QED BY <1>14, <1>15

-----------------------------------------------------------------------------
(* Prompt tokens are computed once *)

\* The first item of a list and the others.
LEMMA TailTokens ==
  ASSUME NEW w \in Seq(Items), w # <<>>
  PROVE  PrefillIn(w) = Head(w).prefill + PrefillIn(Tail(w))
<1>1. PICK h \in Items : h = Head(w)
  BY HeadTailProperties
<1>2. PICK t \in Seq(Items) : t = Tail(w)
  BY HeadTailProperties
<1>3. <<h>> \in Seq(Items) /\ Len(<<h>>) = 1 /\ <<h>>[1] = h /\ h.prefill \in Nat
  BY DEF Items
<1>4. w = <<h>> \o t
  BY <1>1, <1>2, HeadTailProperties
<1>5. PrefillIn(<<h>>) = h.prefill
  <2> DEFINE f == [k \in 1 .. 1 |-> (<<h>>)[k].prefill]
  <2>1. f \in [1 .. 1 -> Int] /\ f[1] = h.prefill /\ 1 \in 1 .. 1 /\ 1 \in Nat
    BY <1>3
  <2>2. PrefillIn(<<h>>) = SumTo(1, f)
    BY <1>3 DEF PrefillIn
  <2> HIDE DEF f
  <2>3. \A k \in 1 .. 1 : k # 1 => f[k] = 0
    OBVIOUS
  <2> QED BY <2>1, <2>2, <2>3, SumOfOne
<1>6. PrefillIn(<<h>> \o t) = PrefillIn(<<h>>) + PrefillIn(t)
  BY <1>3, JoinedTokens
<1> QED BY <1>1, <1>2, <1>4, <1>5, <1>6

LEMMA NothingAsked == PrefillIn(<<>>) = 0
<1>1. <<>> \in Seq(Items) /\ \A k \in 1 .. Len(<<>>) : <<>>[k].prefill = 0
  OBVIOUS
<1> QED BY <1>1, TokensAre

\* What the requests have prefetched.
AllPrefetched == [r \in Request |-> Prefetched(r)]

Computed ==
  SumTo(NumRequests, AllPrefetched) + PrefillIn(work) = processed + SumTo(NumRequests, hitTokens)

LEMMA PrefetchedTypes ==
  ASSUME TypeOK
  PROVE  /\ AllPrefetched \in [1 .. NumRequests -> Int]
         /\ hitTokens \in [1 .. NumRequests -> Int]
         /\ SumTo(NumRequests, AllPrefetched) \in Int /\ SumTo(NumRequests, hitTokens) \in Int
<1>1. \A r \in Request : Prefetched(r) \in Int
  BY BlockCounts DEF Prefetched, Least
<1>2. Request = 1 .. NumRequests /\ NumRequests \in Nat
  BY Requests
<1>3. AllPrefetched \in [1 .. NumRequests -> Int]
  BY <1>1, <1>2 DEF AllPrefetched
<1>4. hitTokens \in [1 .. NumRequests -> Int]
  BY <1>2 DEF TypeOK
<1>5. NumRequests \in 0 .. NumRequests
  BY <1>2
<1> QED BY <1>2, <1>3, <1>4, <1>5, SumsAre DEF SumTo

\* A step that changes the counts of no request.
LEMMA ComputedStays ==
  ASSUME SimTypeOK, SimTypeOK', Computed,
         UNCHANGED hitTokens, \A q \in Request : Prefetched(q)' = Prefetched(q),
         PrefillIn(work') - PrefillIn(work) = processed' - processed
  PROVE  Computed'
<1>1. AllPrefetched' = AllPrefetched
  BY DEF AllPrefetched
<1>2. /\ PrefillIn(work) \in Int /\ PrefillIn(work') \in Int
      /\ processed \in Int /\ processed' \in Int
  BY TokensAre DEF SimTypeOK
<1>3. SumTo(NumRequests, AllPrefetched) \in Int /\ SumTo(NumRequests, hitTokens) \in Int
  BY PrefetchedTypes DEF SimTypeOK
<1>4. SumTo(NumRequests, AllPrefetched) + PrefillIn(work')
        = processed' + SumTo(NumRequests, hitTokens)
  BY <1>2, <1>3 DEF Computed
<1> QED BY <1>1, <1>4 DEF Computed

\* A step that changes the counts of one request.
LEMMA ComputedMoves ==
  ASSUME SimTypeOK, SimTypeOK', Computed, NEW r \in Request,
         \A q \in Request \ {r} :
           Prefetched(q)' = Prefetched(q) /\ hitTokens'[q] = hitTokens[q],
         (Prefetched(r)' - Prefetched(r)) + (PrefillIn(work') - PrefillIn(work))
           = (processed' - processed) + (hitTokens'[r] - hitTokens[r])
  PROVE  Computed'
<1> DEFINE n == NumRequests
           F == SumTo(n, AllPrefetched)
           G == SumTo(n, AllPrefetched')
           H == SumTo(n, hitTokens)
           K == SumTo(n, hitTokens')
<1>1. /\ PrefillIn(work) \in Int /\ PrefillIn(work') \in Int
      /\ processed \in Int /\ processed' \in Int
  BY TokensAre DEF SimTypeOK
<1>2. AllPrefetched \in [1 .. n -> Int] /\ hitTokens \in [1 .. n -> Int]
  BY PrefetchedTypes DEF SimTypeOK
<1>3. AllPrefetched' \in [1 .. n -> Int] /\ hitTokens' \in [1 .. n -> Int]
  <2>1. \A q \in Request : Prefetched(q)' \in Int
    BY BlockCounts DEF SimTypeOK, TypeOK, Prefetched, Least
  <2>2. hitTokens' \in [Request -> Nat]
    BY DEF SimTypeOK, TypeOK
  <2> QED BY <2>1, <2>2, Requests DEF AllPrefetched
<1>4. /\ r \in 1 .. n /\ n \in Nat
      /\ AllPrefetched[r] = Prefetched(r) /\ AllPrefetched'[r] = Prefetched(r)'
      /\ \A k \in 1 .. n : k # r =>
           AllPrefetched[k] = AllPrefetched'[k] /\ hitTokens[k] = hitTokens'[k]
  BY Requests DEF AllPrefetched
<1>5. F \in Int /\ G \in Int /\ F + AllPrefetched'[r] = G + AllPrefetched[r]
  BY <1>2, <1>3, <1>4, SumsDiffer
<1>6. H \in Int /\ K \in Int /\ H + hitTokens'[r] = K + hitTokens[r]
  BY <1>2, <1>3, <1>4, SumsDiffer
<1>7. F + PrefillIn(work) = processed + H
  BY DEF Computed
<1>8. /\ AllPrefetched[r] \in Int /\ AllPrefetched'[r] \in Int
      /\ hitTokens[r] \in Int /\ hitTokens'[r] \in Int
  BY <1>2, <1>3, <1>4
<1> HIDE DEF F, G, H, K
<1>9. G + PrefillIn(work') = processed' + K
  BY <1>1, <1>4, <1>5, <1>6, <1>7, <1>8
<1> QED BY <1>9 DEF Computed, G, K

\* Within an iteration the items that decode ask for no prompt token.
DecodesAskNothing == \A k \in DOMAIN work : work[k].decode => work[k].prefill = 0
QueuedHaveNoHits  == \A r \in Request : status[r] = "Queued" => hitTokens[r] = 0

LEMMA ComputedIs == ComputedInv <=> Computed /\ QueuedHaveNoHits /\ DecodesAskNothing
BY DEF ComputedInv, Computed, AllPrefetched, QueuedHaveNoHits, DecodesAskNothing

LEMMA ComputedAgain ==
  ASSUME Computed', QueuedHaveNoHits', DecodesAskNothing'
  PROVE  ComputedInv'
BY DEF ComputedInv, Computed, AllPrefetched, QueuedHaveNoHits, DecodesAskNothing

LEMMA InitComputed == SimInit => ComputedInv
<1> SUFFICES ASSUME SimInit PROVE ComputedInv
  OBVIOUS
<1>1. TypeOK /\ work = <<>> /\ processed = 0
  BY InitLoop DEF LoopInv, SimTypeOK, SimInit
<1>2. /\ hitTokens = [k \in 1 .. NumRequests |-> 0]
      /\ AllPrefetched = [k \in 1 .. NumRequests |-> 0]
  <2>1. \A r \in Request : Prefetched(r) = 0
    <3> TAKE r \in Request
    <3>1. stored[r] = 0 /\ Len(prompt[r]) \in Nat
      BY <1>1, BlockCounts DEF SimInit, Init
    <3> QED BY <3>1 DEF Prefetched, Least
  <2>2. hitTokens = [r \in Request |-> 0]
    BY DEF SimInit, Init
  <2> QED BY <2>1, <2>2, Requests DEF AllPrefetched
<1>3. SumTo(NumRequests, hitTokens) = 0 /\ SumTo(NumRequests, AllPrefetched) = 0
  BY <1>2, Requests, SumOfSame
<1>4. Computed
  BY <1>1, <1>3, NothingAsked DEF Computed
<1>5. QueuedHaveNoHits /\ DecodesAskNothing
  BY <1>1, <1>2, Requests DEF QueuedHaveNoHits, DecodesAskNothing
<1> QED BY <1>4, <1>5, ComputedIs

\* A step that leaves the counts and the work alone.
LEMMA QuietStaysComputed ==
  ASSUME LoopInv, LoopInv', ComputedInv,
         UNCHANGED <<prompt, stored, hitTokens, work, processed>>,
         \A r \in Request : status'[r] = "Queued" => status[r] = "Queued"
  PROVE  ComputedInv'
<1>1. Computed /\ QueuedHaveNoHits /\ DecodesAskNothing
  BY ComputedIs
<1>2. \A r \in Request : Prefetched(r)' = Prefetched(r)
  BY DEF Prefetched
<1>3. PrefillIn(work') - PrefillIn(work) = processed' - processed
  <2>1. PrefillIn(work) \in Int /\ processed \in Int
    BY TokensAre DEF LoopInv, SimTypeOK
  <2> QED BY <2>1
<1>4. Computed'
  BY <1>1, <1>2, <1>3, ComputedStays DEF LoopInv
<1>5. QueuedHaveNoHits' /\ DecodesAskNothing'
  BY <1>1 DEF QueuedHaveNoHits, DecodesAskNothing
<1> QED BY <1>4, <1>5, ComputedAgain

LEMMA AdmitFirstComputed ==
  ASSUME LoopInv, LoopInv', ComputedInv, AdmitFirst PROVE ComputedInv'
<1>1. PICK r \in Request : r = FirstWaiting
  BY FirstWaitingIs DEF AdmitFirst, MayAdmit
<1>2. PICK hits \in 0 .. CompletePromptBlocks(r) : Admit(r, hits)
  BY <1>1 DEF AdmitFirst
<1>3. UNCHANGED <<work, processed, prompt>>
  BY <1>2 DEF AdmitFirst, loopVars, Admit
<1>4. TypeOK /\ SimTypeOK /\ SimTypeOK'
  BY DEF LoopInv, SimTypeOK
<1>5. /\ status[r] = "Queued"
      /\ \A q \in Request :
           /\ status'[q] = IF q = r THEN "Active" ELSE status[q]
           /\ stored'[q] = IF q = r THEN HitTokens(hits) ELSE stored[q]
           /\ hitTokens'[q] = IF q = r THEN HitTokens(hits) ELSE hitTokens[q]
  BY <1>2, <1>4 DEF Admit, TypeOK
<1>6. Computed /\ QueuedHaveNoHits /\ DecodesAskNothing
  BY ComputedIs
<1>7. HitTokens(hits) \in Nat /\ HitTokens(hits) <= Len(prompt[r]) /\ Len(prompt[r]) \in Nat
  <2>1. /\ BlockTokens \in Nat \ {0} /\ hits \in Nat /\ Len(prompt[r]) \in Nat
        /\ hits <= Len(prompt[r]) \div BlockTokens
    BY <1>2, <1>4, BlockCounts, SizesAssumption DEF CompletePromptBlocks
  <2> QED BY <2>1, WholeBlocksFit DEF HitTokens
<1>8. hitTokens[r] = 0 /\ stored[r] = 0
  BY <1>5, <1>6 DEF LoopInv, StampsAreInThePast, QueuedHaveNoHits
<1>9. Prefetched(r) = 0 /\ Prefetched(r)' = HitTokens(hits)
  BY <1>3, <1>5, <1>7, <1>8 DEF Prefetched, Least
<1>10. PrefillIn(work') = PrefillIn(work) /\ PrefillIn(work) \in Int
       /\ processed' = processed /\ processed \in Int
  BY <1>3, <1>4, TokensAre DEF SimTypeOK
<1>11. \A q \in Request \ {r} :
         Prefetched(q)' = Prefetched(q) /\ hitTokens'[q] = hitTokens[q]
  BY <1>3, <1>5 DEF Prefetched
<1>12. (Prefetched(r)' - Prefetched(r)) + (PrefillIn(work') - PrefillIn(work))
         = (processed' - processed) + (hitTokens'[r] - hitTokens[r])
  BY <1>5, <1>7, <1>8, <1>9, <1>10
<1>13. Computed'
  BY <1>4, <1>6, <1>11, <1>12, ComputedMoves
<1>14. QueuedHaveNoHits' /\ DecodesAskNothing'
  BY <1>3, <1>5, <1>6 DEF QueuedHaveNoHits, DecodesAskNothing
<1> QED BY <1>13, <1>14, ComputedAgain

LEMMA ScheduleComputed ==
  ASSUME LoopInv, LoopInv', ComputedInv, Schedule PROVE ComputedInv'
<1>1. /\ work' = ScheduledWork /\ processed' = processed + PrefillTokens
      /\ UNCHANGED <<prompt, stored, hitTokens, status>> /\ work = <<>>
  BY DEF Schedule, vars, requestVars, LoopInv, LoopIsInOrder
<1>2. TypeOK /\ offset \in 0 .. NumRequests /\ SimTypeOK /\ SimTypeOK' /\ processed \in Int
  BY DEF LoopInv, SimTypeOK
<1>3. Computed /\ QueuedHaveNoHits /\ DecodesAskNothing
  BY ComputedIs
<1>4. PrefillIn(work) = 0 /\ PrefillIn(work') = PrefillTokens /\ PrefillTokens \in Int
  BY <1>1, <1>2, NothingAsked, ServedIs, ScheduleIs
<1>5. PrefillIn(work') - PrefillIn(work) = processed' - processed
  BY <1>1, <1>2, <1>4
<1>6. \A r \in Request : Prefetched(r)' = Prefetched(r)
  BY <1>1 DEF Prefetched
<1>7. Computed'
  BY <1>1, <1>2, <1>3, <1>5, <1>6, ComputedStays
<1>8. \A k \in 1 .. Len(ScheduledWork) :
        ScheduledWork[k].decode => ScheduledWork[k].prefill = 0
  <2> DEFINE d == DecodeWork(DecodeBudget)
             p == PrefillWork(PrefillBudget)
  <2>1. DecodeBudget \in Nat /\ PrefillBudget \in Nat
    BY <1>2, BudgetsAre
  <2>2. d \in Seq(Items) /\ \A k \in 1 .. Len(d) : d[k].prefill = 0
    BY <1>2, <2>1, DecodeWorkIs, DecodeTokensAre
  <2>3. p \in Seq(Items) /\ \A k \in 1 .. Len(p) : ~p[k].decode
    BY <1>2, <2>1, PrefillWorkIs
  <2>4. ScheduledWork = IF DecodeFirst THEN d \o p ELSE p \o d
    BY DEF ScheduledWork
  <2> HIDE DEF d, p
  <2>5. ElementsOf(ScheduledWork, d, p)
    BY <2>2, <2>3, <2>4, ElementsOfWork
  <2> TAKE k \in 1 .. Len(ScheduledWork)
  <2> DEFINE item == ScheduledWork[k]
  <2>6. (\E i \in 1 .. Len(d) : item = d[i]) \/ \E i \in 1 .. Len(p) : item = p[i]
    BY <2>5 DEF ElementsOf
  <2> HIDE DEF item
  <2>7. item.decode => item.prefill = 0
    BY <2>2, <2>3, <2>6
  <2> QED BY <2>7 DEF item
<1>9. DOMAIN ScheduledWork = 1 .. Len(ScheduledWork)
  BY <1>2, ScheduleIs, LenProperties
<1>10. QueuedHaveNoHits' /\ DecodesAskNothing'
  BY <1>1, <1>3, <1>8, <1>9 DEF QueuedHaveNoHits, DecodesAskNothing
<1> QED BY <1>7, <1>10, ComputedAgain

\* What is left of the work when its first item is done.
LEMMA TailAsks ==
  ASSUME SimTypeOK, work # <<>>, DecodesAskNothing, work' = Tail(work)
  PROVE  /\ PrefillIn(work) = Head(work).prefill + PrefillIn(work')
         /\ PrefillIn(work) \in Int /\ PrefillIn(work') \in Int
         /\ DecodesAskNothing'
         /\ Head(work).decode => Head(work).prefill = 0
<1>1. work \in Seq(Items) /\ Tail(work) \in Seq(Items)
  BY HeadTailProperties DEF SimTypeOK
<1>2. PrefillIn(work) = Head(work).prefill + PrefillIn(work')
  BY <1>1, TailTokens
<1>3. PrefillIn(work) \in Int /\ PrefillIn(work') \in Int
  BY <1>1, TokensAre
<1>4. /\ DOMAIN work = 1 .. Len(work) /\ Len(work) \in Nat \ {0}
      /\ DOMAIN work' = 1 .. Len(work) - 1
      /\ \A k \in 1 .. Len(work) - 1 : work'[k] = work[k + 1]
      /\ Head(work) = work[1]
  BY <1>1, LenProperties, EmptySeq, HeadTailProperties
<1>5. DecodesAskNothing'
  <2>1. \A k \in 1 .. Len(work) - 1 : k + 1 \in 1 .. Len(work)
    BY <1>4
  <2> QED BY <1>4, <2>1 DEF DecodesAskNothing
<1>6. Head(work).decode => Head(work).prefill = 0
  <2>1. 1 \in DOMAIN work
    BY <1>4
  <2> QED BY <1>4, <2>1 DEF DecodesAskNothing
<1> QED BY <1>2, <1>3, <1>5, <1>6

LEMMA CompletePrefillComputed ==
  ASSUME LoopInv, LoopInv', ComputedInv, CompletePrefill PROVE ComputedInv'
<1>1. SimTypeOK /\ SimTypeOK' /\ TypeOK /\ processed \in Int
  BY DEF LoopInv, SimTypeOK
<1>2. Computed /\ QueuedHaveNoHits /\ DecodesAskNothing
  BY ComputedIs
<1>3. work \in Seq(Items) /\ work # <<>> /\ Head(work) \in Items
  BY <1>1, HeadTailProperties DEF SimTypeOK, CompletePrefill
<1>4. PICK r \in Request, n \in Nat : r = Head(work).request /\ n = Head(work).prefill
  BY <1>3 DEF Items
<1>5. work' = Tail(work) /\ processed' = processed /\ AppendPrefill(r, n)
  BY <1>4 DEF CompletePrefill
<1>6. /\ stored' = [stored EXCEPT ![r] = @ + n] /\ UNCHANGED <<prompt, hitTokens, status>>
      /\ stored[r] < Len(prompt[r]) /\ stored[r] + n <= Len(prompt[r])
  BY <1>5 DEF AppendPrefill, AppendTokens, IsPrefilling
<1>7. \A q \in Request : stored'[q] = IF q = r THEN stored[r] + n ELSE stored[q]
  BY <1>1, <1>6 DEF TypeOK
<1>8. /\ PrefillIn(work) = n + PrefillIn(work')
      /\ PrefillIn(work) \in Int /\ PrefillIn(work') \in Int /\ DecodesAskNothing'
  BY <1>1, <1>2, <1>3, <1>4, <1>5, TailAsks
<1>9. Prefetched(r) \in Int /\ Prefetched(r)' = Prefetched(r) + n
  <2>1. stored[r] \in Nat /\ Len(prompt[r]) \in Nat
    BY <1>1, BlockCounts
  <2> QED BY <1>6, <1>7, <2>1 DEF Prefetched, Least
<1>10. hitTokens'[r] = hitTokens[r] /\ hitTokens[r] \in Int
  BY <1>1, <1>6 DEF TypeOK
<1>11. \A q \in Request \ {r} :
         Prefetched(q)' = Prefetched(q) /\ hitTokens'[q] = hitTokens[q]
  BY <1>6, <1>7 DEF Prefetched
<1>12. (Prefetched(r)' - Prefetched(r)) + (PrefillIn(work') - PrefillIn(work))
         = (processed' - processed) + (hitTokens'[r] - hitTokens[r])
  BY <1>1, <1>5, <1>8, <1>9, <1>10
<1>13. Computed'
  BY <1>1, <1>2, <1>11, <1>12, ComputedMoves
<1>14. QueuedHaveNoHits'
  BY <1>2, <1>6 DEF QueuedHaveNoHits
<1> QED BY <1>8, <1>13, <1>14, ComputedAgain

\* A decode token, and a decode token that cannot be had.
LEMMA DecodeComputed ==
  ASSUME LoopInv, LoopInv', ComputedInv, CompleteDecode \/ RejectGrowth PROVE ComputedInv'
<1>1. SimTypeOK /\ SimTypeOK' /\ TypeOK /\ processed \in Int
  BY DEF LoopInv, SimTypeOK
<1>2. Computed /\ QueuedHaveNoHits /\ DecodesAskNothing
  BY ComputedIs
<1>3. /\ work \in Seq(Items) /\ work # <<>> /\ Head(work) \in Items /\ Head(work).decode
      /\ work' = Tail(work) /\ processed' = processed
  BY <1>1, HeadTailProperties DEF SimTypeOK, CompleteDecode, RejectGrowth
<1>4. PICK r \in Request : r = Head(work).request
  BY <1>3 DEF Items
<1>5. PICK m \in {0, 1} :
        /\ stored' = [stored EXCEPT ![r] = @ + m] /\ stored[r] >= Len(prompt[r])
        /\ UNCHANGED <<prompt, hitTokens>>
        /\ \A q \in Request : status'[q] = "Queued" => status[q] = "Queued"
  <2>1. CASE CompleteDecode
    <3>1. AppendDecode(r, Generated(r) + 1 >= actualOutput[r])
      BY <1>4, <2>1 DEF CompleteDecode
    <3>2. \A q \in Request : status'[q] = "Queued" => status[q] = "Queued"
      BY <1>1, <3>1 DEF AppendDecode, TypeOK
    <3> QED BY <3>1, <3>2 DEF AppendDecode, AppendTokens, IsDecoding
  <2>2. CASE RejectGrowth
    <3>1. GrowthExhausted(r)
      BY <1>4, <2>2 DEF RejectGrowth
    <3>2. \A q \in Request : status'[q] = "Queued" => status[q] = "Queued"
      BY <1>1, <3>1 DEF GrowthExhausted, TypeOK
    <3>3. stored' = [stored EXCEPT ![r] = @ + 0]
      BY <1>1, <3>1 DEF GrowthExhausted, TypeOK
    <3> QED BY <3>1, <3>2, <3>3 DEF GrowthExhausted, IsDecoding
  <2> QED BY <2>1, <2>2
<1>6. \A q \in Request : stored'[q] = IF q = r THEN stored[r] + m ELSE stored[q]
  BY <1>1, <1>5 DEF TypeOK
<1>7. \A q \in Request : Prefetched(q)' = Prefetched(q)
  <2> TAKE q \in Request
  <2>1. stored[r] \in Nat /\ Len(prompt[r]) \in Nat /\ m \in Nat
    BY <1>1, BlockCounts
  <2>2. CASE q = r
    BY <1>5, <1>6, <2>1, <2>2 DEF Prefetched, Least
  <2>3. CASE q # r
    BY <1>5, <1>6, <2>3 DEF Prefetched
  <2> QED BY <2>2, <2>3
<1>8. /\ PrefillIn(work) = PrefillIn(work') /\ DecodesAskNothing'
      /\ PrefillIn(work') \in Int
  BY <1>1, <1>2, <1>3, TailAsks
<1>9. PrefillIn(work') - PrefillIn(work) = processed' - processed
  BY <1>1, <1>3, <1>8
<1>10. Computed'
  BY <1>1, <1>2, <1>5, <1>7, <1>9, ComputedStays
<1>11. QueuedHaveNoHits'
  BY <1>2, <1>5 DEF QueuedHaveNoHits
<1> QED BY <1>8, <1>10, <1>11, ComputedAgain

LEMMA NextComputed ==
  LoopInv /\ LoopInv' /\ ComputedInv /\ [SimNext]_simVars => ComputedInv'
<1> SUFFICES ASSUME LoopInv, LoopInv', ComputedInv, [SimNext]_simVars PROVE ComputedInv'
  OBVIOUS
<1>1. TypeOK
  BY DEF LoopInv, SimTypeOK
<1>2. CASE Arrive
  <2>1. UNCHANGED <<prompt, stored, hitTokens, work, processed>>
    BY <1>2 DEF Arrive, Expire, vars, requestVars
  <2>2. \A r \in Request : status'[r] = "Queued" => status[r] = "Queued"
    BY <1>2 DEF Arrive, Expire, vars, requestVars
  <2> QED BY <2>1, <2>2, QuietStaysComputed
<1>3. CASE RejectImpossible
  <2>1. PICK r \in Request : r = FirstWaiting /\ AdmitImpossible(r)
    BY <1>3, FirstWaitingIs DEF RejectImpossible, MayAdmit
  <2>2. \A q \in Request : status'[q] = "Queued" => status[q] = "Queued"
    BY <1>1, <2>1 DEF AdmitImpossible, TypeOK
  <2>3. UNCHANGED <<prompt, stored, hitTokens, work, processed>>
    BY <1>3, <2>1 DEF RejectImpossible, AdmitImpossible, loopVars
  <2> QED BY <2>2, <2>3, QuietStaysComputed
<1>4. CASE HoldTheLine
  <2>1. UNCHANGED <<prompt, stored, hitTokens, status, work, processed>>
    BY <1>4 DEF HoldTheLine, AdmitTemporarilyUnavailable, requestVars, loopVars
  <2> QED BY <2>1, QuietStaysComputed
<1>5. CASE AdmissionDone \/ EndIteration \/ Done \/ UNCHANGED simVars
  <2>1. UNCHANGED <<prompt, stored, hitTokens, status, work, processed>>
    BY <1>5 DEF AdmissionDone, EndIteration, Done, simVars, vars, requestVars, loopVars
  <2> QED BY <2>1, QuietStaysComputed
<1>6. CASE FinishItem
  <2>1. UNCHANGED <<prompt, stored, hitTokens, status, work, processed>>
    BY <1>6 DEF FinishItem, CacheRefresh, CacheInsert, Release,
                requestVars, loopVars
  <2> QED BY <2>1, QuietStaysComputed
<1>7. CASE AdmitFirst
  BY <1>7, AdmitFirstComputed
<1>8. CASE Schedule
  BY <1>8, ScheduleComputed
<1>9. CASE CompletePrefill
  BY <1>9, CompletePrefillComputed
<1>10. CASE CompleteDecode \/ RejectGrowth
  BY <1>10, DecodeComputed
<1> QED BY <1>2, <1>3, <1>4, <1>5, <1>6, <1>7, <1>8, <1>9, <1>10 DEF SimNext

-----------------------------------------------------------------------------
(* Theorems *)

LEMMA LoopInvariant == SimSpec => []LoopInv
BY InitLoop, NextLoop, PTL DEF SimSpec

\* Every variable of the loop has its type, and the cache's have theirs: the
\* round-robin offset stays an index of a request, the arrival cursor stays within
\* the sorted requests or one past them (simulator.cpp:73-118).
THEOREM SimTypeCorrect == SimSpec => []SimTypeOK
<1>1. LoopInv => SimTypeOK
  BY DEF LoopInv
<1> QED BY <1>1, LoopInvariant, PTL

\* Every step of the loop takes a step of the cache's specification or leaves the
\* cache alone.  The model is built so: the lemma says nothing about the program and
\* only carries over what holds of the cache.
LEMMA LoopUsesTheCache == SimSpec => Spec
<1>1. SimInit => Init
  BY DEF SimInit
<1> QED BY <1>1, LoopInvariant, LoopCallsCache, PTL DEF SimSpec, Spec

\* Requests are admitted, refused and expired in the order of their arrival, under
\* every admission policy, latency and memory pressure (simulator.cpp:188-189).
THEOREM DecisionsAreInOrder == SimSpec => []DecidedInOrder
<1>1. LoopInv => DecidedInOrder
  BY DEF LoopInv
<1> QED BY <1>1, LoopInvariant, PTL

\* Nobody is admitted after the TTFT SLO has passed (simulator.cpp:86-87, 212).
THEOREM AdmissionsAreTimely == SimSpec => []AdmittedWithinSlo
<1>1. LoopInv => AdmittedWithinSlo
  BY DEF LoopInv
<1> QED BY <1>1, LoopInvariant, PTL

\* "Scheduler produced no work while requests were active" is unreachable, at most
\* max_active_requests are active, and an item still fits its request when its turn
\* comes (simulator.cpp:97-100, 216-273).
THEOREM WorkIsAlwaysValid == SimSpec => []WorkStaysValid
<1>1. ASSUME LoopInv PROVE WorkStaysValid
  <2>1. pc = "schedule" => ScheduledWork # <<>>
    BY <1>1, ScheduleIs DEF LoopInv, LoopIsInOrder, SimTypeOK
  <2> QED BY <1>1, <2>1 DEF LoopInv, WorkStaysValid
<1> QED BY <1>1, LoopInvariant, PTL

\* The timestamps of a request tell its phase, are in order, and a finished request
\* has the output of the trace (simulator.cpp:212, 301-335).
THEOREM TimestampsAreRight == SimSpec => []TimestampsMatchPhases
<1>1. LoopInv => TimestampsMatchPhases
  BY DEF LoopInv
<1> QED BY <1>1, LoopInvariant, PTL

\* What the cache promises without a condition it keeps throughout a run, also after
\* an admission has evicted a block it had just hit: the pages promised to prompts
\* are there, no page is lost, and an empty cache takes any prompt that it can hold
\* (simulator.cpp:171-204, 284-340 on kv_cache.cpp:23-168).
THEOREM LoopKeepsTheCacheSafe ==
  SimSpec => [](ReservationsHonoured /\ NoBlockLost /\ DrainedCacheAdmits)
BY LoopUsesTheCache, ReservationsAreHonoured, NoPageIsLost, DrainedCachesAdmit, PTL

\* As long as no admission does that, pages are conserved and counted at every moment
\* of the run (kv_cache.cpp:170-201).
THEOREM LoopConservesPages ==
  SimSpec /\ EvictedPagesAreUnreferenced => [](PagesConserved /\ RefsCountHolders)
BY LoopUsesTheCache, PagesStayConserved, RefsStayCounted, PTL

\* Where the loop would throw: an iteration without work, and a prefill chunk that
\* the cache has no pages for.
NeverThrows ==
  /\ pc = "schedule" => ScheduledWork # <<>>
  /\ \A k \in DOMAIN work :
       work[k].prefill > 0 => AppendFits(work[k].request, work[k].prefill)

\* Neither exception of the loop can be thrown (simulator.cpp:97-100, 290-293): a
\* chunk still fits when its turn comes, whatever the items before it took and
\* released.
THEOREM RunNeverThrows == SimSpec => []NeverThrows
<1>1. ASSUME LoopInv, ComputedInv, WorkStaysValid, PrefillNeverFails PROVE NeverThrows
  <2>1. ASSUME NEW k \in DOMAIN work, work[k].prefill > 0
        PROVE  AppendFits(work[k].request, work[k].prefill)
    <3>0. work \in Seq(Items) /\ DOMAIN work = 1 .. Len(work)
      BY <1>1, LenProperties DEF LoopInv, SimTypeOK
    <3>1. work[k] \in Items /\ work[k].request \in Request /\ work[k].decode \in BOOLEAN
      <4>1. work[k] \in Items
        BY <3>0
      <4> QED BY <4>1 DEF Items
    <3>2. ~work[k].decode
      BY <1>1, <2>1 DEF ComputedInv
    <3>3. ItemIsValid(work[k])
      BY <1>1 DEF WorkStaysValid
    <3> QED BY <1>1, <3>1, <3>2, <3>3 DEF ItemIsValid, PrefillNeverFails
  <2> QED BY <1>1, <2>1 DEF NeverThrows, WorkStaysValid
<1>2. SimSpec => []ComputedInv
  BY InitComputed, NextComputed, LoopInvariant, PTL DEF SimSpec
<1> QED BY <1>1, <1>2, LoopInvariant, WorkIsAlwaysValid, LoopUsesTheCache, PrefillAlwaysFits, PTL

\* While a place is free, the first in line waits only for memory: at the start of
\* an iteration, what it needs beyond its hits does not fit (simulator.cpp:186-215).
THEOREM WaitingHasAReason == SimSpec => []NobodyWaitsWithoutReason
<1>1. SimInit => NobodyWaitsWithoutReason
  BY DEF SimInit, NobodyWaitsWithoutReason
<1>2. LoopInv /\ NobodyWaitsWithoutReason /\ [SimNext]_simVars => NobodyWaitsWithoutReason'
  BY NextHasReason
<1> QED BY <1>1, <1>2, LoopInvariant, PTL DEF SimSpec

\* The cache's own invariants, and that a request that has ended holds nothing or is
\* the next that is released, hold between the steps of the run.
LEMMA LoopKeepsLossInv == SimSpec => [](LossInv /\ ReleasesAreOwed)
<1>1. SimSpec => Spec
  BY LoopUsesTheCache
<1>2. Init => ReleasesAreOwed
  BY DEF Init, ReleasesAreOwed
<1>3. LossInv /\ ReleasesAreOwed /\ [Next]_vars => ReleasesAreOwed'
  BY NextOwes DEF LossInv, ReservationInv
<1> QED BY <1>1, <1>2, <1>3, InitLoss, NextLoss, PTL DEF Spec

\* When an admission round leaves nobody active, nobody who has arrived waits: the
\* first in line of an empty cache fits, also after self-evictions, and places are
\* free (simulator.cpp:88-94, 171-204).
THEOREM NobodyIsLeftWaiting == SimSpec => NobodyWaitsForNobody
<1>1. ASSUME LoopInv, LossInv, ReleasesAreOwed, [SimNext]_simVars
      PROVE  [(pc = "admit" /\ pc' # "admit" /\ ActiveRequests = {})
                => WaitingRequests = {}]_simVars
  <2>1. CASE pc = "admit" /\ pc' # "admit" /\ ActiveRequests = {} /\ SimNext
    <3>1. HoldTheLine \/ AdmissionDone
      BY <2>1 DEF SimNext, Arrive, RejectImpossible, AdmitFirst, loopVars, Schedule,
                  CompletePrefill, CompleteDecode, RejectGrowth, FinishItem, EndIteration, Done
    <3> QED BY <1>1, <2>1, <3>1, EmptyCacheIsNoReason, NobodyStaysInLine
  <2> QED BY <1>1, <2>1
<1> QED BY <1>1, LoopInvariant, LoopKeepsLossInv, PTL DEF SimSpec, NobodyWaitsForNobody

\* A run that ends has decided everybody and its cache holds nothing for anybody,
\* whatever the prefix cache evicted (simulator.cpp:73-118).
THEOREM RunEndsEmptyHanded == SimSpec => []NothingIsHeld
<1>1. SimInit => NothingIsHeld
  BY DEF SimInit, NothingIsHeld
<1>2. LoopInv /\ LossInv /\ ReleasesAreOwed /\ NothingIsHeld /\ [SimNext]_simVars => NothingIsHeld'
  BY NextDrains
<1> QED BY <1>1, <1>2, LoopInvariant, LoopKeepsLossInv, PTL DEF SimSpec

\* Every page is then free or cached, once, unless an admission evicted a block that
\* it had just hit (kv_cache.cpp:48-78).
THEOREM RunEndsDrained == SimSpec /\ EvictedPagesAreUnreferenced => []EndsDrained
<1>1. PagesInv /\ NothingIsHeld => EndsDrained
  BY PagesAddUp DEF NothingIsHeld, EndsDrained
<1>2. SimSpec => Spec
  BY LoopUsesTheCache
<1> QED BY <1>1, <1>2, PagesInvariant, RunEndsEmptyHanded, PTL

\* Without a prefix cache that condition is met: the run returns every page.
THEOREM PlainRunEndsDrained ==
  ASSUME ~PrefixCacheEnabled
  PROVE  SimSpec => []EndsDrained
BY LoopUsesTheCache, PlainPages, RunEndsDrained, PTL

\* An iteration keeps to the token budget, names no request twice, wastes nothing
\* and serves the class the policy favours first: what one request is given depends
\* on what the others left of the budget, in either order of the two classes
\* (simulator.cpp:216-273, README.md:228).
THEOREM BudgetIsRespected == SimSpec => IterationsUseTheBudget
<1>1. ASSUME LoopInv, [SimNext]_simVars
      PROVE  [pc = "schedule" =>
                LET total == TokensScheduled(work')
                    Served(r) == TokensOf(r, work')
                IN  /\ total <= TokenBudget
                    /\ \A r \in Request : Served(r) <= FullShare(r)
                    /\ \A k, l \in DOMAIN work' :
                         work'[k].request = work'[l].request => k = l
                    /\ total < TokenBudget => \A r \in Request : Served(r) = FullShare(r)
                    /\ \A q, r \in ActiveRequests :
                         (IsDecoding(q) /\ IsPrefilling(r)) =>
                           IF DecodeFirst THEN Served(r) > 0 => Served(q) = 1
                           ELSE Served(q) > 0 => Served(r) = FullShare(r)]_simVars
  <2>1. TypeOK /\ offset \in 0 .. NumRequests
    BY <1>1 DEF LoopInv, SimTypeOK
  <2>2. CASE SimNext /\ pc = "schedule"
    <3>1. work' = ScheduledWork
      BY <2>2, OnlySchedule DEF Schedule
    <3>2. \A k, l \in DOMAIN ScheduledWork :
            ScheduledWork[k].request = ScheduledWork[l].request => k = l
      <4>1. DOMAIN ScheduledWork = 1 .. Len(ScheduledWork)
        BY <2>1, ScheduleIs, LenProperties
      <4> QED BY <2>1, <4>1, ScheduleIs
    <3> QED BY <2>1, <3>1, <3>2, BudgetIsUsed
  <2> QED BY <1>1, <2>2
<1> QED BY <1>1, LoopInvariant, PTL DEF SimSpec, IterationsUseTheBudget

\* A decoding request that an iteration passes over moves forward in the rotation by
\* as many places as were served, so it is not passed over for ever
\* (simulator.cpp:256-271).
THEOREM RotationIsFair == SimSpec => RotationAdvances
<1>1. ASSUME LoopInv, [SimNext]_simVars
      PROVE  [pc = "schedule" =>
                \A r \in Request : (IsDecoding(r) /\ TokensOf(r, work') = 0) =>
                  Ahead(r)' = Ahead(r) - (TokensScheduled(work') - PrefillTokens)]_simVars
  <2>1. TypeOK /\ offset \in 0 .. NumRequests
    BY <1>1 DEF LoopInv, SimTypeOK
  <2>2. CASE SimNext /\ pc = "schedule"
    <3>1. work' = ScheduledWork /\ offset' = OffsetAfter(DecodeBudget) /\ UNCHANGED vars
      BY <2>2, OnlySchedule DEF Schedule
    <3> QED BY <2>1, <3>1, RotationMoves
  <2> QED BY <1>1, <2>2
<1> QED BY <1>1, LoopInvariant, PTL DEF SimSpec, RotationAdvances

\* No prompt token is computed twice and none is skipped: between iterations, what
\* the requests have of their prompts is what they hit in the prefix cache and what
\* was processed, although hits, chunks and decode tokens all advance the same
\* counter (simulator.cpp:205-215, 229-255, 275-299).
THEOREM PromptTokensAreComputedOnce == SimSpec => []PromptsComputedOnce
<1>1. ComputedInv /\ LoopInv => PromptsComputedOnce
  <2> SUFFICES ASSUME ComputedInv, LoopInv, work = <<>> PROVE PromptsComputedOnce
    BY DEF PromptsComputedOnce
  <2>1. SumTo(NumRequests, AllPrefetched) + PrefillIn(<<>>)
          = processed + SumTo(NumRequests, hitTokens)
    BY ComputedIs DEF Computed
  <2>2. SumTo(NumRequests, AllPrefetched) \in Int
    BY PrefetchedTypes DEF LoopInv, SimTypeOK
  <2>3. SumTo(NumRequests, AllPrefetched) = processed + SumTo(NumRequests, hitTokens)
    BY <2>1, <2>2, NothingAsked
  <2> QED BY <2>3 DEF PromptsComputedOnce, AllPrefetched
<1> QED BY <1>1, InitComputed, NextComputed, LoopInvariant, PTL DEF SimSpec
=============================================================================
