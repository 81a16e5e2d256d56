---------------------------- MODULE BlockTheorems ----------------------------
(***************************************************************************)
(* What BlockArithmetic's operators compute, for every block size and any  *)
(* number of summands, and induction over the natural numbers in a form    *)
(* that needs no operator as a parameter.                                  *)
(***************************************************************************)
EXTENDS BlockArithmetic, WellFoundedInduction, TLAPS

\* Euclidean division, the fact every other lemma comes from.
LEMMA DivBounds ==
  ASSUME NEW a \in Int, NEW d \in Nat \ {0}
  PROVE  a \div d \in Int /\ d * (a \div d) <= a /\ a < d * (a \div d) + d
OBVIOUS

\* Multiplication by a block size is monotonic.
LEMMA TimesMonotonic ==
  ASSUME NEW p \in Int, NEW q \in Int, NEW d \in Nat \ {0}, p <= q
  PROVE  d * p <= d * q
OBVIOUS

\* A quotient is determined by its bounds.
LEMMA DivUnique ==
  ASSUME NEW a \in Int, NEW d \in Nat \ {0}, NEW q \in Int,
         d * q <= a, a < d * q + d
  PROVE  a \div d = q
<1> DEFINE p == a \div d
<1>1. p \in Int /\ d * p <= a /\ a < d * p + d
  BY DivBounds
<1>2. ~(p + 1 <= q)
  <2>1. p + 1 <= q => d * (p + 1) <= d * q
    BY <1>1, TimesMonotonic
  <2>2. d * (p + 1) = d * p + d
    BY <1>1
  <2> QED BY <1>1, <2>1, <2>2
<1>3. ~(q + 1 <= p)
  <2>1. q + 1 <= p => d * (q + 1) <= d * p
    BY <1>1, TimesMonotonic
  <2>2. d * (q + 1) = d * q + d
    OBVIOUS
  <2> QED BY <1>1, <2>1, <2>2
<1> QED BY <1>1, <1>2, <1>3

\* A quotient is monotonic.
LEMMA DivMonotonic ==
  ASSUME NEW a \in Int, NEW b \in Int, NEW d \in Nat \ {0}, a <= b
  PROVE  a \div d <= b \div d
<1> DEFINE p == a \div d
           q == b \div d
<1>1. p \in Int /\ d * p <= a
  BY DivBounds
<1>2. q \in Int /\ b < d * q + d
  BY DivBounds
<1>3. q + 1 <= p => d * (q + 1) <= d * p
  BY <1>1, <1>2, TimesMonotonic
<1>4. d * (q + 1) = d * q + d
  BY <1>2
<1> QED BY <1>1, <1>2, <1>3, <1>4

\* ceil_div gives the least number of blocks that hold so many tokens.
LEMMA CeilDivBounds ==
  ASSUME NEW v \in Nat, NEW d \in Nat \ {0}
  PROVE  /\ CeilDiv(v, d) \in Nat
         /\ v <= d * CeilDiv(v, d)
         /\ d * CeilDiv(v, d) < v + d
<1> DEFINE c == (v + d - 1) \div d
<1>1. c \in Int /\ d * c <= v + d - 1 /\ v + d - 1 < d * c + d
  BY DivBounds
<1>2. c >= 0
  <2>1. c <= -1 => d * c <= d * (-1)
    BY <1>1, TimesMonotonic
  <2> QED BY <1>1, <2>1
<1> QED BY <1>1, <1>2 DEF CeilDiv

\* More tokens never occupy fewer blocks.
LEMMA CeilDivMonotonic ==
  ASSUME NEW v \in Nat, NEW w \in Nat, NEW d \in Nat \ {0}, v <= w
  PROVE  CeilDiv(v, d) <= CeilDiv(w, d)
BY DivMonotonic, v + d - 1 <= w + d - 1 DEF CeilDiv

\* Whole blocks occupy as many blocks as they are.
LEMMA CeilDivWhole ==
  ASSUME NEW k \in Nat, NEW d \in Nat \ {0}
  PROVE  k * d \in Nat /\ CeilDiv(k * d, d) = k
<1>1. k * d \in Nat /\ k * d = d * k
  OBVIOUS
<1>2. (k * d + d - 1) \div d = k
  BY <1>1, DivUnique, d * k <= k * d + d - 1, k * d + d - 1 < d * k + d
<1> QED BY <1>1, <1>2 DEF CeilDiv

\* The block the next token is written to, counted from one, is the block that
\* ceil_div counts as the last once it is written.
LEMMA CeilDivNext ==
  ASSUME NEW v \in Nat, NEW d \in Nat \ {0}
  PROVE  /\ v \div d \in Nat
         /\ CeilDiv(v + 1, d) = v \div d + 1
         /\ v \div d <= CeilDiv(v, d)
         /\ CeilDiv(v, d) <= v \div d + 1
<1> DEFINE q == v \div d
<1>1. q \in Int /\ d * q <= v /\ v < d * q + d
  BY DivBounds
<1>2. q >= 0
  <2>1. q <= -1 => d * q <= d * (-1)
    BY <1>1, TimesMonotonic
  <2> QED BY <1>1, <2>1
<1>3. CeilDiv(v + 1, d) = q + 1
  <2>1. d * (q + 1) = d * q + d
    BY <1>1
  <2>2. (v + d) \div d = q + 1
    BY <1>1, <2>1, DivUnique
  <2>3. v + 1 + d - 1 = v + d
    OBVIOUS
  <2> QED BY <2>2, <2>3 DEF CeilDiv
<1>4. q <= CeilDiv(v, d)
  BY DivMonotonic, v <= v + d - 1 DEF CeilDiv
<1>5. CeilDiv(v, d) <= q + 1
  BY <1>3, CeilDivMonotonic, v <= v + 1
<1> QED BY <1>1, <1>2, <1>3, <1>4, <1>5

\* The last block holds at most a block of tokens.
LEMMA CeilDivLast ==
  ASSUME NEW v \in Nat, NEW d \in Nat \ {0}
  PROVE  v - (CeilDiv(v, d) - 1) * d \in 0 .. d
<1> DEFINE c == CeilDiv(v, d)
<1>1. c \in Nat /\ v <= d * c /\ d * c < v + d
  BY CeilDivBounds
<1> HIDE DEF c
<1>2. (c - 1) * d = d * c - d
  BY <1>1
<1>3. v - (c - 1) * d \in 0 .. d
  BY <1>1, <1>2
<1> QED BY <1>3 DEF c

-----------------------------------------------------------------------------
(* Induction over the natural numbers: a set that contains 0 and successors *)

LEMMA SetInduction ==
  ASSUME NEW S \in SUBSET Nat, 0 \in S, \A n \in S : n + 1 \in S
  PROVE  S = Nat
<1> DEFINE R == OpToRel(<, Nat)
           T == Nat \ S
<1>1. R = {p \in Nat \X Nat : p[1] < p[2]}
  BY DEF OpToRel
<1>2. IsWellFoundedOn(R, Nat)
  BY NatLessThanWellFounded
<1> HIDE DEF R
<1>3. SUFFICES ASSUME T # {} PROVE FALSE
  OBVIOUS
<1>4. PICK x \in T : \A y \in T : ~(<<y, x>> \in R)
  BY <1>2, <1>3, T \subseteq Nat, WFMin
<1>5. x # 0 /\ x - 1 \in Nat
  BY <1>4
<1>6. <<x - 1, x>> \in R
  BY <1>1, <1>4, <1>5
<1>7. x - 1 \in S
  BY <1>4, <1>5, <1>6
<1> QED BY <1>4, <1>5, <1>7

\* A set of natural numbers has a least element.
LEMMA LeastElement ==
  ASSUME NEW S \in SUBSET Nat, S # {}
  PROVE  \E x \in S : \A y \in S : x <= y
<1> DEFINE R == OpToRel(<, Nat)
<1>1. R = {p \in Nat \X Nat : p[1] < p[2]}
  BY DEF OpToRel
<1>2. IsWellFoundedOn(R, Nat)
  BY NatLessThanWellFounded
<1> HIDE DEF R
<1>3. PICK x \in S : \A y \in S : ~(<<y, x>> \in R)
  BY <1>2, WFMin
<1>4. ASSUME NEW y \in S, ~(x <= y) PROVE FALSE
  <2>1. x \in Nat /\ y \in Nat /\ y < x
    BY <1>4
  <2>2. <<y, x>> \in R
    BY <1>1, <2>1
  <2> QED BY <1>3, <2>2
<1> QED BY <1>4

\* Induction up to n.
LEMMA UpTo ==
  ASSUME NEW n \in Nat, NEW S \in SUBSET (0 .. n), 0 \in S,
         \A k \in S : k < n => k + 1 \in S
  PROVE  \A k \in 0 .. n : k \in S
<1> DEFINE T == {k \in Nat : k <= n => k \in S}
<1>1. ASSUME NEW k \in T PROVE k + 1 \in T
  <2>1. k \in Nat /\ (k <= n => k \in S)
    OBVIOUS
  <2>2. k + 1 <= n => k <= n /\ k < n
    BY <2>1
  <2> QED BY <2>1, <2>2
<1>2. T \in SUBSET Nat /\ 0 \in T
  OBVIOUS
<1>3. T = Nat
  <2> HIDE DEF T
  <2> QED BY <1>1, <1>2, SetInduction
<1> QED BY <1>3

\* A bounded set of natural numbers has a greatest element.
LEMMA GreatestElement ==
  ASSUME NEW S \in SUBSET Nat, S # {}, NEW n \in Nat, \A x \in S : x <= n
  PROVE  \E x \in S : \A y \in S : y <= x
<1> DEFINE T == {n - x : x \in S}
<1>1. T \in SUBSET Nat /\ T # {}
  <2>1. \A x \in S : n - x \in Nat
    OBVIOUS
  <2>2. PICK x : x \in S
    OBVIOUS
  <2>3. n - x \in T
    BY <2>2
  <2> QED BY <2>1, <2>3
<1> HIDE DEF T
<1>2. PICK t \in T : \A u \in T : t <= u
  BY <1>1, LeastElement
<1>3. PICK x \in S : t = n - x
  BY DEF T
<1>4. ASSUME NEW y \in S PROVE y <= x
  <2>1. t <= n - y
    BY <1>2 DEF T
  <2> QED BY <1>3, <2>1
<1> QED BY <1>4

-----------------------------------------------------------------------------
(* Sums *)

\* The partial sums exist, and each is the one before and the next value.
LEMMA SumsAre ==
  ASSUME NEW n \in Nat, NEW f \in [1 .. n -> Int]
  PROVE  /\ Sums(n, f) \in [0 .. n -> Int]
         /\ Sums(n, f)[0] = 0
         /\ \A k \in 1 .. n : Sums(n, f)[k] = Sums(n, f)[k - 1] + f[k]
<1> DEFINE P(m) == \E g \in [0 .. m -> Int] :
                     g = [k \in 0 .. m |-> IF k = 0 THEN 0 ELSE g[k - 1] + f[k]]
           S == {m \in 0 .. n : P(m)}
           E(g) == g = [k \in 0 .. n |-> IF k = 0 THEN 0 ELSE g[k - 1] + f[k]]
<1>1. P(0)
  <2> DEFINE g == [k \in 0 .. 0 |-> 0]
  <2>1. g \in [0 .. 0 -> Int] /\ g = [k \in 0 .. 0 |-> IF k = 0 THEN 0 ELSE g[k - 1] + f[k]]
    OBVIOUS
  <2> HIDE DEF g
  <2> QED BY <2>1
<1>2. ASSUME NEW m \in 0 .. n, m < n, P(m) PROVE P(m + 1)
  <2>1. PICK g \in [0 .. m -> Int] :
          g = [k \in 0 .. m |-> IF k = 0 THEN 0 ELSE g[k - 1] + f[k]]
    BY <1>2
  <2> DEFINE h == [k \in 0 .. m + 1 |-> IF k = m + 1 THEN g[m] + f[m + 1] ELSE g[k]]
  <2>2. h \in [0 .. m + 1 -> Int]
    <3>1. g[m] + f[m + 1] \in Int
      BY <1>2
    <3> QED BY <3>1
  <2>3. ASSUME NEW k \in 0 .. m + 1
        PROVE  h[k] = IF k = 0 THEN 0 ELSE h[k - 1] + f[k]
    <3>1. CASE k = m + 1
      BY <3>1
    <3>2. CASE k # m + 1
      <4>1. k \in 0 .. m /\ h[k] = g[k] /\ (k # 0 => h[k - 1] = g[k - 1])
        BY <3>2
      <4>2. g[k] = IF k = 0 THEN 0 ELSE g[k - 1] + f[k]
        BY <2>1, <4>1
      <4> QED BY <4>1, <4>2
    <3> QED BY <3>1, <3>2
  <2> QED BY <2>2, <2>3
<1> HIDE DEF P
<1>3. P(n)
  <2>1. S \in SUBSET (0 .. n) /\ 0 \in S /\ \A m \in S : m < n => m + 1 \in S
    BY <1>1, <1>2
  <2>2. \A m \in 0 .. n : m \in S
    BY <2>1, UpTo
  <2> QED BY <2>2
<1>4. PICK g \in [0 .. n -> Int] : E(g)
  BY <1>3 DEF P
<1>5. Sums(n, f) = CHOOSE h : E(h)
  BY DEF Sums
<1> HIDE DEF E
<1>6. E(Sums(n, f))
  BY <1>4, <1>5
<1> DEFINE s == Sums(n, f)
<1>7. s = [k \in 0 .. n |-> IF k = 0 THEN 0 ELSE s[k - 1] + f[k]]
  BY <1>6 DEF E
<1> HIDE DEF s
<1>8. s[0] = 0 /\ \A k \in 1 .. n : s[k] = s[k - 1] + f[k]
  BY <1>7
<1>9. \A k \in 0 .. n : s[k] \in Int
  <2> DEFINE U == {k \in 0 .. n : s[k] \in Int}
  <2>1. \A k \in U : k < n => k + 1 \in U
    BY <1>8
  <2>2. U \in SUBSET (0 .. n) /\ 0 \in U
    BY <1>8
  <2> HIDE DEF U
  <2>3. \A k \in 0 .. n : k \in U
    BY <2>1, <2>2, UpTo
  <2> QED BY <2>3 DEF U
<1>10. s \in [0 .. n -> Int]
  BY <1>7, <1>9
<1> QED BY <1>8, <1>10 DEF s

LEMMA SumIsInt ==
  ASSUME NEW n \in Nat, NEW f \in [1 .. n -> Int]
  PROVE  SumTo(n, f) \in Int
BY SumsAre DEF SumTo

LEMMA SumOfNone == ASSUME NEW f \in [1 .. 0 -> Int] PROVE SumTo(0, f) = 0
BY SumsAre DEF SumTo

\* Sums of values that are the same but for one.
LEMMA SumsDiffer ==
  ASSUME NEW n \in Nat, NEW f \in [1 .. n -> Int], NEW g \in [1 .. n -> Int],
         NEW j \in 1 .. n, \A k \in 1 .. n : k # j => f[k] = g[k]
  PROVE  /\ SumTo(n, f) \in Int /\ SumTo(n, g) \in Int
         /\ SumTo(n, f) + g[j] = SumTo(n, g) + f[j]
<1> DEFINE F == Sums(n, f)
           G == Sums(n, g)
           S == {k \in 0 .. n : IF k < j THEN F[k] = G[k] ELSE F[k] + g[j] = G[k] + f[j]}
<1>1. /\ F \in [0 .. n -> Int] /\ F[0] = 0 /\ \A k \in 1 .. n : F[k] = F[k - 1] + f[k]
      /\ G \in [0 .. n -> Int] /\ G[0] = 0 /\ \A k \in 1 .. n : G[k] = G[k - 1] + g[k]
  BY SumsAre
<1> HIDE DEF F, G
<1>2. ASSUME NEW k \in S, k < n PROVE k + 1 \in S
  <2>1. /\ k \in 0 .. n /\ k + 1 \in 1 .. n /\ (k + 1) - 1 = k
        /\ IF k < j THEN F[k] = G[k] ELSE F[k] + g[j] = G[k] + f[j]
    BY <1>2
  <2>2. /\ F[k] \in Int /\ G[k] \in Int /\ f[k + 1] \in Int /\ g[k + 1] \in Int
        /\ f[j] \in Int /\ g[j] \in Int
    BY <1>1, <2>1
  <2>3. F[k + 1] = F[k] + f[k + 1] /\ G[k + 1] = G[k] + g[k + 1]
    BY <1>1, <2>1
  <2>4. k + 1 # j => f[k + 1] = g[k + 1]
    BY <2>1
  <2>5. IF k + 1 < j THEN F[k + 1] = G[k + 1] ELSE F[k + 1] + g[j] = G[k + 1] + f[j]
    <3>1. CASE k + 1 < j
      BY <2>1, <2>2, <2>3, <2>4, <3>1
    <3>2. CASE k + 1 = j
      <4>1. k < j /\ ~(k + 1 < j) /\ F[k] = G[k]
        BY <2>1, <3>2
      <4>2. F[k + 1] = F[k] + f[j] /\ G[k + 1] = F[k] + g[j]
        BY <2>3, <3>2, <4>1
      <4>3. F[k + 1] + g[j] = G[k + 1] + f[j]
        BY <2>2, <4>2
      <4> QED BY <4>1, <4>3
    <3>3. CASE j < k + 1 /\ k + 1 # j
      <4>1. ~(k < j) /\ ~(k + 1 < j) /\ F[k] + g[j] = G[k] + f[j]
        BY <2>1, <3>3
      <4>2. F[k + 1] = F[k] + f[k + 1] /\ G[k + 1] = G[k] + f[k + 1]
        BY <2>3, <2>4, <3>3
      <4> DEFINE a == F[k]
                 b == G[k]
                 c == f[j]
                 d == g[j]
                 e == f[k + 1]
      <4>3. /\ a \in Int /\ b \in Int /\ c \in Int /\ d \in Int /\ e \in Int
            /\ a + d = b + c /\ F[k + 1] = a + e /\ G[k + 1] = b + e
        BY <2>2, <4>1, <4>2
      <4> HIDE DEF a, b, c, d, e, S
      <4>4. F[k + 1] + d = G[k + 1] + c
        BY <4>3
      <4>5. F[k + 1] + g[j] = G[k + 1] + f[j]
        BY <4>4 DEF c, d
      <4> QED BY <4>1, <4>5
    <3> QED BY <2>1, <3>1, <3>2, <3>3
  <2> QED BY <2>1, <2>5
<1>3. S \in SUBSET (0 .. n) /\ 0 \in S
  BY <1>1
<1>4. n \in S
  <2> HIDE DEF S
  <2>8. \A k \in 0 .. n : k \in S
    BY <1>2, <1>3, UpTo
  <2>9. n \in 0 .. n
    OBVIOUS
  <2> QED BY <2>8, <2>9
<1> QED BY <1>1, <1>4 DEF SumTo, F, G

\* The sum of values that are all 0, or all 1.
LEMMA SumOfSame ==
  ASSUME NEW n \in Nat, NEW f, NEW d \in {0, 1}, f = [k \in 1 .. n |-> d]
  PROVE  SumTo(n, f) = IF d = 0 THEN 0 ELSE n
<1> DEFINE F == Sums(n, f)
           S == {k \in 0 .. n : F[k] = IF d = 0 THEN 0 ELSE k}
<1>1. F \in [0 .. n -> Int] /\ F[0] = 0 /\ \A k \in 1 .. n : F[k] = F[k - 1] + f[k]
  <2>1. f \in [1 .. n -> Int]
    OBVIOUS
  <2> QED BY <2>1, SumsAre
<1> HIDE DEF F
<1>2. ASSUME NEW k \in S, k < n PROVE k + 1 \in S
  <2>1. k \in 0 .. n /\ k + 1 \in 1 .. n /\ (k + 1) - 1 = k /\ f[k + 1] = d
    BY <1>2
  <2>2. F[k + 1] = F[k] + f[k + 1]
    BY <1>1, <2>1
  <2> QED BY <2>1, <2>2
<1>3. S \in SUBSET (0 .. n) /\ 0 \in S
  BY <1>1
<1>4. n \in S
  <2> HIDE DEF S
  <2>8. \A k \in 0 .. n : k \in S
    BY <1>2, <1>3, UpTo
  <2>9. n \in 0 .. n
    OBVIOUS
  <2> QED BY <2>8, <2>9
<1> QED BY <1>4 DEF SumTo, F

\* The sum of values that are 0 but for one.
LEMMA SumOfOne ==
  ASSUME NEW n \in Nat, NEW f \in [1 .. n -> Int],
         NEW j \in 1 .. n, \A k \in 1 .. n : k # j => f[k] = 0
  PROVE  SumTo(n, f) = f[j]
<1> DEFINE g == [k \in 1 .. n |-> 0]
<1>1. g \in [1 .. n -> Int] /\ g[j] = 0 /\ \A k \in 1 .. n : k # j => f[k] = g[k]
  OBVIOUS
<1>2. SumTo(n, g) = 0
  BY SumOfSame
<1> HIDE DEF g
<1>3. SumTo(n, f) \in Int /\ SumTo(n, f) + g[j] = SumTo(n, g) + f[j]
  BY <1>1, SumsDiffer
<1> QED BY <1>1, <1>2, <1>3

\* Values one after the other.
LEMMA SumSplits ==
  ASSUME NEW n \in Nat, NEW m \in Nat, NEW h \in [1 .. n + m -> Int],
         NEW f \in [1 .. n -> Int], NEW g \in [1 .. m -> Int],
         \A k \in 1 .. n : h[k] = f[k], \A k \in 1 .. m : h[n + k] = g[k]
  PROVE  /\ SumTo(n, f) \in Int /\ SumTo(m, g) \in Int
         /\ SumTo(n + m, h) = SumTo(n, f) + SumTo(m, g)
<1> DEFINE F == Sums(n, f)
           G == Sums(m, g)
           H == Sums(n + m, h)
           S == {k \in 0 .. n : H[k] = F[k]}
           T == {k \in 0 .. m : H[n + k] = F[n] + G[k]}
<1>0. n + m \in Nat
  OBVIOUS
<1>1. /\ F \in [0 .. n -> Int] /\ F[0] = 0 /\ \A k \in 1 .. n : F[k] = F[k - 1] + f[k]
      /\ G \in [0 .. m -> Int] /\ G[0] = 0 /\ \A k \in 1 .. m : G[k] = G[k - 1] + g[k]
      /\ H \in [0 .. n + m -> Int] /\ H[0] = 0
      /\ \A k \in 1 .. n + m : H[k] = H[k - 1] + h[k]
  BY <1>0, SumsAre
<1> HIDE DEF F, G, H
<1>2. n \in S
  <2>1. ASSUME NEW k \in S, k < n PROVE k + 1 \in S
    <3>1. k \in 0 .. n /\ k + 1 \in 1 .. n /\ k + 1 \in 1 .. n + m /\ (k + 1) - 1 = k
      BY <2>1
    <3>2. F[k + 1] = F[k] + f[k + 1] /\ H[k + 1] = H[k] + h[k + 1] /\ h[k + 1] = f[k + 1]
      BY <1>1, <3>1
    <3> QED BY <3>1, <3>2
  <2>2. S \in SUBSET (0 .. n) /\ 0 \in S
    BY <1>1
  <2> HIDE DEF S
  <2>8. \A k \in 0 .. n : k \in S
    BY <2>1, <2>2, UpTo
  <2>9. n \in 0 .. n
    OBVIOUS
  <2> QED BY <2>8, <2>9
<1>3. H[n] = F[n]
  BY <1>2
<1> HIDE DEF S
<1>4. m \in T
  <2>1. ASSUME NEW k \in T, k < m PROVE k + 1 \in T
    <3>1. /\ k \in 0 .. m /\ k + 1 \in 1 .. m /\ (k + 1) - 1 = k
          /\ n + (k + 1) \in 1 .. n + m /\ (n + (k + 1)) - 1 = n + k
      BY <2>1
    <3>2. /\ G[k + 1] = G[k] + g[k + 1] /\ H[n + (k + 1)] = H[n + k] + h[n + (k + 1)]
          /\ h[n + (k + 1)] = g[k + 1]
      BY <1>1, <3>1
    <3>3. H[n + k] = F[n] + G[k] /\ F[n] \in Int /\ G[k] \in Int /\ g[k + 1] \in Int
      BY <1>1, <3>1
    <3> QED BY <3>1, <3>2, <3>3
  <2>2. T \in SUBSET (0 .. m) /\ 0 \in T
    <3>1. F[n] \in Int
      BY <1>1
    <3> QED BY <1>1, <1>3, <3>1
  <2> HIDE DEF T
  <2>8. \A k \in 0 .. m : k \in T
    BY <2>1, <2>2, UpTo
  <2>9. m \in 0 .. m
    OBVIOUS
  <2> QED BY <2>8, <2>9
<1>5. F[n] \in Int /\ G[m] \in Int /\ H[n + m] = F[n] + G[m]
  BY <1>1, <1>4
<1> QED BY <1>5 DEF SumTo, F, G, H

\* A sum of differences.
LEMMA SumTelescopes ==
  ASSUME NEW n \in Nat, NEW f \in [1 .. n -> Int], NEW x \in [0 .. n -> Int],
         \A k \in 1 .. n : f[k] = x[k - 1] - x[k]
  PROVE  SumTo(n, f) = x[0] - x[n]
<1> DEFINE F == Sums(n, f)
           S == {k \in 0 .. n : F[k] = x[0] - x[k]}
<1>1. F \in [0 .. n -> Int] /\ F[0] = 0 /\ \A k \in 1 .. n : F[k] = F[k - 1] + f[k]
  BY SumsAre
<1> HIDE DEF F
<1>2. ASSUME NEW k \in S, k < n PROVE k + 1 \in S
  <2>1. /\ k \in 0 .. n /\ k + 1 \in 1 .. n /\ k + 1 \in 0 .. n /\ (k + 1) - 1 = k
        /\ x[0] \in Int /\ x[k] \in Int /\ x[k + 1] \in Int
    BY <1>2
  <2>2. F[k + 1] = F[k] + f[k + 1] /\ f[k + 1] = x[k] - x[k + 1]
    BY <1>1, <2>1
  <2> QED BY <2>1, <2>2
<1>3. S \in SUBSET (0 .. n) /\ 0 \in S
  <2>1. x[0] \in Int
    OBVIOUS
  <2> QED BY <1>1, <2>1
<1>4. n \in S
  <2> HIDE DEF S
  <2>8. \A k \in 0 .. n : k \in S
    BY <1>2, <1>3, UpTo
  <2>9. n \in 0 .. n
    OBVIOUS
  <2> QED BY <2>8, <2>9
<1> QED BY <1>4 DEF SumTo, F

\* One more value.
LEMMA SumGrows ==
  ASSUME NEW n \in Nat, NEW f \in [1 .. n -> Int], NEW h \in [1 .. n + 1 -> Int],
         \A k \in 1 .. n : h[k] = f[k]
  PROVE  SumTo(n, f) \in Int /\ SumTo(n + 1, h) = SumTo(n, f) + h[n + 1]
<1> DEFINE g == [k \in 1 .. 1 |-> h[n + 1]]
<1>1. g \in [1 .. 1 -> Int] /\ \A k \in 1 .. 1 : h[n + k] = g[k] /\ k = 1
  OBVIOUS
<1>2. g[1] = h[n + 1] /\ 1 \in 1 .. 1 /\ 1 \in Nat
  OBVIOUS
<1> HIDE DEF g
<1>3. \A k \in 1 .. 1 : k # 1 => g[k] = 0
  OBVIOUS
<1>4. SumTo(1, g) = g[1]
  BY <1>1, <1>2, <1>3, SumOfOne
<1>5. SumTo(n, f) \in Int /\ SumTo(n + 1, h) = SumTo(n, f) + SumTo(1, g)
  <2>1. g \in [1 .. 1 -> Int] /\ \A k \in 1 .. 1 : h[n + k] = g[k]
    BY <1>1
  <2>2. n \in Nat /\ f \in [1 .. n -> Int] /\ h \in [1 .. n + 1 -> Int]
        /\ \A k \in 1 .. n : h[k] = f[k]
    OBVIOUS
  <2> QED BY ONLY 1 \in Nat, <2>1, <2>2, SumSplits, ZenonT(40)
<1> QED BY <1>2, <1>4, <1>5

\* A sum of sums, and of multiples.
LEMMA SumOfSums ==
  ASSUME NEW n \in Nat, NEW f \in [1 .. n -> Int], NEW g \in [1 .. n -> Int],
         NEW h \in [1 .. n -> Int], \A k \in 1 .. n : h[k] = f[k] + g[k]
  PROVE  SumTo(n, h) = SumTo(n, f) + SumTo(n, g)
<1> DEFINE F == Sums(n, f)
           G == Sums(n, g)
           H == Sums(n, h)
           S == {k \in 0 .. n : H[k] = F[k] + G[k]}
<1>1. /\ F \in [0 .. n -> Int] /\ F[0] = 0 /\ \A k \in 1 .. n : F[k] = F[k - 1] + f[k]
      /\ G \in [0 .. n -> Int] /\ G[0] = 0 /\ \A k \in 1 .. n : G[k] = G[k - 1] + g[k]
      /\ H \in [0 .. n -> Int] /\ H[0] = 0 /\ \A k \in 1 .. n : H[k] = H[k - 1] + h[k]
  BY SumsAre
<1> HIDE DEF F, G, H
<1>2. ASSUME NEW k \in S, k < n PROVE k + 1 \in S
  <2>1. /\ k \in 0 .. n /\ k + 1 \in 1 .. n /\ k + 1 \in 0 .. n /\ (k + 1) - 1 = k
        /\ H[k] = F[k] + G[k]
    BY <1>2
  <2>2. /\ F[k + 1] = F[k] + f[k + 1] /\ G[k + 1] = G[k] + g[k + 1]
        /\ H[k + 1] = H[k] + h[k + 1] /\ h[k + 1] = f[k + 1] + g[k + 1]
    BY <1>1, <2>1
  <2>3. F[k] \in Int /\ G[k] \in Int /\ f[k + 1] \in Int /\ g[k + 1] \in Int
    BY <1>1, <2>1
  <2> QED BY <2>1, <2>2, <2>3
<1>3. S \in SUBSET (0 .. n) /\ 0 \in S
  BY <1>1
<1>4. n \in S
  <2> HIDE DEF S
  <2>1. \A k \in 0 .. n : k \in S
    BY <1>2, <1>3, UpTo
  <2> QED BY <2>1
<1> QED BY <1>4 DEF SumTo, F, G, H

LEMMA SumOfMultiples ==
  ASSUME NEW n \in Nat, NEW f \in [1 .. n -> Int], NEW h \in [1 .. n -> Int],
         NEW c \in Int, \A k \in 1 .. n : h[k] = c * f[k]
  PROVE  SumTo(n, h) = c * SumTo(n, f) /\ SumTo(n, f) \in Int
<1> DEFINE F == Sums(n, f)
           H == Sums(n, h)
           S == {k \in 0 .. n : H[k] = c * F[k]}
<1>1. /\ F \in [0 .. n -> Int] /\ F[0] = 0 /\ \A k \in 1 .. n : F[k] = F[k - 1] + f[k]
      /\ H \in [0 .. n -> Int] /\ H[0] = 0 /\ \A k \in 1 .. n : H[k] = H[k - 1] + h[k]
  BY SumsAre
<1> HIDE DEF F, H
<1>2. ASSUME NEW k \in S, k < n PROVE k + 1 \in S
  <2>1. /\ k \in 0 .. n /\ k + 1 \in 1 .. n /\ k + 1 \in 0 .. n /\ (k + 1) - 1 = k
        /\ H[k] = c * F[k]
    BY <1>2
  <2>2. /\ F[k + 1] = F[k] + f[k + 1] /\ H[k + 1] = c * F[k] + c * f[k + 1]
    BY <1>1, <2>1
  <2>3. F[k] \in Int /\ f[k + 1] \in Int
    BY <1>1, <2>1
  <2>4. c * (F[k] + f[k + 1]) = c * F[k] + c * f[k + 1]
    BY <2>3
  <2> QED BY <2>1, <2>2, <2>4
<1>3. S \in SUBSET (0 .. n) /\ 0 \in S
  BY <1>1
<1>4. n \in S
  <2> HIDE DEF S
  <2>1. \A k \in 0 .. n : k \in S
    BY <1>2, <1>3, UpTo
  <2> QED BY <2>1
<1>5. n \in 0 .. n
  OBVIOUS
<1> QED BY <1>1, <1>4, <1>5 DEF SumTo, F, H
=============================================================================
