---------------------- MODULE MeteredSimulator_proofs ----------------------
(***************************************************************************)
(* Proofs about MeteredSimulator: the report accounts for every request,   *)
(* its gaps add up, its ratios stay ratios, and its peaks are those that   *)
(* the timestamps of the requests tell of.                                 *)
(***************************************************************************)
EXTENDS MeteredSimulator, ServingSimulator_proofs

-----------------------------------------------------------------------------
(* The measurements do not influence the loop *)

LEMMA MeteredStep == [MeteredNext]_meteredVars => [SimNext]_simVars
BY DEF MeteredNext, meteredVars, SimNext, MeteredArrive, MeteredRejectImpossible,
       MeteredSchedule, MeteredDecode, MeteredRejectGrowth, MeteredEnd, Unmetered

\* So the invariants of the loop hold of the metered loop.
LEMMA MeteredKeepsInvs ==
  MeteredSpec => [](LoopInv /\ LossInv /\ ReleasesAreOwed /\ NothingIsHeld)
<1>1. MeteredInit => LoopInv /\ LossInv /\ ReleasesAreOwed /\ NothingIsHeld
  <2>1. MeteredInit => SimInit
    BY DEF MeteredInit
  <2>2. SimInit => Init /\ ReleasesAreOwed /\ NothingIsHeld
    BY DEF SimInit, Init, ReleasesAreOwed, NothingIsHeld
  <2> QED BY <2>1, <2>2, InitLoop, InitLoss
<1>2. ASSUME LoopInv, LossInv, ReleasesAreOwed, NothingIsHeld, [MeteredNext]_meteredVars
      PROVE  LoopInv' /\ LossInv' /\ ReleasesAreOwed' /\ NothingIsHeld'
  <2>1. [SimNext]_simVars /\ [Next]_vars
    BY <1>2, MeteredStep, LoopCallsCache
  <2>2. ReservationInv
    BY <1>2 DEF LossInv
  <2> QED BY <1>2, <2>1, <2>2, NextLoop, NextLoss, NextOwes, NextDrains
<1> QED BY <1>1, <1>2, PTL DEF MeteredSpec

-----------------------------------------------------------------------------
(* What the report counts *)

LEMMA HeadIsForARequest ==
  ASSUME LoopInv, work # <<>> PROVE Head(work).request \in Request
<1>1. work \in Seq(Items)
  BY DEF LoopInv, SimTypeOK
<1>2. Head(work) \in Items
  BY <1>1
<1> QED BY <1>2 DEF Items

LEMMA InitReport == MeteredInit => ReportInv
BY DEF MeteredInit, ReportInv, SimInit, Init, NoTime

LEMMA NextReport ==
  ASSUME LoopInv, ReportInv, [MeteredNext]_meteredVars
  PROVE  ReportInv'
<1>1. TypeOK /\ admittedAt \in [Request -> Nat \cup {NoTime}] /\ NoTime \notin Nat
      /\ now \in Nat
  BY DEF LoopInv, SimTypeOK, NoTime
<1>2. status \in [Request -> Phases] /\ stored \in [Request -> Nat]
  BY <1>1 DEF TypeOK
<1>3. ASSUME UNCHANGED <<reason, status, admittedAt, stored>> PROVE ReportInv'
  BY <1>3 DEF ReportInv
<1>4. CASE MeteredArrive
  <2>1. /\ reason' = [r \in Request |-> IF status'[r] # status[r] THEN "waited" ELSE reason[r]]
        /\ UNCHANGED admittedAt
    BY <1>4 DEF MeteredArrive, Arrive, stampVars
  <2>2. CASE UNCHANGED vars
    <3>1. UNCHANGED <<status, stored>> /\ reason' = reason
      BY <2>1, <2>2 DEF vars, requestVars, ReportInv
    <3> QED BY <1>3, <2>1, <3>1
  <2>3. ASSUME NEW S, Expire(S) PROVE ReportInv'
    <3>1. /\ UNCHANGED stored /\ \A r \in S : status[r] = "Queued"
          /\ status' = [r \in Request |-> IF r \in S THEN "Rejected" ELSE status[r]]
      BY <2>3 DEF Expire
    <3>2. \A r \in Request : reason'[r] = IF r \in S THEN "waited" ELSE reason[r]
      BY <2>1, <3>1
    <3>3. reason' \in [Request -> {"none", "capacity", "growth", "waited"}]
      BY <2>1 DEF ReportInv
    <3> QED BY <2>1, <3>1, <3>2, <3>3 DEF ReportInv
  <2> QED BY <1>4, <2>2, <2>3 DEF MeteredArrive, Arrive
<1>5. CASE MeteredRejectImpossible
  <2>1. PICK r \in Request : r = FirstWaiting
    BY <1>5, FirstWaitingIs DEF MeteredRejectImpossible, RejectImpossible, MayAdmit
  <2>2. /\ status[r] = "Queued" /\ status' = [status EXCEPT ![r] = "Rejected"]
        /\ reason' = [reason EXCEPT ![r] = "capacity"] /\ UNCHANGED <<stored, admittedAt>>
    BY <1>5, <2>1 DEF MeteredRejectImpossible, RejectImpossible, AdmitImpossible, stampVars
  <2> QED BY <1>2, <2>2 DEF ReportInv
<1>6. CASE MeteredSchedule
  BY <1>3, <1>6 DEF MeteredSchedule, Schedule, vars, requestVars, stampVars, requestMeters
<1>7. CASE MeteredDecode
  <2>1. PICK r \in Request : r = Head(work).request
    BY <1>7, HeadIsForARequest DEF MeteredDecode, CompleteDecode
  <2>2. /\ status[r] = "Active" /\ status' \in {[status EXCEPT ![r] = "Finished"], status}
        /\ \E n : stored' = [stored EXCEPT ![r] = n]
        /\ UNCHANGED <<reason, admittedAt>>
    BY <1>7, <2>1 DEF AppendDecode, IsDecoding, AppendTokens, MeteredDecode, CompleteDecode
  <2> QED BY <1>2, <2>2 DEF ReportInv
<1>8. CASE MeteredRejectGrowth
  <2>1. PICK r : r = Head(work).request
    OBVIOUS
  <2>2. /\ r \in Request /\ status[r] = "Active" /\ status' = [status EXCEPT ![r] = "Rejected"]
        /\ reason' = [reason EXCEPT ![r] = "growth"] /\ UNCHANGED <<stored, admittedAt>>
    BY <1>8, <2>1, HeadIsForARequest DEF MeteredRejectGrowth, RejectGrowth, GrowthExhausted, IsDecoding
  <2> QED BY <1>2, <2>2 DEF ReportInv
<1>9. CASE MeteredEnd
  BY <1>3, <1>9 DEF MeteredEnd, HoldTheLine, AdmissionDone, EndIteration,
    AdmitTemporarilyUnavailable, vars, requestVars, stampVars, requestMeters
<1>10. CASE Unmetered
  <2>1. CASE AdmitFirst
    <3>1. PICK r \in Request : \E hits : r = FirstWaiting /\ Admit(r, hits)
      BY <2>1, FirstWaitingIs DEF AdmitFirst, MayAdmit
    <3>2. /\ status[r] = "Queued" /\ status' = [status EXCEPT ![r] = "Active"]
          /\ \E n : stored' = [stored EXCEPT ![r] = n]
          /\ admittedAt' = [admittedAt EXCEPT ![r] = now] /\ reason' = reason
      BY <1>10, <2>1, <3>1 DEF AdmitFirst, Admit, Unmetered, meterVars, requestMeters
    <3> QED BY <1>1, <1>2, <3>2 DEF ReportInv
  <2>2. CASE CompletePrefill
    <3>1. PICK r \in Request : \E n : AppendPrefill(r, n)
      BY <2>2, HeadIsForARequest DEF CompletePrefill
    <3>2. /\ status[r] = "Active" /\ UNCHANGED <<status, reason, admittedAt>>
          /\ \E n : stored' = [stored EXCEPT ![r] = n]
      BY <1>10, <2>2, <3>1 DEF CompletePrefill, AppendPrefill, IsPrefilling, AppendTokens,
         Unmetered, meterVars, requestMeters, stampVars
    <3> QED BY <1>2, <3>2 DEF ReportInv
  <2>3. CASE FinishItem \/ Done
    BY <1>3, <1>10, <2>3 DEF FinishItem, Done, CacheRefresh, CacheInsert, Release,
       Unmetered, meterVars, requestMeters, stampVars, simVars, vars, requestVars
  <2> QED BY <1>10, <2>1, <2>2, <2>3 DEF Unmetered
<1>11. CASE UNCHANGED meteredVars
  BY <1>3, <1>11 DEF meteredVars, meterVars, requestMeters, simVars, vars, requestVars, stampVars
<1> QED BY <1>4, <1>5, <1>6, <1>7, <1>8, <1>9, <1>10, <1>11 DEF MeteredNext

\* The report accounts for every request exactly once, with its reason, and only
\* those that were admitted have generated tokens (metrics.cpp:153-189).
THEOREM ReportAccountsForAll == MeteredSpec => []RequestsAreAccountedFor
<1>1. ASSUME LoopInv, NothingIsHeld, ReportInv PROVE RequestsAreAccountedFor
  <2> SUFFICES ASSUME pc = "done" PROVE
        /\ Request \ Completed =
             RejectedFor("capacity") \cup RejectedFor("growth") \cup RejectedFor("waited")
        /\ AdmittedRequests = Completed \cup RejectedFor("growth")
        /\ \A r \in Request \ AdmittedRequests : Generated(r) = 0
    BY DEF RequestsAreAccountedFor
  <2>1. \A r \in Request : status[r] \in {"Finished", "Rejected"}
    BY <1>1 DEF NothingIsHeld, AllTerminal
  <2>2. \A r \in Request : admittedAt[r] = NoTime => Generated(r) = 0
    <3> SUFFICES ASSUME NEW r \in Request, admittedAt[r] = NoTime PROVE Generated(r) = 0
      OBVIOUS
    <3>1. stored[r] = 0
      BY <1>1 DEF ReportInv
    <3>2. Len(prompt[r]) \in Nat
      BY <1>1, BlockCounts DEF LoopInv, SimTypeOK
    <3>3. Prefetched(r) = 0
      BY <3>1, <3>2 DEF Prefetched, Least
    <3> QED BY <3>1, <3>3 DEF Generated
  <2> QED BY <1>1, <2>1, <2>2 DEF ReportInv, Completed, RejectedFor, AdmittedRequests
<1>2. LoopInv /\ ReportInv /\ [MeteredNext]_meteredVars => ReportInv'
  BY NextReport
<1> QED BY <1>1, <1>2, InitReport, MeteredKeepsInvs, PTL DEF MeteredSpec

-----------------------------------------------------------------------------
(* Bags of gaps *)

\* The largest value of a bag of bounded values is one that bounds them.
LEMMA LargestIs ==
  ASSUME NEW B, NEW n \in Nat, IsABag(B), DOMAIN B \subseteq 0 .. n
  PROVE  Largest(B) \in 0 .. n /\ \A v \in DOMAIN B : v <= Largest(B)
<1>1. CASE B = EmptyBag
  <2>1. DOMAIN B = {}
    BY <1>1 DEF EmptyBag, SetToBag
  <2> QED BY <1>1, <2>1 DEF Largest
<1>2. CASE B # EmptyBag
  <2>1. DOMAIN B # {}
    BY <1>2 DEF EmptyBag, SetToBag, IsABag
  <2>2. DOMAIN B \in SUBSET Nat /\ \A v \in DOMAIN B : v <= n
    OBVIOUS
  <2>3. \E v \in DOMAIN B : \A w \in DOMAIN B : w <= v
    BY <2>1, <2>2, GreatestElement
  <2> QED BY <1>2, <2>3 DEF Largest
<1> QED BY <1>1, <1>2

\* A sum may go on over zeros.
LEMMA SumGoesOn ==
  ASSUME NEW m \in Nat, NEW n \in Nat, m <= n,
         NEW f \in [1 .. m -> Int], NEW h \in [1 .. n -> Int],
         \A k \in 1 .. m : h[k] = f[k], \A k \in m + 1 .. n : h[k] = 0
  PROVE  SumTo(n, h) = SumTo(m, f) /\ SumTo(n, h) \in Int
<1> DEFINE d == n - m
           g == [k \in 1 .. d |-> 0]
<1>1. d \in Nat /\ m + d = n /\ g \in [1 .. d -> Int]
  OBVIOUS
<1>2. \A k \in 1 .. d : h[m + k] = g[k]
  OBVIOUS
<1>3. SumTo(d, g) = 0
  BY <1>1, SumOfSame
<1> HIDE DEF d, g
<1>4. h \in [1 .. m + d -> Int]
  BY <1>1
<1>5. /\ SumTo(m, f) \in Int /\ SumTo(d, g) \in Int
      /\ SumTo(m + d, h) = SumTo(m, f) + SumTo(d, g)
  <2>1. m \in Nat /\ f \in [1 .. m -> Int] /\ \A k \in 1 .. m : h[k] = f[k]
    OBVIOUS
  <2> QED BY ONLY <1>1, <1>2, <1>4, <2>1, SumSplits, ZenonT(40)
<1>6. SumTo(m + d, h) = SumTo(n, h)
  BY <1>1
<1> QED BY <1>3, <1>5, <1>6

\* How often the values below n + 1 are in a bag, and what each contributes.
Copies(B, n) == [k \in 1 .. n + 1 |-> Occurs(k - 1, B)]
Shares(B, n) == [v \in 1 .. n |-> v * Occurs(v, B)]

LEMMA CopiesAre ==
  ASSUME NEW B, IsABag(B), NEW v
  PROVE  Occurs(v, B) \in Nat /\ (v \notin DOMAIN B => Occurs(v, B) = 0)
BY DEF IsABag, Occurs

LEMMA CopiesAndShares ==
  ASSUME NEW B, NEW n \in Nat, IsABag(B)
  PROVE  Copies(B, n) \in [1 .. n + 1 -> Int] /\ Shares(B, n) \in [1 .. n -> Int]
<1>1. \A v \in 1 .. n : v * Occurs(v, B) \in Int
  BY CopiesAre
<1> QED BY <1>1, CopiesAre DEF Copies, Shares

\* It does not matter how far the values are counted.
LEMMA CountedUpTo ==
  ASSUME NEW B, NEW n \in Nat, IsABag(B), DOMAIN B \subseteq 0 .. n
  PROVE  /\ Size(B) = SumTo(n + 1, Copies(B, n)) /\ Size(B) \in Int
         /\ Total(B) = SumTo(n, Shares(B, n)) /\ Total(B) \in Int
<1> DEFINE m == Largest(B)
<1>1. m \in Nat /\ m <= n /\ \A v \in DOMAIN B : v <= m
  BY LargestIs
<1>2. Size(B) = SumTo(m + 1, Copies(B, m)) /\ Total(B) = SumTo(m, Shares(B, m))
  BY DEF Size, Total, Copies, Shares
<1> HIDE DEF m
<1>3. /\ Copies(B, m) \in [1 .. m + 1 -> Int] /\ Shares(B, m) \in [1 .. m -> Int]
      /\ Copies(B, n) \in [1 .. n + 1 -> Int] /\ Shares(B, n) \in [1 .. n -> Int]
  BY <1>1, CopiesAndShares
<1>4. \A v \in m + 1 .. n : Occurs(v, B) = 0
  <2>1. \A v \in m + 1 .. n : v \notin DOMAIN B
    BY <1>1
  <2> QED BY <2>1, CopiesAre
<1>5. /\ \A k \in 1 .. m + 1 : Copies(B, n)[k] = Copies(B, m)[k]
      /\ \A k \in 1 .. m : Shares(B, n)[k] = Shares(B, m)[k]
  BY <1>1 DEF Copies, Shares
<1>6. \A k \in (m + 1) + 1 .. n + 1 : Copies(B, n)[k] = 0
  BY <1>1, <1>4 DEF Copies
<1>7. \A k \in m + 1 .. n : Shares(B, n)[k] = 0
  BY <1>1, <1>4 DEF Shares
<1>8. SumTo(n + 1, Copies(B, n)) = SumTo(m + 1, Copies(B, m)) /\ SumTo(n + 1, Copies(B, n)) \in Int
  <2>1. m + 1 \in Nat /\ n + 1 \in Nat /\ m + 1 <= n + 1
    BY <1>1
  <2> QED BY <2>1, <1>3, <1>5, <1>6, SumGoesOn
<1>9. SumTo(n, Shares(B, n)) = SumTo(m, Shares(B, m)) /\ SumTo(n, Shares(B, n)) \in Int
  BY <1>1, <1>3, <1>5, <1>7, SumGoesOn
<1> QED BY <1>2, <1>8, <1>9

\* An empty bag has no value.
LEMMA NoGaps ==
  /\ IsABag(EmptyBag) /\ DOMAIN EmptyBag = {}
  /\ Size(EmptyBag) = 0 /\ Total(EmptyBag) = 0
<1>1. IsABag(EmptyBag) /\ DOMAIN EmptyBag = {}
  BY DEF EmptyBag, SetToBag, IsABag
<1>2. /\ Size(EmptyBag) = SumTo(0 + 1, Copies(EmptyBag, 0))
      /\ Total(EmptyBag) = SumTo(0, Shares(EmptyBag, 0))
  BY <1>1, CountedUpTo
<1>3. /\ Copies(EmptyBag, 0) = [k \in 1 .. 0 + 1 |-> 0]
      /\ Shares(EmptyBag, 0) = [k \in 1 .. 0 |-> 0]
  BY <1>1, CopiesAre DEF Copies, Shares
<1>4. \A n \in Nat : SumTo(n, [k \in 1 .. n |-> 0]) = 0
  BY SumOfSame
<1>5. 0 + 1 \in Nat /\ 0 \in Nat
  OBVIOUS
<1> QED BY <1>1, <1>2, <1>3, <1>4, <1>5

\* One more value makes a bag larger by one, and its sum by the value.
LEMMA OneMoreGap ==
  ASSUME NEW B, NEW n \in Nat, IsABag(B), DOMAIN B \subseteq 0 .. n, NEW g \in 0 .. n
  PROVE  LET C == B (+) SetToBag({g})
         IN  /\ IsABag(C) /\ DOMAIN C \subseteq 0 .. n
             /\ Size(C) = Size(B) + 1 /\ Total(C) = Total(B) + g
             /\ Size(B) \in Int /\ Total(B) \in Int
<1> DEFINE C == B (+) SetToBag({g})
<1>1. C = [v \in DOMAIN B \cup {g} |->
             (IF v \in DOMAIN B THEN B[v] ELSE 0) + (IF v = g THEN 1 ELSE 0)]
  BY DEF (+), SetToBag
<1>2. IsABag(C) /\ DOMAIN C = DOMAIN B \cup {g}
  <2>1. \A v \in DOMAIN B : B[v] \in Nat /\ B[v] > 0
    BY DEF IsABag
  <2>2. \A v \in DOMAIN B \cup {g} :
          LET c == (IF v \in DOMAIN B THEN B[v] ELSE 0) + (IF v = g THEN 1 ELSE 0)
          IN  c \in Nat /\ c > 0
    BY <2>1
  <2>3. DOMAIN C = DOMAIN B \cup {g}
    BY <1>1, Zenon
  <2>4. \A v \in DOMAIN C : C[v] \in {k \in Nat : k > 0}
    BY <1>1, <2>2, <2>3
  <2> HIDE DEF C
  <2>5. C = [v \in DOMAIN C |-> C[v]]
    BY <1>1, <2>3
  <2> QED BY <2>3, <2>4, <2>5 DEF IsABag
<1>3. DOMAIN C \subseteq 0 .. n
  BY <1>2
<1>4. \A v : Occurs(v, C) = Occurs(v, B) + (IF v = g THEN 1 ELSE 0)
  BY <1>1 DEF Occurs, IsABag
<1> HIDE DEF C
<1>5. /\ Copies(B, n) \in [1 .. n + 1 -> Int] /\ Shares(B, n) \in [1 .. n -> Int]
      /\ Copies(C, n) \in [1 .. n + 1 -> Int] /\ Shares(C, n) \in [1 .. n -> Int]
  BY <1>2, CopiesAndShares
<1>6. Size(C) = Size(B) + 1 /\ Size(B) \in Int
  <2>1. \A k \in 1 .. n + 1 : k # g + 1 => Copies(C, n)[k] = Copies(B, n)[k]
    <3> TAKE k \in 1 .. n + 1
    <3> HAVE k # g + 1
    <3>1. k - 1 # g
      OBVIOUS
    <3>2. Occurs(k - 1, B) \in Nat
      BY CopiesAre
    <3> QED BY <1>4, <3>1, <3>2 DEF Copies
  <2>2. Copies(C, n)[g + 1] = Copies(B, n)[g + 1] + 1
    BY <1>4 DEF Copies
  <2>3. g + 1 \in 1 .. n + 1 /\ n + 1 \in Nat
    OBVIOUS
  <2>4. /\ SumTo(n + 1, Copies(C, n)) \in Int /\ SumTo(n + 1, Copies(B, n)) \in Int
        /\ SumTo(n + 1, Copies(C, n)) + Copies(B, n)[g + 1]
             = SumTo(n + 1, Copies(B, n)) + Copies(C, n)[g + 1]
    BY <1>5, <2>1, <2>3, SumsDiffer
  <2>5. Copies(B, n)[g + 1] \in Int
    BY <1>5, <2>3
  <2>6. Size(C) = SumTo(n + 1, Copies(C, n)) /\ Size(B) = SumTo(n + 1, Copies(B, n))
    BY <1>2, <1>3, CountedUpTo
  <2> QED BY <2>2, <2>4, <2>5, <2>6
<1>7. Total(C) = Total(B) + g /\ Total(B) \in Int
  <2>1. \A k \in 1 .. n : k # g => Shares(C, n)[k] = Shares(B, n)[k]
    <3> TAKE k \in 1 .. n
    <3> HAVE k # g
    <3>1. Occurs(k, B) \in Nat
      BY CopiesAre
    <3> QED BY <1>4, <3>1 DEF Shares
  <2>2. Total(C) = SumTo(n, Shares(C, n)) /\ Total(B) = SumTo(n, Shares(B, n)) /\ Total(B) \in Int
    BY <1>2, <1>3, CountedUpTo
  <2>3. CASE g = 0
    <3>1. Shares(C, n) = Shares(B, n)
      BY <2>1, <2>3 DEF Shares
    <3> QED BY <2>2, <2>3, <3>1
  <2>4. CASE g # 0
    <3>1. g \in 1 .. n
      BY <2>4
    <3>2. Occurs(g, B) \in Nat /\ Occurs(g, C) = Occurs(g, B) + 1
      BY <1>4, CopiesAre
    <3>3. Shares(C, n)[g] = Shares(B, n)[g] + g
      BY <3>1, <3>2 DEF Shares
    <3>4. /\ SumTo(n, Shares(C, n)) \in Int /\ SumTo(n, Shares(B, n)) \in Int
          /\ SumTo(n, Shares(C, n)) + Shares(B, n)[g] = SumTo(n, Shares(B, n)) + Shares(C, n)[g]
      BY <1>5, <2>1, <3>1, SumsDiffer
    <3>5. Shares(B, n)[g] \in Int
      BY <1>5, <3>1
    <3> QED BY <2>2, <3>3, <3>4, <3>5
  <2> QED BY <2>3, <2>4
<1> QED BY <1>2, <1>3, <1>6, <1>7 DEF C

-----------------------------------------------------------------------------
(* The gaps between tokens *)

LEMMA InitGaps == MeteredInit => GapsInv
<1> SUFFICES ASSUME MeteredInit PROVE GapsInv
  OBVIOUS
<1>1. /\ gaps = [r \in Request |-> EmptyBag] /\ lastToken = [r \in Request |-> NoTime]
      /\ firstToken = [r \in Request |-> NoTime] /\ now = 0
  BY DEF MeteredInit, SimInit
<1>2. \A r \in Request : gaps[r] = EmptyBag /\ lastToken[r] = NoTime /\ firstToken[r] = NoTime
  BY <1>1
<1>3. GapsTelescope
  BY <1>2 DEF GapsTelescope
<1> QED BY <1>1, <1>2, <1>3, NoGaps DEF GapsInv

\* A step that generates no token leaves the gaps in order.
LEMMA GapsStay ==
  ASSUME LoopInv, GapsInv, LoopInv', UNCHANGED <<gaps, lastToken, firstToken>>, now <= now',
         \A r \in Request :
           /\ firstToken[r] # NoTime => Generated(r)' = Generated(r)
           /\ status'[r] = "Finished" => status[r] = "Finished" /\ finishedAt'[r] = finishedAt[r]
  PROVE  GapsInv'
<1>1. now \in Nat /\ now' \in Nat /\ 0 .. now \subseteq 0 .. now'
  BY DEF LoopInv, SimTypeOK
<1>2. ASSUME NEW r \in Request
      PROVE  /\ IsABag(gaps'[r]) /\ DOMAIN gaps'[r] \subseteq 0 .. now'
             /\ firstToken'[r] # NoTime =>
                  lastToken'[r] # NoTime /\ firstToken'[r] <= lastToken'[r] /\ lastToken'[r] <= now'
  <2>1. IsABag(gaps[r]) /\ DOMAIN gaps[r] \subseteq 0 .. now
    BY DEF GapsInv
  <2>2. firstToken[r] # NoTime =>
          lastToken[r] # NoTime /\ firstToken[r] <= lastToken[r] /\ lastToken[r] <= now
    BY DEF GapsInv
  <2>3. lastToken[r] \in Int
    BY DEF GapsInv, NoTime
  <2> QED BY <1>1, <2>1, <2>2, <2>3
<1>3. GapsTelescope'
  BY DEF GapsInv, GapsTelescope
<1> QED BY <1>2, <1>3 DEF GapsInv

\* A token: the first starts the count, each later one adds the time since the last.
LEMMA DecodeGaps ==
  ASSUME LoopInv, LoopInv', GapsInv, MeteredDecode PROVE GapsInv'
<1>1. TypeOK /\ now \in Nat /\ now' = now
  BY DEF LoopInv, SimTypeOK, MeteredDecode, CompleteDecode
<1>2. PICK r \in Request : r = Head(work).request
  BY HeadIsForARequest DEF MeteredDecode, CompleteDecode
<1> DEFINE last == Generated(r) + 1 >= actualOutput[r]
<1>3. /\ AppendDecode(r, last)
      /\ firstToken' = [firstToken EXCEPT ![r] = IF @ = NoTime THEN now ELSE @]
      /\ finishedAt' = IF last THEN [finishedAt EXCEPT ![r] = now] ELSE finishedAt
  BY <1>2 DEF MeteredDecode, CompleteDecode
<1> HIDE DEF last
<1>4. /\ gaps' = GapsAfter(r) /\ lastToken' = [lastToken EXCEPT ![r] = now]
  BY <1>2 DEF MeteredDecode
<1>5. /\ stored' = [stored EXCEPT ![r] = @ + 1] /\ prompt' = prompt
      /\ stored[r] >= Len(prompt[r]) /\ status[r] = "Active"
      /\ status' = IF last THEN [status EXCEPT ![r] = "Finished"] ELSE status
  BY <1>3 DEF AppendDecode, AppendTokens, IsDecoding
<1>6. /\ stored \in [Request -> Nat] /\ status \in [Request -> Phases]
      /\ firstToken \in [Request -> Nat \cup {NoTime}]
      /\ finishedAt \in [Request -> Nat \cup {NoTime}]
      /\ lastToken \in [Request -> Nat \cup {NoTime}]
      /\ Len(prompt[r]) \in Nat /\ NoTime \notin Nat
  <2>1. SimTypeOK /\ Len(prompt[r]) \in Nat
    BY <1>1, BlockCounts DEF LoopInv
  <2> QED BY <2>1, SMTT(30) DEF SimTypeOK, TypeOK, GapsInv, NoTime
<1>7. Generated(r)' = Generated(r) + 1 /\ Generated(r) \in Nat
  BY <1>5, <1>6 DEF Generated, Prefetched, Least
<1>8. /\ firstToken[r] # NoTime <=> Generated(r) > 0
      /\ firstToken[r] <= now
  BY DEF LoopInv, TimestampsMatchPhases, StampsMatch, StampsAreInThePast
<1> DEFINE old == gaps[r]
           gap == now - lastToken[r]
<1>9. IsABag(old) /\ DOMAIN old \subseteq 0 .. now
  BY DEF GapsInv
<1>10. gaps = [q \in Request |-> gaps[q]]
  BY DEF GapsInv
<1> DEFINE InOrderAfter ==
             /\ gaps' = [q \in Request |-> gaps'[q]]
             /\ \A q \in Request : q # r => gaps'[q] = gaps[q]
             /\ IsABag(gaps'[r]) /\ DOMAIN gaps'[r] \subseteq 0 .. now
             /\ Size(gaps'[r]) = Generated(r)' - 1
             /\ Total(gaps'[r]) = now - firstToken'[r]
             /\ firstToken'[r] \in Nat /\ firstToken'[r] <= now
<1>11. ASSUME firstToken[r] = NoTime PROVE InOrderAfter
  <2>1. old = EmptyBag /\ lastToken[r] = NoTime
    BY <1>11 DEF GapsInv, GapsTelescope
  <2>2. gaps' = gaps
    BY <1>4, <2>1 DEF GapsAfter
  <2>3. Generated(r)' = 1
    BY <1>7, <1>8, <1>11
  <2>4. firstToken'[r] = now
    BY <1>3, <1>6, <1>11
  <2>5. Size(gaps'[r]) = 0 /\ Total(gaps'[r]) = 0
    BY <2>1, <2>2, NoGaps
  <2>6. Size(gaps'[r]) = Generated(r)' - 1 /\ Total(gaps'[r]) = now - firstToken'[r]
    BY <1>1, <2>3, <2>4, <2>5
  <2>7. IsABag(gaps'[r]) /\ DOMAIN gaps'[r] \subseteq 0 .. now
    BY <1>9, <2>2
  <2> QED BY <1>1, <1>10, <2>2, <2>4, <2>6, <2>7
<1>12. ASSUME firstToken[r] # NoTime PROVE InOrderAfter
  <2>1. /\ Size(old) = Generated(r) - 1 /\ Total(old) = lastToken[r] - firstToken[r]
        /\ lastToken[r] # NoTime /\ firstToken[r] <= lastToken[r] /\ lastToken[r] <= now
    BY <1>12 DEF GapsInv, GapsTelescope
  <2>2. gap \in 0 .. now /\ lastToken[r] \in Nat /\ firstToken[r] \in Nat
    BY <1>1, <1>6, <1>12, <2>1
  <2> DEFINE new == old (+) SetToBag({gap})
  <2>3. gaps' = [gaps EXCEPT ![r] = new]
    BY <1>4, <2>1 DEF GapsAfter
  <2>4. gaps'[r] = new /\ \A q \in Request : q # r => gaps'[q] = gaps[q]
    BY <1>10, <2>3
  <2> HIDE DEF gap
  <2>5. /\ IsABag(new) /\ DOMAIN new \subseteq 0 .. now
        /\ Size(new) = Size(old) + 1 /\ Total(new) = Total(old) + gap
    BY <1>1, <1>9, <2>2, OneMoreGap
  <2> HIDE DEF new, old
  <2>6. firstToken'[r] = firstToken[r]
    BY <1>3, <1>6, <1>12
  <2>7. Size(gaps'[r]) = Generated(r)' - 1 /\ Total(gaps'[r]) = now - firstToken'[r]
    BY <1>1, <1>7, <2>1, <2>2, <2>4, <2>5, <2>6 DEF gap
  <2>8. IsABag(gaps'[r]) /\ DOMAIN gaps'[r] \subseteq 0 .. now
    BY <2>4, <2>5
  <2>9. gaps' = [q \in Request |-> gaps'[q]]
    BY <1>10, <2>3
  <2>10. firstToken'[r] \in Nat /\ firstToken'[r] <= now
    BY <1>8, <2>2, <2>6
  <2> QED BY <2>4, <2>7, <2>8, <2>9, <2>10
<1>13. InOrderAfter
  BY <1>11, <1>12
<1> HIDE DEF InOrderAfter
<1>14. lastToken' \in [Request -> Nat \cup {NoTime}] /\ lastToken'[r] = now
  BY <1>1, <1>4, <1>6
<1>15. status'[r] = "Finished" => finishedAt'[r] = now
  BY <1>3, <1>5, <1>6
<1>16. ASSUME NEW q \in Request, q # r
       PROVE  /\ Generated(q)' = Generated(q) /\ lastToken'[q] = lastToken[q]
              /\ firstToken'[q] = firstToken[q] /\ finishedAt'[q] = finishedAt[q]
              /\ status'[q] = status[q] /\ gaps'[q] = gaps[q]
  <2>1. stored'[q] = stored[q] /\ prompt'[q] = prompt[q]
    BY <1>5, <1>6, <1>16
  <2>2. Generated(q)' = Generated(q)
    BY <2>1 DEF Generated, Prefetched
  <2> QED BY <1>3, <1>4, <1>5, <1>6, <1>13, <1>16, <2>2 DEF InOrderAfter
<1>17. GapsTelescope'
  <2> SUFFICES ASSUME NEW q \in Request
               PROVE  (IF firstToken[q] = NoTime THEN gaps[q] = EmptyBag /\ lastToken[q] = NoTime
                       ELSE /\ Size(gaps[q]) = Generated(q) - 1
                            /\ Total(gaps[q]) = lastToken[q] - firstToken[q]
                            /\ status[q] = "Finished" => lastToken[q] = finishedAt[q])'
    BY DEF GapsTelescope
  <2>1. CASE q = r
    BY <1>6, <1>13, <1>14, <1>15, <2>1 DEF InOrderAfter
  <2>2. CASE q # r
    BY <1>16, <2>2 DEF GapsInv, GapsTelescope
  <2> QED BY <2>1, <2>2
<1>18. ASSUME NEW q \in Request
       PROVE  /\ IsABag(gaps'[q]) /\ DOMAIN gaps'[q] \subseteq 0 .. now'
              /\ firstToken'[q] # NoTime =>
                   lastToken'[q] # NoTime /\ firstToken'[q] <= lastToken'[q] /\ lastToken'[q] <= now'
  <2>1. CASE q = r
    BY <1>1, <1>6, <1>13, <1>14, <2>1 DEF InOrderAfter
  <2>2. CASE q # r
    BY <1>1, <1>16, <2>2 DEF GapsInv
  <2> QED BY <2>1, <2>2
<1> QED BY <1>13, <1>14, <1>17, <1>18 DEF GapsInv, InOrderAfter

LEMMA NextGaps ==
  ASSUME LoopInv, LoopInv', GapsInv, [MeteredNext]_meteredVars
  PROVE  GapsInv'
<1>1. /\ stored \in [Request -> Nat] /\ status \in [Request -> Phases] /\ TypeOK
      /\ finishedAt \in [Request -> Nat \cup {NoTime}] /\ now \in Nat /\ now' \in Nat
  BY DEF LoopInv, SimTypeOK, TypeOK
<1>2. \A r \in Request :
        /\ firstToken[r] # NoTime <=> Generated(r) > 0
        /\ status[r] = "Queued" => stored[r] = 0
  BY DEF LoopInv, TimestampsMatchPhases, StampsMatch, StampsAreInThePast
<1>3. ASSUME UNCHANGED <<gaps, lastToken, firstToken, finishedAt, stored, prompt>>, now <= now',
             \A r \in Request : status'[r] = "Finished" => status[r] = "Finished"
      PROVE  GapsInv'
  <2>1. \A r \in Request : Generated(r)' = Generated(r)
    BY <1>3 DEF Generated, Prefetched
  <2> QED BY <1>3, <2>1, GapsStay
<1>4. CASE MeteredArrive
  <2>1. /\ UNCHANGED <<gaps, lastToken, firstToken, finishedAt>> /\ now' = TimeOfArrivals
    BY <1>4 DEF MeteredArrive, Arrive, stampVars
  <2>2. now <= now'
    BY <1>1, <2>1 DEF TimeOfArrivals, Greatest
  <2>3. CASE UNCHANGED vars
    BY <1>3, <2>1, <2>2, <2>3 DEF vars, requestVars
  <2>4. ASSUME NEW S, Expire(S) PROVE GapsInv'
    <3>1. /\ UNCHANGED <<stored, prompt>>
          /\ status' = [r \in Request |-> IF r \in S THEN "Rejected" ELSE status[r]]
      BY <2>4 DEF Expire
    <3> QED BY <1>3, <2>1, <2>2, <3>1
  <2> QED BY <1>4, <2>3, <2>4 DEF MeteredArrive, Arrive
<1>5. CASE MeteredRejectImpossible
  <2>1. PICK r : r = FirstWaiting
    OBVIOUS
  <2>2. /\ status' = [status EXCEPT ![r] = "Rejected"] /\ now' = now
        /\ UNCHANGED <<gaps, lastToken, firstToken, finishedAt, stored, prompt>>
    BY <1>5, <2>1 DEF MeteredRejectImpossible, RejectImpossible, AdmitImpossible, stampVars, loopVars
  <2>3. \A q \in Request : status'[q] = "Finished" => status[q] = "Finished"
    BY <1>1, <2>2
  <2> QED BY <1>1, <1>3, <2>2, <2>3
<1>6. CASE MeteredSchedule
  <2>1. /\ UNCHANGED <<gaps, lastToken, firstToken, finishedAt, stored, prompt, status>>
        /\ \E d \in Durations : now' = now + d
    BY <1>6 DEF MeteredSchedule, Schedule, vars, requestVars, stampVars, requestMeters
  <2>2. now <= now'
    BY <1>1, <2>1, TimesAssumption
  <2> QED BY <1>3, <2>1, <2>2
<1>7. CASE MeteredDecode
  BY <1>7, DecodeGaps
<1>8. CASE MeteredRejectGrowth
  <2>1. PICK r : r = Head(work).request
    OBVIOUS
  <2>2. /\ status' = [status EXCEPT ![r] = "Rejected"] /\ now' = now
        /\ finishedAt' = [finishedAt EXCEPT ![r] = now]
        /\ UNCHANGED <<gaps, lastToken, firstToken, stored, prompt>>
    BY <1>8, <2>1 DEF MeteredRejectGrowth, RejectGrowth, GrowthExhausted
  <2>3. \A q \in Request : Generated(q)' = Generated(q)
    BY <2>2 DEF Generated, Prefetched
  <2>4. ASSUME NEW q \in Request, status'[q] = "Finished"
        PROVE  status[q] = "Finished" /\ finishedAt'[q] = finishedAt[q]
    BY <1>1, <2>2, <2>4
  <2>5. now <= now'
    BY <1>1, <2>2
  <2> QED BY <2>2, <2>3, <2>4, <2>5, GapsStay
<1>9. CASE MeteredEnd
  <2>1. /\ UNCHANGED <<gaps, lastToken, firstToken, finishedAt, stored, prompt, status, now>>
    BY <1>9 DEF MeteredEnd, HoldTheLine, AdmissionDone, EndIteration,
      AdmitTemporarilyUnavailable, vars, requestVars, stampVars, requestMeters, loopVars
  <2>2. now <= now'
    BY <1>1, <2>1
  <2> QED BY <1>3, <2>1, <2>2
<1>10. CASE Unmetered
  <2>1. UNCHANGED <<gaps, lastToken>>
    BY <1>10 DEF Unmetered, meterVars, requestMeters
  <2>2. CASE AdmitFirst
    <3>1. PICK r \in Request : \E hits : r = FirstWaiting /\ Admit(r, hits)
      BY <2>2, FirstWaitingIs DEF AdmitFirst, MayAdmit
    <3>2. /\ status[r] = "Queued" /\ status' = [status EXCEPT ![r] = "Active"]
          /\ \E n : stored' = [stored EXCEPT ![r] = n]
          /\ prompt' = prompt /\ UNCHANGED <<firstToken, finishedAt, now>>
      BY <2>2, <3>1 DEF AdmitFirst, Admit, loopVars
    <3>3. Generated(r) = 0
      <4>1. stored[r] = 0 /\ Len(prompt[r]) \in Nat
        BY <1>1, <1>2, <3>2, BlockCounts
      <4>2. Prefetched(r) = 0
        BY <4>1 DEF Prefetched, Least
      <4> QED BY <4>1, <4>2 DEF Generated
    <3>4. ASSUME NEW q \in Request
          PROVE  /\ firstToken[q] # NoTime => Generated(q)' = Generated(q)
                 /\ status'[q] = "Finished" => status[q] = "Finished" /\ finishedAt'[q] = finishedAt[q]
      <4>1. CASE q = r
        BY <1>1, <1>2, <3>2, <3>3, <4>1
      <4>2. CASE q # r
        BY <1>1, <3>2, <4>2 DEF Generated, Prefetched
      <4> QED BY <4>1, <4>2
    <3>5. now <= now'
      BY <1>1, <3>2
    <3> QED BY <2>1, <3>2, <3>4, <3>5, GapsStay
  <2>3. CASE CompletePrefill
    <3>1. PICK r \in Request : \E n : AppendPrefill(r, n)
      BY <2>3, HeadIsForARequest DEF CompletePrefill
    <3>2. /\ stored[r] < Len(prompt[r]) /\ UNCHANGED <<status, prompt>>
          /\ \E n : stored' = [stored EXCEPT ![r] = n]
      BY <3>1 DEF AppendPrefill, IsPrefilling, AppendTokens
    <3>3. UNCHANGED <<firstToken, finishedAt, now>>
      BY <2>3 DEF CompletePrefill, stampVars
    <3>4. Generated(r) = 0
      <4>1. stored[r] \in Nat /\ Len(prompt[r]) \in Nat
        BY <1>1, BlockCounts
      <4>2. Prefetched(r) = stored[r]
        BY <3>2, <4>1 DEF Prefetched, Least
      <4> QED BY <4>1, <4>2 DEF Generated
    <3>5. ASSUME NEW q \in Request, firstToken[q] # NoTime PROVE Generated(q)' = Generated(q)
      <4>1. q # r
        BY <1>2, <3>4, <3>5
      <4> QED BY <3>2, <4>1 DEF Generated, Prefetched
    <3>6. now <= now'
      BY <1>1, <3>3
    <3> QED BY <2>1, <3>2, <3>3, <3>5, <3>6, GapsStay
  <2>4. CASE FinishItem \/ Done
    <3>1. UNCHANGED <<firstToken, finishedAt, stored, prompt, status, now>>
      BY <2>4 DEF FinishItem, Done, CacheRefresh, CacheInsert, Release,
        stampVars, simVars, vars, requestVars, loopVars
    <3>2. now <= now'
      BY <1>1, <3>1
    <3> QED BY <1>3, <2>1, <3>1, <3>2
  <2> QED BY <1>10, <2>2, <2>3, <2>4 DEF Unmetered
<1>11. CASE UNCHANGED meteredVars
  <2>1. UNCHANGED <<gaps, lastToken, firstToken, finishedAt, stored, prompt, status, now>>
    BY <1>11 DEF meteredVars, meterVars, requestMeters, simVars, vars, requestVars, stampVars, loopVars
  <2>2. now <= now'
    BY <1>1, <2>1
  <2> QED BY <1>3, <2>1, <2>2
<1> QED BY <1>4, <1>5, <1>6, <1>7, <1>8, <1>9, <1>10, <1>11 DEF MeteredNext

\* The gaps of every request, for all arrivals, durations and schedules, are one less
\* than its tokens and add up to the time from its first to its last token
\* (simulator.cpp:325-329): no token is timed twice or left out.
THEOREM GapsAddUp == MeteredSpec => []GapsTelescope
<1>1. GapsInv => GapsTelescope
  BY DEF GapsInv
<1>2. LoopInv /\ LoopInv' /\ GapsInv /\ [MeteredNext]_meteredVars => GapsInv'
  BY NextGaps
<1> QED BY <1>1, <1>2, InitGaps, MeteredKeepsInvs, PTL DEF MeteredSpec
-----------------------------------------------------------------------------
(* Utilization *)

LEMMA FactorialsAre ==
  \A n \in 0 .. TotalBlocks : Factorials[n] \in Nat /\ Factorials[n] > 0 /\ Factorials[n] >= n
<1> DEFINE T    == TotalBlocks
           P(m) == \E g \in [0 .. m -> Nat] :
                     g = [n \in 0 .. m |-> IF n = 0 THEN 1 ELSE n * g[n - 1]]
           S    == {m \in 0 .. T : P(m)}
           E(g) == g = [n \in 0 .. T |-> IF n = 0 THEN 1 ELSE n * g[n - 1]]
<1>0. T \in Nat
  BY SizesAssumption
<1>5. Factorials = CHOOSE h : E(h)
  BY DEF Factorials
<1> HIDE DEF T
<1>1. P(0)
  <2> DEFINE g == [n \in 0 .. 0 |-> 1]
  <2>1. g \in [0 .. 0 -> Nat] /\ g = [n \in 0 .. 0 |-> IF n = 0 THEN 1 ELSE n * g[n - 1]]
    OBVIOUS
  <2> HIDE DEF g
  <2> QED BY <2>1
<1>2. ASSUME NEW m \in 0 .. T, m < T, P(m) PROVE P(m + 1)
  <2>1. PICK g \in [0 .. m -> Nat] :
          g = [n \in 0 .. m |-> IF n = 0 THEN 1 ELSE n * g[n - 1]]
    BY <1>2
  <2> DEFINE v == (m + 1) * g[m]
             h == [n \in 0 .. m + 1 |-> IF n = m + 1 THEN v ELSE g[n]]
  <2>2. v \in Nat
    BY <1>2
  <2>3. v = (m + 1) * g[m]
    OBVIOUS
  <2> HIDE DEF v
  <2>4. h \in [0 .. m + 1 -> Nat]
    BY <2>2
  <2>5. ASSUME NEW n \in 0 .. m + 1
        PROVE  h[n] = IF n = 0 THEN 1 ELSE n * h[n - 1]
    <3>1. CASE n = m + 1
      <4>1. n # 0 /\ h[n] = v /\ n - 1 = m /\ h[m] = g[m]
        BY <3>1
      <4> QED BY <2>3, <3>1, <4>1
    <3>2. CASE n # m + 1
      <4>1. n \in 0 .. m /\ h[n] = g[n] /\ (n # 0 => h[n - 1] = g[n - 1])
        BY <3>2
      <4>2. g[n] = IF n = 0 THEN 1 ELSE n * g[n - 1]
        BY <2>1, <4>1
      <4> HIDE DEF h
      <4> QED BY <4>1, <4>2
    <3> QED BY <3>1, <3>2
  <2>6. h = [n \in 0 .. m + 1 |-> h[n]]
    OBVIOUS
  <2> HIDE DEF h
  <2>7. h = [n \in 0 .. m + 1 |-> IF n = 0 THEN 1 ELSE n * h[n - 1]]
    BY <2>5, <2>6
  <2> QED BY <2>4, <2>7
<1> HIDE DEF P
<1>3. P(T)
  <2>1. S \in SUBSET (0 .. T) /\ 0 \in S /\ \A m \in S : m < T => m + 1 \in S
    BY <1>0, <1>1, <1>2
  <2>2. \A m \in 0 .. T : m \in S
    BY <1>0, <2>1, UpTo
  <2> QED BY <1>0, <2>2
<1>4. PICK g \in [0 .. T -> Nat] : E(g)
  BY <1>3 DEF P
<1> HIDE DEF E
<1>6. E(Factorials)
  BY <1>4, <1>5
<1> DEFINE s == Factorials
<1>7. s = [n \in 0 .. T |-> IF n = 0 THEN 1 ELSE n * s[n - 1]]
  BY <1>6 DEF E
<1> HIDE DEF s
<1>8. s[0] = 1 /\ \A n \in 1 .. T : s[n] = n * s[n - 1]
  BY <1>0, <1>7
<1> DEFINE U == {n \in 0 .. T : s[n] \in Nat /\ s[n] > 0 /\ s[n] >= n}
<1>9. ASSUME NEW n \in U, n < T PROVE n + 1 \in U
  <2>1. n \in 0 .. T /\ s[n] \in Nat /\ s[n] > 0
    BY <1>9
  <2>2. s[n + 1] = (n + 1) * s[n]
    BY <1>0, <1>8, <1>9, <2>1
  <2>3. n + 1 \in Nat /\ n + 1 \in 0 .. T
    BY <1>0, <1>9, <2>1
  <2> DEFINE a == n + 1
             b == s[n]
  <2> HIDE DEF a, b
  <2>4. a * 1 <= a * b
    BY <2>1, <2>3, TimesMonotonic DEF a, b
  <2>5. a * b \in Nat /\ a * b >= a
    BY <2>1, <2>3, <2>4 DEF a, b
  <2> QED BY <2>2, <2>3, <2>5 DEF a, b
<1>10. U \in SUBSET (0 .. T) /\ 0 \in U
  BY <1>0, <1>8
<1>11. \A n \in 0 .. T : n \in U
  <2> HIDE DEF U
  <2> QED BY <1>0, <1>9, <1>10, UpTo
<1> QED BY <1>11 DEF s, T

\* The tokens in a set of pages are bounded by the number of pages.
LEMMA TokensAreBounded ==
  ASSUME NEW n \in Nat, NEW A \in SUBSET (0 .. n - 1), NEW low \in Nat, NEW high \in Nat,
         NEW f \in [1 .. n -> Int],
         \A k \in 1 .. n : IF k - 1 \in A THEN low <= f[k] /\ f[k] <= high ELSE f[k] = 0
  PROVE  /\ IsFiniteSet(A) /\ Cardinality(A) \in 0 .. n
         /\ SumTo(n, f) \in Int
         /\ low * Cardinality(A) <= SumTo(n, f)
         /\ SumTo(n, f) <= high * Cardinality(A)
<1> DEFINE F    == Sums(n, f)
           B(k) == {b \in A : b < k}
           Q(k) == /\ IsFiniteSet(B(k)) /\ Cardinality(B(k)) \in 0 .. k
                   /\ low * Cardinality(B(k)) <= F[k] /\ F[k] <= high * Cardinality(B(k))
           S    == {k \in 0 .. n : Q(k)}
<1>1. F \in [0 .. n -> Int] /\ F[0] = 0 /\ \A k \in 1 .. n : F[k] = F[k - 1] + f[k]
  BY SumsAre
<1>2. SumTo(n, f) = F[n]
  BY DEF SumTo
<1> HIDE DEF F
<1>0. \A b \in A : b \in Int /\ 0 <= b /\ b < n
  OBVIOUS
<1>3. Q(0)
  <2>1. \A b \in A : ~(b < 0)
    BY <1>0
  <2>2. B(0) = {}
    BY <2>1
  <2>3. IsFiniteSet(B(0)) /\ Cardinality(B(0)) = 0
    BY <2>2, FS_EmptySet
  <2> QED BY <1>1, <2>3
<1>4. ASSUME NEW k \in 0 .. n, k < n, Q(k) PROVE Q(k + 1)
  <2>1. /\ k + 1 \in 1 .. n /\ (k + 1) - 1 = k /\ F[k + 1] = F[k] + f[k + 1]
        /\ F[k] \in Int /\ f[k + 1] \in Int
    BY <1>1, <1>4
  <2> DEFINE c == Cardinality(B(k))
  <2>2. c \in Nat /\ c <= k /\ low * c <= F[k] /\ F[k] <= high * c /\ IsFiniteSet(B(k))
    BY <1>4
  <2>3. CASE k \in A
    <3>0. ~(k < k) /\ \A b \in A : b < k + 1 <=> b < k \/ b = k
      BY <1>0, <1>4
    <3>1. B(k + 1) = B(k) \cup {k} /\ k \notin B(k)
      BY <2>3, <3>0, Zenon
    <3> HIDE DEF B
    <3>2. IsFiniteSet(B(k + 1)) /\ Cardinality(B(k + 1)) = c + 1
      BY <2>2, <3>1, FS_AddElement
    <3>3. low <= f[k + 1] /\ f[k + 1] <= high
      BY <2>1, <2>3
    <3> HIDE DEF c
    <3>4. low * (c + 1) = low * c + low /\ high * (c + 1) = high * c + high
      BY <2>2
    <3>5. low * c \in Int /\ high * c \in Int
      BY <2>2
    <3>6. low * (c + 1) <= F[k + 1] /\ F[k + 1] <= high * (c + 1)
      BY <2>1, <2>2, <3>3, <3>4, <3>5
    <3>7. c + 1 \in 0 .. k + 1
      BY <1>4, <2>2
    <3> QED BY <3>2, <3>6, <3>7
  <2>4. CASE k \notin A
    <3>0. \A b \in A : b < k + 1 <=> b < k
      BY <1>0, <1>4, <2>4
    <3>1. B(k + 1) = B(k)
      BY <3>0
    <3>2. f[k + 1] = 0
      BY <2>1, <2>4
    <3> HIDE DEF B
    <3>3. F[k + 1] = F[k]
      BY <2>1, <3>2
    <3> QED BY <1>4, <2>2, <3>1, <3>3
  <2> QED BY <2>3, <2>4
<1> HIDE DEF Q
<1>5. Q(n)
  <2>1. S \in SUBSET (0 .. n) /\ 0 \in S /\ \A k \in S : k < n => k + 1 \in S
    BY <1>3, <1>4
  <2>2. \A k \in 0 .. n : k \in S
    BY <2>1, UpTo
  <2> QED BY <2>2
<1>6. B(n) = A
  BY <1>0
<1>7. F[n] \in Int
  BY <1>1
<1> QED BY <1>2, <1>5, <1>6, <1>7 DEF Q

\* The utilization is between nothing and all, and more than nothing when every page
\* that is allocated stores a token.
LEMMA UtilizationIs ==
  ASSUME TypeOK
  PROVE  /\ Full \in Nat \ {0} /\ Utilization \in Nat /\ Utilization <= Full
         /\ (PagesStoreTokens /\ AllocatedBlocks # {}) => Utilization > 0
<1> DEFINE A == AllocatedBlocks
           c == Cardinality(A)
           s == SumTo(TotalBlocks, TokensIn)
           d == c * BlockTokens
           q == Full \div d
<1>1. TotalBlocks \in Nat /\ TotalBlocks \in 0 .. TotalBlocks /\ BlockTokens \in Nat \ {0}
  BY SizesAssumption
<1>2. Full \in Nat \ {0} /\ BlockTokens * TotalBlocks <= Full
  <2> DEFINE x == Factorials[TotalBlocks]
  <2>1. x \in Nat /\ x > 0 /\ TotalBlocks <= x
    BY <1>1, FactorialsAre
  <2>2. Full = BlockTokens * x
    BY DEF Full
  <2> HIDE DEF x
  <2>3. BlockTokens * TotalBlocks <= BlockTokens * x /\ BlockTokens * 1 <= BlockTokens * x
    <3>1. TotalBlocks \in Int /\ x \in Int /\ 1 \in Int /\ 1 <= x
      BY <1>1, <2>1
    <3>2. BlockTokens * TotalBlocks <= BlockTokens * x
      BY <1>1, <2>1, <3>1, TimesMonotonic
    <3>3. BlockTokens * 1 <= BlockTokens * x
      BY <1>1, <3>1, TimesMonotonic
    <3> QED BY <3>2, <3>3
  <2>4. BlockTokens * x \in Nat
    BY <1>1, <2>1
  <2> QED BY <1>1, <2>2, <2>3, <2>4
<1>3. A \in SUBSET (0 .. TotalBlocks - 1) /\ A \subseteq Block
  BY DEF AllocatedBlocks, ActiveBlocks, CachedBlocks, Block
<1>4. \A b \in Block : used[b] \in 0 .. BlockTokens
  BY DEF TypeOK
<1>5. /\ TokensIn \in [1 .. TotalBlocks -> Int]
      /\ \A k \in 1 .. TotalBlocks :
           IF k - 1 \in A THEN TokensIn[k] = used[k - 1] ELSE TokensIn[k] = 0
  <2>1. \A b \in A : used[b] \in Int
    BY <1>1, <1>3, <1>4
  <2> QED BY <2>1 DEF TokensIn
<1>6. /\ IsFiniteSet(A) /\ c \in Nat /\ c <= TotalBlocks
      /\ s \in Int /\ 0 <= s /\ s <= BlockTokens * c
  <2>1. 0 \in Nat /\ BlockTokens \in Nat
    BY <1>1
  <2>2. \A k \in 1 .. TotalBlocks :
          IF k - 1 \in A THEN 0 <= TokensIn[k] /\ TokensIn[k] <= BlockTokens ELSE TokensIn[k] = 0
    BY <1>1, <1>3, <1>4, <1>5
  <2> HIDE DEF A
  <2>3. /\ IsFiniteSet(A) /\ Cardinality(A) \in 0 .. TotalBlocks
        /\ SumTo(TotalBlocks, TokensIn) \in Int
        /\ 0 * Cardinality(A) <= SumTo(TotalBlocks, TokensIn)
        /\ SumTo(TotalBlocks, TokensIn) <= BlockTokens * Cardinality(A)
    BY <1>1, <1>3, <1>5, <2>1, <2>2, TokensAreBounded
  <2>4. 0 * Cardinality(A) = 0
    BY <1>1, <2>3
  <2> QED BY <1>1, <2>3, <2>4
<1>7. PagesStoreTokens => c <= s
  <2> SUFFICES ASSUME PagesStoreTokens PROVE c <= s
    OBVIOUS
  <2>1. 1 \in Nat /\ BlockTokens \in Nat
    BY <1>1
  <2>2. \A k \in 1 .. TotalBlocks :
          IF k - 1 \in A THEN 1 <= TokensIn[k] /\ TokensIn[k] <= BlockTokens ELSE TokensIn[k] = 0
    BY <1>1, <1>3, <1>4, <1>5 DEF PagesStoreTokens
  <2> HIDE DEF A
  <2>3. 1 * Cardinality(A) <= SumTo(TotalBlocks, TokensIn)
    BY <1>1, <1>3, <1>5, <2>1, <2>2, TokensAreBounded
  <2> QED BY <1>6, <2>3
<1>8. A # {} => c > 0
  BY <1>6, FS_EmptySet
<1>9. Utilization = IF A = {} THEN 0 ELSE s * q
  BY DEF Utilization, NumAllocated
<1> HIDE DEF A, c, s
<1>10. ASSUME A # {}
       PROVE  s * q \in Nat /\ s * q <= Full /\ (s > 0 => s * q > 0)
  <2>1. d \in Nat \ {0} /\ d <= Full /\ s <= d
    <3>1. c \in Int /\ TotalBlocks \in Int
      BY <1>1, <1>6
    <3>2. BlockTokens * c <= BlockTokens * TotalBlocks
      BY <1>1, <1>6, <3>1, TimesMonotonic
    <3>3. d = BlockTokens * c /\ d > 0 /\ d \in Nat /\ BlockTokens * TotalBlocks \in Int
      BY <1>1, <1>6, <1>8, <1>10
    <3> QED BY <1>2, <1>6, <3>2, <3>3
  <2> HIDE DEF d
  <2>2. q \in Int /\ d * q <= Full /\ Full < d * q + d
    BY <1>2, <2>1, DivBounds
  <2> HIDE DEF q
  <2>3. q > 0
    <3>1. SUFFICES ASSUME q <= 0 PROVE FALSE
      BY <2>2
    <3>2. d * q <= d * 0
      BY <2>1, <2>2, <3>1, TimesMonotonic
    <3>3. d * 0 = 0 /\ d * q \in Int
      BY <2>1, <2>2
    <3> QED BY <1>2, <2>1, <2>2, <3>2, <3>3
  <2>4. q * 0 <= q * s /\ q * s <= q * d
    <3>1. q \in Nat \ {0} /\ 0 \in Int /\ d \in Int
      BY <2>1, <2>2, <2>3
    <3>2. q * 0 <= q * s
      BY <1>6, <3>1, TimesMonotonic
    <3>3. q * s <= q * d
      BY <1>6, <2>1, <3>1, TimesMonotonic
    <3> QED BY <3>2, <3>3
  <2>5. s > 0 => q * 1 <= q * s
    <3>1. q \in Nat \ {0} /\ 1 \in Int /\ (s > 0 => 1 <= s)
      BY <1>6, <2>2, <2>3
    <3> QED BY <1>6, <3>1, TimesMonotonic
  <2>6. q * 0 = 0 /\ q * 1 = q /\ q * s = s * q /\ q * d = d * q /\ s * q \in Int /\ d * q \in Int
    BY <1>6, <2>1, <2>2
  <2> QED BY <1>2, <2>2, <2>3, <2>4, <2>5, <2>6
<1>11. (PagesStoreTokens /\ A # {}) => s > 0
  BY <1>6, <1>7, <1>8
<1> QED BY <1>2, <1>9, <1>10, <1>11 DEF A

LEMMA SampleIs == TypeOK /\ PagesStoreTokens => SampleInv
<1> SUFFICES ASSUME TypeOK, PagesStoreTokens PROVE SampleInv
  OBVIOUS
<1>1. Full \in Nat \ {0} /\ Utilization \in Nat /\ Utilization <= Full
      /\ (AllocatedBlocks # {} => Utilization > 0)
  BY UtilizationIs
<1> QED BY <1>1 DEF SampleInv, Waste

-----------------------------------------------------------------------------
(* How long the loop was busy *)

LEMMA InitBusy == MeteredInit => BusyInv
<1> SUFFICES ASSUME MeteredInit PROVE BusyInv
  OBVIOUS
<1>1. busy = 0 /\ integral = 0 /\ TypeOK
  BY InitLoop DEF MeteredInit, LoopInv, SimTypeOK
<1>2. Full \in Nat
  BY <1>1, UtilizationIs
<1>3. SimulatedTime >= 0
  <2>1. arrival \in [Request -> Nat] /\ now \in Nat
    BY TimesAssumption DEF MeteredInit, SimInit
  <2>2. Request # {} => arrival[1] \in Nat
    BY <2>1, IndexAssumption, Requests
  <2> QED BY <2>1, <2>2 DEF SimulatedTime, Monus
<1> QED BY <1>1, <1>2, <1>3 DEF BusyInv

LEMMA MonusMonotonic ==
  ASSUME NEW a \in Int, NEW b \in Int, NEW c \in Int, a <= b
  PROVE  Monus(a, c) <= Monus(b, c) /\ Monus(a, c) \in Int /\ Monus(b, c) \in Int
BY DEF Monus

\* Time that passes while nobody is served is not busy.
LEMMA BusyStays ==
  ASSUME LoopInv, LoopInv', BusyInv, UNCHANGED <<busy, integral, arrival>>, now <= now'
  PROVE  BusyInv'
<1> DEFINE start == IF Request = {} THEN 0 ELSE arrival[1]
<1>1. now \in Nat /\ now' \in Nat /\ start \in Nat
  <2>1. now \in Nat /\ now' \in Nat /\ arrival \in [Request -> Nat]
    BY TimesAssumption DEF LoopInv, SimTypeOK
  <2>2. Request # {} => 1 \in Request
    BY Requests, IndexAssumption
  <2> QED BY <2>1, <2>2
<1>2. SimulatedTime = Monus(now, start) /\ SimulatedTime' = Monus(now', start)
  BY DEF SimulatedTime
<1> HIDE DEF start
<1>3. Monus(now, start) <= Monus(now', start) /\ Monus(now, start) \in Int /\ Monus(now', start) \in Int
  <2>1. now \in Int /\ now' \in Int /\ start \in Int
    BY <1>1
  <2>2. now <= now'
    OBVIOUS
  <2>3. PICK x \in Int, y \in Int, z \in Int : x = now /\ y = now' /\ z = start
    BY <2>1
  <2>4. Monus(x, z) <= Monus(y, z) /\ Monus(x, z) \in Int /\ Monus(y, z) \in Int
    BY <2>2, <2>3, MonusMonotonic
  <2> QED BY <2>3, <2>4
<1>4. Full' = Full
  BY DEF Full, Factorials
<1> QED BY <1>2, <1>3, <1>4 DEF BusyInv

\* An iteration takes as long as the simulated time moves: there is somebody who is
\* active, and they have arrived.
LEMMA ScheduleIsBusy ==
  ASSUME LoopInv, BusyInv, MeteredSchedule
  PROVE  BusyInv'
<1> DEFINE start == IF Request = {} THEN 0 ELSE arrival[1]
           u     == Utilization
<1>1. /\ TypeOK /\ now \in Nat /\ arrival \in [Request -> Nat]
      /\ ActiveRequests # {} /\ UNCHANGED arrival
  BY TimesAssumption DEF LoopInv, SimTypeOK, LoopIsInOrder, MeteredSchedule, Schedule, workloadVars
<1>2. PICK d \in Nat : now' = now + d
  BY TimesAssumption DEF MeteredSchedule, Schedule
<1>3. start \in Nat /\ start <= now
  <2>1. PICK r \in Request : status[r] = "Active"
    BY <1>1 DEF ActiveRequests
  <2>2. arrival[r] <= now
    BY <2>1 DEF LoopInv, ArrivalsAreInOrder
  <2>3. r \in Nat /\ 1 \in Request /\ (r = 1 \/ 1 < r)
    BY Requests, IndexAssumption
  <2>4. arrival[1] <= arrival[r]
    BY <1>1, <2>3 DEF LoopInv, ArrivalsAreInOrder
  <2>5. arrival[1] \in Nat /\ arrival[r] \in Nat
    BY <1>1, <2>3
  <2> QED BY <1>1, <2>1, <2>2, <2>4, <2>5
<1>4. SimulatedTime = Monus(now, start) /\ SimulatedTime' = Monus(now', start)
  BY <1>1 DEF SimulatedTime
<1> HIDE DEF start
<1>5. /\ busy \in Nat /\ integral \in Nat /\ busy <= now - start /\ integral <= Full * busy
  BY <1>1, <1>3, <1>4 DEF BusyInv, Monus
<1>6. SimulatedTime' = (now + d) - start
  BY <1>1, <1>2, <1>3, <1>4 DEF Monus
<1>7. now' - now = d /\ busy' = busy + d /\ integral' = integral + u * d
  <2>1. busy' = busy + now' - now /\ integral' = integral + u * (now' - now)
    BY DEF MeteredSchedule
  <2>2. now' - now = d /\ busy + now' - now = busy + d
    BY <1>1, <1>2, <1>5
  <2> QED BY <2>1, <2>2
<1>8. Full \in Nat \ {0} /\ u \in Nat /\ u <= Full
  BY <1>1, UtilizationIs
<1>9. Full' = Full
  BY DEF Full, Factorials
<1> DEFINE full == Full
<1> HIDE DEF u, full
<1>10. u * d <= full * d /\ u * d \in Nat /\ full * d \in Nat /\ full * busy \in Nat
       /\ full * (busy + d) = full * busy + full * d
  <2>1. full \in Nat /\ u \in Nat /\ u <= full
    BY <1>8 DEF full
  <2>2. d = 0 \/ d * u <= d * full
    BY <2>1, TimesMonotonic
  <2>3. d * u = u * d /\ d * full = full * d /\ (d = 0 => u * d = 0 /\ full * d = 0)
    BY <2>1
  <2>4. u * d \in Nat /\ full * d \in Nat /\ full * busy \in Nat
    BY <1>5, <2>1
  <2>5. full * (busy + d) = full * busy + full * d
    BY <1>5, <2>1
  <2> QED BY <2>2, <2>3, <2>4, <2>5
<1>11. integral' <= full * (busy + d) /\ integral' \in Nat
  <2>1. integral <= full * busy
    BY <1>5 DEF full
  <2> QED BY <1>5, <1>7, <1>10, <2>1
<1>12. busy' <= SimulatedTime' /\ busy' \in Nat
  BY <1>1, <1>3, <1>5, <1>6, <1>7
<1> QED BY <1>7, <1>9, <1>11, <1>12 DEF BusyInv, full

LEMMA NextBusy ==
  ASSUME LoopInv, LoopInv', BusyInv, [MeteredNext]_meteredVars
  PROVE  BusyInv'
<1>1. CASE MeteredSchedule
  BY <1>1, ScheduleIsBusy
<1>2. CASE (MeteredNext /\ ~MeteredSchedule) \/ UNCHANGED meteredVars
  <2>1. UNCHANGED <<busy, integral>>
    BY <1>2 DEF MeteredNext, MeteredArrive, MeteredRejectImpossible, MeteredDecode,
      MeteredRejectGrowth, MeteredEnd, Unmetered, meteredVars, meterVars, loopMeters
  <2>2. UNCHANGED arrival
    BY MeteredStep DEF SimNext, Arrive, RejectImpossible, AdmitFirst, HoldTheLine, AdmissionDone,
      Schedule, CompletePrefill, CompleteDecode, RejectGrowth, FinishItem, EndIteration, Done,
      simVars, workloadVars
  <2>3. now <= now'
    <3>1. now \in Nat
      BY DEF LoopInv, SimTypeOK
    <3>2. CASE Arrive
      <4>1. now' = TimeOfArrivals
        BY <3>2 DEF Arrive
      <4> QED BY <3>1, <4>1 DEF TimeOfArrivals, Greatest, LoopInv, SimTypeOK
    <3>3. CASE Schedule
      <4>1. \E d \in Durations : now' = now + d
        BY <3>3 DEF Schedule
      <4> QED BY <3>1, <4>1, TimesAssumption
    <3>4. CASE now' = now
      BY <3>1, <3>4
    <3>5. Arrive \/ Schedule \/ now' = now
      BY MeteredStep DEF SimNext, RejectImpossible, AdmitFirst, HoldTheLine, AdmissionDone,
        CompletePrefill, CompleteDecode, RejectGrowth, FinishItem, EndIteration, Done,
        simVars, loopVars
    <3> QED BY <3>2, <3>3, <3>4, <3>5
  <2> QED BY <2>1, <2>2, <2>3, BusyStays
<1> QED BY <1>1, <1>2

LEMMA BusyInvariant == MeteredSpec => []BusyInv
BY InitBusy, NextBusy, MeteredKeepsInvs, PTL DEF MeteredSpec

-----------------------------------------------------------------------------
(* The ratios of the report *)

LEMMA NextPeaks ==
  ASSUME SampleInv, SampleInv', peaks.waste \in Nat, peaks.waste < Full, [MeteredNext]_meteredVars
  PROVE  peaks'.waste \in Nat /\ peaks'.waste < Full'
<1>1. Full' = Full
  BY DEF Full, Factorials
<1>2. Waste \in Nat /\ Waste < Full /\ Waste' \in Nat /\ Waste' < Full
  BY <1>1 DEF SampleInv
<1>3. CASE MeteredSchedule
  <2>1. peaks'.waste = Greatest(peaks.waste, Waste)
    BY <1>3 DEF MeteredSchedule, Raised
  <2> QED BY <1>1, <1>2, <2>1 DEF Greatest
<1>4. CASE MeteredEnd
  <2>1. peaks'.waste = Greatest(peaks.waste, Waste') \/ peaks' = peaks
    BY <1>4 DEF MeteredEnd, Raised
  <2> QED BY <1>1, <1>2, <2>1 DEF Greatest
<1>5. CASE peaks' = peaks
  BY <1>1, <1>5
<1> QED BY <1>3, <1>4, <1>5 DEF MeteredNext, MeteredArrive, MeteredRejectImpossible,
  MeteredDecode, MeteredRejectGrowth, Unmetered, meteredVars, meterVars, loopMeters

LEMMA MeteredUsesTheCache == MeteredSpec => Spec
<1>1. MeteredInit => Init
  BY DEF MeteredInit, SimInit
<1>2. LoopInv /\ [MeteredNext]_meteredVars => [Next]_vars
  BY MeteredStep, LoopCallsCache
<1> QED BY <1>1, <1>2, MeteredKeepsInvs, PTL DEF MeteredSpec, Spec

\* The loop is never busy for longer than the time since the first arrival, and the
\* average utilization is at most 1, for every latency and every cache, the prefix
\* cache and its evictions included (simulator.cpp:119-131, 150-158).
THEOREM BusyTimeIsServed ==
  MeteredSpec => [](busy <= SimulatedTime /\ integral <= Full * busy)
<1>1. BusyInv => busy <= SimulatedTime /\ integral <= Full * busy
  BY DEF BusyInv
<1> QED BY <1>1, BusyInvariant, PTL

\* And no sample finds the cache all waste, unless an admission evicted a block that
\* it had just hit (kv_cache.cpp:48-78, 200-224).
THEOREM RatiosAreRatios ==
  MeteredSpec /\ EvictedPagesAreUnreferenced => []RatiosStayWithinOne
<1> DEFINE Bounded == peaks.waste \in Nat /\ peaks.waste < Full
<1>1. LoopInv => TypeOK
  BY DEF LoopInv, SimTypeOK
<1>2. LoopInv /\ PagesStoreTokens => SampleInv
  BY <1>1, SampleIs
<1>3. LoopInv /\ MeteredInit => Bounded
  BY <1>1, UtilizationIs DEF MeteredInit
<1>4. SampleInv /\ SampleInv' /\ Bounded /\ [MeteredNext]_meteredVars => Bounded'
  BY NextPeaks
<1>5. BusyInv /\ Bounded => RatiosStayWithinOne
  BY DEF BusyInv, RatiosStayWithinOne
<1> HIDE DEF Bounded
<1> QED BY <1>2, <1>3, <1>4, <1>5, BusyInvariant, MeteredKeepsInvs, MeteredUsesTheCache,
           StoredInvariant, PTL DEF MeteredSpec

\* Without a prefix cache that condition is met.
THEOREM PlainRatiosAreRatios ==
  ASSUME ~PrefixCacheEnabled
  PROVE  MeteredSpec => []RatiosStayWithinOne
BY MeteredUsesTheCache, PlainPages, RatiosAreRatios, PTL

-----------------------------------------------------------------------------
(* The peak of active requests *)

\* What the timestamps say of requests that are, or were, active.
LEMMA StampsOfActive ==
  ASSUME LoopInv
  PROVE  /\ now \in Nat /\ NoTime = -1
         /\ admittedAt \in [Request -> Nat \cup {NoTime}]
         /\ finishedAt \in [Request -> Nat \cup {NoTime}]
         /\ \A r \in Request :
              /\ status[r] = "Active" => admittedAt[r] # NoTime /\ finishedAt[r] = NoTime
              /\ status[r] = "Queued" => admittedAt[r] = NoTime
              /\ finishedAt[r] <= now
BY DEF LoopInv, SimTypeOK, TimestampsMatchPhases, StampsMatch, NoTime

LEMMA SampledAreFinite ==
  ASSUME NEW S \in SUBSET Request
  PROVE  IsFiniteSet(S) /\ Cardinality(S) \in Nat
BY RequestAssumption, FS_Subset, FS_CardinalityType

\* After its sample, who was active with a request does not change: whoever leaves
\* leaves later, and whoever is admitted is admitted later.
LEMMA SamplesStay ==
  ASSUME LoopInv, ActivePeakInv, Sampled' = Sampled, peaks'.active = peaks.active,
         \A q \in Request :
           IF admittedAt[q] = NoTime THEN admittedAt'[q] \in {NoTime, now}
           ELSE /\ admittedAt'[q] = admittedAt[q]
                /\ \/ status[q] = "Active" /\ status'[q] = "Active"
                   \/ status[q] = "Active" /\ finishedAt'[q] = now
                   \/ /\ status[q] # "Active" /\ status'[q] # "Active"
                      /\ finishedAt'[q] = finishedAt[q],
         \A r \in AdmittedRequests' \ Sampled' :
           pc' \in {"admit", "schedule"} /\ status'[r] = "Active" /\ admittedAt'[r] = now'
  PROVE  ActivePeakInv'
<1>1. ASSUME NEW r \in Sampled PROVE SampledWith(r)' = SampledWith(r)
  <2>1. r \in Request /\ admittedAt[r] \in Nat /\ admittedAt[r] < now /\ admittedAt'[r] = admittedAt[r]
        /\ now \in Nat
    BY StampsOfActive DEF Sampled, AdmittedRequests
  <2>2. ASSUME NEW q \in Request
        PROVE  q \in SampledWith(r)' <=> q \in SampledWith(r)
    <3>1. CASE admittedAt[q] = NoTime
      <4>1. q \notin SampledWith(r)
        BY <3>1 DEF SampledWith, AdmittedRequests
      <4>2. admittedAt'[q] = NoTime \/ ~(admittedAt'[q] <= admittedAt'[r])
        BY <2>1, <3>1
      <4> QED BY <4>1, <4>2 DEF SampledWith, AdmittedRequests
    <3>2. CASE admittedAt[q] # NoTime
      <4>1. /\ admittedAt'[q] = admittedAt[q]
            /\ \/ status[q] = "Active" /\ status'[q] = "Active"
               \/ status[q] = "Active" /\ finishedAt'[q] = now
               \/ /\ status[q] # "Active" /\ status'[q] # "Active"
                  /\ finishedAt'[q] = finishedAt[q]
        BY <3>2
      <4> QED BY <2>1, <3>2, <4>1 DEF SampledWith, AdmittedRequests
    <3> QED BY <3>1, <3>2
  <2> QED BY <2>2 DEF SampledWith, AdmittedRequests
<1>2. \A r \in Sampled : Cardinality(SampledWith(r)') = Cardinality(SampledWith(r))
  BY <1>1
<1> QED BY <1>2 DEF ActivePeakInv

\* An iteration samples those who were admitted since the last one, with exactly
\* those who are active now.
LEMMA ScheduleSamples ==
  ASSUME LoopInv, ActivePeakInv, MeteredSchedule, 0 \notin Durations
  PROVE  ActivePeakInv'
<1>1. /\ UNCHANGED <<status, admittedAt, finishedAt>> /\ ActiveRequests # {}
      /\ peaks'.active = Greatest(peaks.active, Cardinality(ActiveRequests))
  BY DEF MeteredSchedule, Schedule, vars, requestVars, stampVars, LoopInv, LoopIsInOrder, Raised
<1>2. PICK d \in Nat : now' = now + d /\ d > 0
  BY TimesAssumption DEF MeteredSchedule, Schedule
<1>3. /\ now \in Nat /\ NoTime = -1
      /\ admittedAt \in [Request -> Nat \cup {NoTime}] /\ finishedAt \in [Request -> Nat \cup {NoTime}]
      /\ \A r \in Request :
           /\ status[r] = "Active" => admittedAt[r] # NoTime /\ finishedAt[r] = NoTime
           /\ finishedAt[r] <= now
  BY StampsOfActive
<1>4. Sampled' = AdmittedRequests /\ AdmittedRequests' = AdmittedRequests
  <2>1. \A r \in AdmittedRequests : admittedAt[r] <= now /\ admittedAt[r] \in Nat
    BY <1>3 DEF ActivePeakInv, Sampled, AdmittedRequests
  <2>2. \A r \in AdmittedRequests : admittedAt[r] < now'
    BY <1>2, <1>3, <2>1
  <2> QED BY <1>1, <2>2 DEF Sampled, AdmittedRequests
<1>5. \A r : SampledWith(r)' = SampledWith(r)
  BY <1>1 DEF SampledWith, AdmittedRequests
<1> DEFINE A == ActiveRequests
           n == Cardinality(A)
<1>6. /\ A \subseteq AdmittedRequests /\ A \subseteq Request /\ A # {}
      /\ IsFiniteSet(A) /\ n \in Nat /\ peaks.active \in Nat
  <2>1. A \subseteq AdmittedRequests /\ A \subseteq Request
    BY <1>3 DEF ActiveRequests, AdmittedRequests
  <2> QED BY <1>1, <2>1, SampledAreFinite DEF ActivePeakInv
<1>7. ASSUME NEW r \in AdmittedRequests, r \notin Sampled PROVE SampledWith(r) = A
  <2>1. admittedAt[r] = now
    BY <1>7 DEF ActivePeakInv
  <2>2. ASSUME NEW q \in AdmittedRequests
        PROVE  admittedAt[q] <= now /\ ~(now < finishedAt[q])
    <3>1. q \in Request /\ (admittedAt[q] < now \/ admittedAt[q] = now)
      BY DEF ActivePeakInv, Sampled, AdmittedRequests
    <3>2. admittedAt[q] \in Int /\ finishedAt[q] \in Int /\ finishedAt[q] <= now
      BY <1>3, <3>1
    <3> QED BY <1>3, <3>1, <3>2
  <2>3. \A q \in AdmittedRequests : q \in Request
    BY DEF AdmittedRequests
  <2> QED BY <1>6, <2>1, <2>2, <2>3 DEF SampledWith, ActiveRequests
<1>8. PICK m \in A : \A q \in A : admittedAt[q] <= admittedAt[m]
  <2> DEFINE T == {admittedAt[q] : q \in A}
  <2>1. T \in SUBSET Nat /\ T # {} /\ \A t \in T : t <= now
    <3>1. \A q \in A : admittedAt[q] \in Nat /\ admittedAt[q] <= now
      BY <1>3, <1>6 DEF ActivePeakInv, Sampled, AdmittedRequests
    <3> QED BY <1>6, <3>1
  <2>2. \E t \in T : \A u \in T : u <= t
    <3> HIDE DEF T
    <3> QED BY <1>3, <2>1, GreatestElement
  <2> QED BY <2>2
<1>9. SampledWith(m) \in SUBSET Request /\ n <= Cardinality(SampledWith(m))
  <2>1. SampledWith(m) \in SUBSET Request
    BY DEF SampledWith, AdmittedRequests
  <2>2. A \subseteq SampledWith(m)
    BY <1>6, <1>8 DEF SampledWith, ActiveRequests
  <2> QED BY <2>1, <2>2, SampledAreFinite, FS_Subset
<1>10. /\ peaks'.active \in Nat /\ n <= peaks'.active /\ peaks.active <= peaks'.active
       /\ peaks'.active = n \/ peaks'.active = peaks.active
  BY <1>1, <1>6 DEF Greatest
<1>11. \A r \in AdmittedRequests : Cardinality(SampledWith(r)) \in Nat
  <2>1. \A r \in AdmittedRequests : SampledWith(r) \in SUBSET Request
    BY DEF SampledWith, AdmittedRequests
  <2> QED BY <2>1, SampledAreFinite
<1>12. \A r \in AdmittedRequests : Cardinality(SampledWith(r)) <= peaks'.active
  <2> SUFFICES ASSUME NEW r \in AdmittedRequests PROVE Cardinality(SampledWith(r)) <= peaks'.active
    OBVIOUS
  <2>1. CASE r \in Sampled
    <3>1. Cardinality(SampledWith(r)) <= peaks.active
      BY <2>1 DEF ActivePeakInv
    <3> QED BY <1>6, <1>10, <1>11, <3>1
  <2>2. CASE r \notin Sampled
    BY <1>7, <1>10, <2>2
  <2> QED BY <2>1, <2>2
<1>13. \E r \in AdmittedRequests : Cardinality(SampledWith(r)) = peaks'.active
  <2>1. Sampled \subseteq AdmittedRequests
    BY DEF Sampled
  <2>2. CASE peaks'.active = peaks.active /\ Sampled # {}
    BY <2>1, <2>2 DEF ActivePeakInv
  <2>3. CASE m \notin Sampled /\ peaks'.active = n
    BY <1>6, <1>7, <2>3
  <2>4. CASE m \in Sampled
    <3>1. n <= peaks.active
      <4>1. Cardinality(SampledWith(m)) <= peaks.active /\ Cardinality(SampledWith(m)) \in Nat
        BY <1>6, <1>11, <2>4 DEF ActivePeakInv
      <4> QED BY <1>6, <1>9, <4>1
    <3>2. peaks'.active = peaks.active
      BY <1>6, <1>10, <3>1
    <3> QED BY <2>2, <2>4, <3>2
  <2>5. CASE Sampled = {}
    <3>1. peaks.active = 0
      BY <2>5 DEF ActivePeakInv
    <3>2. peaks'.active = n
      BY <1>6, <1>10, <3>1
    <3> QED BY <2>3, <2>5, <3>2
  <2> QED BY <1>10, <2>2, <2>3, <2>4, <2>5
<1> QED BY <1>4, <1>5, <1>10, <1>12, <1>13 DEF ActivePeakInv

LEMMA InitActivePeak == MeteredInit => ActivePeakInv
<1> SUFFICES ASSUME MeteredInit PROVE ActivePeakInv
  OBVIOUS
<1>1. AdmittedRequests = {} /\ peaks.active = 0
  BY DEF MeteredInit, SimInit, AdmittedRequests
<1> QED BY <1>1 DEF ActivePeakInv, Sampled

LEMMA NextActivePeak ==
  ASSUME LoopInv, ActivePeakInv, 0 \notin Durations, [MeteredNext]_meteredVars
  PROVE  ActivePeakInv'
<1>1. /\ now \in Nat /\ NoTime = -1 /\ status \in [Request -> Phases]
      /\ admittedAt \in [Request -> Nat \cup {NoTime}] /\ finishedAt \in [Request -> Nat \cup {NoTime}]
      /\ \A r \in Request :
           /\ status[r] = "Active" => admittedAt[r] # NoTime /\ finishedAt[r] = NoTime
           /\ status[r] = "Queued" => admittedAt[r] = NoTime
  BY StampsOfActive DEF LoopInv, SimTypeOK, TypeOK
<1>2. \A r \in AdmittedRequests \ Sampled :
        pc \in {"admit", "schedule"} /\ status[r] = "Active" /\ admittedAt[r] = now
  BY DEF ActivePeakInv
<1>3. ASSUME UNCHANGED <<status, admittedAt, finishedAt, now>>, peaks'.active = peaks.active,
             pc' = pc \/ AdmittedRequests \ Sampled = {}
      PROVE  ActivePeakInv'
  <2>1. Sampled' = Sampled /\ AdmittedRequests' = AdmittedRequests
    BY <1>3 DEF Sampled, AdmittedRequests
  <2>2. \A r \in AdmittedRequests' \ Sampled' :
          pc' \in {"admit", "schedule"} /\ status'[r] = "Active" /\ admittedAt'[r] = now'
    BY <1>2, <1>3, <2>1
  <2> QED BY <1>3, <2>1, <2>2, SamplesStay
<1>4. ASSUME NEW r \in Request, status[r] = "Active", pc = "complete", pc' = pc,
             status' \in {[status EXCEPT ![r] = "Finished"], [status EXCEPT ![r] = "Rejected"]},
             finishedAt' = [finishedAt EXCEPT ![r] = now],
             UNCHANGED <<admittedAt, now>>, peaks'.active = peaks.active
      PROVE  ActivePeakInv'
  <2>1. Sampled' = Sampled /\ AdmittedRequests' = AdmittedRequests /\ AdmittedRequests \ Sampled = {}
    BY <1>2, <1>4 DEF Sampled, AdmittedRequests
  <2>2. finishedAt'[r] = now /\ \A q \in Request \ {r} : status'[q] = status[q] /\ finishedAt'[q] = finishedAt[q]
    BY <1>1, <1>4
  <2> QED BY <1>4, <2>1, <2>2, SamplesStay
<1>5. CASE MeteredArrive
  <2>1. /\ UNCHANGED <<admittedAt, finishedAt, peaks>> /\ now' = TimeOfArrivals /\ pc = "arrive"
    BY <1>5 DEF MeteredArrive, Arrive, stampVars, loopMeters
  <2>2. now' \in Nat /\ now <= now'
    <3>1. Request # {} => arrival \in [Request -> Nat]
      BY TimesAssumption DEF LoopInv, SimTypeOK
    <3>2. nextArrival \in 1 .. NumRequests + 1 /\ NumRequests \in Nat /\ Request = 1 .. NumRequests
      BY Requests DEF LoopInv, SimTypeOK
    <3> QED BY <1>1, <2>1, <3>1, <3>2 DEF TimeOfArrivals, Greatest
  <2>3. AdmittedRequests = Sampled /\ AdmittedRequests' = AdmittedRequests
    BY <1>2, <2>1 DEF Sampled, AdmittedRequests
  <2>4. Sampled' = Sampled
    <3>1. \A r \in AdmittedRequests : admittedAt[r] < now /\ admittedAt[r] \in Int
      BY <1>1, <2>3 DEF Sampled, AdmittedRequests
    <3>2. \A r \in AdmittedRequests : admittedAt[r] < now'
      BY <1>1, <2>2, <3>1
    <3> QED BY <2>1, <2>3, <3>2 DEF Sampled
  <2>5. \A q \in Request : admittedAt[q] # NoTime => status'[q] = status[q]
    <3>1. CASE UNCHANGED vars
      BY <3>1 DEF vars, requestVars
    <3>2. ASSUME NEW S, Expire(S)
          PROVE  \A q \in Request : admittedAt[q] # NoTime => status'[q] = status[q]
      BY <1>1, <3>2 DEF Expire
    <3> QED BY <1>5, <3>1, <3>2 DEF MeteredArrive, Arrive
  <2> QED BY <2>1, <2>3, <2>4, <2>5, SamplesStay
<1>6. CASE MeteredRejectImpossible
  <2>1. PICK r \in Request : r = FirstWaiting
    BY <1>6, FirstWaitingIs DEF MeteredRejectImpossible, RejectImpossible, MayAdmit
  <2>2. /\ status[r] = "Queued" /\ status' = [status EXCEPT ![r] = "Rejected"]
        /\ UNCHANGED <<admittedAt, finishedAt, now, pc, peaks>>
    BY <1>6, <2>1 DEF MeteredRejectImpossible, RejectImpossible, AdmitImpossible, stampVars,
      loopVars, loopMeters
  <2>3. Sampled' = Sampled /\ AdmittedRequests' = AdmittedRequests
    BY <2>2 DEF Sampled, AdmittedRequests
  <2>4. \A q \in Request : admittedAt[q] # NoTime => status'[q] = status[q]
    BY <1>1, <2>2
  <2>5. \A q \in AdmittedRequests' \ Sampled' :
          pc' \in {"admit", "schedule"} /\ status'[q] = "Active" /\ admittedAt'[q] = now'
    BY <1>2, <2>2, <2>3, <2>4 DEF AdmittedRequests
  <2> QED BY <2>2, <2>3, <2>4, <2>5, SamplesStay
<1>7. CASE MeteredSchedule
  BY <1>7, ScheduleSamples
<1>8. CASE MeteredDecode
  <2>1. PICK r \in Request : r = Head(work).request
    BY <1>8, HeadIsForARequest DEF MeteredDecode, CompleteDecode
  <2>2. /\ status[r] = "Active" /\ pc = "complete"
        /\ \/ UNCHANGED <<status, finishedAt>>
           \/ /\ status' = [status EXCEPT ![r] = "Finished"]
              /\ finishedAt' = [finishedAt EXCEPT ![r] = now]
        /\ UNCHANGED <<admittedAt, now, pc, peaks>>
    BY <1>8, <2>1 DEF AppendDecode, IsDecoding, MeteredDecode, CompleteDecode, loopMeters
  <2> QED BY <1>3, <1>4, <2>2
<1>9. CASE MeteredRejectGrowth
  <2>1. PICK r \in Request : r = Head(work).request
    BY <1>9, HeadIsForARequest DEF MeteredRejectGrowth, RejectGrowth
  <2>2. /\ status[r] = "Active" /\ status' = [status EXCEPT ![r] = "Rejected"] /\ pc = "complete"
        /\ finishedAt' = [finishedAt EXCEPT ![r] = now] /\ UNCHANGED <<admittedAt, now, pc, peaks>>
    BY <1>9, <2>1 DEF MeteredRejectGrowth, RejectGrowth, GrowthExhausted, IsDecoding, loopMeters
  <2> QED BY <1>4, <2>2
<1>10. CASE MeteredEnd
  <2>1. UNCHANGED <<status, admittedAt, finishedAt, now>>
    BY <1>10 DEF MeteredEnd, HoldTheLine, AdmissionDone, EndIteration,
      AdmitTemporarilyUnavailable, vars, requestVars, stampVars, loopVars
  <2>2. peaks'.active = peaks.active
    <3>1. peaks'.active = Greatest(peaks.active, 0) \/ peaks' = peaks
      BY <1>10 DEF MeteredEnd, Raised
    <3> QED BY <3>1 DEF Greatest, ActivePeakInv
  <2>3. CASE pc = "complete"
    BY <1>2, <1>3, <2>1, <2>2, <2>3
  <2>4. CASE pc = "admit" /\ pc' = AfterAdmission
    <3>1. CASE ActiveRequests = {}
      <4>1. AdmittedRequests \ Sampled = {}
        BY <1>2, <3>1 DEF ActiveRequests, AdmittedRequests
      <4> QED BY <1>3, <2>1, <2>2, <4>1
    <3>2. CASE ActiveRequests # {}
      <4>1. pc' = "schedule"
        BY <2>4, <3>2 DEF AfterAdmission
      <4>2. Sampled' = Sampled /\ AdmittedRequests' = AdmittedRequests
        BY <2>1 DEF Sampled, AdmittedRequests
      <4>3. \A r \in AdmittedRequests' \ Sampled' :
              pc' \in {"admit", "schedule"} /\ status'[r] = "Active" /\ admittedAt'[r] = now'
        BY <1>2, <2>1, <4>1, <4>2
      <4> QED BY <2>1, <2>2, <4>2, <4>3, SamplesStay
    <3> QED BY <3>1, <3>2
  <2> QED BY <1>10, <2>3, <2>4 DEF MeteredEnd, HoldTheLine, AdmissionDone, EndIteration, MayAdmit
<1>11. CASE Unmetered
  <2>1. UNCHANGED peaks
    BY <1>11 DEF Unmetered, meterVars, loopMeters
  <2>2. CASE AdmitFirst
    <3>1. PICK r \in Request : \E hits : r = FirstWaiting /\ Admit(r, hits)
      BY <2>2, FirstWaitingIs DEF AdmitFirst, MayAdmit
    <3>2. /\ status[r] = "Queued" /\ status' = [status EXCEPT ![r] = "Active"]
          /\ admittedAt' = [admittedAt EXCEPT ![r] = now] /\ UNCHANGED <<finishedAt, now, pc>>
          /\ pc = "admit"
      BY <2>2, <3>1 DEF AdmitFirst, Admit, MayAdmit, loopVars
    <3>3. /\ admittedAt[r] = NoTime /\ admittedAt'[r] = now /\ status'[r] = "Active"
          /\ \A q \in Request \ {r} : admittedAt'[q] = admittedAt[q] /\ status'[q] = status[q]
      BY <1>1, <3>2
    <3>4. ~(now < now) /\ now # NoTime
      BY <1>1
    <3>5. AdmittedRequests' = AdmittedRequests \cup {r} /\ Sampled' = Sampled
      BY <3>2, <3>3, <3>4 DEF Sampled, AdmittedRequests
    <3>6. \A q \in AdmittedRequests' \ Sampled' :
            pc' \in {"admit", "schedule"} /\ status'[q] = "Active" /\ admittedAt'[q] = now'
      BY <1>2, <3>2, <3>3, <3>5 DEF AdmittedRequests
    <3> QED BY <2>1, <3>2, <3>3, <3>5, <3>6, SamplesStay
  <2>3. CASE CompletePrefill
    <3>1. UNCHANGED <<status, admittedAt, finishedAt, now, pc>>
      BY <2>3 DEF CompletePrefill, AppendPrefill, stampVars
    <3> QED BY <1>3, <2>1, <3>1
  <2>4. CASE FinishItem \/ Done
    <3>1. UNCHANGED <<status, admittedAt, finishedAt, now, pc>>
      BY <2>4 DEF FinishItem, Done, CacheRefresh, CacheInsert, Release,
        stampVars, simVars, vars, requestVars, loopVars
    <3> QED BY <1>3, <2>1, <3>1
  <2> QED BY <1>11, <2>2, <2>3, <2>4 DEF Unmetered
<1>12. CASE UNCHANGED meteredVars
  BY <1>3, <1>12 DEF meteredVars, meterVars, loopMeters, simVars, vars, requestVars, stampVars, loopVars
<1> QED BY <1>5, <1>6, <1>7, <1>8, <1>9, <1>10, <1>11, <1>12 DEF MeteredNext

-----------------------------------------------------------------------------
(* The peak of allocated pages *)

\* Without a prefix cache a request holds a page of its own for every block that it
\* has stored a token in.
LEMMA ActiveHoldTheirPages ==
  ASSUME PagesInv, NothingPinned, NEW r \in Request, status[r] = "Active"
  PROVE  CeilDiv(stored[r], BlockTokens) <= NumAllocated
<1> DEFINE full == CeilDiv(stored[r], BlockTokens)
           f    == [i \in 1 .. full |-> table[r][i]]
<1>1. TypeOK /\ HasShape(r)
  BY DEF PagesInv, ReservationInv, TablesInShape, RequestInShape
<1>2. full \in Nat /\ PromptBlocks(r) \in Nat /\ Len(table[r]) \in Nat
      /\ DOMAIN table[r] = 1 .. Len(table[r])
  <2>1. table[r] \in Seq(Block \cup {NoBlock})
    BY <1>1 DEF TypeOK
  <2> QED BY <1>1, <2>1, BlockCounts, LenProperties
<1>3. 1 .. full \subseteq DOMAIN table[r] /\ \A i \in 1 .. full : table[r][i] # NoBlock
  <2>1. full <= Len(table[r])
    BY <1>1, <1>2 DEF HasShape, Greatest
  <2>2. 1 .. full \subseteq DOMAIN table[r]
    BY <1>2, <2>1
  <2>3. \A i \in 1 .. full : ~(i > full)
    BY <1>2
  <2> QED BY <1>1, <2>2, <2>3 DEF HasShape
<1>4. ASSUME NEW i \in 1 .. full
      PROVE  table[r][i] \in AllocatedBlocks /\ EntriesIn(table[r], table[r][i]) = {i}
  <2>1. /\ table[r][i] \in Block /\ refs[table[r][i]] # 0
        /\ ~pinned[table[r][i]] => EntriesIn(table[r], table[r][i]) = {i}
    BY <1>3, EntriesAreReferenced
  <2>2. refs[table[r][i]] > 0
    BY <1>1, <2>1 DEF TypeOK
  <2> QED BY <2>1, <2>2 DEF NothingPinned, AllocatedBlocks, ActiveBlocks
<1> HIDE DEF full
<1>5. f \in Injection(1 .. full, AllocatedBlocks)
  <2>1. ASSUME NEW i \in 1 .. full, NEW k \in 1 .. full, f[i] = f[k] PROVE i = k
    <3>1. k \in EntriesIn(table[r], table[r][i])
      BY <1>3, <2>1 DEF EntriesIn
    <3> QED BY <1>4, <3>1
  <2>2. f \in [1 .. full -> AllocatedBlocks]
    BY <1>4
  <2> QED BY <2>1, <2>2 DEF Injection, IsInjective
<1>6. IsFiniteSet(AllocatedBlocks)
  BY BlocksAreCounted, FS_Subset DEF AllocatedBlocks, ActiveBlocks, CachedBlocks
<1>7. Cardinality(1 .. full) <= Cardinality(AllocatedBlocks) /\ Cardinality(1 .. full) = full
  <2>1. 1 \in Int /\ full \in Int
    BY <1>2
  <2>2. Cardinality(1 .. full) = IF 1 > full THEN 0 ELSE full - 1 + 1
    BY <2>1, FS_Interval
  <2>3. Cardinality(1 .. full) = full
    BY <1>2, <2>2
  <2> QED BY <1>5, <1>6, <2>3, FS_Injection
<1> QED BY <1>7 DEF NumAllocated, full

LEMMA AllocatedAreCounted == NumAllocated \in Nat
<1>1. IsFiniteSet(AllocatedBlocks)
  BY BlocksAreCounted, FS_Subset DEF AllocatedBlocks, ActiveBlocks, CachedBlocks
<1> QED BY <1>1, FS_CardinalityType DEF NumAllocated

LEMMA InitAllocatedPeak == MeteredInit => AllocatedPeakInv
<1> SUFFICES ASSUME MeteredInit PROVE AllocatedPeakInv
  OBVIOUS
<1>1. peaks.allocated = 0 /\ work = <<>> /\ Completed = {}
  BY DEF MeteredInit, SimInit, Init, Completed
<1> QED BY <1>1 DEF AllocatedPeakInv

\* What was sampled stays covered, and who finishes was sampled before the last token.
LEMMA PeakStays ==
  ASSUME LoopInv, AllocatedPeakInv,
         peaks'.allocated \in Nat, peaks.allocated <= peaks'.allocated,
         \A k \in DOMAIN work' : \E l \in DOMAIN work :
           work'[k] = work[l] /\ (work[l].decode => stored'[work[l].request] = stored[work[l].request]),
         \A r \in Completed' :
           \/ r \in Completed /\ stored'[r] = stored[r]
           \/ \E l \in DOMAIN work :
                work[l].decode /\ work[l].request = r /\ stored'[r] = stored[r] + 1
  PROVE  AllocatedPeakInv'
<1>1. peaks.allocated \in Nat /\ stored \in [Request -> Nat] /\ BlockTokens \in Nat \ {0}
      /\ work \in Seq(Items)
  BY SizesAssumption DEF AllocatedPeakInv, LoopInv, SimTypeOK, TypeOK
<1>2. \A n \in Int : CeilDiv(n, BlockTokens) \in Int
  <2> SUFFICES ASSUME NEW n \in Int PROVE CeilDiv(n, BlockTokens) \in Int
    OBVIOUS
  <2>1. n + BlockTokens - 1 \in Int
    BY <1>1
  <2> QED BY <1>1, <2>1, DivBounds DEF CeilDiv
<1>3. ASSUME NEW k \in DOMAIN work', work'[k].decode
      PROVE  CeilDiv(stored'[work'[k].request], BlockTokens) <= peaks'.allocated
  <2>1. PICK l \in DOMAIN work :
          work'[k] = work[l] /\ (work[l].decode => stored'[work[l].request] = stored[work[l].request])
    OBVIOUS
  <2>2. work[l].request \in Request
    <3>1. work[l] \in Items
      BY <1>1, LenProperties, ElementOfSeq
    <3> QED BY <3>1 DEF Items
  <2>3. CeilDiv(stored[work[l].request], BlockTokens) <= peaks.allocated
    BY <1>3, <2>1 DEF AllocatedPeakInv
  <2>4. CeilDiv(stored[work[l].request], BlockTokens) \in Int
    BY <1>1, <1>2, <2>2
  <2>5. stored'[work'[k].request] = stored[work[l].request]
    BY <1>3, <2>1
  <2> QED BY <1>1, <2>3, <2>4, <2>5
<1>4. ASSUME NEW r \in Completed'
      PROVE  CeilDiv(stored'[r] - 1, BlockTokens) <= peaks'.allocated
  <2>1. r \in Request /\ stored[r] \in Int
    BY <1>1 DEF Completed
  <2>2. CASE r \in Completed /\ stored'[r] = stored[r]
    <3>1. CeilDiv(stored[r] - 1, BlockTokens) <= peaks.allocated
      BY <2>2 DEF AllocatedPeakInv
    <3>2. CeilDiv(stored[r] - 1, BlockTokens) \in Int
      BY <1>2, <2>1
    <3> QED BY <1>1, <2>2, <3>1, <3>2
  <2>3. ASSUME NEW l \in DOMAIN work, work[l].decode, work[l].request = r, stored'[r] = stored[r] + 1
        PROVE  CeilDiv(stored'[r] - 1, BlockTokens) <= peaks'.allocated
    <3>1. CeilDiv(stored[r], BlockTokens) <= peaks.allocated /\ CeilDiv(stored[r], BlockTokens) \in Int
      BY <1>2, <2>1, <2>3 DEF AllocatedPeakInv
    <3>2. stored'[r] - 1 = stored[r]
      BY <2>1, <2>3
    <3> QED BY <1>1, <3>1, <3>2
  <2> QED BY <2>2, <2>3
<1>5. Completed' = {r \in Request : status'[r] = "Finished"} /\ BlockTokens' = BlockTokens
  BY DEF Completed
<1> QED BY <1>3, <1>4 DEF AllocatedPeakInv

\* What is left of the work when its first item is done.
LEMMA TailIsLeft ==
  ASSUME LoopInv, work # <<>>, work' = Tail(work),
         \A q \in Request : q # Head(work).request => stored'[q] = stored[q]
  PROVE  /\ 1 \in DOMAIN work /\ work[1] = Head(work)
         /\ \A k \in DOMAIN work' : \E l \in DOMAIN work :
              work'[k] = work[l] /\ stored'[work[l].request] = stored[work[l].request]
<1>1. work \in Seq(Items) /\ Len(work) \in Nat /\ DOMAIN work = 1 .. Len(work) /\ Len(work) # 0
  BY LenProperties, EmptySeq DEF LoopInv, SimTypeOK
<1>2. 1 \in DOMAIN work /\ work[1] = Head(work)
  BY <1>1
<1>3. ASSUME NEW k \in DOMAIN work'
      PROVE  \E l \in DOMAIN work :
               work'[k] = work[l] /\ stored'[work[l].request] = stored[work[l].request]
  <2>1. k \in 1 .. Len(work) - 1 /\ work'[k] = work[k + 1]
    BY <1>1, <1>3
  <2>2. k + 1 \in DOMAIN work /\ k + 1 # 1
    BY <1>1, <2>1
  <2>3. work[k + 1].request # work[1].request
    BY <1>2, <2>2 DEF LoopInv, WorkIsDistinct
  <2>4. work[k + 1].request \in Request
    <3>1. work[k + 1] \in Items
      BY <1>1, <2>2, ElementOfSeq
    <3> QED BY <3>1 DEF Items
  <2> QED BY <1>2, <2>1, <2>2, <2>3, <2>4
<1> QED BY <1>2, <1>3

LEMMA NextAllocatedPeak ==
  ASSUME LoopInv, PagesInv, NothingPinned, NumAllocated' \in Nat, AllocatedPeakInv,
         [MeteredNext]_meteredVars
  PROVE  AllocatedPeakInv'
<1>1. peaks.allocated \in Nat /\ stored \in [Request -> Nat] /\ status \in [Request -> Phases]
      /\ NumAllocated \in Nat
  BY AllocatedAreCounted DEF AllocatedPeakInv, LoopInv, SimTypeOK, TypeOK
<1>2. ASSUME peaks'.allocated \in Nat, peaks.allocated <= peaks'.allocated, UNCHANGED work,
             \A k \in DOMAIN work : stored'[work[k].request] = stored[work[k].request],
             \A r \in Request : status'[r] = "Finished" =>
               status[r] = "Finished" /\ stored'[r] = stored[r]
      PROVE  AllocatedPeakInv'
  <2>1. \A r \in Completed' : r \in Completed /\ stored'[r] = stored[r]
    BY <1>2 DEF Completed
  <2>2. \A k \in DOMAIN work' : \E l \in DOMAIN work :
          work'[k] = work[l] /\ (work[l].decode => stored'[work[l].request] = stored[work[l].request])
    BY <1>2
  <2> QED BY <1>2, <2>1, <2>2, PeakStays
<1>3. ASSUME peaks' = peaks, NEW r \in Request, r = Head(work).request, work # <<>>,
             work' = Tail(work), status[r] = "Active",
             \A q \in Request : q # r => stored'[q] = stored[q] /\ status'[q] = status[q],
             status'[r] = "Finished" => Head(work).decode /\ stored'[r] = stored[r] + 1
      PROVE  AllocatedPeakInv'
  <2>1. /\ 1 \in DOMAIN work /\ work[1] = Head(work)
        /\ \A k \in DOMAIN work' : \E l \in DOMAIN work :
             work'[k] = work[l] /\ stored'[work[l].request] = stored[work[l].request]
    BY <1>3, TailIsLeft
  <2>2. ASSUME NEW q \in Completed'
        PROVE  \/ q \in Completed /\ stored'[q] = stored[q]
               \/ \E l \in DOMAIN work :
                    work[l].decode /\ work[l].request = q /\ stored'[q] = stored[q] + 1
    <3>1. q \in Request /\ status'[q] = "Finished"
      BY DEF Completed
    <3>2. CASE q = r
      BY <1>3, <2>1, <3>1, <3>2
    <3>3. CASE q # r
      BY <1>3, <3>1, <3>3 DEF Completed
    <3> QED BY <3>2, <3>3
  <2>3. peaks'.allocated \in Nat /\ peaks.allocated <= peaks'.allocated
    BY <1>1, <1>3
  <2> QED BY <2>1, <2>2, <2>3, PeakStays
<1>4. peaks' = peaks => peaks'.allocated \in Nat /\ peaks.allocated <= peaks'.allocated
  BY <1>1
<1>5. CASE MeteredArrive
  <2>1. UNCHANGED <<peaks, work>>
    BY <1>5 DEF MeteredArrive, Arrive, loopMeters
  <2>2. CASE UNCHANGED vars
    BY <1>2, <1>4, <2>1, <2>2 DEF vars, requestVars
  <2>3. ASSUME NEW S, Expire(S) PROVE AllocatedPeakInv'
    <3>1. UNCHANGED stored /\ \A r \in Request : status'[r] = "Finished" => status[r] = "Finished"
      BY <2>3 DEF Expire
    <3> QED BY <1>2, <1>4, <2>1, <3>1
  <2> QED BY <1>5, <2>2, <2>3 DEF MeteredArrive, Arrive
<1>6. CASE MeteredRejectImpossible
  <2>1. PICK r : r = FirstWaiting
    OBVIOUS
  <2>2. /\ status' = [status EXCEPT ![r] = "Rejected"] /\ UNCHANGED <<stored, work, peaks>>
    BY <1>6, <2>1 DEF MeteredRejectImpossible, RejectImpossible, AdmitImpossible, loopVars, loopMeters
  <2>3. \A q \in Request : status'[q] = "Finished" => status[q] = "Finished"
    BY <1>1, <2>2
  <2> QED BY <1>2, <1>4, <2>2, <2>3
<1>7. CASE MeteredSchedule
  <2>1. /\ UNCHANGED <<stored, status>> /\ work' = ScheduledWork
        /\ peaks'.allocated = Greatest(peaks.allocated, NumAllocated)
    BY <1>7 DEF MeteredSchedule, Schedule, vars, requestVars, Raised
  <2>2. peaks'.allocated \in Nat /\ NumAllocated <= peaks'.allocated /\ peaks.allocated <= peaks'.allocated
    BY <1>1, <2>1 DEF Greatest
  <2>3. /\ ScheduledWork \in Seq(Items)
        /\ \A k \in 1 .. Len(ScheduledWork) : ItemIsValid(ScheduledWork[k])
    BY ScheduleIs DEF LoopInv, SimTypeOK
  <2>4. DOMAIN ScheduledWork = 1 .. Len(ScheduledWork) /\ Len(ScheduledWork) \in Nat
    BY <2>3, LenProperties
  <2>5. BlockTokens \in Nat \ {0} /\ TypeOK
    BY SizesAssumption DEF LoopInv, SimTypeOK
  <2>6. ASSUME NEW k \in DOMAIN work', work'[k].decode
        PROVE  CeilDiv(stored'[work'[k].request], BlockTokens) <= peaks'.allocated
    <3>1. PICK r \in Request : r = work'[k].request
      <4>1. ScheduledWork[k] \in Items
        BY <2>1, <2>3, <2>4, <2>6, ElementOfSeq
      <4> QED BY <2>1, <4>1 DEF Items
    <3>2. status[r] = "Active"
      BY <2>1, <2>3, <2>4, <2>6, <3>1 DEF ItemIsValid, IsDecoding
    <3>3. CeilDiv(stored[r], BlockTokens) <= NumAllocated /\ CeilDiv(stored[r], BlockTokens) \in Nat
      BY <2>5, <3>2, ActiveHoldTheirPages, BlockCounts
    <3> QED BY <1>1, <2>1, <2>2, <3>1, <3>3
  <2>7. ASSUME NEW r \in Completed' PROVE CeilDiv(stored'[r] - 1, BlockTokens) <= peaks'.allocated
    <3>1. r \in Completed /\ stored'[r] = stored[r] /\ stored[r] \in Int
      BY <1>1, <2>1 DEF Completed
    <3>2. CeilDiv(stored[r] - 1, BlockTokens) <= peaks.allocated
      BY <3>1 DEF AllocatedPeakInv
    <3>3. CeilDiv(stored[r] - 1, BlockTokens) \in Int
      <4>1. stored[r] - 1 + BlockTokens - 1 \in Int
        BY <2>5, <3>1
      <4> QED BY <2>5, <4>1, DivBounds DEF CeilDiv
    <3> QED BY <1>1, <2>2, <3>1, <3>2, <3>3
  <2> QED BY <2>2, <2>6, <2>7 DEF AllocatedPeakInv
<1>8. CASE MeteredDecode
  <2>1. PICK r \in Request : r = Head(work).request
    BY <1>8, HeadIsForARequest DEF MeteredDecode, CompleteDecode
  <2>2. /\ status[r] = "Active" /\ Head(work).decode /\ work # <<>>
        /\ status' \in {[status EXCEPT ![r] = "Finished"], status}
        /\ stored' = [stored EXCEPT ![r] = @ + 1]
        /\ UNCHANGED peaks /\ work' = Tail(work)
    BY <1>8, <2>1 DEF AppendDecode, IsDecoding, AppendTokens, MeteredDecode, CompleteDecode, loopMeters
  <2>3. stored'[r] = stored[r] + 1
        /\ \A q \in Request : q # r => stored'[q] = stored[q] /\ status'[q] = status[q]
    BY <1>1, <2>2
  <2> QED BY <1>3, <2>1, <2>2, <2>3
<1>9. CASE MeteredRejectGrowth
  <2>1. PICK r \in Request : r = Head(work).request
    BY <1>9, HeadIsForARequest DEF MeteredRejectGrowth, RejectGrowth
  <2>2. /\ status[r] = "Active" /\ status' = [status EXCEPT ![r] = "Rejected"]
        /\ UNCHANGED <<peaks, stored>> /\ work' = Tail(work) /\ work # <<>>
    BY <1>9, <2>1 DEF MeteredRejectGrowth, RejectGrowth, GrowthExhausted, IsDecoding, loopMeters
  <2>3. status'[r] = "Rejected" /\ \A q \in Request : q # r => status'[q] = status[q]
    BY <1>1, <2>2
  <2> QED BY <1>3, <2>1, <2>2, <2>3
<1>10. CASE MeteredEnd
  <2>1. UNCHANGED <<status, stored, work>>
    BY <1>10 DEF MeteredEnd, HoldTheLine, AdmissionDone, EndIteration,
      AdmitTemporarilyUnavailable, vars, requestVars, loopVars
  <2>2. peaks'.allocated \in Nat /\ peaks.allocated <= peaks'.allocated
    <3>1. peaks'.allocated = Greatest(peaks.allocated, NumAllocated') \/ peaks' = peaks
      BY <1>10 DEF MeteredEnd, Raised
    <3> QED BY <1>1, <3>1 DEF Greatest
  <2> QED BY <1>2, <2>1, <2>2
<1>11. CASE Unmetered
  <2>1. UNCHANGED peaks
    BY <1>11 DEF Unmetered, meterVars, loopMeters
  <2>2. CASE AdmitFirst
    <3>1. PICK r \in Request : \E hits : r = FirstWaiting /\ Admit(r, hits)
      BY <2>2, FirstWaitingIs DEF AdmitFirst, MayAdmit
    <3>2. /\ status' = [status EXCEPT ![r] = "Active"] /\ \E n : stored' = [stored EXCEPT ![r] = n]
          /\ work = <<>> /\ work' = work
      BY <2>2, <3>1 DEF AdmitFirst, Admit, MayAdmit, loopVars, LoopInv, LoopIsInOrder
    <3>3. \A q \in Request : status'[q] = "Finished" => status[q] = "Finished" /\ stored'[q] = stored[q]
      BY <1>1, <3>2
    <3>4. DOMAIN work = {}
      BY <3>2, EmptySeq
    <3> QED BY <1>2, <1>4, <2>1, <3>2, <3>3, <3>4
  <2>3. CASE CompletePrefill
    <3>1. PICK r \in Request : r = Head(work).request
      BY <2>3, HeadIsForARequest DEF CompletePrefill
    <3>2. /\ status[r] = "Active" /\ UNCHANGED status /\ work # <<>> /\ work' = Tail(work)
          /\ \E n : stored' = [stored EXCEPT ![r] = n]
      BY <2>3, <3>1 DEF CompletePrefill, AppendPrefill, IsPrefilling, AppendTokens
    <3> QED BY <1>3, <2>1, <3>1, <3>2
  <2>4. CASE FinishItem \/ Done
    <3>1. UNCHANGED <<stored, status, work>>
      BY <2>4 DEF FinishItem, Done, CacheRefresh, CacheInsert, Release,
        simVars, vars, requestVars, loopVars
    <3> QED BY <1>2, <1>4, <2>1, <3>1
  <2> QED BY <1>11, <2>2, <2>3, <2>4 DEF Unmetered
<1>12. CASE UNCHANGED meteredVars
  <2>1. UNCHANGED <<stored, status, work, peaks>>
    BY <1>12 DEF meteredVars, meterVars, loopMeters, simVars, vars, requestVars, loopVars
  <2> QED BY <1>2, <1>4, <2>1
<1> QED BY <1>5, <1>6, <1>7, <1>8, <1>9, <1>10, <1>11, <1>12 DEF MeteredNext

-----------------------------------------------------------------------------
(* The peaks of the report *)

LEMMA ActivePeakInvariant ==
  ASSUME 0 \notin Durations
  PROVE  MeteredSpec => []ActivePeakInv
<1>1. LoopInv /\ ActivePeakInv /\ [MeteredNext]_meteredVars => ActivePeakInv'
  BY NextActivePeak
<1> QED BY <1>1, InitActivePeak, MeteredKeepsInvs, PTL DEF MeteredSpec

LEMMA AllocatedPeakInvariant ==
  ASSUME ~PrefixCacheEnabled
  PROVE  MeteredSpec => []AllocatedPeakInv
<1> DEFINE Counted == NumAllocated \in Nat
<1>1. LoopInv /\ PagesInv /\ NothingPinned /\ Counted' /\ AllocatedPeakInv
        /\ [MeteredNext]_meteredVars => AllocatedPeakInv'
  BY NextAllocatedPeak
<1>2. Counted
  BY AllocatedAreCounted
<1> HIDE DEF Counted
<1> QED BY <1>1, <1>2, InitAllocatedPeak, MeteredKeepsInvs, MeteredUsesTheCache,
           NothingIsPinned, PlainPages, PagesInvariant, PTL DEF MeteredSpec

\* When the loop ends everybody admitted has been sampled, and the timestamps tell
\* who was active with whom.
LEMMA DoneIsSampled ==
  ASSUME LoopInv, NothingIsHeld, ActivePeakInv, pc = "done"
  PROVE  Sampled = AdmittedRequests /\ \A r \in AdmittedRequests : SampledWith(r) = ActiveWith(r)
<1>1. Sampled = AdmittedRequests
  BY DEF ActivePeakInv, Sampled
<1>2. \A q \in Request : status[q] # "Active"
  BY DEF NothingIsHeld, AllTerminal
<1> QED BY <1>1, <1>2 DEF SampledWith, ActiveWith, AdmittedRequests

\* peak_active_requests is the largest number of requests that were active when one
\* of them was admitted, for every workload, policy and latency that takes time, and
\* without a prefix cache peak_allocated_blocks covers the pages of everybody who
\* finished (simulator.cpp:119-131).
THEOREM PeaksMatch == MeteredSpec => []PeaksMatchTheRequests
<1> DEFINE ActivePeak ==
             pc = "done" =>
               /\ \A r \in AdmittedRequests : Cardinality(ActiveWith(r)) <= peaks.active
               /\ AdmittedRequests # {} =>
                    \E r \in AdmittedRequests : Cardinality(ActiveWith(r)) = peaks.active
           AllocatedPeak ==
             \A r \in Completed : CeilDiv(stored[r] - 1, BlockTokens) <= peaks.allocated
<1>1. ASSUME LoopInv, NothingIsHeld, ActivePeakInv PROVE ActivePeak
  <2> SUFFICES ASSUME pc = "done"
               PROVE  /\ \A r \in AdmittedRequests : Cardinality(ActiveWith(r)) <= peaks.active
                      /\ AdmittedRequests # {} =>
                           \E r \in AdmittedRequests : Cardinality(ActiveWith(r)) = peaks.active
    OBVIOUS
  <2>1. Sampled = AdmittedRequests /\ \A r \in AdmittedRequests : SampledWith(r) = ActiveWith(r)
    BY <1>1, DoneIsSampled
  <2> QED BY <1>1, <2>1 DEF ActivePeakInv
<1>2. AllocatedPeakInv => AllocatedPeak
  BY DEF AllocatedPeakInv
<1>3. (0 \notin Durations => ActivePeak) /\ (~PrefixCacheEnabled => AllocatedPeak)
        => PeaksMatchTheRequests
  BY DEF PeaksMatchTheRequests
<1> HIDE DEF ActivePeak, AllocatedPeak
<1>4. MeteredSpec => [](0 \notin Durations => ActivePeak)
  <2>1. CASE 0 \in Durations
    <3>1. 0 \notin Durations => ActivePeak
      BY <2>1
    <3> QED BY <3>1, PTL
  <2>2. CASE 0 \notin Durations
    <3>1. MeteredSpec => []ActivePeakInv
      BY <2>2, ActivePeakInvariant
    <3>2. ActivePeak => (0 \notin Durations => ActivePeak)
      OBVIOUS
    <3> QED BY <1>1, <3>1, <3>2, MeteredKeepsInvs, PTL
  <2> QED BY <2>1, <2>2
<1>5. MeteredSpec => [](~PrefixCacheEnabled => AllocatedPeak)
  <2>1. CASE PrefixCacheEnabled
    <3>1. ~PrefixCacheEnabled => AllocatedPeak
      BY <2>1
    <3> QED BY <3>1, PTL
  <2>2. CASE ~PrefixCacheEnabled
    <3>1. MeteredSpec => []AllocatedPeakInv
      BY <2>2, AllocatedPeakInvariant
    <3>2. AllocatedPeak => (~PrefixCacheEnabled => AllocatedPeak)
      OBVIOUS
    <3> QED BY <1>2, <3>1, <3>2, PTL
  <2> QED BY <2>1, <2>2
<1> QED BY <1>3, <1>4, <1>5, PTL
=============================================================================
