-------------------------- MODULE ServingSimulator --------------------------
(***************************************************************************)
(* The run loop of src/simulator.cpp: arrivals, expiry, FIFO admission,    *)
(* iteration-level scheduling under a token budget, and the completion of  *)
(* the scheduled work, driving the paged KV cache of PagedKvCache.         *)
(*                                                                         *)
(* The simulator is one thread.  `pc' is the part of the loop it is in;    *)
(* one step is one call of the cache, or what happens between two calls.   *)
(* Every step that calls the cache conjoins the action of PagedKvCache     *)
(* that models the call, so its state (phases included) is shared.         *)
(*                                                                         *)
(* Abstractions.                                                           *)
(*  - Requests are the indices of requests_ after the stable sort, from 1. *)
(*  - Times are whole ticks.  How long an iteration takes is decided by    *)
(*    the latency model; here it is any element of Durations.              *)
(*  - Of the measurements the run accumulates, only the count of prefill   *)
(*    tokens is kept; inter-token latencies are left to Metrics.           *)
(*  - The two exceptions the loop may throw have no step: a state that     *)
(*    throws is a deadlock.                                                *)
(***************************************************************************)
EXTENDS PagedKvCache

CONSTANTS
  Arrivals,      \* the ticks at which requests may arrive
  Durations,     \* the ticks an iteration may take
  TtftSlo,       \* ServiceConfig::ttft_slo_ms
  TokenBudget,   \* ServiceConfig::token_budget
  ChunkTokens,   \* ServiceConfig::prefill_chunk_tokens
  MaxActive,     \* ServiceConfig::max_active_requests
  DecodeFirst    \* ServiceConfig::scheduler_policy == DecodeFirst

NumRequests == Cardinality(Request)

ASSUME IndexAssumption == Request = 1 .. NumRequests
ASSUME TimesAssumption ==
  Arrivals \subseteq Nat /\ Durations \subseteq Nat /\ TtftSlo \in Nat
ASSUME ServiceAssumption ==
  /\ TokenBudget \in Nat \ {0}
  /\ ChunkTokens \in Nat \ {0}
  /\ MaxActive \in Nat \ {0}
  /\ DecodeFirst \in BOOLEAN

VARIABLES
  pc,            \* the part of the loop that comes next
  now,           \* now_ms_
  nextArrival,   \* next_arrival_index_
  offset,        \* decode_round_robin_offset_
  work,          \* what is left of the work of the iteration
  processed,     \* processed_prefill_tokens_
  arrival,       \* spec.arrival_ms
  actualOutput,  \* actual_output_tokens_
  admittedAt,    \* admitted_ms
  firstToken,    \* first_token_ms
  finishedAt     \* finished_ms

workloadVars == <<arrival, actualOutput>>
stampVars    == <<admittedAt, firstToken, finishedAt>>
loopVars     == <<now, nextArrival, offset, work, processed>>
simVars      == <<vars, pc, loopVars, workloadVars, stampVars>>

\* A timestamp that was never taken (NaN).
NoTime == -1

-----------------------------------------------------------------------------
(* Requests by phase *)

ActiveRequests  == {r \in Request : status[r] = "Active"}
AllTerminal     == \A r \in Request : status[r] \in {"Finished", "Rejected"}
WaitingRequests == {r \in Request : status[r] = "Queued" /\ arrival[r] <= now}
\* Mutant of FirstWaiting: a request that fits now jumps the line.
FirstFitting ==
  LET fitting == {r \in WaitingRequests : CanEnsure(PromptBlocks(r))}
      least(S) == CHOOSE r \in S : \A q \in S : r <= q
  IN  least(IF fitting = {} THEN WaitingRequests ELSE fitting)

FirstWaiting    == CHOOSE r \in WaitingRequests : \A q \in WaitingRequests : r <= q

-----------------------------------------------------------------------------
(* run: the workload and the counters *)

SimInit ==
  /\ Init
  /\ pc = "arrive"
  /\ now = 0
  /\ nextArrival = 1
  /\ offset = 0
  /\ work = <<>>
  /\ processed = 0
  /\ arrival \in {f \in [Request -> Arrivals] :
                    \A q, r \in Request : q < r => f[q] <= f[r]}
  /\ actualOutput \in [Request -> 1 .. MaxNewTokens]
  /\ admittedAt = [r \in Request |-> NoTime]
  /\ firstToken = [r \in Request |-> NoTime]
  /\ finishedAt = [r \in Request |-> NoTime]

-----------------------------------------------------------------------------
(* run: arrivals; reject_expired_waiting_requests *)

\* An idle simulator jumps to the next arrival.
TimeOfArrivals ==
  IF ActiveRequests = {} /\ nextArrival <= NumRequests
  THEN Greatest(now, arrival[nextArrival])
  ELSE now

\* Mutant of ExpiredAt: only the head of the line is looked at.
ExpiredHead(t) ==
  {r \in Request :
     /\ status[r] = "Queued" /\ t - arrival[r] > TtftSlo
     /\ \A q \in 1 .. r - 1 : status[q] # "Queued"}

ExpiredAt(t) ==
  {r \in Request :
     status[r] = "Queued" /\ arrival[r] <= t /\ t - arrival[r] > TtftSlo}

Arrive ==
  /\ pc = "arrive"
  /\ now' = TimeOfArrivals
  /\ nextArrival' = 1 + Cardinality({r \in Request : arrival[r] <= now'})
  /\ \/ Expire(ExpiredAt(now'))
     \/ ExpiredAt(now') = {} /\ UNCHANGED vars
  /\ pc' = "admit"
  /\ UNCHANGED <<offset, work, processed, workloadVars, stampVars>>

-----------------------------------------------------------------------------
(* admit_waiting_requests *)

\* Mutant of MayAdmit: one request too few may be active.
MayAdmitFewer ==
  pc = "admit" /\ Cardinality(ActiveRequests) + 1 < MaxActive /\ WaitingRequests # {}

MayAdmit == pc = "admit" /\ Cardinality(ActiveRequests) < MaxActive /\ WaitingRequests # {}

\* Mutant of AfterAdmission: the loop goes back for arrivals that will not come.
AfterAdmissionWaits == IF ActiveRequests # {} THEN "schedule" ELSE "arrive"

\* What follows admission: an iteration, the next arrival, or the end.  (The
\* loop that `continue's with every request terminal ends at its test.)
AfterAdmission ==
  IF ActiveRequests # {} THEN "schedule"
  ELSE IF nextArrival <= NumRequests THEN "arrive"
  ELSE "done"

RejectImpossible ==
  /\ MayAdmit
  /\ AdmitImpossible(FirstWaiting)
  /\ UNCHANGED <<pc, loopVars, workloadVars, stampVars>>

AdmitFirst ==
  /\ MayAdmit
  /\ LET r == FirstWaiting
     IN  /\ \E hits \in 0 .. CompletePromptBlocks(r) : Admit(r, hits)
         /\ admittedAt' = [admittedAt EXCEPT ![r] = now]
  /\ UNCHANGED <<pc, loopVars, workloadVars, firstToken, finishedAt>>

\* A request that has to wait for memory holds up those behind it.
HoldTheLine ==
  /\ MayAdmit
  /\ \E hits \in 0 .. CompletePromptBlocks(FirstWaiting) :
       AdmitTemporarilyUnavailable(FirstWaiting, hits)
  /\ pc' = AfterAdmission
  /\ UNCHANGED <<loopVars, workloadVars, stampVars>>

AdmissionDone ==
  /\ pc = "admit" /\ ~MayAdmit
  /\ pc' = AfterAdmission
  /\ UNCHANGED <<vars, loopVars, workloadVars, stampVars>>

-----------------------------------------------------------------------------
(* schedule_iteration *)

\* Mutant of Chunk: the whole prompt counts, not what is left of it.
ChunkOfWhole(r, left) ==
  IF IsPrefilling(r) THEN Least(Least(Len(prompt[r]), ChunkTokens), left) ELSE 0

Chunk(r, left) ==
  IF IsPrefilling(r) THEN Least(Least(Len(prompt[r]) - stored[r], ChunkTokens), left) ELSE 0

\* The budget that is left when requests 1 to r were offered their chunk.
LeftAfter(budget) ==
  LET left[r \in 0 .. NumRequests] ==
        IF r = 0 THEN budget ELSE left[r - 1] - Chunk(r, left[r - 1])
  IN  left

PrefillItem(r, n) == [request |-> r, prefill |-> n, decode |-> FALSE]
DecodeItem(r)     == [request |-> r, prefill |-> 0, decode |-> TRUE]

\* The requests of a set, in the order of requests_.
Ascending(S) == CHOOSE o \in InOrder(S) : TRUE

PrefillWork(budget) ==
  LET left     == LeftAfter(budget)
      chunk(r) == left[r - 1] - left[r]
      chosen   == Ascending({r \in Request : chunk(r) > 0})
  IN  [k \in 1 .. Len(chosen) |-> PrefillItem(chosen[k], chunk(chosen[k]))]

DecodeCandidates    == Ascending({r \in Request : IsDecoding(r)})
DecodeCount(budget) == Least(budget, Len(DecodeCandidates))
Rotation            == offset % Len(DecodeCandidates)

\* One token for each candidate the budget reaches, from the rotation on.
DecodeWork(budget) ==
  [k \in 1 .. DecodeCount(budget) |->
     DecodeItem(DecodeCandidates[((Rotation + k - 1) % Len(DecodeCandidates)) + 1])]

\* Mutants of OffsetAfter: the rotation starts over, or is not wrapped.
OffsetRestarted(budget) ==
  IF DecodeCandidates = <<>> THEN offset ELSE DecodeCount(budget) % Len(DecodeCandidates)
OffsetUnwrapped(budget) ==
  IF DecodeCandidates = <<>> THEN offset ELSE offset + DecodeCount(budget)

OffsetAfter(budget) ==
  IF DecodeCandidates = <<>> THEN offset
  ELSE (Rotation + DecodeCount(budget)) % Len(DecodeCandidates)

\* Mutants of DecodeBudget, PrefillBudget and PrefillTokens: the second class
\* gets the whole budget too; tokens beyond the budget are counted.
WholeBudget    == TokenBudget
TokensOffered  == TokenBudget * NumRequests - LeftAfter(TokenBudget * NumRequests)[NumRequests]

\* The two policies differ in who takes from the budget first.
DecodeBudget  == IF DecodeFirst THEN TokenBudget ELSE LeftAfter(TokenBudget)[NumRequests]
PrefillBudget == IF DecodeFirst THEN TokenBudget - DecodeCount(TokenBudget) ELSE TokenBudget
PrefillTokens == PrefillBudget - LeftAfter(PrefillBudget)[NumRequests]

ScheduledWork ==
  IF DecodeFirst THEN DecodeWork(DecodeBudget) \o PrefillWork(PrefillBudget)
  ELSE PrefillWork(PrefillBudget) \o DecodeWork(DecodeBudget)

\* Time passes before the work takes effect.
Schedule ==
  /\ pc = "schedule"
  /\ ScheduledWork # <<>>
  /\ work' = ScheduledWork
  /\ offset' = OffsetAfter(DecodeBudget)
  /\ processed' = processed + PrefillTokens
  /\ \E d \in Durations : now' = now + d
  /\ pc' = "complete"
  /\ UNCHANGED <<vars, nextArrival, workloadVars, stampVars>>

-----------------------------------------------------------------------------
(* complete_iteration *)

CompletePrefill ==
  /\ pc = "complete" /\ work # <<>> /\ Head(work).prefill > 0
  /\ AppendPrefill(Head(work).request, Head(work).prefill)
  /\ work' = Tail(work)
  /\ UNCHANGED <<pc, now, nextArrival, offset, processed, workloadVars, stampVars>>

\* Mutant of CompleteDecode: the request that is done is noticed a token late.
CompleteDecodeLate ==
  /\ pc = "complete" /\ work # <<>> /\ Head(work).decode
  /\ LET r    == Head(work).request
         last == Generated(r) >= actualOutput[r] \/ Generated(r) + 1 = MaxNewTokens
     IN  /\ AppendDecode(r, last)
         /\ firstToken' = [firstToken EXCEPT ![r] = IF @ = NoTime THEN now ELSE @]
         /\ finishedAt' = IF last THEN [finishedAt EXCEPT ![r] = now] ELSE finishedAt
  /\ work' = Tail(work)
  /\ UNCHANGED <<pc, now, nextArrival, offset, processed, workloadVars, admittedAt>>

\* The request is finished when it has generated what the trace says.
CompleteDecode ==
  /\ pc = "complete" /\ work # <<>> /\ Head(work).decode
  /\ LET r    == Head(work).request
         last == Generated(r) + 1 >= actualOutput[r]
     IN  /\ AppendDecode(r, last)
         /\ firstToken' = [firstToken EXCEPT ![r] = IF @ = NoTime THEN now ELSE @]
         /\ finishedAt' = IF last THEN [finishedAt EXCEPT ![r] = now] ELSE finishedAt
  /\ work' = Tail(work)
  /\ UNCHANGED <<pc, now, nextArrival, offset, processed, workloadVars, admittedAt>>

RejectGrowth ==
  /\ pc = "complete" /\ work # <<>> /\ Head(work).decode
  /\ GrowthExhausted(Head(work).request)
  /\ finishedAt' = [finishedAt EXCEPT ![Head(work).request] = now]
  /\ work' = Tail(work)
  /\ UNCHANGED <<pc, now, nextArrival, offset, processed, workloadVars, admittedAt, firstToken>>

\* Mutant of FinishItem: the calls are forgotten.
FinishItemForgets ==
  /\ pc = "complete" /\ calls # <<>>
  /\ calls' = Tail(calls)
  /\ UNCHANGED <<cacheVars, requestVars, pc, loopVars, workloadVars, stampVars>>

\* The calls that a completed item still owes to the cache.
FinishItem ==
  /\ pc = "complete"
  /\ CacheRefresh \/ CacheInsert \/ Release
  /\ UNCHANGED <<pc, loopVars, workloadVars, stampVars>>

EndIteration ==
  /\ pc = "complete" /\ work = <<>> /\ calls = <<>>
  /\ pc' = IF AllTerminal THEN "done" ELSE "arrive"
  /\ UNCHANGED <<vars, loopVars, workloadVars, stampVars>>

Done == pc = "done" /\ UNCHANGED simVars

-----------------------------------------------------------------------------
(* The specification *)

SimNext ==
  \/ Arrive
  \/ RejectImpossible \/ AdmitFirst \/ HoldTheLine \/ AdmissionDone
  \/ Schedule
  \/ CompletePrefill \/ CompleteDecode \/ RejectGrowth \/ FinishItem \/ EndIteration
  \/ Done

\* The loop is a single thread that nothing suspends: it keeps taking steps.
SimSpec == SimInit /\ [][SimNext]_simVars /\ WF_simVars(SimNext)

-----------------------------------------------------------------------------
(* Properties *)

Items == [request : Request, prefill : Nat, decode : BOOLEAN]

\* Every variable has its type, and the cache's have theirs.
SimTypeOK ==
  /\ TypeOK
  /\ pc \in {"arrive", "admit", "schedule", "complete", "done"}
  /\ now \in Nat
  /\ nextArrival \in 1 .. NumRequests + 1
  /\ offset \in 0 .. NumRequests
  /\ work \in Seq(Items)
  /\ processed \in Nat
  /\ arrival \in [Request -> Arrivals]
  /\ actualOutput \in [Request -> 1 .. MaxNewTokens]
  /\ admittedAt \in [Request -> Nat \cup {NoTime}]
  /\ firstToken \in [Request -> Nat \cup {NoTime}]
  /\ finishedAt \in [Request -> Nat \cup {NoTime}]

\* "Keep FIFO order: a later request cannot jump over a request waiting for
\* memory" (simulator.cpp:188-189): the requests that are decided (admitted,
\* refused or expired) are always the first ones to have arrived.
DecidedInOrder ==
  \A q, r \in Request : (q < r /\ status[r] # "Queued") => status[q] # "Queued"

\* Nobody is admitted after waiting longer than the TTFT SLO, however long the
\* iterations and the head of the line made it wait (simulator.cpp:86-87, 212).
AdmittedWithinSlo ==
  \A r \in Request : admittedAt[r] # NoTime =>
    arrival[r] <= admittedAt[r] /\ admittedAt[r] - arrival[r] <= TtftSlo

\* An arrived request waits past an admission round only for a reason: as many
\* requests are active as may be, or the first one waiting does not fit, even
\* counting the prefix blocks it could hit and the entries that could be evicted.
NobodyWaitsWithoutReason ==
  (pc = "schedule" /\ WaitingRequests # {}
     /\ Cardinality(ActiveRequests) < MaxActive) =>
    LET r == FirstWaiting
    IN  \E hits \in 0 .. CompletePromptBlocks(r) :
          /\ IsHitRun(r, hits)
          /\ PromptBlocks(r) <= TotalBlocks
          /\ ~CanEnsure(PromptBlocks(r) - hits)

\* An item of an iteration fits the request it is for.
ItemIsValid(item) ==
  LET r == item.request
  IN  IF item.decode THEN IsDecoding(r)
      ELSE IsPrefilling(r) /\ item.prefill \in 1 .. Len(prompt[r]) - stored[r]

\* "Scheduler produced no work while requests were active" (simulator.cpp:97-100)
\* is unreachable, at most max_active_requests are active, and every item of an
\* iteration is still in the phase it was scheduled for when its turn comes,
\* although items completed before it changed phases, tables and the free list.
WorkStaysValid ==
  /\ Cardinality(ActiveRequests) <= MaxActive
  /\ pc = "schedule" => ScheduledWork # <<>>
  /\ \A k \in DOMAIN work : ItemIsValid(work[k])

Tokens(item) == IF item.decode THEN 1 ELSE item.prefill
TokensOf(r, items) ==
  SumTo(Len(items),
        [k \in 1 .. Len(items) |-> IF items[k].request = r THEN Tokens(items[k]) ELSE 0])
TokensScheduled(items) == SumTo(Len(items), [k \in 1 .. Len(items) |-> Tokens(items[k])])
\* What a request could be given in one iteration.
FullShare(r) ==
  IF IsDecoding(r) THEN 1
  ELSE IF IsPrefilling(r) THEN Least(ChunkTokens, Len(prompt[r]) - stored[r])
  ELSE 0

\* An iteration keeps to the token budget, names no request twice and wastes
\* nothing: when budget is left, every active request got all it could take;
\* when it is not, the class the policy favours went first ("decode-first
\* schedules one token per active decode sequence before using the remainder
\* for prefill", README.md:228).
IterationsUseTheBudget ==
  [][pc = "schedule" =>
       LET total == TokensScheduled(work')
           Served(r) == TokensOf(r, work')
       IN  /\ total <= TokenBudget
           /\ \A r \in Request : Served(r) <= FullShare(r)
           /\ \A k, l \in DOMAIN work' : work'[k].request = work'[l].request => k = l
           /\ total < TokenBudget => \A r \in Request : Served(r) = FullShare(r)
           /\ \A q, r \in ActiveRequests :
                (IsDecoding(q) /\ IsPrefilling(r)) =>
                  IF DecodeFirst THEN Served(r) > 0 => Served(q) = 1
                  ELSE Served(q) > 0 => Served(r) = FullShare(r)]_simVars

\* How many decoding requests are before r in the rotation.
Ahead(r) ==
  LET at == CHOOSE k \in DOMAIN DecodeCandidates : DecodeCandidates[k] = r
  IN  (at - 1 + Len(DecodeCandidates) - Rotation) % Len(DecodeCandidates)

\* The rotation is fair: a decoding request that an iteration passes over moves
\* forward by as many places as were served (simulator.cpp:256-271).
RotationAdvances ==
  [][pc = "schedule" =>
       \A r \in Request : (IsDecoding(r) /\ TokensOf(r, work') = 0) =>
         Ahead(r)' = Ahead(r) - (TokensScheduled(work') - PrefillTokens)]_simVars

\* Prompt tokens are computed once: between iterations, what the requests have
\* prefetched is what they hit in the prefix cache and what was processed.
PromptsComputedOnce ==
  work = <<>> =>
    SumTo(NumRequests, [r \in Request |-> Prefetched(r)])
      = processed + SumTo(NumRequests, hitTokens)

\* The timestamps tell what happened to a request, as the summary assumes
\* (metrics.cpp reads them and not the phase): admitted_ms is set for those that
\* were active, first_token_ms for those with a token, finished_ms for those
\* that left after admission, in this order; and a finished request has exactly
\* the output of the trace.
StampsMatch(r) ==
  /\ status[r] \in {"Active", "Finished"} => admittedAt[r] # NoTime
  /\ status[r] = "Queued" => admittedAt[r] = NoTime
  /\ firstToken[r] # NoTime <=> Generated(r) > 0
  /\ finishedAt[r] # NoTime <=>
       (admittedAt[r] # NoTime /\ status[r] \in {"Finished", "Rejected"})
  /\ firstToken[r] # NoTime => admittedAt[r] <= firstToken[r]
  /\ (firstToken[r] # NoTime /\ finishedAt[r] # NoTime) => firstToken[r] <= finishedAt[r]
  /\ finishedAt[r] <= now
  /\ Generated(r) <= actualOutput[r]
  /\ status[r] = "Finished" <=> Generated(r) = actualOutput[r]
TimestampsMatchPhases == \A r \in Request : StampsMatch(r)

\* When the loop ends nobody is left queued (the break of simulator.cpp:93 is
\* taken only when all is done) and the cache has been given everything back:
\* no promise, no reference, every page free or idle in the prefix cache.
EndsDrained ==
  pc = "done" =>
    /\ AllTerminal
    /\ nextArrival = NumRequests + 1
    /\ reserved = 0
    /\ \A b \in Block : refs[b] = 0
    /\ Len(free) + Cardinality(CachedBlocks) = TotalBlocks

\* An admission round that leaves nobody active leaves nobody waiting: an arrived
\* request is only ever held back by requests that will release what it waits
\* for, so the loop neither jumps on nor ends (simulator.cpp:88-94) with a request
\* in the queue that nothing would let in later.
NobodyWaitsForNobody ==
  [][(pc = "admit" /\ pc' # "admit" /\ ActiveRequests = {})
       => WaitingRequests = {}]_simVars

\* "Idle jumps between arrivals" (README.md:124): the clock jumps to the next
\* arrival only over time in which nobody who has arrived waits.
JumpsSkipNobody ==
  [][(pc = "arrive" /\ pc' = "admit" /\ now' > now) => WaitingRequests = {}]_simVars

\* The run ends, whatever the arrivals, the latencies and the memory pressure.
RunTerminates == <>(pc = "done")

-----------------------------------------------------------------------------
(* The inductive invariants of ServingSimulator_proofs *)

\* Outside complete_iteration nothing is left to do for the cache.
LoopIsInOrder ==
  /\ pc # "complete" => work = <<>> /\ calls = <<>>
  /\ pc = "schedule" => ActiveRequests # {}

\* Where the cursor into the sorted arrivals stands, and who may be expired.
ArrivalsAreInOrder ==
  /\ \A q, r \in Request : q < r => arrival[q] <= arrival[r]
  /\ \A r \in Request :
       /\ r < nextArrival => arrival[r] <= now
       /\ status[r] # "Queued" => r < nextArrival
  /\ pc = "admit" =>
       \A r \in Request : arrival[r] <= now =>
         /\ r < nextArrival
         /\ status[r] = "Queued" => now - arrival[r] <= TtftSlo

\* No request is named twice in an iteration: what one item does to its request
\* leaves the others valid.
WorkIsDistinct ==
  \A k, l \in DOMAIN work : work[k].request = work[l].request => k = l

StampsAreInThePast ==
  \A r \in Request :
    /\ status[r] = "Queued" => stored[r] = 0
    /\ admittedAt[r] <= now /\ firstToken[r] <= now

LoopInv ==
  /\ ReservationInv
  /\ SimTypeOK
  /\ LoopIsInOrder
  /\ ArrivalsAreInOrder
  /\ DecidedInOrder
  /\ AdmittedWithinSlo
  /\ Cardinality(ActiveRequests) <= MaxActive
  /\ \A k \in DOMAIN work : ItemIsValid(work[k])
  /\ WorkIsDistinct
  /\ StampsAreInThePast
  /\ TimestampsMatchPhases

\* The prompt tokens that the items of a list ask for.
PrefillIn(items) == SumTo(Len(items), [k \in 1 .. Len(items) |-> items[k].prefill])

\* PromptsComputedOnce within an iteration: what is left of the work has been
\* counted as processed and is not prefetched yet.
ComputedInv ==
  /\ SumTo(NumRequests, [r \in Request |-> Prefetched(r)])
       + PrefillIn(work)
       = processed + SumTo(NumRequests, hitTokens)
  /\ \A r \in Request : status[r] = "Queued" => hitTokens[r] = 0
  /\ \A k \in DOMAIN work : work[k].decode => work[k].prefill = 0
=============================================================================
