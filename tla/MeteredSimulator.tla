-------------------------- MODULE MeteredSimulator --------------------------
(***************************************************************************)
(* The run loop of ServingSimulator with what it measures for the report,  *)
(* and the report that src/metrics.cpp makes of it: why requests were      *)
(* rejected, the gaps between their tokens, how long the loop was busy,    *)
(* how full the cache was, and which requests meet the SLO.                *)
(*                                                                         *)
(* The measurements never influence the loop: every step is a step of      *)
(* ServingSimulator that also writes the measurements of that code.        *)
(***************************************************************************)
EXTENDS ServingSimulator, GapStatistics

CONSTANT TpotSlo   \* ServiceConfig::tpot_slo_ms

ASSUME TpotAssumption == TpotSlo \in Nat

VARIABLES
  lastToken,   \* last_token_ms
  gaps,        \* inter_token_latencies_ms, as a bag
  reason,      \* rejection_reason
  busy,        \* observed_duration_ms_
  integral,    \* utilization_time_integral_, in parts of Full
  peaks        \* the three peaks, sampled once per iteration and at the end

requestMeters == <<lastToken, gaps, reason>>
loopMeters    == <<busy, integral, peaks>>
meterVars     == <<requestMeters, loopMeters>>
meteredVars   == <<simVars, meterVars>>

-----------------------------------------------------------------------------
(* stats, as the loop reads it *)

Factorials ==
  LET factorial[n \in 0 .. TotalBlocks] == IF n = 0 THEN 1 ELSE n * factorial[n - 1]
  IN  factorial

\* A utilization of 1: a number that the tokens of any number of pages divide.
Full == BlockTokens * Factorials[TotalBlocks]

NumAllocated == Cardinality(AllocatedBlocks)
TokensIn     == [k \in 1 .. TotalBlocks |-> IF k - 1 \in AllocatedBlocks THEN used[k - 1] ELSE 0]
Utilization  ==
  IF AllocatedBlocks = {} THEN 0
  ELSE SumTo(TotalBlocks, TokensIn) * (Full \div (NumAllocated * BlockTokens))
Waste == IF AllocatedBlocks = {} THEN 0 ELSE Full - Utilization

\* Mutant of Raised: the last sample counts, not the largest.
RaisedToLast(allocated, waste, active) ==
  [allocated |-> allocated, waste |-> waste, active |-> active]

Raised(allocated, waste, active) ==
  [allocated |-> Greatest(peaks.allocated, allocated),
   waste     |-> Greatest(peaks.waste, waste),
   active    |-> Greatest(peaks.active, active)]

MeteredInit ==
  /\ SimInit
  /\ lastToken = [r \in Request |-> NoTime]
  /\ gaps = [r \in Request |-> EmptyBag]
  /\ reason = [r \in Request |-> "none"]
  /\ busy = 0
  /\ integral = 0
  /\ peaks = [allocated |-> 0, waste |-> 0, active |-> 0]

-----------------------------------------------------------------------------

\* Mutants of MeteredArrive: a request that waited too long leaves no reason;
\* the jump to the next arrival counts as busy.
MeteredArriveSilent == Arrive /\ UNCHANGED meterVars
MeteredArriveBusy ==
  /\ Arrive
  /\ reason' = [r \in Request |-> IF status'[r] # status[r] THEN "waited" ELSE reason[r]]
  /\ busy' = busy + now' - now
  /\ UNCHANGED <<lastToken, gaps, integral, peaks>>

MeteredArrive ==
  /\ Arrive
  /\ reason' = [r \in Request |-> IF status'[r] # status[r] THEN "waited" ELSE reason[r]]
  /\ UNCHANGED <<lastToken, gaps, loopMeters>>

MeteredRejectImpossible ==
  /\ RejectImpossible
  /\ reason' = [reason EXCEPT ![FirstWaiting] = "capacity"]
  /\ UNCHANGED <<lastToken, gaps, loopMeters>>

\* The samples are taken before the work of the iteration takes pages.
MeteredSchedule ==
  /\ Schedule
  /\ busy' = busy + now' - now
  /\ integral' = integral + Utilization * (now' - now)
  /\ peaks' = Raised(NumAllocated, Waste, Cardinality(ActiveRequests))
  /\ UNCHANGED requestMeters

\* Mutant of GapsAfter: the first token counts as a gap since the admission.
GapsFromAdmission(r) ==
  [gaps EXCEPT ![r] = @ (+) SetToBag({now - Greatest(lastToken[r], admittedAt[r])})]

GapsAfter(r) ==
  IF lastToken[r] = NoTime THEN gaps
  ELSE [gaps EXCEPT ![r] = @ (+) SetToBag({now - lastToken[r]})]

MeteredDecode ==
  /\ CompleteDecode
  /\ gaps' = GapsAfter(Head(work).request)
  /\ lastToken' = [lastToken EXCEPT ![Head(work).request] = now]
  /\ UNCHANGED <<reason, loopMeters>>

MeteredRejectGrowth ==
  /\ RejectGrowth
  /\ reason' = [reason EXCEPT ![Head(work).request] = "growth"]
  /\ UNCHANGED <<lastToken, gaps, loopMeters>>

\* The loop may end here; then the cache is sampled once more.
MeteredEnd ==
  /\ HoldTheLine \/ AdmissionDone \/ EndIteration
  /\ peaks' = IF pc' = "done" THEN Raised(NumAllocated', Waste', 0) ELSE peaks
  /\ UNCHANGED <<requestMeters, busy, integral>>

\* Steps that nothing is measured in.
Unmetered ==
  /\ AdmitFirst \/ CompletePrefill \/ FinishItem \/ Done
  /\ UNCHANGED meterVars

MeteredNext ==
  \/ MeteredArrive \/ MeteredRejectImpossible \/ MeteredSchedule
  \/ MeteredDecode \/ MeteredRejectGrowth \/ MeteredEnd \/ Unmetered

MeteredSpec == MeteredInit /\ [][MeteredNext]_meteredVars /\ WF_meteredVars(MeteredNext)

-----------------------------------------------------------------------------
(* summarize_result *)

Completed        == {r \in Request : status[r] = "Finished"}
AdmittedRequests == {r \in Request : admittedAt[r] # NoTime}
RejectedFor(why) == {r \in Request : status[r] = "Rejected" /\ reason[r] = why}
SimulatedTime    == Monus(now, IF Request = {} THEN 0 ELSE arrival[1])

MeetsTtft(r) == firstToken[r] # NoTime /\ firstToken[r] - arrival[r] <= TtftSlo

\* request_meets_slo
Compliant(mode) ==
  {r \in Completed : MeetsTtft(r) /\ Within(gaps[r], mode, TpotSlo)}

-----------------------------------------------------------------------------
(* Properties *)

\* The report accounts for every request exactly once: completed, or rejected
\* for one of the three reasons the summary counts (metrics.cpp:163-188); those
\* admitted are the completed ones and those that could not grow; and only they
\* have generated tokens, so that all_generated_tokens exceeds generated_tokens
\* by the "partial output from rejected requests" (docs/experiments.md:55-56) that
\* ran out of pages and by nothing else.
RequestsAreAccountedFor ==
  pc = "done" =>
    /\ Request \ Completed =
         RejectedFor("capacity") \cup RejectedFor("growth") \cup RejectedFor("waited")
    /\ AdmittedRequests = Completed \cup RejectedFor("growth")
    /\ \A r \in Request \ AdmittedRequests : Generated(r) = 0

\* The gaps of a request add up to the time between its first and its last
\* token, and there is one less of them than of tokens: no iteration is counted
\* twice or forgotten, however many it was passed over in, and the mean TPOT of
\* the report is the usual (last - first) / (tokens - 1).
GapsTelescope ==
  \A r \in Request :
    IF firstToken[r] = NoTime THEN gaps[r] = EmptyBag /\ lastToken[r] = NoTime
    ELSE /\ Size(gaps[r]) = Generated(r) - 1
         /\ Total(gaps[r]) = lastToken[r] - firstToken[r]
         /\ status[r] = "Finished" => lastToken[r] = finishedAt[r]

\* What the report divides stays a ratio.  The loop is never busy for longer than
\* the simulated time since the first arrival ("busy_time_ms excludes idle jumps
\* between arrivals", README.md:124-125), the average utilization is at most 1,
\* and no sample finds the cache all waste: a page is promised at admission but
\* taken only when a token is stored in it.
RatiosStayWithinOne ==
  /\ busy <= SimulatedTime
  /\ integral <= Full * busy
  /\ peaks.waste < Full

\* The peaks of the summary and the timestamps of the requests tell the same
\* story, although the peaks are sampled before an iteration takes effect.  When
\* iterations take time, peak_active_requests is the largest number of requests
\* that were active when one of them was admitted.  peak_allocated_blocks can be
\* behind, but by no more than the page that a last token takes: as long as pages
\* are not shared, nobody who finished ever held more of them before it.
ActiveWith(r) ==
  {q \in AdmittedRequests : admittedAt[q] <= admittedAt[r] /\ admittedAt[r] < finishedAt[q]}
PeaksMatchTheRequests ==
  (pc = "done" /\ 0 \notin Durations) =>
    /\ \A r \in AdmittedRequests : Cardinality(ActiveWith(r)) <= peaks.active
    /\ AdmittedRequests # {} =>
         \E r \in AdmittedRequests : Cardinality(ActiveWith(r)) = peaks.active
    /\ ~PrefixCacheEnabled =>
         \A r \in Completed : CeilDiv(stored[r] - 1, BlockTokens) <= peaks.allocated

\* "p95 and max check its p95 and worst gap. The latter two are stricter than
\* conventional per-request mean TPOT" (docs/experiments.md:53-54): whoever
\* meets the p95 SLO meets the mean SLO.
P95IsStricterThanMean == Compliant("p95") \subseteq Compliant("mean")

-----------------------------------------------------------------------------
(* The inductive invariants of MeteredSimulator_proofs *)

\* Why a request is counted where it is: a reason is given exactly when a request is
\* rejected, and "growth" to those that had been admitted.
ReportInv ==
  /\ reason \in [Request -> {"none", "capacity", "growth", "waited"}]
  /\ \A r \in Request :
       /\ status[r] = "Rejected" <=> reason[r] # "none"
       /\ admittedAt[r] # NoTime <=> status[r] \in {"Active", "Finished"} \/ reason[r] = "growth"
       /\ admittedAt[r] = NoTime => stored[r] = 0

\* Gaps are bags of times that have passed.
GapsInv ==
  /\ gaps = [r \in Request |-> gaps[r]]
  /\ lastToken \in [Request -> Nat \cup {NoTime}]
  /\ \A r \in Request :
       /\ IsABag(gaps[r]) /\ DOMAIN gaps[r] \subseteq 0 .. now
       /\ firstToken[r] # NoTime =>
            lastToken[r] # NoTime /\ firstToken[r] <= lastToken[r] /\ lastToken[r] <= now
  /\ GapsTelescope

\* The loop is busy only while time passes, for requests that have arrived, and the
\* cache holds no more than its pages can.
BusyInv ==
  /\ busy \in Nat /\ integral \in Nat
  /\ busy <= SimulatedTime
  /\ integral <= Full * busy

\* What the cache reports when it is sampled.
SampleInv == Waste \in Nat /\ Waste < Full

\* Who was active when r was admitted is known from the iteration on that follows.
\* From then it stays the same, so that the peak is one of the numbers of them.
Sampled == {r \in AdmittedRequests : admittedAt[r] < now}
SampledWith(r) ==
  {q \in AdmittedRequests :
     admittedAt[q] <= admittedAt[r] /\ (status[q] = "Active" \/ admittedAt[r] < finishedAt[q])}
ActivePeakInv ==
  /\ peaks.active \in Nat
  /\ \A r \in AdmittedRequests \ Sampled :
       pc \in {"admit", "schedule"} /\ status[r] = "Active" /\ admittedAt[r] = now
  /\ \A r \in Sampled : Cardinality(SampledWith(r)) <= peaks.active
  /\ IF Sampled = {} THEN peaks.active = 0
     ELSE \E r \in Sampled : Cardinality(SampledWith(r)) = peaks.active

\* A request is sampled with the pages that it has when its last token is scheduled.
AllocatedPeakInv ==
  /\ peaks.allocated \in Nat
  /\ \A k \in DOMAIN work :
       work[k].decode => CeilDiv(stored[work[k].request], BlockTokens) <= peaks.allocated
  /\ \A r \in Completed : CeilDiv(stored[r] - 1, BlockTokens) <= peaks.allocated
=============================================================================
