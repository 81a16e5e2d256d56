# TLA+ models of PagedServe-Sim

PagedServe-Sim is a single-threaded, event-driven simulator of LLM serving: a
run loop admits requests, schedules iterations of prefill chunks and decode
tokens under a token budget, and keeps the KV cache of the requests in pages.
Beside it stand a command line that runs the simulator for several scenarios, and
a CUDA kernel that computes attention over the same kind of paged cache.
This directory holds TLA+ specifications of them, the TLC configurations that
check the specifications on small instances, and TLAPS proofs for instances of
any size.

    tlc -workers 2 -config PagedPrefixTight.cfg MCPagedKvCache   # one run
    tlapm PagedKvCache_proofs.tla                            # one set of proofs

`PROJECT.json` lists the runs, the mutants that show each property can fail, the
source lines behind each definition, the hazards, the findings and the theorems.

## 1. Inventory

| component | source | state | operations | status |
| --- | --- | --- | --- | --- |
| paged allocator | `src/kv_cache.cpp:12-257` | free stack, per-page refs / used tokens / last use / pin, content index, reserved count | `admit`, `append_tokens`, `cache_completed_prompt_block`, `release`, eviction, `stats` | modelled |
| contiguous allocator | `src/kv_cache.cpp:259-372` | per-block owned / used tokens | the same interface | modelled |
| `KvCache` interface | `include/serving/kv_cache.hpp` | none | the four calls | modelled, as an abstract pool |
| simulator | `src/simulator.cpp` | requests, clock, arrival index, round-robin offset, measurements | arrival, expiry, admission, scheduling, completion, sampling | modelled over the paged allocator |
| metrics | `src/metrics.cpp` | none (pure) | percentiles, SLO check, summary, CSV | statistics and counts modelled |
| latency model | `src/latency_model.cpp` | profile table | load, nearest point, analytical formula | loading and lookup modelled |
| workload generator | `src/workload.cpp` | random generator, prefix table | generate, summarize | modelled but for distributions |
| command line | `src/main.cpp`, `configs/` | options; the files of the output directory | two argument loops, configuration file, benchmark, simulation, reports | control modelled |
| CUDA kernel and benchmark | `cuda/`, `src/cuda_bench_stub.cpp` | per-lane registers, shared query tile | checks, decode kernel, measured grid | kernel and checks modelled |
| scripts | `scripts/` | none | sweeps and plots | not modelled |

How they interact.  The simulator owns the requests and is the only caller of
the cache.  A request record is shared: the cache writes its block table, stored
tokens, hit tokens and reserved blocks; the simulator writes its phase and
timestamps.  There are no threads, so that interleaving means the order of
calls on behalf of different requests, and atomicity means what happens between
two calls of one handler: the work list of an iteration is built before time
passes and applied item by item afterwards.  Two parts are different: the kernel
runs on the lanes of a warp, which only meet at a barrier and in shuffles, and
invocations of the command line meet in the files that earlier ones left, whether
they succeeded or failed.

What is hard.

* Pages are promised at admission and taken later, while decode growth, evictions
  and other admissions draw on the same free list.
* The prefix cache shares pages between requests, keeps pages that nobody
  holds, and gives them up inside calls made for something else; a call that
  fails has evicted all the same.
* Lookup, eviction and referencing are three steps of one `admit`.
* The loop ends by `break` when nothing is active, whatever is still queued.
* One token budget is shared by two classes and a rotation over a changing list.
* Statistics are taken at moments chosen by the loop, and interpreted by code
  that sees timestamps and strings only.
* Arguments are read twice with a file in between, and a dozen calls that can
  throw separate the first file of a report from its last.
* The kernel sums over lanes and accumulates a softmax in one pass, rescaling what
  it has whenever the maximum rises, at addresses that only its callers check.

What makes each component correct, and where it is stated:

| component | properties |
| --- | --- |
| paged allocator | no page lost or free twice, references counted, promises kept, prefill never fails, appends private, index entries never stale |
| contiguous allocator | runs disjoint, ownership exact, appends never fail, statistics agree with admission |
| simulator | FIFO, SLO at admission, work conserving within the budget, fair rotation within an iteration, work list stays valid, ends drained, terminates |
| workload generator | traces that `run` accepts and does not reorder, groups that share their prefix, a summary that sees the order |
| metrics | every request counted once, gaps add up, ratios stay ratios, peaks agree with the timestamps, SLO modes as strict as documented |
| command line | the order of options does not matter, results belong to the trace they lie beside, also after failures |
| latency model | the point that is looked up is the nearest |
| CUDA kernel | equal to the two-pass softmax over the right tokens, in every order of lanes; accesses in bounds |

## 2. Modules

    BlockArithmetic <- PagedKvCache <- ServingSimulator <- MeteredSimulator -> GapStatistics
                    <- ContiguousKvCache
    LatencyModel    <- CommandLine
    Workload, PagedAttention        (by themselves)
    PagePool        <= PagedKvCache, ContiguousKvCache     (refinement)

(`<-` is EXTENDS, `<=` is implemented by.)

### 2.1 PagedKvCache

One action is one call of a method, with what the caller does to the request
before its next call.  Where a handler of `complete_iteration` makes several
calls, the ones it still owes are in `calls` and no other call is made before
them; this is what the caching calls after a prefill append and the release
after the last token look like.

| code | model |
| --- | --- |
| `free_block_ids_` | `free`, popped from its end |
| `Block::request_refs`, `used_tokens`, `cache_pinned` | `refs`, `used`, `pinned` |
| `Block::last_used`, `clock_` | `older`: each write takes a new value, and only the order is read |
| `cache_index_` | `cacheIndex`, from block contents to pages |
| `reserved_unmaterialized_`, `reserved_blocks` | `reserved`, `promised` |
| `block_table`, `stored_tokens`, `prefix_hit_tokens` | `table` (from 1; -1 is `NoBlock`), `stored`, `hitTokens` |
| `prefetched_tokens`, `generated_tokens` | `Prefetched`, `Generated`: `stored` split at the end of the prompt |
| `phase` | `status`; Active is Prefill until the prompt is stored, then Decode |
| `admit` | `AdmitImpossible`, `Admit`, `AdmitTemporarilyUnavailable` |
| `ensure_capacity`, `evict_one_cache_entry` | `Evictions`: the orders of least recently used idle entries, as many as needed |
| `append_tokens` | `AppendTokens`, inside `AppendPrefill` and `AppendDecode`; `GrowthExhausted` when it returns false |
| `cache_completed_prompt_block` | `CacheInsert`, or `CacheRefresh` when the content is cached already or the prefix cache is off |
| `release` | `Release` |
| expiry, by the caller | `Expire` |

The loop over the tokens of an append is one step: which pages it takes, how full
they are and in which order they were touched is stated as a whole.  The hash of a
block is its content, so that hash collisions (64-bit FNV) are not modelled.
How far `admit` looks for hits is stated by what it finds
(`IsHitRun`: the longest run of cached blocks from the first on).  Calls outside the
caller's order (append before admit, two admits) are not in the model, so that a loop
that made one would be stuck: TLC would report a deadlock.  That the calls which are made are
accepted is said of the loop by `WorkStaysValid` and of the cache by
`PrefillNeverFails`.

### 2.2 ContiguousKvCache and PagePool

`ContiguousKvCache` is the baseline: `Admit` is first fit over `owned`, appends
fill a run that was reserved whole, `DecodeLast` also releases.  The scan of
`stats` for the largest free run is the recursive function `FreeRunAt`; the scan of
`admit`, which keeps `run_start` and `run_length`, is stated by the run it finds
(`IsFreeRun`).

`PagePool` says what both promise and not how: the pages a request comes by were
free, or are shared out of the prefix cache and stay in it; only pages nobody
holds are evicted; a request that leaves keeps nothing.  The refinement mapping
(`Pool == INSTANCE PagePool WITH ...`) derives the holders of a page from the
block tables and the kept pages from `cache_pinned`; the contiguous layout keeps
none.

### 2.3 ServingSimulator, MeteredSimulator, GapStatistics

`ServingSimulator` is the run loop, with `pc` for the part of the loop it is in:

    arrive -> admit -> schedule -> complete -> arrive | done
                 \-> arrive (nothing active, arrivals to come) | done

Each step that calls the cache conjoins the action of `PagedKvCache` that models
the call.  `Arrive` is the jump to the next arrival, the arrival index and
expiry; `RejectImpossible`, `AdmitFirst`, `HoldTheLine`, `AdmissionDone` are the
ways an admission attempt can go; `Schedule` builds the work list, moves the
rotation and lets time pass; `CompletePrefill`, `CompleteDecode`, `RejectGrowth`
take one item, `FinishItem` makes the calls it still owes.  How long an iteration
takes is any element of `Durations`.  The two exceptions the loop can throw have
no step: a reachable state that throws would be reported as a deadlock.

`MeteredSimulator` adds the measurements to the same steps: last token, gaps and
rejection reason of each request; busy time, the utilization integral and the
peaks of the loop, sampled where the loop samples them (`MeteredSchedule`, between
the work list and its completion, and `MeteredEnd`, after the loop).  Ratios are in
whole units of 1/`Full`.  It also has the operators of `summarize_result` and
`request_meets_slo`.  `GapStatistics` has the statistics themselves; vectors of
values are bags, because the code sorts them or adds them up.

### 2.4 Workload

One step is one round of the loop of `generate_workload`; `ReturnEmpty`,
`RefuseRate` and `StartDrawing` are the ways into it.  Every draw is a choice
from the range of its distribution, cut down to the lengths an instance looks at.
Times are in 1/820 of a drawn gap, in which the burst scale 0.05 is 41 and the
normal scale (1 - 0.18 * 0.05) / (1 - 0.18) is 991.  A prompt is the prefix it
starts with and its length.  `Summary` folds `SummaryStep` over a trace as
`summarize_workload` does; `SortsBefore` and `PassesValidation` are the sort and
the tests of `run`, so that the module says what the generator owes the loop.

### 2.5 CommandLine and LatencyModel

`CommandLine` is `main`, one invocation after another over the same output
directory and decode profile:

    scan -> parse -> prepare -> load -> simulate <-> requests -> idle
                \-> benchmark -> measure -> idle
                \-> validate -> idle             (any of them) -> failed

`ScanConfig` and `ScanOther` are the first loop over the arguments, which looks
for `--config` only, one argument at a time; `ApplyConfigFile` lets the file set
options; `ParseOption`, `ParseValidate`, `ParseHelp` are the second loop;
`BadArguments` is every way in which the two refuse.  From then on each call that
can throw may do so (`Fail`), whatever the reason, and the files stay as they are.
A results file is the number of the invocation that last wrote it, which is what
relates it to the others; `traced` remembers what the invocation that wrote the
trace was asked for and whether it exited with 0.  A configuration file is the
settings that a command line option can override.  What options mean is stated for
arguments whose values are not spelled like options (`ValuesAreNoOptions`): the two
loops step over different arguments otherwise, and such an invocation usually ends
in an error.  The instance has some of them (`--config --help`), and all the other
properties hold of them too.

`LatencyModel` has the grid that `write_cuda_decode_profile` measures, in its order,
and the lookup of the nearest point.  A profile is the number of rows written
so far: 0 after the file was truncated, fewer than the grid after a benchmark
that failed.

### 2.6 PagedAttention

`Accepted` is the chain of `TORCH_CHECK`s on shapes, lengths and block ids, and
`Launch`, `Refuse`, `DivideByZero` what they lead to; the last is the remainder
by zero that precedes the check for positive head counts.  `StartBlock` takes any of the
thread blocks that are left (they share nothing they write, so that they run one
at a time).  Within one, `LoadQuery`, `PartialDot`, `Update` and `WriteOutput` are
steps of one lane, in any order between lanes; `Syncthreads`, `ShuffleDown` and
`Broadcast` wait for the whole warp.  A lane may start on the next token while
others still update for the last one.

| code | model |
| --- | --- |
| `query_tile` | `queryTile`, shared |
| `dot`, `running_max`, `running_denom`, `output_tile`, `token` | `dot`, `maximum`, `denominator`, `outputTile`, `token`, per lane |
| `offset` in `warp_sum` | `offset` |
| the cache tensors | operators of block, head, offset and dimension, read through `Load` at the flat address the kernel computes |

Elements are integers (`ElementsAssumption`) and exp is `Power`, a power of two in
units of 2^-`Spread`, so that one pass with rescaling and two passes agree exactly or
not at all; for that the scores of one row are at most `Spread` apart
(`SpreadAssumption`).  `MinusInfinity`, the first maximum, is no number.  `Expected` is
the reference, which indexes the tensors by block, head and offset and so does not
share the address arithmetic of the kernel; `IsTop`, `Denominator` and `Numerator`
give what it is made of for the first tokens of a sequence.  `ElementsAssumption` and
`SpreadAssumption` speak of elements that exist and say nothing of which calls the
checks accept.

### 2.7 What is not modelled

* Floating point.  Times are whole ticks, percentiles are exact rationals in
  hundredths, attention is exact; rounding, half precision, NaN other than "never
  taken", and the rates of the summary are left out.
* The latencies: `Durations` contains whatever a formula or a profile might return,
  0 included.
* How likely a workload is, and its realized rate.  `ServingSimulator` takes
  every workload over small sets, in every arrival order `run` can produce by
  sorting, and so more than `Workload` generates.
* The loop over the contiguous allocator; validation of configurations and traces
  (the ASSUMEs and the initial states are what passes it).
* Settings that only the configuration file or only a scenario has, the formats of
  INI and CSV files, how much of a file is on disk when a write fails.
* Device memory, copies, timing and the element types of tensors; the remaining
  scripts: numerics and text processing without protocol state.

## 3. Runs

All finish within two minutes.  Bounds are constants of the cfg files: no action
of a cache or of the loop has an artificial guard, because requests, prompts and
output lengths are finite and so is every behaviour; `CommandLine` stops after
`MaxInvocations`.  Deadlock is checked everywhere: `Terminated`, `Done`, `Returned`
and `Stop` are the only ways to stop, so a state where a call of the program has no
modelled outcome (an exception, an append beyond a table, a lane that waits for
one that has left) is an error.

| run | instance | what it asks |
| --- | --- | --- |
| `paged_prefix_tight` | 3 requests with overlapping prompts of 0, 3, 4 and 7 tokens, up to 3 new tokens, 3 pages of 2 tokens, prefix cache | `TypeOK`, `TablesInShape`, `ReservationsHonoured`, `PrefillNeverFails`, `NoBlockLost`, `DrainedCacheAdmits` |
| `paged_prefix_evicting` | 3 requests, all-or-nothing hits and a prompt too short to cache, 4 pages of 2 tokens | `EvictedPagesAreUnreferenced`, `PagesConserved`, `CachedPagesMatch`, `RefsCountHolders`, `AppendsWritePrivatePages`, `ImplementsPool` |
| `contiguous` | 4 requests of 1, 2 or 6 blocks, 5 blocks | `OwnershipExact`, `AppendsAlwaysFit`, `AdmitsWhatTheLargestRunHolds` |
| `simulator_prefix` | 3 requests, 4 pages, prefill-first, 3 active, budget 2, prefix cache, iterations of 0 or 2 ticks | `SimTypeOK`, `NobodyWaitsWithoutReason`, `PromptsComputedOnce`, `EndsDrained`, `RotationAdvances`, `NobodyWaitsForNobody`, `RunTerminates` |
| `metered` | 3 requests, 2 pages of 2 tokens, decode-first, 2 active, budget 2, iterations of 1 or 3 ticks, with the measurements | `DecidedInOrder`, `AdmittedWithinSlo`, `WorkStaysValid`, `TimestampsMatchPhases`, `IterationsUseTheBudget`, `RequestsAreAccountedFor`, `GapsTelescope`, `RatiosStayWithinOne`, `PeaksMatchTheRequests` |
| `workload` | up to 4 requests of every kind, 1 prefix group | `WorkloadIsRunnable`, `GroupsShareTheirPrefix`, `SummarySeesTheOrder` |
| `command_line` | up to 3 invocations, every pair of 14 phrases and every triple of 4, in any order | `OptionsTakePrecedence`, `OutputsInOrder`, `ResultsAreOfTheTrace`, `LookupsAreNearest` |
| `attention` | a warp of 4 lanes with 2 elements each; 2 sequences, 2 heads in 1 or 2 groups, 3 to 7 dimensions; 12 such calls and 32 around the checks | `KernelIsAttention`, `AccessesInBounds` |
| `paged_hit_evicted`, `paged_hit_elsewhere`, `metered_tail`, `simulator_idle_jump` | 2, 2, 1 and 3 requests | the four disagreements of section 5 |

Why the bounds are enough to be interesting.  Three requests are the least that
let one hold pages, one be promised pages and a third compete for them, and let a
first-come line have a middle.  Page counts are chosen below what all requests
need together, so that admission waits, growth fails and eviction happens; the
prompts include one that ends on a block boundary, one that does not, one that no
cache can hold and, in `paged_prefix_tight`, `metered` and `contiguous`, an empty one.  In `metered` the
SLO lies between the two iteration times, so that waiting requests reach it and
pass it, and gaps are met and missed.  In `workload`, one prefix group is enough for
a bursty trace to interleave shared and unique prefixes.  In `command_line`, two
invocations can leave files of different ages and the third can be refused, fail
or succeed between them; the phrases have two configuration files, one that is
refused, and every kind of bad argument.  In `attention`, two rounds of shuffles,
a partial last block, lanes with no, one and two dimensions, a block that two
sequences share and groups of one and of two heads all occur, and
scores rise and fall along a sequence.
The prefix cache is off in `metered`, whose loop then appends, grows and releases
as the paged allocator does without it, and in `simulator_idle_jump`.
`metered_tail` needs 22 tokens, because fewer than 21 gaps
make the interpolated p95 see the largest.  `Request` is a symmetry set where no
liveness property is checked and the requests have no order.

The mutants in `PROJECT.json` each change one definition the way a slip in the
code would (a dropped test, a wrong bound, a missing reset) and break exactly the
property they are listed for; the mutated forms stand beside the originals.

### Fairness

`SimSpec` has weak fairness of the whole next-state relation, and nothing finer:
the loop is one thread that nothing suspends, and which branch it takes is
decided by its state.  `RunTerminates` therefore needs no luck: it holds for
every sequence of iteration times, zero included, because each iteration moves a
request on and each return to `arrive` without one moves the clock to an arrival.
It is checked in `simulator_prefix`, where iterations can take no time at all.
`MeteredSpec` takes over the same condition.  The cache modules are passive and have
no fairness, and neither have `CommandLine` and `PagedAttention`, whose behaviours are
finite: that they do not stop half way is the deadlock check.

### The prefix cache and self-eviction

`admit` can evict a page it has just hit (section 5).  After that a page may be
on the free list and in a table at once, and `PagesConserved`, `RefsCountHolders`,
`CachedPagesMatch` and the refinement of `PagePool` fail in the code as it is.
`EvictedPagesAreUnreferenced` says that this never happens: it is the claim of
`README.md:227`, as an action property.  `paged_prefix_evicting` uses a workload in
which such a call cannot occur, prompts that hit all of their blocks or none; the
claim holds there, while pages are evicted, and so do all the others.
`paged_prefix_tight` does have the call, and shows what survives: promises are kept,
prefill never fails and no page disappears.  The proofs draw the same line (section
4): what needs the claim has it as a hypothesis about the behaviour, and nothing
else does.

## 4. Proofs

All theorems hold for every value of the constants that satisfies the named
assumptions: finite requests, prompts over the tokens, a finite set of block
contents, positive sizes, non-empty grids.  "If unreferenced" stands for the
hypothesis `EvictedPagesAreUnreferenced`, "plain" for `~PrefixCacheEnabled`.

| module | theorem | statement |
| --- | --- | --- |
| `BlockTheorems` | `DivBounds` ... `CeilDivLast` | division and `ceil_div`: bounds, monotonicity, the next and the last block |
| | `SetInduction`, `UpTo`, `LeastElement`, `GreatestElement` | induction over 0..n and over finite sets of numbers |
| | `SumsAre` ... `SumOfMultiples` | sums of the values of a function on 1..n: one more value, multiples, sums of two |
| `PagedKvCache_proofs` | `TypeCorrect` | `Spec => []TypeOK` |
| | `ReservationsAreHonoured` | `Spec => []ReservationsHonoured` |
| | `PrefillAlwaysFits` | `Spec => []PrefillNeverFails` |
| | `TablesKeepTheirShape` | `Spec => []TablesInShape` |
| | `NoPageIsLost` | `Spec => []NoBlockLost` |
| | `DrainedCachesAdmit` | `Spec => []DrainedCacheAdmits` |
| | `PagesStayConserved`, `RefsStayCounted`, `CachedContentStays` | if unreferenced, `[]PagesConserved`, `[]RefsCountHolders`, `[]CachedPagesMatch` |
| | `AppendsStayPrivate` | if unreferenced, `AppendsWritePrivatePages` |
| | `PagedImplementsPool` | if unreferenced, `ImplementsPool` |
| | `SharingIsThroughTheCache` | if unreferenced, `[]Pool!SharedPagesAreKept` |
| | `PlainPagesAreConserved`, `PlainImplementsPool` | plain: the same of every behaviour |
| `ServingSimulator_proofs` | `SimTypeCorrect` | `SimSpec => []SimTypeOK` |
| | `LoopKeepsTheCacheSafe` | `SimSpec => [](ReservationsHonoured /\ NoBlockLost /\ DrainedCacheAdmits)` |
| | `LoopConservesPages` | if unreferenced, `[](PagesConserved /\ RefsCountHolders)` |
| | `RunNeverThrows` | neither exception of the loop can be thrown |
| | `NobodyIsLeftWaiting` | `SimSpec => NobodyWaitsForNobody` |
| | `DecisionsAreInOrder`, `AdmissionsAreTimely`, `WaitingHasAReason` | `[]DecidedInOrder`, `[]AdmittedWithinSlo`, `[]NobodyWaitsWithoutReason` |
| | `WorkIsAlwaysValid`, `TimestampsAreRight` | `[]WorkStaysValid`, `[]TimestampsMatchPhases` |
| | `BudgetIsRespected`, `RotationIsFair` | `IterationsUseTheBudget`, `RotationAdvances` |
| | `PromptTokensAreComputedOnce` | `[]PromptsComputedOnce` |
| | `RunEndsEmptyHanded` | nobody holds a page or a promise at the end |
| | `RunEndsDrained`, `PlainRunEndsDrained` | if unreferenced, and plain: `[]EndsDrained` |
| `MeteredSimulator_proofs` | `ReportAccountsForAll` | `MeteredSpec => []RequestsAreAccountedFor` |
| | `GapsAddUp` | `MeteredSpec => []GapsTelescope` |
| | `BusyTimeIsServed` | `MeteredSpec => [](busy <= SimulatedTime /\ integral <= Full * busy)` |
| | `RatiosAreRatios`, `PlainRatiosAreRatios` | if unreferenced, and plain: `[]RatiosStayWithinOne` |
| | `PeaksMatch` | `MeteredSpec => []PeaksMatchTheRequests` |
| `ContiguousKvCache_proofs` | `ContiguousInvariant` | `Spec => []ContiguousInv` |
| | `RunsNeverOverlap` | `Spec => []OwnershipExact` |
| | `AppendsNeverFail` | `Spec => []AppendsAlwaysFit` |
| | `AdmissionMatchesTheMetric` | `Spec => []AdmitsWhatTheLargestRunHolds` |
| | `ContiguousImplementsPool` | `Spec => ImplementsPool` |
| `Workload_proofs` | `GeneratedTracesAreRunnable` | `Spec => []WorkloadIsRunnable` |
| | `PrefixesAreShared` | `Spec => []GroupsShareTheirPrefix` |
| | `SummariesSeeTheOrder` | `Spec => []SummarySeesTheOrder` |
| `PagedAttention_proofs` | `LaunchesStayInBounds` | `Spec => []AccessesInBounds` |
| | `KernelComputesAttention` | `Spec => []KernelIsAttention` |
| `CommandLine_proofs` | `OptionsAreTakenInOrder` | `Spec => []OptionsTakePrecedence` |
| | `FilesAreInOrder` | `Spec => []OutputsInOrder` |
| | `ResultsStayWithTheirTrace` | `Spec => []ResultsAreOfTheTrace` |
| | `LookupsTakeTheNearest` | `Spec => []LookupsAreNearest` |

**The paged allocator: promises.**  `PrefillNeverFails` is not inductive: it speaks of
free pages, and whether there are enough depends on what all requests were promised.
The inductive invariant is `ReservationInv`: types; the shape of every table
(pages in front, waiting entries behind, as long as the prompt or as what is
stored, whichever is more, and `promised` the number that waits); `reserved`
equal to the number of waiting entries of all tables; and `reserved <= Len(free)`.
The argument is a count.  `EntriesSplit` and `EntriesUpdate` say that changing
the table of one request changes the number of entries with a given value by its own.
`EvictionOutcome` says that an `ensure_capacity(n)` that succeeds leaves at least
`reserved + n` free pages.  `AppendOutcome` combines them with the block
arithmetic: an append takes as many pages as it turns waiting entries into held
ones plus as many as it asked for.  No assumption about the prefix cache is
needed, so these theorems also cover the executions of section 5.

**The paged allocator: pages.**  That no page is lost needs to know why a page may
leave the free list: `LossInv` adds that references never outnumber the entries of the
tables, that a pinned page is indexed under some content, and that a caching call names
a completed block.  It holds of all executions too: what a self-eviction
breaks is that a page has *only* one place, not that it has one.  The exact
statements need `PagesInv` on top: the free list without duplicates and disjoint from
what is allocated, references equal to the entries, index and pins inverse to each
other, and shared entries pinned and completed.  One step breaks it, an `admit` that evicts
a page it references at the end of the same call, and this is the step that
`EvictsUnreferenced` rules out; the theorems hence have the claim of the
repository's README, which section 5 shows to be false of the code, as a
hypothesis about the behaviour.  It is not empty: `paged_prefix_evicting`
checks that all behaviours of an instance that evicts satisfy it, and `PlainPages` proves that all
behaviours without the prefix cache do.  Every handler has its own lemma
for each of the three invariants.

**The pool.**  `PagedImplementsPool` and `ContiguousImplementsPool` go step by step.  An
admission or an append is `Acquire`: what it evicts was unheld, what it takes was free,
what it shares was kept.  A caching call is `Keep`, a release `GiveBack`, everything
else a stutter.  `SharingIsThroughTheCache` is proved from the pool alone (`PoolShares`):
`Acquire` is the only step that adds a holder to a page, and it takes pages that
nobody holds or shares pages that stay kept.

**The run loop.**  Every step of the loop is a step of `PagedKvCache` or leaves its
variables alone.  The model is built so, and `LoopCallsCache` says nothing about the
program; it is what carries the invariants of the cache over to the loop
(`LoopKeepsTheCacheSafe`, and, under the condition on evictions, `LoopConservesPages`).
What the loop adds is that the items it completes are still valid: with that,
`RunNeverThrows` gets from `PrefillNeverFails` that every chunk fits when its turn
comes.  `LoopInv` is the loop's own invariant: types; requests
are decided in order of arrival; the requests before `nextArrival` are those that have arrived; work is
distinct, valid and there only in `complete`; a release that is owed belongs to a
request that has ended; timestamps match the phases and lie in the past.  Work stays valid because no item of an iteration can
change what a later one stands for: names are distinct (`WorkIsDistinct`), and an
item changes the phase of its own request only.  `WaitingHasAReason` needs that a failed
`ensure_capacity` has evicted all that is idle and was short of pages even so
(`FailureLeavesNothing`): the hits it counted may be gone afterwards, and the request
still does not fit with the ones that are left.  For the end, `ReleasesAreOwed`
says that a request that has ended holds nothing or its release comes next.  When
nobody is active and no call is owed, every page is then on the free list or idle in the prefix
cache, and as there are `TotalBlocks` of them, any prompt that the cache can hold fits (`EmptyCacheFits`).
This is `DrainedCachesAdmit`, and why an admission round that stops for memory leaves
somebody active (`NobodyIsLeftWaiting`).  The count needs `LossInv` only, and so it
covers runs with self-evictions, where a page can be counted twice but none is missing.

What an iteration gives to each request is a fold over the requests, by recursive functions
on their indices: `LeftAfterIs`, `PrefillWorkIs` and `DecodeWorkIs` describe the work
list, and the lemmas of `BlockTheorems` the sums the properties are about, by
induction over the index.  From `TokensOfIs` and `ServedIs` the budget
(`BudgetIsUsed`) and the rotation (`RotationMoves`, by the arithmetic of a
remainder that wraps around once) follow without induction.
`ComputedInv` strengthens `PromptsComputedOnce` to the middle of an iteration:
what is prefetched and what is still in the work list are what was hit and what
was counted as processed when the list was made.

**The measurements.**  `MeteredStep` shows that a metered step is a step of the loop,
so that its invariants carry over; each measurement then has an invariant of its own.
`ReportInv` ties `reason` to `status` and to the admission: a request that was
admitted and is rejected can only have failed to grow.  `GapsInv` is the property with
the bounds of the bags; the work is in `OneMoreGap`, that one more gap adds one to
the size of a bag and its value to the total, whatever the largest gap was.
`BusyInv` needs that the loop schedules only while somebody is active, who has
arrived after the first request.  That the integral is in bounds needs no more
than that pages never overfill, and so holds of every run.  That no sample is all waste
needs `PagesStoreTokens`: an allocated page has a token in it.  The release of a page
empties it and a self-eviction breaks this (the request then names an empty page), so
`RatiosAreRatios` has the condition that the pages have.  `Full` is a multiple of
the tokens of any number of pages because it has a factorial in it (`FactorialsAre`),
so that `Utilization` is exact and its division never rounds.

For the peak of active requests, who was active when r was admitted is settled once the
clock has moved on: `ActivePeakInv` says that the peak is the largest count over the
admissions before now (`Sampled`), and that an admission at the present time is
still within the iteration that admitted it.  `ScheduleSamples` shows that what a
sample counts are those active when the newest was admitted.  This is where iterations that
take time are needed.  For the peak of pages, `AllocatedPeakInv` adds that a decode item
that is still to come belongs to a request whose pages were counted when it was scheduled;
its last token may take one more.  That the pages of one request are that many
different pages (`ActiveHoldTheirPages`) follows from the references being exact, and
is so only without the prefix cache: with it, a prompt of equal blocks can name
one page twice.  The property says it of that case only.

**The contiguous allocator.**  `ContiguousInv` (types, shape of the runs, exact
ownership) is inductive as it stands; that appends fit follows from the length of
the run and `CeilDivBounds`.  `FreeRunsAre` says of every block what the scan of
`stats` has counted when it gets there, by induction over the blocks; that a run exists that is long enough is then
the same as that the largest count is.

**The kernel.**  `AccessesInBounds` speaks of lanes at a token and of the launch; its
invariant `AddressInv` adds that only what the checks accept is launched, that a
block belongs to the grid, and that a lane in the loop is at a token of the sequence
of its row.  A flat index is a row and a column (`Flattened`, `Unflattened`,
`RowOfEntry`), three times over: block and KV head, offset, dimension.  That a KV
head exists for every query head is where the divisibility check is needed
(`Grouped`).

`KernelIsAttention` is a sentence about the end; its invariant follows a score and a
sum through the warp.  `WarpInv`: no lane starts on a token before every lane has its
score of the last (`Progress`), and while the lanes shuffle, the first `Width` of them
have the score between them.  It begins as the partial sums, into which the dimensions
are dealt out (`DealtOut`, `LanesAddUp`), each shuffle adds one half of the lanes to
the other (`HalvesAddUp`), and the broadcast finds all of it in lane 0.  `LanesInv`:
the maximum of a lane is the largest score of the tokens it is past, and its sums are
those of the reference over these tokens relative to that maximum.  A step of the loop
keeps this because a weight relative to the old maximum is the power that rescales it
times the weight relative to the new one (`WeightsRescale`, `TopMoves`), so that the
division that rescales a sum is exact (`SumsMove`).  What the lane loads is the element
the reference means (`LoadsAre`).  `OutputInv`: an element of the output is written
when its row has been started and its lane is done, and is then what the reference
expects (`ExpectedIs`).  Warp size, tile size, the shapes, the block table, the lengths
and the elements are arbitrary within the assumptions; the order of the lanes is any.

**The workload.**  That a trace is sorted is not inductive: `WorkloadInv` adds that
a request's id is its place and that no arrival is later than the clock.
`OutputsFitTheCap` compares the two switches case by case.  For the prefixes,
`PrefixesInv` adds that a request is of the group its place gives it and starts with
the prefix that the table holds for that group.  For the summary, `EndsInv` says that
the first request arrives at 0 and the last at the clock, `FoldExists` shows that the community module's
`FoldLeft` over a trace is a run of `SummaryStep`s, and `SummarySays` states what each
of them has seen.

**The command line.**  Two properties compare files, and say nothing of an invocation
that is half way.  `FilesInv` adds that no file is newer than the invocation; that
while it simulates, the trace is its own; and that the scenarios simulated so far are
the first ones asked for, and their files as new as the trace.  Hence the comparison,
which is written when none is left, finds all of its results written.  A failure
leaves the files alone and so keeps the invariant (`NoFilesStep`), wherever it happens.
The number of invocations, the argument vectors and the configuration files are
arbitrary.  `PrecedenceInv` says what the two loops over the arguments have made
of those before `index`: the first has followed `--config` only, the second has
taken everything on top of the file.  For the lookup, a place of the file is a row and a column
of the grid (`PlaceOf`, `RowAndColumn`), so that the point nearest in each
coordinate is measured, and what minimizes the sum can be worse in neither.

**Proved only.**  The contiguous allocator's refinement of the pool
(`ContiguousImplementsPool`) has no run of its own, as `OwnershipExact` fails of the
same slips; nor have the theorems that hold without the prefix cache, on the cache
alone.

**Model-checked only.**  Liveness (`RunTerminates`): it is about fairness and `ENABLED`.
What percentiles of a bag are: no property
that holds is about them, only the third disagreement of section 5.  The four
disagreements of section 5 are counterexamples and stay with TLC.

How induction is done.  The provers do not instantiate the operator parameter of the library's induction
theorems.  `SetInduction` is stated for a set instead of a predicate, and proved from
well-foundedness (`LeastElement`); a recursive function is first shown to exist
by the same means, and then described place by place.  This covers functions on
0..n.  Sums over sets and bags are stated as such functions (`SumTo`), so that they can be
proved about; folds of the community modules are not.

## 5. Where the code and its documents disagree

1. `paged_hit_evicted`.  `admit` looks up the blocks it hits, makes room, and
   references the hits last (`kv_cache.cpp:48-78`).  Making room can evict a hit,
   because nobody references it yet.  With two pages and two prompts that share
   their first block, the request gets a table whose first page is on the free
   list; its own next append, or another request, takes that page again.
   `README.md:227`: "Prefix cache entries are evicted by LRU only when no active
   request references the page."
2. `paged_hit_elsewhere`.  The key of a cached block hashes its own tokens only
   (`kv_cache.cpp:43`, `384-395`), so a first block can hit a page stored as the
   second block of another prompt, whose contents depend on other tokens: with
   the prompts 1 2 and 2, the second request hits the second page of the first.
   `README.md:7` calls it prefix caching.
3. `metered_tail`.  `docs/experiments.md:53-54` calls p95 stricter than the mean.
   The interpolated p95 of 21 gaps does not see the largest one, which the mean
   does.
4. `simulator_idle_jump`.  When nobody is active, the clock jumps to the next arrival
   before admission is tried again (`simulator.cpp:77-87`).  What kept a request
   waiting may have been given back at the end of the last iteration (`140`): it
   then waits in an empty system until somebody else arrives, and is rejected when that takes
   longer than its limit.  `README.md:124-125` speaks of "idle jumps between arrivals", but the
   time that is jumped over is not idle: somebody waits.  `RunTerminates` and
   `NobodyWaitsForNobody` hold all the same, because a jump always leads to an
   admission round.

## 6. Plan

Done so far: the allocators and their abstract pool, the loop, the workload
generator, the measurements, the command line with the decode profile, the kernel,
and the proofs above, which cover the safety and action properties that hold without
exception.  Next, in this order:

1. `ServingSimulator` over the contiguous allocator.
2. The same theorems of the loop for it: only those that carry over the
   cache's invariants, `RunNeverThrows` and the end of a run depend on the paged layout.
