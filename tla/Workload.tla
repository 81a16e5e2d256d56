------------------------------ MODULE Workload ------------------------------
(***************************************************************************)
(* The trace generator of src/src/workload.cpp: one step of the machine is *)
(* one round of the loop of generate_workload.  Every random draw is a     *)
(* choice.  A prompt is the part of its group's shared prefix it starts    *)
(* with and its length; the tokens behind the prefix are not kept.         *)
(*                                                                         *)
(* Times are counted in 1/820 of a drawn gap, the unit in which both gap   *)
(* scales of the bursty workload are integers.                             *)
(***************************************************************************)
EXTENDS Naturals, SequencesExt

CONSTANTS
  MaxRequests,         \* bound on the configured number of requests
  PrefixGroups,        \* 8 in the code
  SharedPrefixTokens,  \* WorkloadConfig::shared_prefix_tokens
  Gaps,                \* the draws of the exponential distribution
  Lengths,             \* the drawn <<prompt, output>> lengths looked at
  Contents             \* what the tokens of a prefix may be drawn as

ASSUME WorkloadAssumption ==
  /\ MaxRequests \in Nat
  /\ PrefixGroups \in Nat \ {0}
  /\ SharedPrefixTokens \in Nat
  /\ Gaps \subseteq Nat
  /\ Lengths \subseteq Nat \X Nat

VARIABLES
  kind,      \* WorkloadConfig::kind
  count,     \* WorkloadConfig::request_count
  rateOk,    \* is the arrival rate finite and positive?
  outcome,   \* how far generate_workload is
  clock,     \* arrival_ms
  prefixes,  \* shared_prefixes
  requests   \* requests

vars == <<kind, count, rateOk, outcome, clock, prefixes, requests>>
configVars == <<kind, count, rateOk>>

Kinds == {"short", "mixed_poisson", "mixed_burst", "prefix_heavy"}

\* The lengths a prompt and an answer may be drawn with.
PromptRange(k) ==
  CASE k = "short"        -> 32..192
    [] k = "prefix_heavy" -> 256..768
    [] OTHER              -> 32..256 \union 512..1536

\* Mutant of OutputRange: short answers as long as the short ones of a mix.
OutputRangeOfAMix(k) ==
  CASE k = "short"        -> 16..128
    [] k = "prefix_heavy" -> 64..384
    [] OTHER              -> 16..128 \union 256..768

OutputRange(k) ==
  CASE k = "short"        -> 16..96
    [] k = "prefix_heavy" -> 64..384
    [] OTHER              -> 16..128 \union 256..768

\* The cap the caller declares: max_new_tokens.
MaxNewTokens(k) ==
  CASE k = "short"        -> 96
    [] k = "prefix_heavy" -> 384
    [] OTHER              -> 768

\* What the loop adds to arrival_ms before a request that is not the first.
ScaledGaps(k) ==
  IF k = "mixed_burst" THEN {s * g : s \in {41, 991}, g \in Gaps}
                       ELSE {820 * g : g \in Gaps}

GapsBefore(index) == IF index = 0 THEN {0} ELSE ScaledGaps(kind)

ReusesPrefix(k, index) ==
  k = "prefix_heavy" \/ (k = "mixed_burst" /\ index % 3 # 0)

Group(k, index) ==
  IF ReusesPrefix(k, index) THEN <<"prefix", index % PrefixGroups>>
                            ELSE <<"unique", index>>

\* Mutant of PrefixChoices: the map of prefixes is not looked up.
PrefixAlwaysDrawn(group) == Contents

\* The prefix of a group is drawn when the group first comes up.
PrefixChoices(group) ==
  IF group \in DOMAIN prefixes THEN {prefixes[group]} ELSE Contents

MakePrompt(length, prefix) ==
  [length |-> length, prefix |-> prefix,
   shared |-> IF length < SharedPrefixTokens THEN length ELSE SharedPrefixTokens]

Init ==
  /\ kind \in Kinds
  /\ count \in 0..MaxRequests
  /\ rateOk \in BOOLEAN
  /\ outcome = "called"
  /\ clock = 0
  /\ prefixes = <<>>
  /\ requests = <<>>

\* No request is asked for: the rate is not even looked at.
ReturnEmpty ==
  /\ outcome = "called"
  /\ count = 0
  /\ outcome' = "returned"
  /\ UNCHANGED <<configVars, clock, prefixes, requests>>

RefuseRate ==
  /\ outcome = "called"
  /\ count > 0 /\ ~rateOk
  /\ outcome' = "refused"
  /\ UNCHANGED <<configVars, clock, prefixes, requests>>

StartDrawing ==
  /\ outcome = "called"
  /\ count > 0 /\ rateOk
  /\ outcome' = "drawing"
  /\ UNCHANGED <<configVars, clock, prefixes, requests>>

Draw ==
  /\ outcome = "drawing"
  /\ LET index == Len(requests)
         group == Group(kind, index)
     IN \E gap \in GapsBefore(index), prefix \in PrefixChoices(group),
           lengths \in Lengths :
          /\ lengths[1] \in PromptRange(kind)
          /\ lengths[2] \in OutputRange(kind)
          /\ clock' = clock + gap
          /\ prefixes' = [g \in DOMAIN prefixes \union {group} |->
                            IF g = group THEN prefix ELSE prefixes[g]]
          /\ requests' = Append(requests,
               [id |-> index, arrival |-> clock', group |-> group,
                prompt |-> MakePrompt(lengths[1], prefix),
                actual |-> lengths[2], maxNew |-> MaxNewTokens(kind)])
          /\ outcome' = IF index + 1 = count THEN "returned" ELSE "drawing"
  /\ UNCHANGED configVars

Returned ==
  /\ outcome \in {"returned", "refused"}
  /\ UNCHANGED vars

Next == ReturnEmpty \/ RefuseRate \/ StartDrawing \/ Draw \/ Returned

Spec == Init /\ [][Next]_vars

-----------------------------------------------------------------------------
\* summarize_workload, as the fold over the trace that it is.
\* Mutant of SummaryStep: every arrival is compared with the first one seen.
SummaryStepAgainstFront(stats, request) ==
  [first     |-> IF request.arrival < stats.first THEN request.arrival
                                                  ELSE stats.first,
   last      |-> IF request.arrival > stats.last THEN request.arrival
                                                 ELSE stats.last,
   monotonic |-> stats.monotonic /\ request.arrival >= stats.previous,
   previous  |-> stats.previous]

SummaryStep(stats, request) ==
  [first     |-> IF request.arrival < stats.first THEN request.arrival
                                                  ELSE stats.first,
   last      |-> IF request.arrival > stats.last THEN request.arrival
                                                 ELSE stats.last,
   monotonic |-> stats.monotonic /\ request.arrival >= stats.previous,
   previous  |-> request.arrival]

Summary(trace) ==
  FoldLeft(SummaryStep,
           [first |-> trace[1].arrival, last |-> trace[1].arrival,
            monotonic |-> TRUE, previous |-> trace[1].arrival],
           trace)

\* The order run() puts a trace in, and its tests of every request.
SortsBefore(r, s) ==
  r.arrival < s.arrival \/ (r.arrival = s.arrival /\ r.id < s.id)

PassesValidation(r) == 0 < r.actual /\ r.actual <= r.maxNew
-----------------------------------------------------------------------------
(***************************************************************************)
(* Type correctness.                                                       *)
(***************************************************************************)
Prompts == [length : Nat, prefix : Contents, shared : Nat]
Groups == {"prefix", "unique"} \X Nat
Requests == [id : Nat, arrival : Nat, group : Groups, prompt : Prompts,
             actual : Nat, maxNew : Nat]

TypeOK ==
  /\ kind \in Kinds
  /\ count \in Nat
  /\ rateOk \in BOOLEAN
  /\ outcome \in {"called", "drawing", "returned", "refused"}
  /\ clock \in Nat
  /\ DOMAIN prefixes \subseteq Groups
  /\ \A g \in DOMAIN prefixes : prefixes[g] \in Contents
  /\ requests \in Seq(Requests)

\* What generate_workload returns is accepted by run() and left in its place:
\* every answer fits the declared cap and is not empty, whatever the kind
\* (three tables, of lengths, of caps and of checks, have to agree), and the
\* stable_sort of the trace moves nothing, ties included.
WorkloadIsRunnable ==
  /\ \A i \in DOMAIN requests : PassesValidation(requests[i])
  /\ \A i, j \in DOMAIN requests :
       i < j => SortsBefore(requests[i], requests[j])

\* Two requests of one group start with the tokens of one prefix, however many
\* requests lie between them, and a request that is not to reuse a prefix is
\* alone in its group (tests/serving_tests.cpp:137-143 looks at one pair).
GroupsShareTheirPrefix ==
  \A i, j \in DOMAIN requests :
    i # j /\ requests[i].group = requests[j].group =>
      /\ requests[i].prompt.prefix = requests[j].prompt.prefix
      /\ ReusesPrefix(kind, i - 1) /\ ReusesPrefix(kind, j - 1)

Swapped(trace, i, j) ==
  [k \in DOMAIN trace |->
     IF k = i THEN trace[j] ELSE IF k = j THEN trace[i] ELSE trace[k]]

\* summarize_workload calls a trace monotonic exactly when no two arrivals are
\* out of order, also when the trace is not the generator's (two requests of a
\* generated one exchanged), and the span does not depend on the order.
SummarySeesTheOrder ==
  outcome = "returned" /\ requests # <<>> =>
    \A i, j \in DOMAIN requests :
      LET trace == Swapped(requests, i, j)
          stats == Summary(trace)
      IN /\ stats.monotonic <=>
              \A k, l \in DOMAIN trace :
                k < l => trace[k].arrival <= trace[l].arrival
         /\ stats.first = 0
         /\ stats.last = clock
=============================================================================
