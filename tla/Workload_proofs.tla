--------------------------- MODULE Workload_proofs --------------------------
(***************************************************************************)
(* Every trace the generator can return, for every configuration, is       *)
(* accepted by run() and is in the order run() sorts into.                 *)
(*                                                                         *)
(* That a trace is sorted is not inductive: it takes that the clock has    *)
(* not run behind the last arrival, and that a request's id is its place.  *)
(***************************************************************************)
EXTENDS Workload, BlockTheorems

IdsArePlaces == \A i \in DOMAIN requests : requests[i].id = i - 1

ClockIsLatest == \A i \in DOMAIN requests : requests[i].arrival <= clock

WorkloadInv ==
  TypeOK /\ IdsArePlaces /\ ClockIsLatest /\ WorkloadIsRunnable

-----------------------------------------------------------------------------
\* No kind of workload draws an answer that is empty or longer than the cap it
\* declares: the ranges of sample_output_length against the switch that sets
\* max_new_tokens.
LEMMA OutputsFitTheCap ==
  ASSUME NEW k \in Kinds, NEW n \in OutputRange(k)
  PROVE  n \in Nat /\ 0 < n /\ n <= MaxNewTokens(k) /\ MaxNewTokens(k) \in Nat
<1>1. CASE k = "short"
  BY <1>1 DEF OutputRange, MaxNewTokens
<1>2. CASE k = "prefix_heavy"
  BY <1>2 DEF OutputRange, MaxNewTokens
<1>3. CASE k \notin {"short", "prefix_heavy"}
  BY <1>3 DEF OutputRange, MaxNewTokens, Kinds
<1> QED BY <1>1, <1>2, <1>3

\* No gap is negative, the scaled ones of a bursty workload included.
LEMMA GapsAreNatural ==
  ASSUME TypeOK, NEW index \in Nat, NEW gap \in GapsBefore(index)
  PROVE  gap \in Nat
<1>1. CASE index = 0
  BY <1>1 DEF GapsBefore
<1>2. CASE index # 0
  <2>1. gap \in ScaledGaps(kind)
    BY <1>2 DEF GapsBefore
  <2>2. PICK s \in {41, 820, 991}, g \in Gaps : gap = s * g
    BY <2>1 DEF ScaledGaps
  <2>3. g \in Nat
    BY WorkloadAssumption
  <2>4. CASE s = 41
    BY <2>2, <2>3, <2>4
  <2>5. CASE s = 820
    BY <2>2, <2>3, <2>5
  <2>6. CASE s = 991
    BY <2>2, <2>3, <2>6
  <2> QED BY <2>4, <2>5, <2>6
<1> QED BY <1>1, <1>2

LEMMA InitEstablishesInv == Init => WorkloadInv
<1> SUFFICES ASSUME Init PROVE WorkloadInv
  OBVIOUS
<1>1. requests = <<>> /\ DOMAIN requests = {}
  BY DEF Init
<1> QED BY <1>1, WorkloadAssumption DEF Init, WorkloadInv, TypeOK, IdsArePlaces, ClockIsLatest,
                    WorkloadIsRunnable

LEMMA GroupsAreGroups ==
  ASSUME NEW k, NEW index \in Nat
  PROVE  Group(k, index) \in Groups
<1>1. index % PrefixGroups \in Nat
  BY WorkloadAssumption
<1> QED BY <1>1 DEF Group, Groups

\* A prompt is one of the type, whichever prefix it starts with.
LEMMA PromptsArePrompts ==
  ASSUME NEW length \in Nat, NEW prefix \in Contents
  PROVE  MakePrompt(length, prefix) \in Prompts
BY WorkloadAssumption DEF MakePrompt, Prompts

LEMMA DrawKeepsInv ==
  ASSUME WorkloadInv, Draw
  PROVE  WorkloadInv'
<1> DEFINE index == Len(requests)
<1> DEFINE group == Group(kind, index)
<1>1. PICK gap \in GapsBefore(index), prefix \in PrefixChoices(group),
           lengths \in Lengths :
        /\ lengths[1] \in PromptRange(kind)
        /\ lengths[2] \in OutputRange(kind)
        /\ clock' = clock + gap
        /\ prefixes' = [g \in DOMAIN prefixes \union {group} |->
                          IF g = group THEN prefix ELSE prefixes[g]]
        /\ requests' = Append(requests,
             [id |-> index, arrival |-> clock', group |-> group,
              prompt |-> MakePrompt(lengths[1], prefix),
              actual |-> lengths[2], maxNew |-> MaxNewTokens(kind)])
        /\ outcome' = IF index + 1 = count THEN "returned" ELSE "drawing"
  BY DEF Draw
<1> DEFINE new == [id |-> index, arrival |-> clock', group |-> group,
                   prompt |-> MakePrompt(lengths[1], prefix),
                   actual |-> lengths[2], maxNew |-> MaxNewTokens(kind)]
<1>2. TypeOK /\ kind' = kind /\ count' = count /\ rateOk' = rateOk
  BY DEF WorkloadInv, Draw, configVars
<1>3. index \in Nat /\ clock \in Nat /\ requests \in Seq(Requests)
  BY <1>2 DEF TypeOK
<1>4. gap \in Nat /\ clock' \in Nat /\ clock <= clock'
  <2>1. gap \in Nat
    BY <1>2, <1>3, GapsAreNatural
  <2> QED BY <2>1, <1>1, <1>3
<1>5. group \in Groups
  BY <1>3, GroupsAreGroups
<1>6. prefix \in Contents
  BY <1>2 DEF PrefixChoices, TypeOK
<1>7. /\ lengths[2] \in Nat /\ 0 < lengths[2]
      /\ lengths[2] <= MaxNewTokens(kind) /\ MaxNewTokens(kind) \in Nat
  BY <1>1, <1>2, OutputsFitTheCap DEF TypeOK
<1>8. new \in Requests
  <2>1. lengths[1] \in Nat
    BY WorkloadAssumption
  <2>2. MakePrompt(lengths[1], prefix) \in Prompts
    BY <2>1, <1>6, PromptsArePrompts
  <2> QED BY <2>2, <1>3, <1>4, <1>5, <1>7 DEF Requests
<1>9. requests' = Append(requests, new)
  BY <1>1
<1> HIDE DEF new
<1>10. /\ requests' \in Seq(Requests)
       /\ DOMAIN requests' = DOMAIN requests \union {index + 1}
       /\ \A i \in DOMAIN requests : requests'[i] = requests[i]
       /\ requests'[index + 1] = new
       /\ \A i \in DOMAIN requests : i \in Nat /\ 1 <= i /\ i <= index
  BY <1>3, <1>8, <1>9
<1>11. /\ new.id = index /\ new.arrival = clock'
       /\ new.actual = lengths[2] /\ new.maxNew = MaxNewTokens(kind)
  BY DEF new
<1>12. \A i \in DOMAIN requests :
         /\ requests[i].arrival \in Nat /\ requests[i].arrival <= clock
         /\ requests[i].id = i - 1
         /\ PassesValidation(requests[i])
  <2>1. \A i \in DOMAIN requests : requests[i] \in Requests
    BY <1>3
  <2> QED BY <2>1 DEF WorkloadInv, IdsArePlaces, ClockIsLatest,
                      WorkloadIsRunnable, Requests
<1>13. TypeOK'
  <2>1. DOMAIN prefixes' \subseteq Groups
    BY <1>1, <1>2, <1>5 DEF TypeOK
  <2>2. \A g \in DOMAIN prefixes' : prefixes'[g] \in Contents
    BY <1>1, <1>2, <1>6 DEF TypeOK
  <2>3. outcome' \in {"called", "drawing", "returned", "refused"}
    BY <1>1
  <2> QED BY <2>1, <2>2, <2>3, <1>2, <1>4, <1>10 DEF TypeOK
<1>14. IdsArePlaces'
  BY <1>3, <1>10, <1>11, <1>12 DEF IdsArePlaces
<1>15. ClockIsLatest'
  <2> SUFFICES ASSUME NEW i \in DOMAIN requests'
               PROVE  requests'[i].arrival <= clock'
    BY DEF ClockIsLatest
  <2>1. CASE i \in DOMAIN requests
    BY <2>1, <1>3, <1>4, <1>10, <1>12
  <2>2. CASE i = index + 1
    BY <2>2, <1>4, <1>10, <1>11
  <2> QED BY <2>1, <2>2, <1>10
<1>16. \A i \in DOMAIN requests' : PassesValidation(requests'[i])
  BY <1>7, <1>10, <1>11, <1>12 DEF PassesValidation
<1>17. \A i, j \in DOMAIN requests' :
         i < j => SortsBefore(requests'[i], requests'[j])
  <2> SUFFICES ASSUME NEW i \in DOMAIN requests', NEW j \in DOMAIN requests',
                      i < j
               PROVE  SortsBefore(requests'[i], requests'[j])
    OBVIOUS
  <2>1. i \in DOMAIN requests
    BY <1>3, <1>10
  <2>2. CASE j \in DOMAIN requests
    BY <2>1, <2>2, <1>10 DEF WorkloadInv, WorkloadIsRunnable
  <2>3. CASE j = index + 1
    <3>1. requests[i].arrival <= clock' /\ requests[i].id < index
      BY <2>1, <1>3, <1>4, <1>10, <1>12
    <3> QED BY <3>1, <2>1, <2>3, <1>4, <1>10, <1>11, <1>12 DEF SortsBefore
  <2> QED BY <2>2, <2>3, <1>10
<1> QED BY <1>13, <1>14, <1>15, <1>16, <1>17 DEF WorkloadInv, WorkloadIsRunnable

LEMMA NextKeepsInv == WorkloadInv /\ [Next]_vars => WorkloadInv'
<1> SUFFICES ASSUME WorkloadInv, [Next]_vars PROVE WorkloadInv'
  OBVIOUS
<1>1. CASE ReturnEmpty \/ RefuseRate \/ StartDrawing
  <2>1. /\ outcome' \in {"called", "drawing", "returned", "refused"}
        /\ UNCHANGED <<kind, count, rateOk, clock, prefixes, requests>>
    BY <1>1 DEF ReturnEmpty, RefuseRate, StartDrawing, configVars
  <2> QED BY <2>1 DEF WorkloadInv, TypeOK, IdsArePlaces, ClockIsLatest,
                      WorkloadIsRunnable
<1>2. CASE Draw
  BY <1>2, DrawKeepsInv
<1>3. CASE Returned \/ UNCHANGED vars
  BY <1>3 DEF Returned, vars, WorkloadInv, TypeOK, IdsArePlaces, ClockIsLatest,
              WorkloadIsRunnable
<1> QED BY <1>1, <1>2, <1>3 DEF Next

\* The generator returns only traces that run() accepts and leaves in their
\* order, whatever the configuration and the draws.
THEOREM GeneratedTracesAreRunnable == Spec => []WorkloadIsRunnable
<1>1. WorkloadInv => WorkloadIsRunnable
  BY DEF WorkloadInv
<1> QED BY <1>1, InitEstablishesInv, NextKeepsInv, PTL DEF Spec

-----------------------------------------------------------------------------
(* Prefixes *)

\* The invariant behind the sharing of prefixes: every request is of the group
\* its place gives it and starts with the prefix that the map holds for it.
PrefixesInv ==
  \A i \in DOMAIN requests :
    /\ requests[i].group = Group(kind, i - 1)
    /\ requests[i].group \in DOMAIN prefixes
    /\ requests[i].prompt.prefix = prefixes[requests[i].group]

\* The invariant behind the span: the first request arrives at 0, the last one
\* when the clock was last advanced.
EndsInv ==
  /\ requests = <<>> => clock = 0
  /\ requests # <<>> => requests[1].arrival = 0 /\ requests[Len(requests)].arrival = clock

\* What a round of the loop does to the trace and to the map of prefixes.
LEMMA DrawAppends ==
  ASSUME TypeOK, Draw
  PROVE  \E gap, prefix, new :
           /\ gap \in Nat /\ prefix \in Contents
           /\ kind' = kind /\ clock' = clock + gap
           /\ Len(requests) = 0 => gap = 0
           /\ new.group = Group(kind, Len(requests)) /\ new.arrival = clock'
           /\ new.prompt.prefix = prefix
           /\ new.group \in DOMAIN prefixes => prefix = prefixes[new.group]
           /\ prefixes' = [g \in DOMAIN prefixes \union {new.group} |->
                             IF g = new.group THEN prefix ELSE prefixes[g]]
           /\ requests' = Append(requests, new)
<1> DEFINE index == Len(requests)
           group == Group(kind, index)
<1>1. PICK gap \in GapsBefore(index), prefix \in PrefixChoices(group),
           lengths \in Lengths :
        /\ clock' = clock + gap
        /\ prefixes' = [g \in DOMAIN prefixes \union {group} |->
                          IF g = group THEN prefix ELSE prefixes[g]]
        /\ requests' = Append(requests,
             [id |-> index, arrival |-> clock', group |-> group,
              prompt |-> MakePrompt(lengths[1], prefix),
              actual |-> lengths[2], maxNew |-> MaxNewTokens(kind)])
  BY DEF Draw
<1> DEFINE new == [id |-> index, arrival |-> clock', group |-> group,
                   prompt |-> MakePrompt(lengths[1], prefix),
                   actual |-> lengths[2], maxNew |-> MaxNewTokens(kind)]
<1>2. index \in Nat
  BY DEF TypeOK
<1>3. gap \in Nat /\ (index = 0 => gap = 0)
  BY <1>2, GapsAreNatural DEF GapsBefore
<1>4. prefix \in Contents /\ (group \in DOMAIN prefixes => prefix = prefixes[group])
  BY DEF PrefixChoices, TypeOK
<1>5. new.group = group /\ new.arrival = clock' /\ new.prompt.prefix = prefix
  BY DEF MakePrompt
<1>6. kind' = kind
  BY DEF Draw, configVars
<1>7. requests' = Append(requests, new)
  BY <1>1
<1> HIDE DEF new, group, index
<1>8. /\ new.group = group
      /\ prefixes' = [g \in DOMAIN prefixes \union {new.group} |->
                        IF g = new.group THEN prefix ELSE prefixes[g]]
  BY <1>1, <1>5
<1>9. /\ gap \in Nat /\ prefix \in Contents
      /\ kind' = kind /\ clock' = clock + gap
      /\ Len(requests) = 0 => gap = 0
      /\ new.group = Group(kind, Len(requests)) /\ new.arrival = clock'
      /\ new.prompt.prefix = prefix
      /\ new.group \in DOMAIN prefixes => prefix = prefixes[new.group]
  BY <1>1, <1>3, <1>4, <1>5, <1>6 DEF index, group
<1> QED BY <1>7, <1>8, <1>9

LEMMA DrawKeepsPrefixes ==
  ASSUME TypeOK, PrefixesInv, EndsInv, Draw
  PROVE  PrefixesInv' /\ EndsInv'
<1> DEFINE n == Len(requests)
<1>1. PICK gap, prefix, new :
        /\ gap \in Nat /\ prefix \in Contents
        /\ kind' = kind /\ clock' = clock + gap
        /\ Len(requests) = 0 => gap = 0
        /\ new.group = Group(kind, Len(requests)) /\ new.arrival = clock'
        /\ new.prompt.prefix = prefix
        /\ new.group \in DOMAIN prefixes => prefix = prefixes[new.group]
        /\ prefixes' = [g \in DOMAIN prefixes \union {new.group} |->
                          IF g = new.group THEN prefix ELSE prefixes[g]]
        /\ requests' = Append(requests, new)
  BY DrawAppends
<1>2. /\ n \in Nat /\ clock \in Nat /\ DOMAIN requests = 1 .. n
      /\ requests = <<>> <=> n = 0
      /\ DOMAIN requests' = 1 .. n + 1 /\ Len(requests') = n + 1
      /\ \A i \in 1 .. n : requests'[i] = requests[i]
      /\ requests'[n + 1] = new
  BY <1>1 DEF TypeOK
<1>3. ASSUME NEW i \in DOMAIN requests'
      PROVE  /\ requests'[i].group = Group(kind, i - 1)
             /\ requests'[i].group \in DOMAIN prefixes'
             /\ requests'[i].prompt.prefix = prefixes'[requests'[i].group]
  <2>1. CASE i \in 1 .. n
    <3>1. /\ requests[i].group = Group(kind, i - 1)
          /\ requests[i].group \in DOMAIN prefixes
          /\ requests[i].prompt.prefix = prefixes[requests[i].group]
      BY <1>2, <2>1 DEF PrefixesInv
    <3>2. prefixes'[requests[i].group] = prefixes[requests[i].group]
      BY <1>1, <3>1
    <3> QED BY <1>1, <1>2, <2>1, <3>1, <3>2
  <2>2. CASE i = n + 1
    <3>1. i - 1 = n /\ requests'[i] = new
      BY <1>2, <2>2
    <3> QED BY <1>1, <3>1
  <2> QED BY <1>2, <2>1, <2>2
<1>4. PrefixesInv'
  BY <1>1, <1>3 DEF PrefixesInv, Group, ReusesPrefix
<1>5. EndsInv'
  <2>1. requests' # <<>> /\ requests'[Len(requests')].arrival = clock'
    BY <1>1, <1>2
  <2>2. CASE n = 0
    <3>1. clock' = 0 /\ requests'[1].arrival = clock'
      BY <1>1, <1>2, <2>2 DEF EndsInv
    <3> QED BY <2>1, <3>1 DEF EndsInv
  <2>3. CASE n # 0
    <3>1. requests'[1] = requests[1] /\ requests[1].arrival = 0
      BY <1>2, <2>3 DEF EndsInv
    <3> QED BY <2>1, <3>1 DEF EndsInv
  <2> QED BY <2>2, <2>3
<1> QED BY <1>4, <1>5

GeneratorInv == WorkloadInv /\ PrefixesInv /\ EndsInv

LEMMA GeneratorInvHolds == Spec => []GeneratorInv
<1>1. Init => GeneratorInv
  <2> SUFFICES ASSUME Init PROVE GeneratorInv
    OBVIOUS
  <2>1. requests = <<>> /\ clock = 0 /\ DOMAIN requests = {}
    BY DEF Init
  <2> QED BY <2>1, InitEstablishesInv DEF GeneratorInv, PrefixesInv, EndsInv
<1>2. GeneratorInv /\ [Next]_vars => GeneratorInv'
  <2> SUFFICES ASSUME GeneratorInv, [Next]_vars PROVE GeneratorInv'
    OBVIOUS
  <2>1. WorkloadInv'
    BY NextKeepsInv DEF GeneratorInv
  <2>2. CASE Draw
    <3>1. TypeOK /\ PrefixesInv /\ EndsInv
      BY DEF GeneratorInv, WorkloadInv
    <3> QED BY <2>1, <2>2, <3>1, DrawKeepsPrefixes DEF GeneratorInv
  <2>3. CASE ~Draw
    <3>1. UNCHANGED <<kind, clock, prefixes, requests>>
      BY <2>3 DEF Next, ReturnEmpty, RefuseRate, StartDrawing, Returned, configVars, vars
    <3> QED BY <2>1, <3>1 DEF GeneratorInv, PrefixesInv, EndsInv, Group, ReusesPrefix
  <2> QED BY <2>2, <2>3
<1> QED BY <1>1, <1>2, PTL DEF Spec

\* Requests of one group start with one prefix however many lie between them, and
\* one that is not to reuse a prefix is alone in its group, whatever the number of
\* groups and of requests.
THEOREM PrefixesAreShared == Spec => []GroupsShareTheirPrefix
<1>1. GeneratorInv => GroupsShareTheirPrefix
  <2> SUFFICES ASSUME GeneratorInv, NEW i \in DOMAIN requests, NEW j \in DOMAIN requests,
                      i # j, requests[i].group = requests[j].group
               PROVE  /\ requests[i].prompt.prefix = requests[j].prompt.prefix
                      /\ ReusesPrefix(kind, i - 1) /\ ReusesPrefix(kind, j - 1)
    BY DEF GroupsShareTheirPrefix
  <2>1. /\ requests[i].group = Group(kind, i - 1) /\ requests[j].group = Group(kind, j - 1)
        /\ requests[i].prompt.prefix = requests[j].prompt.prefix
    BY DEF GeneratorInv, PrefixesInv
  <2>2. i - 1 # j - 1
    BY DEF GeneratorInv, WorkloadInv, TypeOK
  <2>3. Group(kind, i - 1) = Group(kind, j - 1)
    BY <2>1
  <2> DEFINE r == ReusesPrefix(kind, i - 1)
             s == ReusesPrefix(kind, j - 1)
             p == (i - 1) % PrefixGroups
             q == (j - 1) % PrefixGroups
  <2>4. (IF r THEN <<"prefix", p>> ELSE <<"unique", i - 1>>)
          = (IF s THEN <<"prefix", q>> ELSE <<"unique", j - 1>>)
    BY <2>3 DEF Group
  <2> HIDE DEF r, s, p, q
  <2>5. r /\ s
    BY <2>2, <2>4
  <2> QED BY <2>1, <2>5 DEF r, s
<1> QED BY <1>1, GeneratorInvHolds, PTL

-----------------------------------------------------------------------------
(* Summaries *)

\* The maximum of places is the last of them.
LEMMA MaxIs ==
  ASSUME NEW m \in Nat, NEW s \in SUBSET (1 .. m), m \in s
  PROVE  Max(s) = m
<1>1. \A x \in s : x \in Nat /\ x <= m
  OBVIOUS
<1>2. \E x \in s : \A y \in s : x >= y
  BY <1>1
<1>3. Max(s) \in s /\ \A y \in s : Max(s) >= y
  BY <1>2 DEF Max
<1>4. PICK x \in s : x = Max(s) /\ \A y \in s : x >= y
  BY <1>3
<1>5. x >= m /\ m >= x /\ x \in Int
  BY <1>1, <1>4
<1> QED BY <1>4, <1>5

\* The state of summarize_workload before its loop.
Start(trace) == [first |-> trace[1].arrival, last |-> trace[1].arrival,
                 monotonic |-> TRUE, previous |-> trace[1].arrival]

\* The fold over the sets of places, as the recursive function it is.
FoldsOver(g, trace, m) ==
  g = [s \in SUBSET (1 .. m) |->
         IF s = {} THEN Start(trace)
         ELSE SummaryStep(g[s \ {Max(s)}], trace[Max(s)])]

LEMMA FoldExists ==
  ASSUME NEW trace, NEW n \in Nat
  PROVE  \E g : FoldsOver(g, trace, n)
<1> DEFINE S == {m \in 0 .. n : \E g : FoldsOver(g, trace, m)}
<1>1. 0 \in S
  <2> DEFINE g == [s \in SUBSET (1 .. 0) |-> Start(trace)]
  <2>1. 1 .. 0 = {} /\ \A s \in SUBSET (1 .. 0) : s = {}
    OBVIOUS
  <2>2. FoldsOver(g, trace, 0)
    BY <2>1 DEF FoldsOver
  <2> HIDE DEF g
  <2> QED BY <2>2
<1>2. ASSUME NEW m \in S, m < n PROVE m + 1 \in S
  <2>1. PICK g : FoldsOver(g, trace, m)
    OBVIOUS
  <2>2. m \in Nat /\ m + 1 \in 0 .. n
    BY <1>2
  <2> DEFINE h == [s \in SUBSET (1 .. m + 1) |->
                     IF m + 1 \in s THEN SummaryStep(g[s \ {m + 1}], trace[m + 1]) ELSE g[s]]
  <2>3. ASSUME NEW s \in SUBSET (1 .. m + 1)
        PROVE  h[s] = IF s = {} THEN Start(trace)
                      ELSE SummaryStep(h[s \ {Max(s)}], trace[Max(s)])
    <3>1. CASE m + 1 \in s
      <4>1. Max(s) = m + 1
        BY <2>2, <3>1, MaxIs
      <4>2. s \ {m + 1} \in SUBSET (1 .. m + 1) /\ m + 1 \notin s \ {m + 1}
        OBVIOUS
      <4>3. h[s \ {m + 1}] = g[s \ {m + 1}]
        BY <4>2
      <4>4. h[s] = SummaryStep(g[s \ {m + 1}], trace[m + 1]) /\ s # {}
        BY <3>1
      <4> HIDE DEF h
      <4> QED BY <4>1, <4>3, <4>4
    <3>2. CASE m + 1 \notin s
      <4>1. s \in SUBSET (1 .. m)
        BY <2>2, <3>2
      <4>2. h[s] = g[s]
        BY <3>2
      <4>3. g[s] = IF s = {} THEN Start(trace)
                   ELSE SummaryStep(g[s \ {Max(s)}], trace[Max(s)])
        BY <2>1, <4>1 DEF FoldsOver
      <4>4. s \ {Max(s)} \in SUBSET (1 .. m + 1) /\ m + 1 \notin s \ {Max(s)}
        BY <3>2
      <4>5. h[s \ {Max(s)}] = g[s \ {Max(s)}]
        BY <4>4
      <4> HIDE DEF h
      <4> QED BY <4>2, <4>3, <4>5
    <3> QED BY <3>1, <3>2
  <2>4. h = [s \in SUBSET (1 .. m + 1) |-> h[s]]
    OBVIOUS
  <2> HIDE DEF h
  <2>5. FoldsOver(h, trace, m + 1)
    BY <2>3, <2>4 DEF FoldsOver
  <2> QED BY <2>2, <2>5
<1> HIDE DEF S
<1>3. S \in SUBSET (0 .. n)
  BY DEF S
<1>4. n \in S
  BY <1>1, <1>2, <1>3, UpTo
<1> QED BY <1>4 DEF S

\* The summary is the end of a run of steps, one per request, in their order.
LEMMA SummaryRuns ==
  ASSUME NEW trace, NEW n \in Nat, DOMAIN trace = 1 .. n
  PROVE  \E stats : /\ stats[0] = Start(trace) /\ stats[n] = Summary(trace)
                    /\ \A k \in 1 .. n : stats[k] = SummaryStep(stats[k - 1], trace[k])
<1> DEFINE Folds(g) == FoldsOver(g, trace, n)
<1>1. Summary(trace) = (CHOOSE g : FoldsOver(g, trace, n))[1 .. n]
  BY DEF Summary, FoldLeft, MapThenFoldSet, FoldsOver, Start
<1>2. PICK g : g = (CHOOSE h : FoldsOver(h, trace, n)) /\ FoldsOver(g, trace, n)
  BY FoldExists
<1> DEFINE stats == [k \in 0 .. n |-> g[1 .. k]]
<1>3. stats[0] = Start(trace)
  <2>1. 1 .. 0 = {} /\ {} \in SUBSET (1 .. n)
    OBVIOUS
  <2>2. g[{}] = Start(trace)
    BY <1>2, <2>1 DEF FoldsOver
  <2> QED BY <2>1, <2>2
<1>4. stats[n] = Summary(trace)
  <2>1. n \in 0 .. n
    OBVIOUS
  <2>2. \A k \in 0 .. n : stats[k] = g[1 .. k]
    OBVIOUS
  <2> HIDE DEF stats
  <2> QED BY <1>1, <1>2, <2>1, <2>2
<1>5. ASSUME NEW k \in 1 .. n PROVE stats[k] = SummaryStep(stats[k - 1], trace[k])
  <2>0. k \in Nat /\ 1 <= k /\ k <= n /\ k \in 1 .. k
    OBVIOUS
  <2>1. 1 .. k \in SUBSET (1 .. n) /\ 1 .. k # {} /\ 1 .. k \in SUBSET (1 .. k)
    BY <2>0
  <2>2. Max(1 .. k) = k
    BY <2>0, <2>1, MaxIs
  <2>3. (1 .. k) \ {k} = 1 .. (k - 1)
    OBVIOUS
  <2>4. g[1 .. k] = SummaryStep(g[(1 .. k) \ {Max(1 .. k)}], trace[Max(1 .. k)])
    BY <1>2, <2>1 DEF FoldsOver
  <2>5. g[1 .. k] = SummaryStep(g[1 .. (k - 1)], trace[k])
    BY <2>2, <2>3, <2>4
  <2> QED BY <2>5
<1> HIDE DEF stats
<1> QED BY <1>3, <1>4, <1>5

\* What a summary says of a trace: the earliest and the latest arrival of all, and
\* whether none comes before the one in front of it.
LEMMA SummarySays ==
  ASSUME NEW trace, NEW n \in Nat \ {0}, DOMAIN trace = 1 .. n,
         \A k \in 1 .. n : trace[k].arrival \in Nat
  PROVE  LET stats == Summary(trace)
         IN  /\ \A k \in 1 .. n : stats.first <= trace[k].arrival /\ trace[k].arrival <= stats.last
             /\ \E k \in 1 .. n : stats.first = trace[k].arrival
             /\ \E k \in 1 .. n : stats.last = trace[k].arrival
             /\ stats.monotonic <=>
                  \A k, l \in 1 .. n : k < l => trace[k].arrival <= trace[l].arrival
<1> DEFINE a(k) == trace[k].arrival
<1>1. PICK stats : /\ stats[0] = Start(trace) /\ stats[n] = Summary(trace)
                   /\ \A k \in 1 .. n : stats[k] = SummaryStep(stats[k - 1], trace[k])
  BY SummaryRuns
<1> DEFINE Sorted(k) == \A i, j \in 1 .. k : i < j => a(i) <= a(j)
           Says(k) ==
             /\ stats[k].first \in Nat /\ stats[k].last \in Nat
             /\ stats[k].previous = a(IF k = 0 THEN 1 ELSE k)
             /\ \A i \in 1 .. k : stats[k].first <= a(i) /\ a(i) <= stats[k].last
             /\ \E i \in 1 .. n : stats[k].first = a(i)
             /\ \E i \in 1 .. n : stats[k].last = a(i)
             /\ stats[k].monotonic <=> Sorted(k)
           S == {k \in 0 .. n : Says(k)}
<1>2. Says(0)
  <2>1. 1 .. 0 = {} /\ 1 \in 1 .. n
    OBVIOUS
  <2>2. /\ stats[0].first = a(1) /\ stats[0].last = a(1) /\ stats[0].previous = a(1)
        /\ stats[0].monotonic = TRUE
    BY <1>1 DEF Start
  <2> QED BY <2>1, <2>2
<1>3. ASSUME NEW k \in S, k < n PROVE k + 1 \in S
  <2>1. /\ k \in 0 .. n /\ k + 1 \in 1 .. n /\ (k + 1) - 1 = k /\ k + 1 # 0 /\ k + 1 \in 0 .. n
        /\ Says(k)
    BY <1>3
  <2>2. stats[k + 1] = SummaryStep(stats[k], trace[k + 1])
    BY <1>1, <2>1
  <2>3. /\ stats[k + 1].first = IF a(k + 1) < stats[k].first THEN a(k + 1) ELSE stats[k].first
        /\ stats[k + 1].last = IF a(k + 1) > stats[k].last THEN a(k + 1) ELSE stats[k].last
        /\ stats[k + 1].monotonic = (stats[k].monotonic /\ a(k + 1) >= stats[k].previous)
        /\ stats[k + 1].previous = a(k + 1)
    BY <2>2 DEF SummaryStep
  <2>4. \A i \in 1 .. n : a(i) \in Nat
    OBVIOUS
  <2>5. \A i \in 1 .. k + 1 : i \in 1 .. k \/ i = k + 1
    BY <2>1
  <2> DEFINE x == a(k + 1)
             f == stats[k].first
             l == stats[k].last
  <2>6. x \in Nat /\ f \in Nat /\ l \in Nat
    BY <2>1, <2>4
  <2>7. /\ stats[k + 1].first \in Nat /\ stats[k + 1].first <= f /\ stats[k + 1].first <= x
        /\ stats[k + 1].last \in Nat /\ l <= stats[k + 1].last /\ x <= stats[k + 1].last
    <3>1. /\ stats[k + 1].first = IF x < f THEN x ELSE f
          /\ stats[k + 1].last = IF x > l THEN x ELSE l
      BY <2>3
    <3> HIDE DEF x, f, l
    <3> QED BY ONLY <2>6, <3>1
  <2>8. \A i \in 1 .. k + 1 : stats[k + 1].first <= a(i) /\ a(i) <= stats[k + 1].last
    <3> SUFFICES ASSUME NEW i \in 1 .. k + 1
                 PROVE  stats[k + 1].first <= a(i) /\ a(i) <= stats[k + 1].last
      OBVIOUS
    <3>1. CASE i = k + 1
      BY <2>7, <3>1
    <3>2. CASE i \in 1 .. k
      <4>1. f <= a(i) /\ a(i) <= l /\ a(i) \in Nat
        BY <2>1, <2>4, <3>2
      <4> HIDE DEF a, f, l
      <4> QED BY ONLY <2>6, <2>7, <4>1
    <3> QED BY <2>5, <3>1, <3>2
  <2>9. (\E i \in 1 .. n : stats[k + 1].first = a(i)) /\ (\E i \in 1 .. n : stats[k + 1].last = a(i))
    BY <2>1, <2>3
  <2>10. stats[k + 1].monotonic <=> Sorted(k + 1)
    <3>1. k # 0 => k \in 1 .. k /\ stats[k].previous = a(k)
      BY <2>1
    <3>2. k = 0 => Sorted(k) /\ Sorted(k + 1) /\ stats[k].previous = x
      BY <2>1
    <3>3. k # 0 => (Sorted(k + 1) <=> Sorted(k) /\ a(k) <= x)
      <4> SUFFICES ASSUME k # 0 PROVE Sorted(k + 1) <=> Sorted(k) /\ a(k) <= x
        OBVIOUS
      <4>1. Sorted(k + 1) => Sorted(k) /\ a(k) <= x
        BY <2>1
      <4>2. ASSUME Sorted(k), a(k) <= x, NEW i \in 1 .. k + 1, NEW j \in 1 .. k + 1, i < j
            PROVE  a(i) <= a(j)
        <5>1. i \in 1 .. k /\ i \in 1 .. n /\ k \in 1 .. k /\ k \in 1 .. n
          BY <2>1, <4>2
        <5>2. a(i) <= a(k)
          <6>1. i < k => a(i) <= a(k)
            BY <4>2, <5>1
          <6>2. i < k \/ i = k
            BY <5>1
          <6>3. a(i) \in Nat /\ a(k) \in Nat
            BY <2>4, <5>1
          <6> QED BY <6>1, <6>2, <6>3
        <5>3. CASE j \in 1 .. k
          BY <4>2, <5>1, <5>3
        <5>4. CASE j = k + 1
          <6>1. a(i) \in Nat /\ a(k) \in Nat /\ a(j) = x
            BY <2>4, <5>1, <5>4
          <6> HIDE DEF a
          <6> QED BY <2>6, <4>2, <5>2, <6>1
        <5> QED BY <2>5, <5>3, <5>4
      <4> QED BY <4>1, <4>2
    <3>4. CASE k = 0
      <4>1. x >= stats[k].previous /\ stats[k].monotonic
        BY <2>1, <2>6, <3>2, <3>4
      <4> QED BY <2>3, <3>2, <3>4, <4>1
    <3>5. CASE k # 0
      <4>1. x >= stats[k].previous <=> a(k) <= x
        BY <2>4, <2>6, <2>1, <3>1, <3>5
      <4>2. stats[k].monotonic <=> Sorted(k)
        BY <2>1
      <4> HIDE DEF Sorted
      <4> QED BY <2>3, <3>3, <3>5, <4>1, <4>2
    <3> QED BY <3>4, <3>5
  <2>11. Says(k + 1)
    <3> HIDE DEF Sorted, a
    <3> QED BY <2>1, <2>3, <2>7, <2>8, <2>9, <2>10
  <2> HIDE DEF Says
  <2> QED BY <2>1, <2>11
<1>4. n \in S
  <2> HIDE DEF Says
  <2>1. S \in SUBSET (0 .. n) /\ 0 \in S
    BY <1>2
  <2> HIDE DEF S
  <2>2. n \in Nat /\ n \in 0 .. n
    OBVIOUS
  <2>3. \A k \in S : k < n => k + 1 \in S
    BY <1>3
  <2> QED BY <2>1, <2>2, <2>3, UpTo
<1>5. Says(n)
  BY <1>4
<1> QED BY <1>1, <1>5

\* summarize_workload calls a trace monotonic exactly when no two of its arrivals
\* are out of order, whichever two requests of a generated trace are exchanged,
\* and finds the same span: the fold looks at neighbours only.
THEOREM SummariesSeeTheOrder == Spec => []SummarySeesTheOrder
<1>1. GeneratorInv => SummarySeesTheOrder
  <2> SUFFICES ASSUME GeneratorInv, requests # <<>>,
                      NEW i \in DOMAIN requests, NEW j \in DOMAIN requests
               PROVE  LET trace == Swapped(requests, i, j)
                          stats == Summary(trace)
                      IN /\ stats.monotonic <=>
                              \A k, l \in DOMAIN trace :
                                k < l => trace[k].arrival <= trace[l].arrival
                         /\ stats.first = 0
                         /\ stats.last = clock
    BY DEF SummarySeesTheOrder
  <2> DEFINE n == Len(requests)
             trace == Swapped(requests, i, j)
             stats == Summary(trace)
  <2>1. /\ n \in Nat \ {0} /\ DOMAIN requests = 1 .. n /\ i \in 1 .. n /\ j \in 1 .. n
        /\ clock \in Nat /\ \A k \in 1 .. n : requests[k] \in Requests
    BY DEF GeneratorInv, WorkloadInv, TypeOK
  <2>2. \A k \in 1 .. n : requests[k].arrival \in Nat /\ requests[k].arrival <= clock
    BY <2>1 DEF Requests, GeneratorInv, WorkloadInv, ClockIsLatest
  <2>3. requests[1].arrival = 0 /\ requests[n].arrival = clock /\ 1 \in 1 .. n /\ n \in 1 .. n
    BY <2>1 DEF GeneratorInv, EndsInv
  <2>4. /\ DOMAIN trace = 1 .. n
        /\ \A k \in 1 .. n : \E l \in 1 .. n : trace[k] = requests[l]
        /\ \A l \in 1 .. n : \E k \in 1 .. n : trace[k] = requests[l]
    <3>1. \A k \in 1 .. n : trace[k] = IF k = i THEN requests[j]
                                       ELSE IF k = j THEN requests[i] ELSE requests[k]
      BY <2>1 DEF Swapped
    <3>2. DOMAIN trace = 1 .. n
      BY <2>1 DEF Swapped
    <3>3. trace[i] = requests[j] /\ trace[j] = requests[i]
      BY <2>1, <3>1
    <3> HIDE DEF trace
    <3>4. ASSUME NEW l \in 1 .. n PROVE \E k \in 1 .. n : trace[k] = requests[l]
      <4>1. CASE l = i
        BY <2>1, <3>3, <4>1
      <4>2. CASE l = j
        BY <2>1, <3>3, <4>2
      <4>3. CASE l # i /\ l # j
        BY <3>1, <4>3
      <4> QED BY <4>1, <4>2, <4>3
    <3>5. ASSUME NEW k \in 1 .. n PROVE \E l \in 1 .. n : trace[k] = requests[l]
      BY <2>1, <3>1
    <3> QED BY <3>2, <3>4, <3>5
  <2> HIDE DEF trace, n
  <2>5. \A k \in 1 .. n : trace[k].arrival \in Nat /\ trace[k].arrival <= clock
    <3> SUFFICES ASSUME NEW k \in 1 .. n
                 PROVE  trace[k].arrival \in Nat /\ trace[k].arrival <= clock
      OBVIOUS
    <3>1. PICK l \in 1 .. n : trace[k] = requests[l]
      BY <2>4
    <3> QED BY <2>2, <3>1
  <2>6. /\ \A k \in 1 .. n : stats.first <= trace[k].arrival /\ trace[k].arrival <= stats.last
        /\ \E k \in 1 .. n : stats.first = trace[k].arrival
        /\ \E k \in 1 .. n : stats.last = trace[k].arrival
        /\ stats.monotonic <=>
             \A k, l \in 1 .. n : k < l => trace[k].arrival <= trace[l].arrival
    BY <2>1, <2>4, <2>5, SummarySays
  <2>7. \A k \in 1 .. n : 0 <= trace[k].arrival /\ trace[k].arrival <= clock
    BY <2>5
  <2>8. PICK first \in 1 .. n, last \in 1 .. n :
          trace[first].arrival = 0 /\ trace[last].arrival = clock
    <3>1. PICK k \in 1 .. n : trace[k] = requests[1]
      BY <2>3, <2>4
    <3>2. PICK l \in 1 .. n : trace[l] = requests[n]
      BY <2>3, <2>4
    <3> QED BY <2>3, <3>1, <3>2
  <2> HIDE DEF stats
  <2>9. stats.first = 0
    <3>1. PICK k \in 1 .. n : stats.first = trace[k].arrival
      BY <2>6
    <3>2. trace[k].arrival \in Nat /\ trace[k].arrival <= 0
      BY <2>5, <2>6, <2>8, <3>1
    <3> QED BY <3>1, <3>2
  <2>10. stats.last = clock
    <3>1. PICK k \in 1 .. n : stats.last = trace[k].arrival
      BY <2>6
    <3>2. trace[k].arrival \in Nat /\ clock <= trace[k].arrival /\ trace[k].arrival <= clock
      BY <2>5, <2>6, <2>7, <2>8, <3>1
    <3> QED BY <2>1, <3>1, <3>2
  <2> QED BY <2>4, <2>6, <2>9, <2>10 DEF trace, stats
<1> QED BY <1>1, GeneratorInvHolds, PTL
=============================================================================
