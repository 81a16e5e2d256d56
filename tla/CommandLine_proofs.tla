------------------------- MODULE CommandLine_proofs -------------------------
(***************************************************************************)
(* The files that serving_sim leaves behind, over any number of            *)
(* invocations with any arguments, wherever they fail.                     *)
(***************************************************************************)
EXTENDS CommandLine, BlockTheorems

-----------------------------------------------------------------------------
(* Files and scenarios *)

LEMMA FileNames ==
  /\ Trace \in Files /\ Comparison \in Files /\ Trace # Comparison
  /\ \A s \in Scenarios :
       /\ Summary(s) \in Files \ {Trace, Comparison}
       /\ Requests(s) \in Files \ {Trace, Comparison}
       /\ \A u \in Scenarios : Summary(s) # Requests(u)
BY DEF Files, Trace, Comparison, Summary, Requests

LEMMA ComparedScenarios ==
  /\ Len(Compared) = 3 /\ Compared \in Seq(Scenarios)
  /\ DOMAIN Compared = 1 .. 3 /\ \A k \in 1 .. 3 : Compared[k] \in Scenarios
BY DEF Compared, Scenarios

LEMMA AskedNames ==
  /\ Asked \in Seq(Named) /\ Len(Asked) \in {1, 3} /\ DOMAIN Asked = 1 .. Len(Asked)
  /\ Len(Asked) > 1 => Asked = Compared
<1>1. CASE options["--scenario"] = "all"
  <2>1. Asked = Compared
    BY <1>1 DEF Asked
  <2>2. Compared \in Seq(Named)
    BY ComparedScenarios DEF Named
  <2> QED BY <2>1, <2>2, ComparedScenarios
<1>2. CASE options["--scenario"] # "all"
  <2>1. Asked = <<options["--scenario"]>>
    BY <1>2 DEF Asked
  <2>2. options["--scenario"] \in Named
    BY DEF Named
  <2> QED BY <2>1, <2>2
<1> QED BY <1>1, <1>2

\* A file that is written now is the newest, and the others are what they were.
LEMMA WrittenNow ==
  ASSUME invocation \in Nat, files \in [Files -> 0 .. invocation], NEW f \in Files,
         Written(f), invocation' = invocation
  PROVE  /\ files' \in [Files -> 0 .. invocation'] /\ files'[f] = invocation
         /\ \A g \in Files : g # f => files'[g] = files[g]
         /\ \A g \in Files : files[g] <= files'[g]
<1>1. invocation \in 0 .. invocation
  OBVIOUS
<1> QED BY <1>1 DEF Written

-----------------------------------------------------------------------------
(* The invariant *)

LEMMA InitFiles == Init => FilesInv
<1> SUFFICES ASSUME Init PROVE FilesInv
  OBVIOUS
<1>1. /\ invocation = 0 /\ files = [f \in Files |-> 0] /\ pc = "idle"
      /\ traced = [asked |-> <<>>, ok |-> FALSE]
  BY DEF Init
<1>2. OutputsInOrder
  BY <1>1, FileNames, ComparedScenarios DEF OutputsInOrder
<1>3. ResultsAreOfTheTrace
  BY <1>1 DEF ResultsAreOfTheTrace
<1>4. invocation \in Nat /\ files \in [Files -> 0 .. invocation]
  BY <1>1
<1>5. pc \notin {"load", "simulate", "requests"}
  BY <1>1
<1> QED BY <1>2, <1>3, <1>4, <1>5 DEF FilesInv

\* A step that writes no results file keeps the invariant if it does not enter the
\* simulation.
LEMMA NoFilesStep ==
  ASSUME FilesInv, UNCHANGED <<files, traced>>,
         invocation' = invocation \/ invocation' = invocation + 1,
         pc' \notin {"load", "simulate", "requests"}
  PROVE  FilesInv'
<1>1. invocation' \in Nat /\ files' \in [Files -> 0 .. invocation']
  BY DEF FilesInv
<1>2. OutputsInOrder' /\ ResultsAreOfTheTrace'
  BY DEF FilesInv, OutputsInOrder, ResultsAreOfTheTrace
<1> QED BY <1>1, <1>2 DEF FilesInv

LEMMA WriteTraceFiles == ASSUME FilesInv, WriteTrace PROVE FilesInv'
<1>1. /\ invocation \in Nat /\ files \in [Files -> 0 .. invocation] /\ Trace \in Files
      /\ Written(Trace) /\ invocation' = invocation /\ pc' = "load"
      /\ traced' = [asked |-> Asked, ok |-> FALSE] /\ options' = options
  BY FileNames DEF FilesInv, WriteTrace, parseVars
<1>2. /\ files' \in [Files -> 0 .. invocation'] /\ files'[Trace] = invocation
      /\ \A g \in Files : g # Trace => files'[g] = files[g]
  BY <1>1, WrittenNow
<1>3. Asked' = Asked
  BY <1>1 DEF Asked
<1>4. OutputsInOrder'
  <2>1. \A s \in Scenarios : /\ files'[Summary(s)] = files[Summary(s)]
                             /\ files'[Requests(s)] = files[Requests(s)]
                             /\ files[Summary(s)] <= invocation
    BY <1>1, <1>2, FileNames
  <2>2. files'[Comparison] = files[Comparison]
    BY <1>2, FileNames
  <2>3. \A s \in Scenarios : files[Requests(s)] <= files[Summary(s)]
    BY DEF FilesInv, OutputsInOrder
  <2>4. \A k \in DOMAIN Compared :
          Compared[k] \in Scenarios /\ files[Comparison] <= files[Requests(Compared[k])]
    BY ComparedScenarios DEF FilesInv, OutputsInOrder
  <2>5. \A k \in DOMAIN Compared : files'[Comparison] <= files'[Requests(Compared[k])]
    BY <2>1, <2>2, <2>4
  <2>6. \A s \in Scenarios : /\ files'[Summary(s)] <= files'[Trace]
                             /\ files'[Requests(s)] <= files'[Summary(s)]
    BY <1>2, <2>1, <2>3
  <2> QED BY <2>5, <2>6 DEF OutputsInOrder
<1>5. ResultsAreOfTheTrace'
  BY <1>1 DEF ResultsAreOfTheTrace
<1> QED BY <1>1, <1>2, <1>3, <1>4, <1>5 DEF FilesInv

LEMMA LoadFiles == ASSUME FilesInv, LoadLatencyModel PROVE FilesInv'
<1>1. /\ pc = "load" /\ pc' = "simulate" /\ todo' = Asked
      /\ UNCHANGED <<options, invocation, files, traced>>
  BY DEF LoadLatencyModel, parseVars, outputVars
<1>2. Asked' = Asked /\ Named' = Named
  BY <1>1 DEF Asked, Named
<1>3. /\ todo' \in Seq(Named') /\ Len(todo') = Len(Asked') /\ Len(Asked') \in Nat /\ NumSimulated' = 0
  BY <1>1, <1>2, AskedNames DEF NumSimulated
<1>4. \A i \in 1 .. Len(todo') : todo'[i] = Asked'[NumSimulated' + i]
  BY <1>1, <1>2, <1>3
<1>5. /\ files'[Trace] = invocation' /\ traced' = [asked |-> Asked', ok |-> FALSE]
      /\ invocation' \in Nat /\ files' \in [Files -> 0 .. invocation']
  BY <1>1, <1>2 DEF FilesInv
<1>6. OutputsInOrder' /\ ResultsAreOfTheTrace'
  BY <1>1 DEF FilesInv, OutputsInOrder, ResultsAreOfTheTrace
<1> QED BY <1>1, <1>3, <1>4, <1>5, <1>6 DEF FilesInv

\* A result of the invocation that wrote the trace is as new as it, which leaves
\* the order of the files as it was.
LEMMA WrittenInOrder ==
  ASSUME FilesInv, NEW s \in Scenarios, NEW f \in {Summary(s), Requests(s)}, Written(f),
         invocation' = invocation, traced' = traced, ~traced.ok, files[Trace] = invocation,
         f = Requests(s) => files[Summary(s)] = invocation
  PROVE  /\ files' \in [Files -> 0 .. invocation'] /\ files'[f] = invocation
         /\ \A g \in Files : g # f => files'[g] = files[g]
         /\ \A g \in Files : files[g] = invocation => files'[g] = invocation
         /\ files'[Trace] = invocation
         /\ OutputsInOrder' /\ ResultsAreOfTheTrace'
<1>1. /\ invocation \in Nat /\ files \in [Files -> 0 .. invocation]
      /\ f \in Files \ {Trace, Comparison} /\ Trace \in Files /\ Comparison \in Files
  BY FileNames DEF FilesInv
<1>2. /\ files' \in [Files -> 0 .. invocation'] /\ files'[f] = invocation
      /\ \A g \in Files : g # f => files'[g] = files[g]
      /\ \A g \in Files : files[g] <= files'[g]
  BY <1>1, WrittenNow
<1>3. files'[Trace] = invocation /\ files'[Comparison] = files[Comparison]
  BY <1>1, <1>2
<1>4. \A g \in Files : /\ files[g] \in Nat /\ files'[g] \in Nat /\ files'[g] <= invocation
  BY <1>1, <1>2
<1>5. OutputsInOrder'
  <2>1. ASSUME NEW u \in Scenarios
        PROVE  /\ files'[Summary(u)] <= files'[Trace]
               /\ files'[Requests(u)] <= files'[Summary(u)]
               /\ files[Requests(u)] <= files'[Requests(u)]
    <3>1. Summary(u) \in Files /\ Requests(u) \in Files
      BY FileNames
    <3>2. files'[Summary(u)] <= files'[Trace] /\ files[Requests(u)] <= files'[Requests(u)]
      BY <1>2, <1>3, <1>4, <3>1
    <3>3. files[Requests(u)] <= files[Summary(u)] /\ files[Summary(u)] <= files'[Summary(u)]
      BY <1>2, <3>1 DEF FilesInv, OutputsInOrder
    <3>4. CASE f # Requests(u)
      <4>1. files'[Requests(u)] = files[Requests(u)]
        BY <1>2, <3>1, <3>4
      <4> QED BY <1>4, <3>1, <3>2, <3>3, <4>1
    <3>5. CASE f = Requests(u)
      <4>1. f = Requests(s) /\ s = u
        BY <3>5, FileNames DEF Summary, Requests
      <4>2. files[Summary(u)] = invocation
        BY <4>1
      <4>3. files'[Summary(u)] = invocation
        BY <1>4, <3>1, <3>3, <4>2
      <4> QED BY <1>4, <3>1, <3>2, <4>3
    <3> QED BY <3>4, <3>5
  <2>2. ASSUME NEW k \in DOMAIN Compared
        PROVE  files'[Comparison] <= files'[Requests(Compared[k])]
    <3>1. Compared[k] \in Scenarios /\ Requests(Compared[k]) \in Files
      BY ComparedScenarios, FileNames
    <3>2. files[Comparison] <= files[Requests(Compared[k])]
      BY DEF FilesInv, OutputsInOrder
    <3>3. files[Requests(Compared[k])] <= files'[Requests(Compared[k])]
      BY <1>2, <3>1
    <3> QED BY <1>1, <1>3, <1>4, <3>1, <3>2, <3>3
  <2> QED BY <2>1, <2>2 DEF OutputsInOrder
<1>6. ResultsAreOfTheTrace'
  BY DEF ResultsAreOfTheTrace
<1>7. \A g \in Files : files[g] = invocation => files'[g] = invocation
  BY <1>2
<1> QED BY <1>2, <1>3, <1>5, <1>6, <1>7

LEMMA SimulateFiles == ASSUME FilesInv, Simulate PROVE FilesInv'
<1> DEFINE s == Head(todo)
<1>1. /\ pc = "simulate" /\ pc' = "requests" /\ todo # <<>> /\ s \in Scenarios /\ Written(Summary(s))
      /\ UNCHANGED <<options, todo, invocation, traced>>
  BY DEF Simulate, parseVars
<1>2. /\ files[Trace] = invocation /\ traced = [asked |-> Asked, ok |-> FALSE]
      /\ todo \in Seq(Named) /\ Len(todo) <= Len(Asked)
      /\ \A i \in 1 .. Len(todo) : todo[i] = Asked[NumSimulated + i]
      /\ \A k \in 1 .. NumSimulated :
           /\ Asked[k] \in Scenarios
           /\ files[Summary(Asked[k])] = invocation /\ files[Requests(Asked[k])] = invocation
  BY <1>1 DEF FilesInv
<1>3. Summary(s) # Requests(s)
  BY <1>1, FileNames
<1>4. /\ files' \in [Files -> 0 .. invocation'] /\ files'[Summary(s)] = invocation
      /\ \A g \in Files : files[g] = invocation => files'[g] = invocation
      /\ files'[Trace] = invocation /\ OutputsInOrder' /\ ResultsAreOfTheTrace'
  BY <1>1, <1>2, <1>3, WrittenInOrder
<1>5. Asked' = Asked /\ Named' = Named /\ NumSimulated' = NumSimulated
  BY <1>1 DEF Asked, Named, NumSimulated
<1>6. \A k \in 1 .. NumSimulated :
        files'[Summary(Asked[k])] = invocation /\ files'[Requests(Asked[k])] = invocation
  BY <1>2, <1>4, FileNames
<1>7. invocation' \in Nat
  BY <1>1 DEF FilesInv
<1> QED BY <1>1, <1>2, <1>4, <1>5, <1>6, <1>7 DEF FilesInv

LEMMA WriteRequestsFiles == ASSUME FilesInv, WriteRequests PROVE FilesInv'
<1> DEFINE s == Head(todo)
           n == NumSimulated
<1>1. /\ pc = "requests" /\ pc' = "simulate" /\ todo' = Tail(todo) /\ Written(Requests(s))
      /\ UNCHANGED <<options, invocation, traced>>
  BY DEF WriteRequests, parseVars
<1>2. /\ todo # <<>> /\ s \in Scenarios /\ files[Summary(s)] = invocation
      /\ files[Trace] = invocation /\ traced = [asked |-> Asked, ok |-> FALSE]
      /\ todo \in Seq(Named) /\ Len(todo) <= Len(Asked)
      /\ \A i \in 1 .. Len(todo) : todo[i] = Asked[n + i]
      /\ \A k \in 1 .. n :
           /\ Asked[k] \in Scenarios
           /\ files[Summary(Asked[k])] = invocation /\ files[Requests(Asked[k])] = invocation
  BY <1>1 DEF FilesInv
<1>3. /\ files' \in [Files -> 0 .. invocation'] /\ files'[Requests(s)] = invocation
      /\ \A g \in Files : files[g] = invocation => files'[g] = invocation
      /\ files'[Trace] = invocation /\ OutputsInOrder' /\ ResultsAreOfTheTrace'
  BY <1>1, <1>2, WrittenInOrder
<1>4. Asked' = Asked /\ Named' = Named
  BY <1>1 DEF Asked, Named
<1>5. /\ Len(todo) \in Nat \ {0} /\ Len(Asked) \in Nat
      /\ todo' \in Seq(Named) /\ Len(todo') = Len(todo) - 1 /\ s = todo[1]
      /\ \A i \in 1 .. Len(todo') : todo'[i] = todo[i + 1]
  BY <1>1, <1>2, AskedNames
<1>6. NumSimulated' = n + 1 /\ n \in Nat /\ n + 1 \in Nat
  BY <1>2, <1>4, <1>5 DEF NumSimulated
<1>7. \A i \in 1 .. Len(todo') : todo'[i] = Asked'[NumSimulated' + i]
  <2> SUFFICES ASSUME NEW i \in 1 .. Len(todo') PROVE todo'[i] = Asked'[NumSimulated' + i]
    OBVIOUS
  <2>1. i + 1 \in 1 .. Len(todo) /\ n + (i + 1) = n + 1 + i
    BY <1>5, <1>6
  <2> QED BY <1>2, <1>4, <1>5, <1>6, <2>1
<1>8. \A k \in 1 .. NumSimulated' :
        /\ Asked'[k] \in Scenarios
        /\ files'[Summary(Asked'[k])] = invocation' /\ files'[Requests(Asked'[k])] = invocation'
  <2> SUFFICES ASSUME NEW k \in 1 .. NumSimulated'
               PROVE  /\ Asked[k] \in Scenarios
                      /\ files'[Summary(Asked[k])] = invocation
                      /\ files'[Requests(Asked[k])] = invocation
    BY <1>1, <1>4
  <2>1. CASE k \in 1 .. n
    BY <1>2, <1>3, <2>1, FileNames
  <2>2. CASE k = n + 1
    <3>1. Asked[k] = s
      BY <1>2, <1>5, <2>2
    <3> QED BY <1>2, <1>3, <3>1, FileNames
  <2> QED BY <1>6, <2>1, <2>2
<1>9. invocation' \in Nat /\ Len(todo') <= Len(Asked')
  BY <1>1, <1>2, <1>4, <1>5 DEF FilesInv
<1> QED BY <1>1, <1>2, <1>3, <1>4, <1>5, <1>7, <1>8, <1>9 DEF FilesInv

LEMMA FinishFiles == ASSUME FilesInv, Finish PROVE FilesInv'
<1>1. /\ pc = "simulate" /\ pc' = "idle" /\ todo = <<>>
      /\ IF Len(Asked) > 1 THEN Written(Comparison) ELSE files' = files
      /\ traced' = [traced EXCEPT !.ok = TRUE] /\ invocation' = invocation
  BY DEF Finish, Exit
<1>2. /\ files[Trace] = invocation /\ traced = [asked |-> Asked, ok |-> FALSE]
      /\ invocation \in Nat /\ files \in [Files -> 0 .. invocation]
      /\ \A k \in 1 .. Len(Asked) :
           /\ Asked[k] \in Scenarios
           /\ files[Summary(Asked[k])] = invocation /\ files[Requests(Asked[k])] = invocation
  <2>1. NumSimulated = Len(Asked)
    BY <1>1, AskedNames DEF NumSimulated
  <2> QED BY <1>1, <2>1 DEF FilesInv
<1>3. traced' = [asked |-> Asked, ok |-> TRUE]
  BY <1>1, <1>2
<1>4. CASE Len(Asked) > 1
  <2>1. /\ files' \in [Files -> 0 .. invocation'] /\ files'[Comparison] = invocation
        /\ \A g \in Files : g # Comparison => files'[g] = files[g]
    BY <1>1, <1>2, <1>4, FileNames, WrittenNow
  <2>2. files'[Trace] = files[Trace]
    BY <2>1, FileNames
  <2>3. \A s \in Scenarios : /\ files'[Summary(s)] = files[Summary(s)]
                             /\ files'[Requests(s)] = files[Requests(s)]
    BY <2>1, FileNames
  <2>4. Asked = Compared /\ DOMAIN Asked = 1 .. Len(Asked)
    BY <1>4, AskedNames
  <2>5. \A k \in DOMAIN Compared : files'[Comparison] <= files'[Requests(Compared[k])]
    BY <1>2, <2>1, <2>3, <2>4
  <2>6. OutputsInOrder'
    BY <2>2, <2>3, <2>5 DEF FilesInv, OutputsInOrder
  <2>7. ResultsAreOfTheTrace'
    BY <1>2, <1>3, <2>1, <2>2, <2>3, <2>4 DEF ResultsAreOfTheTrace
  <2> QED BY <1>1, <1>2, <2>1, <2>6, <2>7 DEF FilesInv
<1>5. CASE ~(Len(Asked) > 1)
  <2>1. files' = files
    BY <1>1, <1>5
  <2>2. OutputsInOrder'
    BY <2>1 DEF FilesInv, OutputsInOrder
  <2>3. ResultsAreOfTheTrace'
    BY <1>2, <1>3, <1>5, <2>1, AskedNames DEF ResultsAreOfTheTrace
  <2> QED BY <1>1, <1>2, <2>1, <2>2, <2>3 DEF FilesInv
<1> QED BY <1>4, <1>5

LEMMA NextFiles == FilesInv /\ [Next]_vars => FilesInv'
<1> SUFFICES ASSUME FilesInv, [Next]_vars PROVE FilesInv'
  OBVIOUS
<1>1. CASE Invoke
  BY <1>1, NoFilesStep DEF Invoke, outputVars
<1>2. CASE ScanConfig \/ ScanOther \/ ApplyConfigFile \/ ParseOption \/ ParseValidate
  <2>1. UNCHANGED <<files, traced, invocation>> /\ pc' \in {"scan", "parse"}
    BY <1>2 DEF ScanConfig, ScanOther, ApplyConfigFile, ParseOption, ParseValidate, outputVars
  <2> QED BY <2>1, NoFilesStep
<1>3. CASE ParseHelp \/ BadArguments \/ EndBenchmark \/ Validated \/ Fail
  <2>1. UNCHANGED <<files, traced, invocation>> /\ pc' \in {"idle", "failed"}
    BY <1>3 DEF ParseHelp, BadArguments, EndBenchmark, Validated, Fail, Leave, Exit, outputVars
  <2> QED BY <2>1, NoFilesStep
<1>4. CASE Parsed
  <2>1. UNCHANGED <<files, traced, invocation>> /\ pc' \in {"benchmark", "validate", "prepare"}
    BY <1>4 DEF Parsed, Goto, outputVars
  <2> QED BY <2>1, NoFilesStep
<1>5. CASE OpenProfile \/ Measure
  <2>1. UNCHANGED <<files, traced, invocation>> /\ pc' = "measure"
    BY <1>5 DEF OpenProfile, Measure
  <2> QED BY <2>1, NoFilesStep
<1>6. CASE WriteTrace
  BY <1>6, WriteTraceFiles
<1>7. CASE LoadLatencyModel
  BY <1>7, LoadFiles
<1>8. CASE Simulate
  BY <1>8, SimulateFiles
<1>9. CASE WriteRequests
  BY <1>9, WriteRequestsFiles
<1>10. CASE Finish
  BY <1>10, FinishFiles
<1>11. CASE Stop \/ UNCHANGED vars
  BY <1>11 DEF Stop, vars, parseVars, outputVars, FilesInv, Named, NumSimulated, Asked,
              OutputsInOrder, ResultsAreOfTheTrace
<1> QED BY <1>1, <1>2, <1>3, <1>4, <1>5, <1>6, <1>7, <1>8, <1>9, <1>10, <1>11 DEF Next

-----------------------------------------------------------------------------
(* The theorems *)

\* However many invocations write to a directory, and wherever they fail: the
\* requests of a scenario are never newer than its summary, a summary not than the
\* trace, the comparison not than a result it compares.
THEOREM FilesAreInOrder == Spec => []OutputsInOrder
<1>1. FilesInv => OutputsInOrder
  BY DEF FilesInv
<1> QED BY <1>1, InitFiles, NextFiles, PTL DEF Spec

\* After an invocation that exited with 0 the results it was asked for are those
\* of the trace, until another trace is written.
THEOREM ResultsStayWithTheirTrace == Spec => []ResultsAreOfTheTrace
<1>1. FilesInv => ResultsAreOfTheTrace
  BY DEF FilesInv
<1> QED BY <1>1, InitFiles, NextFiles, PTL DEF Spec

-----------------------------------------------------------------------------
(* The precedence of the options *)

\* The value that was given last, when another place is added behind the others.
LEMMA LastOfMore ==
  ASSUME NEW S \in SUBSET Nat, NEW i \in Nat, \A k \in S : k < i
  PROVE  ValueOfLast(S \cup {i}) = argv[1 + i]
<1> DEFINE T == S \cup {i}
           Last(k) == \A l \in T : l <= k
<1>1. Last(i) /\ i \in T
  OBVIOUS
<1>2. \A k \in T : Last(k) => k = i
  <2> SUFFICES ASSUME NEW k \in T, Last(k) PROVE k = i
    OBVIOUS
  <2>1. i <= k /\ k \in Nat /\ (k \in S => k < i)
    OBVIOUS
  <2> QED BY <2>1
<1> HIDE DEF Last
<1>3. (CHOOSE k \in T : Last(k)) = i
  BY <1>1, <1>2
<1>4. PICK c : c = CHOOSE k \in T : Last(k)
  OBVIOUS
<1>5. ValueOfLast(T) = argv[1 + c]
  BY <1>4 DEF ValueOfLast, Last
<1> QED BY <1>3, <1>4, <1>5

\* What is on the command line.
LEMMA ArgumentsAre ==
  ASSUME PrecedenceInv, ValuesAreNoOptions
  PROVE  /\ Len(argv) \in Nat /\ index \in Nat /\ index >= 1
         /\ \A k \in 1 .. Len(argv) - 1 : argv[k] \in Valued => argv[k + 1] \notin Valued
         /\ \A o : Given(o) \in SUBSET Nat /\ GivenSoFar(o) \in SUBSET Nat
<1>1. Len(argv) \in Nat
  <2>1. CASE argv \in CommandLines
    <3>1. argv \in Seq(STRING)
      BY <2>1, ArgumentsAssumption
    <3> QED BY <3>1
  <2>2. CASE argv = <<>>
    BY <2>2
  <2> QED BY <2>1, <2>2 DEF PrecedenceInv
<1>2. \A k \in 1 .. Len(argv) - 1 : argv[k] \in Valued => argv[k + 1] \notin Valued
  BY DEF ValuesAreNoOptions
<1>3. \A o : Given(o) \in SUBSET Nat /\ GivenSoFar(o) \in SUBSET Nat
  BY <1>1 DEF Given, GivenSoFar
<1> QED BY <1>1, <1>2, <1>3 DEF PrecedenceInv

ValueSoFar(o) == ValueOfLast(GivenSoFar(o))

\* A round of a loop that takes an option and its value: the option is given once
\* more, and no other option is, because the value is none.
LEMMA GivenOnTake ==
  ASSUME PrecedenceInv, ValuesAreNoOptions, HasValue, NEW a \in Valued, a = argv[index], argv' = argv,
         index' = index + 2
  PROVE  /\ GivenSoFar(a)' # {} /\ ValueSoFar(a)' = argv[index + 1]
         /\ \A o \in Valued :
              o # a => GivenSoFar(o)' = GivenSoFar(o) /\ ValueSoFar(o)' = ValueSoFar(o)
<1> DEFINE n == Len(argv)
           G(o) == {k \in 1 .. n - 1 : argv[k] = o /\ k < index}
           H(o) == {k \in 1 .. n - 1 : argv[k] = o /\ k < index + 2}
<1>1. /\ n \in Nat /\ index \in Nat /\ index >= 1 /\ index < n /\ index \in 1 .. n - 1
      /\ argv[index + 1] \notin Valued
  BY ArgumentsAre DEF HasValue
<1>2. \A o : GivenSoFar(o) = G(o) /\ GivenSoFar(o)' = H(o)
  BY DEF GivenSoFar, Given
<1>3. ASSUME NEW o \in Valued PROVE H(o) = IF o = a THEN G(o) \cup {index} ELSE G(o)
  <2>1. ASSUME NEW k \in 1 .. n - 1
        PROVE  argv[k] = o /\ k < index + 2 <=> argv[k] = o /\ (k < index \/ k = index)
    <3>1. k < index + 2 <=> k < index \/ k = index \/ k = index + 1
      BY <1>1
    <3>2. k = index + 1 => argv[k] # o
      BY <1>1
    <3>3. k = index => k < index + 2
      BY <1>1
    <3> QED BY <3>1, <3>2, <3>3
  <2>2. H(o) = {k \in 1 .. n - 1 : argv[k] = o /\ (k < index \/ k = index)}
    BY <2>1
  <2>3. CASE o = a
    BY <1>1, <2>2, <2>3
  <2>4. CASE o # a
    BY <1>1, <2>2, <2>4
  <2> QED BY <2>3, <2>4
<1>4. GivenSoFar(a)' = GivenSoFar(a) \cup {index}
  BY <1>2, <1>3
<1>5. \A k \in GivenSoFar(a) : k < index
  BY DEF GivenSoFar
<1>6. ValueOfLast(GivenSoFar(a) \cup {index}) = argv[index + 1]
  <2>1. 1 + index = index + 1
    BY <1>1
  <2> QED BY <1>1, <1>5, <2>1, ArgumentsAre, LastOfMore
<1>7. ValueSoFar(a)' = argv[index + 1]
  BY <1>4, <1>6 DEF ValueSoFar, ValueOfLast
<1>8. \A o \in Valued :
        o # a => GivenSoFar(o)' = GivenSoFar(o) /\ ValueSoFar(o)' = ValueSoFar(o)
  <2>1. \A o \in Valued : o # a => GivenSoFar(o)' = GivenSoFar(o)
    BY <1>2, <1>3
  <2> QED BY <2>1 DEF ValueSoFar, ValueOfLast
<1> QED BY <1>4, <1>7, <1>8

\* A round that passes over an argument gives no option that is not in its place.
LEMMA GivenOnSkip ==
  ASSUME PrecedenceInv, ValuesAreNoOptions, More, argv' = argv, index' = index + 1, NEW o, o # argv[index]
  PROVE  GivenSoFar(o)' = GivenSoFar(o) /\ ValueSoFar(o)' = ValueSoFar(o)
<1>1. Len(argv) \in Nat /\ index \in Nat
  BY ArgumentsAre
<1>2. ASSUME NEW k \in Given(o) PROVE k < index + 1 <=> k < index
  <2>1. k \in Nat /\ k # index
    BY <1>1 DEF Given
  <2> QED BY <1>1, <2>1
<1>3. GivenSoFar(o)' = {k \in Given(o) : k < index + 1}
  BY DEF GivenSoFar, Given
<1>4. GivenSoFar(o)' = GivenSoFar(o)
  BY <1>2, <1>3 DEF GivenSoFar
<1> QED BY <1>4 DEF ValueSoFar, ValueOfLast

\* When a loop has passed the last argument it has seen all that is given.
LEMMA AllGivenAtEnd ==
  ASSUME PrecedenceInv, ValuesAreNoOptions, ~More, NEW o
  PROVE  GivenSoFar(o) = Given(o) /\ ValueSoFar(o) = LastGiven(o)
<1>1. Len(argv) \in Nat /\ index \in Nat /\ index > Len(argv)
  BY ArgumentsAre DEF More
<1>2. \A k \in Given(o) : k < index
  BY <1>1 DEF Given
<1>3. GivenSoFar(o) = Given(o)
  BY <1>2 DEF GivenSoFar
<1> QED BY <1>3 DEF ValueSoFar, LastGiven

\* What the two loops have made of the options so far.
Scanned(o) == IF o = "--config" /\ GivenSoFar(o) # {} THEN ValueSoFar(o) ELSE Default[o]
Filed(o) ==
  IF o \in DOMAIN FileSettings THEN FileSettings[o]
  ELSE IF o = "--config" /\ Given(o) # {} THEN LastGiven(o)
  ELSE Default[o]
Overridden(o) == IF GivenSoFar(o) # {} THEN ValueSoFar(o) ELSE Filed(o)

\* What depends on the command line only.
LEMMA ArgumentsStay ==
  ASSUME argv' = argv
  PROVE  /\ \A o : Given(o)' = Given(o) /\ LastGiven(o)' = LastGiven(o)
         /\ FileSettings' = FileSettings /\ \A o : Filed(o)' = Filed(o)
<1>1. \A o : Given(o)' = Given(o)
  BY DEF Given
<1>2. \A o : LastGiven(o)' = LastGiven(o)
  BY <1>1 DEF LastGiven, ValueOfLast
<1>3. FileSettings' = FileSettings
  BY <1>1, <1>2 DEF FileSettings
<1>4. \A o : Filed(o)' = Filed(o)
  BY <1>1, <1>2, <1>3 DEF Filed
<1> QED BY <1>1, <1>2, <1>3, <1>4

LEMMA PrecedenceInvIs ==
  ASSUME ValuesAreNoOptions
  PROVE
  PrecedenceInv <=>
    /\ index \in Nat \ {0} /\ argv \in CommandLines \cup {<<>>} /\ DOMAIN options = Valued
    /\ pc \in Exits => options = Default
    /\ pc = "scan" => \A o \in Valued : options[o] = Scanned(o)
    /\ pc = "parse" => \A o \in Valued : options[o] = Overridden(o)
BY DEF PrecedenceInv, Scanned, Overridden, Filed, ValueSoFar

LEMMA InvokePrecedence == ASSUME PrecedenceInv, Invoke PROVE PrecedenceInv'
<1>1. /\ pc \in Exits /\ options = Default /\ options' = options /\ index' = 1
      /\ pc' = "scan" /\ argv' \in CommandLines /\ DOMAIN options = Valued
  BY DEF Invoke, PrecedenceInv
<1>2. GivenSoFar("--config")' = {}
  <2>0. argv' \in Seq(STRING)
    BY <1>1, ArgumentsAssumption
  <2>1. \A k \in 1 .. Len(argv') - 1 : ~(k < 1)
    BY <2>0
  <2> QED BY <1>1, <2>1 DEF GivenSoFar, Given
<1>3. \A o \in Valued : options'[o] = IF o = "--config" /\ GivenSoFar(o)' # {} THEN ValueSoFar(o)'
                                      ELSE Default[o]
  BY <1>1, <1>2
<1> QED BY <1>1, <1>3 DEF PrecedenceInv, ValueSoFar, Exits

LEMMA ScanConfigPrecedence == ASSUME PrecedenceInv, ValuesAreNoOptions, ScanConfig PROVE PrecedenceInv'
<1>1. /\ pc = "scan" /\ pc' = "scan" /\ argv[index] = "--config" /\ HasValue /\ argv' = argv
      /\ options' = [options EXCEPT !["--config"] = argv[index + 1]] /\ index' = index + 2
      /\ DOMAIN options = Valued /\ index' \in Nat \ {0} /\ argv \in CommandLines \cup {<<>>}
  BY DEF ScanConfig, Take, PrecedenceInv
<1>2. \A o \in Valued : options[o] = Scanned(o)
  BY <1>1, PrecedenceInvIs
<1>3. /\ GivenSoFar("--config")' # {} /\ ValueSoFar("--config")' = argv[index + 1]
      /\ "--config" \in Valued
  BY <1>1, GivenOnTake, OptionsAssumption
<1>4. \A o \in Valued : options'[o] = IF o = "--config" /\ GivenSoFar(o)' # {} THEN ValueSoFar(o)'
                                      ELSE Default[o]
  BY <1>1, <1>2, <1>3 DEF Scanned
<1>5. DOMAIN options' = Valued
  BY <1>1
<1> QED BY <1>1, <1>4, <1>5 DEF PrecedenceInv, ValueSoFar, Exits

LEMMA ScanOtherPrecedence == ASSUME PrecedenceInv, ValuesAreNoOptions, ScanOther PROVE PrecedenceInv'
<1>1. /\ pc = "scan" /\ pc' = "scan" /\ argv[index] # "--config" /\ More /\ argv' = argv
      /\ options' = options /\ index' = index + 1
      /\ DOMAIN options = Valued /\ index' \in Nat \ {0} /\ argv \in CommandLines \cup {<<>>}
  BY DEF ScanOther, PrecedenceInv
<1>2. \A o \in Valued : options[o] = Scanned(o)
  BY <1>1, PrecedenceInvIs
<1>3. /\ GivenSoFar("--config")' = GivenSoFar("--config")
      /\ ValueSoFar("--config")' = ValueSoFar("--config")
  BY <1>1, GivenOnSkip
<1>4. \A o \in Valued : options'[o] = IF o = "--config" /\ GivenSoFar(o)' # {} THEN ValueSoFar(o)'
                                      ELSE Default[o]
  BY <1>1, <1>2, <1>3 DEF Scanned
<1> QED BY <1>1, <1>4 DEF PrecedenceInv, ValueSoFar, Exits

LEMMA ApplyPrecedence == ASSUME PrecedenceInv, ValuesAreNoOptions, ApplyConfigFile PROVE PrecedenceInv'
<1> DEFINE path == options["--config"]
<1>1. /\ pc = "scan" /\ pc' = "parse" /\ ~More /\ argv' = argv /\ index' = 1
      /\ options' = IF path = "" THEN options ELSE Configured(ConfigFiles[path])
      /\ DOMAIN options = Valued /\ argv \in CommandLines \cup {<<>>}
  BY DEF ApplyConfigFile, PrecedenceInv
<1>2. \A o \in Valued : options[o] = IF o = "--config" /\ Given(o) # {} THEN LastGiven(o) ELSE Default[o]
  BY <1>1, PrecedenceInvIs, AllGivenAtEnd DEF Scanned
<1>3. path = IF Given("--config") # {} THEN LastGiven("--config") ELSE ""
  BY <1>2, OptionsAssumption, ArgumentsAssumption
<1>4. FileSettings = IF path = "" THEN <<>> ELSE ConfigFiles[path]
  BY <1>3 DEF FileSettings
<1>5. ASSUME NEW o \in Valued PROVE options'[o] = Filed(o)
  <2>1. CASE path = ""
    <3>1. o \notin DOMAIN FileSettings
      <4>1. FileSettings = <<>>
        BY <1>4, <2>1
      <4>2. DOMAIN <<>> = {}
        OBVIOUS
      <4> QED BY <4>1, <4>2
    <3> QED BY <1>1, <1>2, <2>1, <3>1 DEF Filed
  <2>2. CASE path # ""
    <3>1. options'[o] = IF o \in DOMAIN FileSettings THEN FileSettings[o] ELSE options[o]
      BY <1>1, <1>4, <2>2 DEF Configured
    <3> QED BY <1>2, <3>1 DEF Filed
  <2> QED BY <2>1, <2>2
<1>6. \A o : GivenSoFar(o)' = {}
  <2>1. Len(argv) \in Nat
    BY ArgumentsAre
  <2>2. \A k \in 1 .. Len(argv) - 1 : ~(k < 1)
    BY <2>1
  <2> QED BY <1>1, <2>2 DEF GivenSoFar, Given
<1>7. \A o : Filed(o)' = Filed(o)
  BY <1>1, ArgumentsStay
<1>8. \A o \in Valued : options'[o] = Overridden(o)'
  BY <1>5, <1>6, <1>7 DEF Overridden
<1>9. DOMAIN options' = Valued
  BY <1>1 DEF Configured
<1>10. /\ index' \in Nat \ {0} /\ argv' \in CommandLines \cup {<<>>}
       /\ pc' \notin Exits /\ pc' # "scan"
  <2>1. pc' = "parse" /\ index' = 1 /\ argv' = argv /\ argv \in CommandLines \cup {<<>>}
    BY <1>1
  <2> QED BY <2>1 DEF Exits
<1> QED BY <1>8, <1>9, <1>10 DEF PrecedenceInv, Overridden, Filed, ValueSoFar

LEMMA ParseOptionPrecedence == ASSUME PrecedenceInv, ValuesAreNoOptions, ParseOption PROVE PrecedenceInv'
<1>1. PICK a \in Valued : a = argv[index]
  BY DEF ParseOption
<1>2. /\ pc = "parse" /\ pc' = "parse" /\ HasValue /\ argv' = argv
      /\ options' = [options EXCEPT ![a] = argv[index + 1]] /\ index' = index + 2
      /\ DOMAIN options = Valued /\ index' \in Nat \ {0} /\ argv \in CommandLines \cup {<<>>}
  BY <1>1 DEF ParseOption, Take, PrecedenceInv
<1>3. \A o \in Valued : options[o] = Overridden(o)
  BY <1>2, PrecedenceInvIs
<1>4. /\ GivenSoFar(a)' # {} /\ ValueSoFar(a)' = argv[index + 1]
      /\ \A o \in Valued :
           o # a => GivenSoFar(o)' = GivenSoFar(o) /\ ValueSoFar(o)' = ValueSoFar(o)
  BY <1>1, <1>2, GivenOnTake
<1>5. \A o : Filed(o)' = Filed(o)
  BY <1>2, ArgumentsStay
<1>6. ASSUME NEW o \in Valued PROVE options'[o] = Overridden(o)'
  <2>1. CASE o = a
    BY <1>2, <1>4, <2>1 DEF Overridden
  <2>2. CASE o # a
    <3>1. options'[o] = options[o]
      BY <1>2, <2>2
    <3>2. Overridden(o)' = Overridden(o)
      BY <1>4, <1>5, <2>2 DEF Overridden
    <3> QED BY <1>3, <3>1, <3>2
  <2> QED BY <2>1, <2>2
<1>7. DOMAIN options' = Valued
  BY <1>2
<1> QED BY <1>2, <1>6, <1>7 DEF PrecedenceInv, Overridden, Filed, ValueSoFar, Exits

LEMMA ParseValidatePrecedence == ASSUME PrecedenceInv, ValuesAreNoOptions, ParseValidate PROVE PrecedenceInv'
<1>1. /\ pc = "parse" /\ pc' = "parse" /\ More /\ argv' = argv /\ options' = options
      /\ argv[index] = "--cuda-validate" /\ index' = index + 1
      /\ DOMAIN options = Valued /\ index' \in Nat \ {0} /\ argv \in CommandLines \cup {<<>>}
  BY DEF ParseValidate, PrecedenceInv
<1>2. \A o \in Valued : options[o] = Overridden(o)
  BY <1>1, PrecedenceInvIs
<1>3. \A o \in Valued : GivenSoFar(o)' = GivenSoFar(o) /\ ValueSoFar(o)' = ValueSoFar(o)
  <2>1. \A o \in Valued : o # argv[index]
    BY <1>1, OptionsAssumption
  <2> QED BY <1>1, <2>1, GivenOnSkip
<1>4. \A o : Filed(o)' = Filed(o)
  BY <1>1, ArgumentsStay
<1>5. \A o \in Valued : options'[o] = Overridden(o)'
  BY <1>1, <1>2, <1>3, <1>4 DEF Overridden
<1> QED BY <1>1, <1>5 DEF PrecedenceInv, Overridden, Filed, ValueSoFar, Exits

\* The loops end up somewhere, whatever they make of values that look like options.
LEMMA OtherArguments ==
  ASSUME PrecedenceInv, [Next]_vars, ~ValuesAreNoOptions' PROVE PrecedenceInv'
<1>1. /\ index' \in Nat \ {0} /\ argv' \in CommandLines \cup {<<>>} /\ DOMAIN options' = Valued
      /\ pc' \in Exits => options' = Default
  <2>1. /\ index \in Nat \ {0} /\ argv \in CommandLines \cup {<<>>} /\ DOMAIN options = Valued
        /\ pc \in Exits => options = Default
    BY DEF PrecedenceInv
  <2>2. CASE Invoke \/ ApplyConfigFile
    <3>1. CASE Invoke
      BY <2>1, <3>1 DEF Invoke, Exits
    <3>2. CASE ApplyConfigFile
      <4>1. index' = 1 /\ argv' = argv /\ pc' = "parse" /\ DOMAIN options' = Valued
        BY <2>1, <3>2 DEF ApplyConfigFile, Configured
      <4> QED BY <2>1, <4>1 DEF Exits
    <3> QED BY <2>2, <3>1, <3>2
  <2>3. CASE ScanConfig \/ ScanOther \/ ParseOption \/ ParseValidate
    <3>1. /\ index' \in {index + 1, index + 2} /\ argv' = argv
          /\ pc' \in {"scan", "parse"} /\ DOMAIN options' = DOMAIN options
      BY <2>3 DEF ScanConfig, ScanOther, ParseOption, ParseValidate, Take
    <3> QED BY <2>1, <3>1 DEF Exits
  <2>4. CASE ParseHelp \/ BadArguments \/ EndBenchmark \/ Validated \/ Finish \/ Fail
    <3>1. argv' = <<>> /\ index' = 1 /\ options' = Default
      BY <2>4 DEF ParseHelp, BadArguments, EndBenchmark, Validated, Finish, Fail, Leave, Exit
    <3> QED BY <3>1 DEF Valued
  <2>5. CASE Parsed \/ OpenProfile \/ Measure \/ WriteTrace \/ LoadLatencyModel \/ Simulate
             \/ WriteRequests
    <3>1. /\ UNCHANGED <<argv, index, options>>
          /\ pc' \in {"benchmark", "validate", "prepare", "measure", "load", "simulate", "requests"}
      BY <2>5 DEF Parsed, Goto, OpenProfile, Measure, WriteTrace, LoadLatencyModel, Simulate,
                  WriteRequests, parseVars
    <3> QED BY <2>1, <3>1 DEF Exits
  <2>6. CASE Stop \/ UNCHANGED vars
    BY <2>1, <2>6 DEF Stop, vars, parseVars
  <2> QED BY <2>2, <2>3, <2>4, <2>5, <2>6 DEF Next
<1> QED BY <1>1 DEF PrecedenceInv

LEMMA NextPrecedence == PrecedenceInv /\ [Next]_vars => PrecedenceInv'
<1> SUFFICES ASSUME PrecedenceInv, [Next]_vars, ValuesAreNoOptions' PROVE PrecedenceInv'
  BY OtherArguments
<1>0. argv' = argv => ValuesAreNoOptions
  BY DEF ValuesAreNoOptions
<1>1. CASE Invoke
  BY <1>1, InvokePrecedence
<1>2. CASE ScanConfig
  BY <1>0, <1>2, ScanConfigPrecedence DEF ScanConfig
<1>3. CASE ScanOther
  BY <1>0, <1>3, ScanOtherPrecedence DEF ScanOther
<1>4. CASE ApplyConfigFile
  BY <1>0, <1>4, ApplyPrecedence DEF ApplyConfigFile
<1>5. CASE ParseOption
  BY <1>0, <1>5, ParseOptionPrecedence DEF ParseOption
<1>6. CASE ParseValidate
  BY <1>0, <1>6, ParseValidatePrecedence DEF ParseValidate
<1>7. CASE ParseHelp \/ BadArguments \/ EndBenchmark \/ Validated \/ Finish \/ Fail
  <2>1. /\ argv' = <<>> /\ index' = 1 /\ options' = Default /\ pc' \in {"idle", "failed"}
    BY <1>7 DEF ParseHelp, BadArguments, EndBenchmark, Validated, Finish, Fail, Leave, Exit
  <2> QED BY <2>1 DEF PrecedenceInv, Valued
<1>8. CASE Parsed \/ OpenProfile \/ Measure \/ WriteTrace \/ LoadLatencyModel \/ Simulate
           \/ WriteRequests
  <2>1. /\ UNCHANGED <<argv, index, options>>
        /\ pc' \in {"benchmark", "validate", "prepare", "measure", "load", "simulate", "requests"}
    BY <1>8 DEF Parsed, Goto, OpenProfile, Measure, WriteTrace, LoadLatencyModel, Simulate,
                WriteRequests, parseVars
  <2> QED BY <2>1 DEF PrecedenceInv, Exits
<1>9. CASE Stop \/ UNCHANGED vars
  <2>1. UNCHANGED <<pc, argv, index, options>>
    BY <1>9 DEF Stop, vars, parseVars
  <2>2. \A o : GivenSoFar(o)' = GivenSoFar(o)
    BY <2>1 DEF GivenSoFar, Given
  <2>3. \A o : ValueSoFar(o)' = ValueSoFar(o)
    BY <2>1, <2>2 DEF ValueSoFar, ValueOfLast
  <2>4. \A o : Scanned(o)' = Scanned(o) /\ Overridden(o)' = Overridden(o)
    BY <2>1, <2>2, <2>3, ArgumentsStay DEF Scanned, Overridden
  <2>0. ValuesAreNoOptions
    BY <1>0, <2>1
  <2>5. /\ pc = "scan" => \A o \in Valued : options[o] = Scanned(o)
        /\ pc = "parse" => \A o \in Valued : options[o] = Overridden(o)
    BY <2>0, PrecedenceInvIs
  <2>6. /\ pc' = "scan" => \A o \in Valued : options'[o] = Scanned(o)'
        /\ pc' = "parse" => \A o \in Valued : options'[o] = Overridden(o)'
    BY <2>1, <2>4, <2>5
  <2> QED BY <2>1, <2>6 DEF PrecedenceInv, Scanned, Overridden, Filed, ValueSoFar
<1> QED BY <1>1, <1>2, <1>3, <1>4, <1>5, <1>6, <1>7, <1>8, <1>9 DEF Next

\* Whatever the command line and the configuration files: what was given last wins
\* over the file, the file over the default.
THEOREM OptionsAreTakenInOrder == Spec => []OptionsTakePrecedence
<1>1. Init => PrecedenceInv
  BY DEF Init, PrecedenceInv, Valued
<1>2. PrecedenceInv => OptionsTakePrecedence
  <2> SUFFICES ASSUME PrecedenceInv, ValuesAreNoOptions, pc = "parse", ~More, NEW o \in Valued
               PROVE  options[o] = IF Given(o) # {} THEN LastGiven(o)
                                   ELSE IF o \in DOMAIN FileSettings THEN FileSettings[o]
                                   ELSE Default[o]
    BY DEF OptionsTakePrecedence
  <2>1. options[o] = Overridden(o)
    BY PrecedenceInvIs
  <2>2. GivenSoFar(o) = Given(o) /\ ValueSoFar(o) = LastGiven(o)
    BY AllGivenAtEnd
  <2> QED BY <2>1, <2>2 DEF Overridden, Filed
<1> QED BY <1>1, <1>2, NextPrecedence, PTL DEF Spec

-----------------------------------------------------------------------------
(* The decode profile *)

\* A row and a column of the grid give a place of the file, and the other way.
Row(k, w)    == ((k - 1) \div w) + 1
Column(k, w) == ((k - 1) % w) + 1

LEMMA PlaceOf ==
  ASSUME NEW w \in Nat \ {0}, NEW h \in Nat, NEW n, n = h * w, NEW i \in 1 .. h, NEW j \in 1 .. w
  PROVE  \E k \in 1 .. n : Row(k, w) = i /\ Column(k, w) = j
<1> DEFINE k == w * (i - 1) + j
<1>1. w * (i - 1) \in Nat /\ w * h = w * (i - 1) + w * (h - i + 1) /\ h * w = w * h
  OBVIOUS
<1>2. w * 1 <= w * (h - i + 1)
  BY TimesMonotonic
<1>3. k \in 1 .. n
  BY <1>1, <1>2
<1>4. k - 1 \in Nat /\ w * (i - 1) <= k - 1 /\ k - 1 < w * (i - 1) + w
  BY <1>1
<1>5. k - 1 = w * (i - 1) + (j - 1)
  BY <1>1
<1> HIDE DEF k
<1>6. k \in Int /\ k - 1 \in Int
  BY <1>3
<1>7. (k - 1) \div w = i - 1
  BY <1>4, <1>6, DivUnique
<1>8. (k - 1) % w = j - 1
  <2>1. (k - 1) % w = (k - 1) - w * ((k - 1) \div w)
    BY <1>6
  <2> QED BY <1>1, <1>5, <1>7, <2>1
<1> QED BY <1>3, <1>7, <1>8 DEF Row, Column

LEMMA RowAndColumn ==
  ASSUME NEW w \in Nat \ {0}, NEW h \in Nat, NEW k \in 1 .. h * w
  PROVE  Row(k, w) \in 1 .. h /\ Column(k, w) \in 1 .. w
<1> DEFINE q == (k - 1) \div w
<1>1. h * w \in Nat /\ h * w = w * h
  OBVIOUS
<1>2. q \in Int /\ w * q <= k - 1 /\ k - 1 < w * q + w
  BY <1>1, DivBounds
<1>3. q >= 0
  <2>1. q <= -1 => w * q <= w * (-1)
    BY <1>2, TimesMonotonic
  <2> QED BY <1>1, <1>2, <2>1
<1>4. q < h
  <2>1. h <= q => w * h <= w * q
    BY <1>2, TimesMonotonic
  <2>2. k <= w * h
    BY <1>1
  <2> QED BY <1>1, <1>2, <2>1, <2>2
<1>5. (k - 1) % w \in 0 .. w - 1
  BY <1>1
<1> QED BY <1>2, <1>3, <1>4, <1>5 DEF Row, Column

\* A complete profile has the point of every batch size and length, and no other.
LEMMA MeasuredIsTheGrid ==
  LET points == Measured(Batches, Lengths, GridSize)
  IN  /\ GridSize \in Nat \ {0} /\ DOMAIN points = 1 .. GridSize
      /\ \A k \in 1 .. GridSize : \E b \in DOMAIN Batches, l \in DOMAIN Lengths :
           points[k].batch = Batches[b] /\ points[k].length = Lengths[l]
      /\ \A b \in DOMAIN Batches, l \in DOMAIN Lengths : \E k \in 1 .. GridSize :
           points[k].batch = Batches[b] /\ points[k].length = Lengths[l]
<1> DEFINE h == Len(Batches)
           w == Len(Lengths)
           points == Measured(Batches, Lengths, GridSize)
<1>1. /\ h \in Nat \ {0} /\ w \in Nat \ {0} /\ DOMAIN Batches = 1 .. h /\ DOMAIN Lengths = 1 .. w
  BY GridAssumption
<1>2. GridSize = h * w /\ GridSize \in Nat \ {0}
  BY <1>1 DEF GridSize
<1>3. /\ DOMAIN points = 1 .. GridSize
      /\ \A k \in 1 .. GridSize : /\ points[k].batch = Batches[Row(k, w)]
                                  /\ points[k].length = Lengths[Column(k, w)]
  BY DEF Measured, Row, Column
<1> HIDE DEF points, h, w
<1>4. ASSUME NEW k \in 1 .. GridSize
      PROVE  \E b \in DOMAIN Batches, l \in DOMAIN Lengths :
               points[k].batch = Batches[b] /\ points[k].length = Lengths[l]
  <2>1. Row(k, w) \in 1 .. h /\ Column(k, w) \in 1 .. w
    BY <1>1, <1>2, RowAndColumn
  <2> QED BY <1>1, <1>3, <2>1
<1>5. ASSUME NEW b \in DOMAIN Batches, NEW l \in DOMAIN Lengths
      PROVE  \E k \in 1 .. GridSize :
               points[k].batch = Batches[b] /\ points[k].length = Lengths[l]
  <2>0. h \in Nat /\ b \in 1 .. h /\ l \in 1 .. w
    BY <1>1
  <2>1. PICK n : n = GridSize /\ n = h * w
    BY <1>2
  <2>2. PICK k \in 1 .. GridSize : Row(k, w) = b /\ Column(k, w) = l
    BY <1>1, <2>0, <2>1, PlaceOf
  <2> QED BY <1>3, <2>2
<1> QED BY <1>2, <1>3, <1>4, <1>5 DEF points

\* A lookup takes one of the points, and no other is closer.
LEMMA ClosestIsClosest ==
  ASSUME NEW points, NEW n \in Nat \ {0}, DOMAIN points = 1 .. n, NEW batch, NEW context,
         \A k \in 1 .. n : Distance(points[k], batch, context) \in Nat
  PROVE  \E k \in 1 .. n :
           /\ Closest(points, batch, context) = points[k]
           /\ \A l \in 1 .. n :
                Distance(points[k], batch, context) <= Distance(points[l], batch, context)
<1> DEFINE from(k) == Distance(points[k], batch, context)
           Least0(k) == \A l \in 1 .. n : from(k) <= from(l)
           First(k) == Least0(k) /\ \A l \in 1 .. k - 1 : from(k) < from(l)
           D == {from(k) : k \in 1 .. n}
           S == {k \in 1 .. n : Least0(k)}
<1>1. \A k \in 1 .. n : from(k) \in Nat
  OBVIOUS
<1> HIDE DEF from
<1>2. D \in SUBSET Nat /\ D # {}
  <2>1. 1 \in 1 .. n
    OBVIOUS
  <2> QED BY <1>1, <2>1
<1>3. PICK d \in D : \A e \in D : d <= e
  <2> HIDE DEF D
  <2> QED BY <1>2, LeastElement
<1>4. PICK m \in 1 .. n : d = from(m)
  OBVIOUS
<1>5. m \in S
  BY <1>3, <1>4
<1>6. PICK k \in S : \A l \in S : k <= l
  <2>1. S \in SUBSET Nat
    OBVIOUS
  <2> HIDE DEF S
  <2> QED BY <1>5, <2>1, LeastElement
<1>7. First(k)
  <2> SUFFICES ASSUME NEW l \in 1 .. k - 1 PROVE from(k) < from(l)
    BY <1>6
  <2>1. l \in 1 .. n /\ l < k /\ k \in 1 .. n /\ ~(k <= l)
    OBVIOUS
  <2>2. from(k) <= from(l)
    BY <2>1
  <2>3. ~Least0(l)
    BY <1>6, <2>1
  <2>4. from(l) # from(k)
    BY <2>3
  <2> QED BY <1>1, <2>1, <2>2, <2>4
<1>8. PICK c : c = CHOOSE l \in 1 .. n : First(l)
  OBVIOUS
<1>9. c \in 1 .. n /\ First(c)
  <2> HIDE DEF First
  <2> QED BY <1>7, <1>8
<1>10. Closest(points, batch, context) = points[c]
  BY <1>8 DEF Closest, from
<1> QED BY <1>9, <1>10 DEF from

LEMMA MagnitudeIs == \A x \in Int : Magnitude(x) \in Nat
BY DEF Magnitude

\* With the profile of a whole benchmark the point a lookup takes is nearest in the
\* batch size and in the length at once: the grid is a product, so that a point
\* that were closer in one coordinate could keep the other.
THEOREM LookupsTakeTheNearest == Spec => []LookupsAreNearest
<1>1. ASSUME profile = GridSize,
             NEW batch \in 0 .. Batches[Len(Batches)] + 1,
             NEW context \in 0 .. Lengths[Len(Lengths)] + 1
      PROVE  LET point == Closest(Measured(Batches, Lengths, profile), batch, context)
             IN  /\ \A k \in DOMAIN Batches :
                      Magnitude(point.batch - batch) <= Magnitude(Batches[k] - batch)
                 /\ \A k \in DOMAIN Lengths :
                      Magnitude(point.length - context) <= Magnitude(Lengths[k] - context)
  <2> DEFINE points == Measured(Batches, Lengths, GridSize)
             point == Closest(points, batch, context)
             near(b) == Magnitude(Batches[b] - batch)
             close(l) == Magnitude(Lengths[l] - context)
  <2>1. batch \in Int /\ context \in Int
    OBVIOUS
  <2>2. /\ GridSize \in Nat \ {0} /\ DOMAIN points = 1 .. GridSize
        /\ \A k \in 1 .. GridSize : \E b \in DOMAIN Batches, l \in DOMAIN Lengths :
             points[k].batch = Batches[b] /\ points[k].length = Lengths[l]
        /\ \A b \in DOMAIN Batches, l \in DOMAIN Lengths : \E k \in 1 .. GridSize :
             points[k].batch = Batches[b] /\ points[k].length = Lengths[l]
    BY MeasuredIsTheGrid
  <2>3. /\ \A b \in DOMAIN Batches : near(b) \in Nat
        /\ \A l \in DOMAIN Lengths : close(l) \in Nat
    <3>1. /\ \A b \in DOMAIN Batches : Batches[b] - batch \in Int
          /\ \A l \in DOMAIN Lengths : Lengths[l] - context \in Int
      BY <2>1, GridAssumption
    <3> QED BY <3>1, MagnitudeIs
  <2> HIDE DEF points
  <2>4. ASSUME NEW k, NEW b \in DOMAIN Batches, NEW l \in DOMAIN Lengths,
               points[k].batch = Batches[b], points[k].length = Lengths[l]
        PROVE  Distance(points[k], batch, context) = near(b) + close(l)
    BY <2>4 DEF Distance
  <2> HIDE DEF near, close
  <2>5. \A k \in 1 .. GridSize : Distance(points[k], batch, context) \in Nat
    <3> SUFFICES ASSUME NEW k \in 1 .. GridSize PROVE Distance(points[k], batch, context) \in Nat
      OBVIOUS
    <3>1. PICK b \in DOMAIN Batches, l \in DOMAIN Lengths :
            points[k].batch = Batches[b] /\ points[k].length = Lengths[l]
      BY <2>2
    <3>2. Distance(points[k], batch, context) = near(b) + close(l)
      BY <2>4, <3>1
    <3>3. near(b) \in Nat /\ close(l) \in Nat
      BY <2>3
    <3> QED BY <3>2, <3>3
  <2>6. PICK k \in 1 .. GridSize :
          /\ Closest(points, batch, context) = points[k]
          /\ \A l \in 1 .. GridSize :
               Distance(points[k], batch, context) <= Distance(points[l], batch, context)
    BY <2>2, <2>5, ClosestIsClosest
  <2>7. PICK b \in DOMAIN Batches, l \in DOMAIN Lengths :
          points[k].batch = Batches[b] /\ points[k].length = Lengths[l]
    BY <2>2
  <2>8. ASSUME NEW c \in DOMAIN Batches, NEW m \in DOMAIN Lengths
        PROVE  near(b) + close(l) <= near(c) + close(m)
    <3>1. PICK j \in 1 .. GridSize : points[j].batch = Batches[c] /\ points[j].length = Lengths[m]
      BY <2>2
    <3>2. Distance(points[j], batch, context) = near(c) + close(m)
      BY <2>4, <3>1
    <3>3. Distance(points[k], batch, context) = near(b) + close(l)
      BY <2>4, <2>7
    <3> QED BY <2>6, <3>2, <3>3
  <2>9. \A c \in DOMAIN Batches : near(b) <= near(c)
    BY <2>3, <2>8
  <2>10. \A m \in DOMAIN Lengths : close(l) <= close(m)
    BY <2>3, <2>8
  <2>11. point.batch = Batches[b] /\ point.length = Lengths[l]
    BY <2>6, <2>7
  <2> QED BY <1>1, <2>9, <2>10, <2>11 DEF points, near, close
<1>2. LookupsAreNearest
  BY <1>1 DEF LookupsAreNearest
<1> QED BY <1>2, PTL
=============================================================================
