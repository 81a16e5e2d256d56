---------------------------- MODULE CommandLine -----------------------------
(***************************************************************************)
(* src/main.cpp: what serving_sim makes of its arguments, of a             *)
(* configuration file and of a decode profile, and which files it leaves   *)
(* in the output directory, over several invocations that share it.        *)
(*                                                                         *)
(* Abstractions.                                                           *)
(*  - A configuration file is the settings apply_config_file takes from    *)
(*    it, named after the option that overrides them; a value that is      *)
(*    refused is refused in both places by the same conversion.            *)
(*  - A results file is the number of the invocation that wrote it last.   *)
(*  - Every call that can throw may fail, whatever the reason.             *)
(*  - All invocations name the same output directory and profile.          *)
(***************************************************************************)
EXTENDS LatencyModel, FiniteSets

CONSTANTS
  CommandLines,    \* the argument vectors that may be given
  ConfigFiles,     \* the configuration files there are, by path
  Default,         \* the value of every option that takes one
  Numbers,         \* the arguments std::stoull accepts
  Batches,         \* the grid that the benchmark measures
  Lengths,
  MaxInvocations   \* bound: the invocations that are looked at

Valued    == DOMAIN Default
Kinds     == {"short", "mixed_poisson", "mixed_burst", "prefix_heavy"}
Scenarios == {"baseline", "continuous_prefill", "continuous_decode",
              "paged_prefill", "paged", "paged_decode", "prefix"}
Compared  == <<"baseline", "paged", "prefix">>

\* A results file, by what it holds and for which scenario.
Trace       == <<"trace">>
Comparison  == <<"comparison">>
Summary(s)  == <<"summary", s>>
Requests(s) == <<"requests", s>>
Files == {Trace, Comparison} \cup {Summary(s) : s \in Scenarios} \cup {Requests(s) : s \in Scenarios}

ASSUME OptionsAssumption ==
  /\ {"--config", "--scenario", "--workload", "--requests", "--seed",
      "--decode-profile", "--cuda-profile"} \subseteq Valued
  /\ Valued \cap {"--cuda-validate", "--help", "-h"} = {}

\* No file is read by default.
ASSUME ArgumentsAssumption ==
  CommandLines \subseteq Seq(STRING) /\ Default["--config"] = ""

ASSUME GridAssumption ==
  Batches \in Seq(Nat) \ {<<>>} /\ Lengths \in Seq(Nat) \ {<<>>}

VARIABLES
  pc,         \* the part of main that comes next
  argv,       \* the arguments, from 1
  index,      \* the next argument of the loop that is at work
  options,    \* CliOptions: the value of every option
  validate,   \* CliOptions::validate_cuda
  todo,       \* the scenarios still to run
  invocation, \* how many invocations there have been
  files,      \* the invocation that last wrote a results file, or 0
  profile,    \* the rows of the decode profile, or NoFile
  traced      \* what the last invocation that wrote the trace was asked for,
              \* and whether it exited with 0

parseVars  == <<argv, index, options, validate>>
outputVars == <<files, profile, traced>>
vars       == <<pc, parseVars, todo, invocation, outputVars>>

NoFile == -1
Exits  == {"idle", "failed"}

Init ==
  /\ pc = "idle" /\ argv = <<>> /\ index = 1 /\ options = Default /\ validate = FALSE
  /\ todo = <<>> /\ invocation = 0
  /\ files = [f \in Files |-> 0] /\ profile = NoFile
  /\ traced = [asked |-> <<>>, ok |-> FALSE]

Goto(place) == pc' = place /\ UNCHANGED <<parseVars, todo, invocation, outputVars>>

\* A new process: everything but the files starts over.
Invoke ==
  /\ pc \in Exits /\ invocation < MaxInvocations
  /\ argv' \in CommandLines
  /\ pc' = "scan" /\ index' = 1 /\ invocation' = invocation + 1
  /\ UNCHANGED <<options, validate, todo, outputVars>>

\* The process returns, or exits, and its state is gone.
Exit(place) ==
  /\ pc' = place /\ argv' = <<>> /\ index' = 1 /\ options' = Default
  /\ validate' = FALSE /\ todo' = <<>>
  /\ UNCHANGED invocation

Leave(place) == Exit(place) /\ UNCHANGED outputVars

-----------------------------------------------------------------------------
(* The arguments and the configuration file *)

More      == index <= Len(argv)
HasValue  == index < Len(argv)
Converts(option, value) ==
  CASE option \in {"--requests", "--seed"} -> value \in Numbers
    [] option = "--workload" -> value \in Kinds
    [] OTHER -> TRUE

Take == options' = [options EXCEPT ![argv[index]] = argv[index + 1]]

\* The first loop only looks for --config.
ScanConfig ==
  /\ pc = "scan" /\ More /\ argv[index] = "--config" /\ HasValue
  /\ Take /\ index' = index + 2
  /\ UNCHANGED <<pc, argv, validate, todo, invocation, outputVars>>

ScanOther ==
  /\ pc = "scan" /\ More /\ argv[index] # "--config"
  /\ index' = index + 1
  /\ UNCHANGED <<pc, argv, options, validate, todo, invocation, outputVars>>

\* Mutant of Configured: the file only fills in what is not set yet.
ConfiguredLate(settings) == [o \in Valued |-> options[o]]

\* The options, with what the file sets.
Configured(settings) ==
  [o \in Valued |-> IF o \in DOMAIN settings THEN settings[o] ELSE options[o]]

UsableConfig(path) ==
  /\ path \in DOMAIN ConfigFiles
  /\ \A o \in DOMAIN ConfigFiles[path] : Converts(o, ConfigFiles[path][o])

ApplyConfigFile ==
  /\ pc = "scan" /\ ~More
  /\ options["--config"] = "" \/ UsableConfig(options["--config"])
  /\ options' = IF options["--config"] = "" THEN options
                ELSE Configured(ConfigFiles[options["--config"]])
  /\ pc' = "parse" /\ index' = 1
  /\ UNCHANGED <<argv, validate, todo, invocation, outputVars>>

\* The second loop takes every option, --config once more included.
ParseOption ==
  /\ pc = "parse" /\ More /\ argv[index] \in Valued /\ HasValue
  /\ Converts(argv[index], argv[index + 1])
  /\ Take /\ index' = index + 2
  /\ UNCHANGED <<pc, argv, validate, todo, invocation, outputVars>>

ParseValidate ==
  /\ pc = "parse" /\ More /\ argv[index] = "--cuda-validate"
  /\ validate' = TRUE /\ index' = index + 1
  /\ UNCHANGED <<pc, argv, options, todo, invocation, outputVars>>

ParseHelp == pc = "parse" /\ More /\ argv[index] \in {"--help", "-h"} /\ Leave("idle")

\* An exception: a value is missing or refused, an argument is unknown, the
\* configuration file can not be opened.
BadArguments ==
  /\ \/ pc = "scan" /\ More /\ argv[index] = "--config" /\ ~HasValue
     \/ pc = "scan" /\ ~More /\ options["--config"] # "" /\ ~UsableConfig(options["--config"])
     \/ /\ pc = "parse" /\ More
        /\ argv[index] \notin {"--cuda-validate", "--help", "-h"}
        /\ argv[index] \in Valued => ~HasValue \/ ~Converts(argv[index], argv[index + 1])
  /\ Leave("failed")

Parsed ==
  /\ pc = "parse" /\ ~More
  /\ Goto(IF options["--cuda-profile"] # "" THEN "benchmark"
          ELSE IF validate THEN "validate" ELSE "prepare")

-----------------------------------------------------------------------------
(* --cuda-profile and --cuda-validate *)

GridSize == Len(Batches) * Len(Lengths)

\* The file is truncated before the first measurement.
OpenProfile ==
  /\ pc = "benchmark"
  /\ profile' = 0 /\ pc' = "measure"
  /\ UNCHANGED <<parseVars, todo, invocation, files, traced>>

Measure ==
  /\ pc = "measure" /\ profile < GridSize
  /\ profile' = profile + 1
  /\ UNCHANGED <<pc, parseVars, todo, invocation, files, traced>>

EndBenchmark == pc = "measure" /\ profile = GridSize /\ Leave("idle")
Validated    == pc = "validate" /\ Leave("idle")

-----------------------------------------------------------------------------
(* A simulation *)

Asked == IF options["--scenario"] = "all" THEN Compared ELSE <<options["--scenario"]>>

\* Mutant of Written: the comparison is written with the trace.
WrittenAtOnce(f) ==
  files' = [g \in Files |->
              IF g \in {f} \cup (IF f = Trace THEN {Comparison} ELSE {})
              THEN invocation ELSE files[g]]

Written(f) == files' = [files EXCEPT ![f] = invocation]

WriteTrace ==
  /\ pc = "prepare"
  /\ Written(Trace)
  /\ traced' = [asked |-> Asked, ok |-> FALSE]
  /\ pc' = "load"
  /\ UNCHANGED <<parseVars, todo, invocation, profile>>

LoadLatencyModel ==
  /\ pc = "load"
  /\ options["--decode-profile"] = "" \/ profile > 0
  /\ todo' = Asked /\ pc' = "simulate"
  /\ UNCHANGED <<parseVars, invocation, outputVars>>

\* scenario_config refuses an unknown name; run and write_summary_csv follow.
Simulate ==
  /\ pc = "simulate" /\ todo # <<>> /\ Head(todo) \in Scenarios
  /\ Written(Summary(Head(todo)))
  /\ pc' = "requests"
  /\ UNCHANGED <<parseVars, todo, invocation, profile, traced>>

WriteRequests ==
  /\ pc = "requests"
  /\ Written(Requests(Head(todo)))
  /\ todo' = Tail(todo) /\ pc' = "simulate"
  /\ UNCHANGED <<parseVars, invocation, profile, traced>>

\* Mutant of Finish: the comparison is left for a single scenario to write.
FinishSingle ==
  /\ pc = "simulate" /\ todo = <<>>
  /\ IF Len(Asked) = 1 THEN Written(Comparison) ELSE UNCHANGED files
  /\ traced' = [traced EXCEPT !.ok = TRUE]
  /\ Exit("idle") /\ UNCHANGED profile

Finish ==
  /\ pc = "simulate" /\ todo = <<>>
  /\ IF Len(Asked) > 1 THEN Written(Comparison) ELSE UNCHANGED files
  /\ traced' = [traced EXCEPT !.ok = TRUE]
  /\ Exit("idle") /\ UNCHANGED profile

\* A call throws: a directory or a file that can not be written, a device that
\* is not there, a profile without rows, an unknown scenario.
Fail ==
  /\ pc \in {"benchmark", "measure", "validate", "prepare", "load", "simulate", "requests"}
  /\ Leave("failed")

Stop == pc \in Exits /\ invocation = MaxInvocations /\ UNCHANGED vars

Next ==
  \/ Invoke \/ ScanConfig \/ ScanOther \/ ApplyConfigFile
  \/ ParseOption \/ ParseValidate \/ ParseHelp \/ BadArguments \/ Parsed
  \/ OpenProfile \/ Measure \/ EndBenchmark \/ Validated
  \/ WriteTrace \/ LoadLatencyModel \/ Simulate \/ WriteRequests \/ Finish
  \/ Fail \/ Stop

Spec == Init /\ [][Next]_vars

-----------------------------------------------------------------------------
(* Properties *)

\* What was given last on the command line wins over the configuration file,
\* and the file, which is the one given last, over the defaults, in whatever
\* order the arguments come (main.cpp:306-312). What is given is not in doubt as long
\* as no value is spelled like an option; the loops do not agree on it otherwise.
ValuesAreNoOptions ==
  \A k \in 1 .. Len(argv) - 1 : argv[k] \in Valued => argv[k + 1] \notin Valued
Given(o) == {k \in 1 .. Len(argv) - 1 : argv[k] = o}
ValueOfLast(places) == argv[1 + CHOOSE k \in places : \A l \in places : l <= k]
LastGiven(o) == ValueOfLast(Given(o))
FileSettings ==
  IF Given("--config") = {} \/ LastGiven("--config") = "" THEN <<>>
  ELSE ConfigFiles[LastGiven("--config")]
OptionsTakePrecedence ==
  (pc = "parse" /\ ~More /\ ValuesAreNoOptions) =>
    \A o \in Valued :
      options[o] = IF Given(o) # {} THEN LastGiven(o)
                   ELSE IF o \in DOMAIN FileSettings THEN FileSettings[o]
                   ELSE Default[o]

\* The files of an output directory that several invocations wrote, some of which
\* failed half way, are never newer than what they were made from: the requests
\* of a scenario not than its summary, no result than the trace, and the
\* comparison not than any of the results it compares.
OutputsInOrder ==
  /\ \A s \in Scenarios :
       /\ files[Summary(s)] <= files[Trace]
       /\ files[Requests(s)] <= files[Summary(s)]
  /\ \A k \in DOMAIN Compared :
       files[Comparison] <= files[Requests(Compared[k])]

\* When the invocation that wrote the trace exited with 0, the results of the
\* scenarios it was asked for are of that trace, and so is the comparison if it
\* was asked for several: nothing that is refused later (help, a bad option, a
\* benchmark) has touched them.
ResultsAreOfTheTrace ==
  traced.ok =>
    /\ \A k \in DOMAIN traced.asked :
         /\ files[Summary(traced.asked[k])] = files[Trace]
         /\ files[Requests(traced.asked[k])] = files[Trace]
    /\ Len(traced.asked) > 1 => files[Comparison] = files[Trace]

\* "The simulator uses the nearest measured (batch_size, sequence_length) point"
\* (README.md:183): with the profile of a benchmark that was not cut short, the
\* point is nearest in both at once, although only the sum of the two distances is
\* looked at (latency_model.cpp:59-67).
LookupsAreNearest ==
  (pc = "load" /\ options["--decode-profile"] # "" /\ profile = GridSize) =>
    \A batch \in 0 .. Batches[Len(Batches)] + 1, context \in 0 .. Lengths[Len(Lengths)] + 1 :
      LET point == Closest(Measured(Batches, Lengths, profile), batch, context)
      IN  /\ \A k \in DOMAIN Batches :
               Magnitude(point.batch - batch) <= Magnitude(Batches[k] - batch)
          /\ \A k \in DOMAIN Lengths :
               Magnitude(point.length - context) <= Magnitude(Lengths[k] - context)

\* The inductive invariant behind the precedence: before `index', the first loop
\* has followed --config only, the second every option.
GivenSoFar(o) == {k \in Given(o) : k < index}
PrecedenceInv ==
  /\ index \in Nat \ {0} /\ argv \in CommandLines \cup {<<>>} /\ DOMAIN options = Valued
  /\ pc \in Exits => options = Default
  /\ (pc = "scan" /\ ValuesAreNoOptions) =>
       \A o \in Valued :
         options[o] = IF o = "--config" /\ GivenSoFar(o) # {} THEN ValueOfLast(GivenSoFar(o))
                      ELSE Default[o]
  /\ (pc = "parse" /\ ValuesAreNoOptions) =>
       \A o \in Valued :
         options[o] = IF GivenSoFar(o) # {} THEN ValueOfLast(GivenSoFar(o))
                      ELSE IF o \in DOMAIN FileSettings THEN FileSettings[o]
                      ELSE IF o = "--config" /\ Given(o) # {} THEN LastGiven(o)
                      ELSE Default[o]

\* The inductive invariant behind the files: the scenarios that have been
\* simulated are the first ones asked for, and their files are as new as the trace.
Named == Scenarios \cup {options["--scenario"]}
NumSimulated == Len(Asked) - Len(todo)
FilesInv ==
  /\ invocation \in Nat /\ files \in [Files -> 0 .. invocation]
  /\ pc \in {"load", "simulate", "requests"} =>
       files[Trace] = invocation /\ traced = [asked |-> Asked, ok |-> FALSE]
  /\ pc \in {"simulate", "requests"} =>
       /\ todo \in Seq(Named) /\ Len(todo) <= Len(Asked)
       /\ \A i \in 1 .. Len(todo) : todo[i] = Asked[NumSimulated + i]
       /\ \A k \in 1 .. NumSimulated :
            /\ Asked[k] \in Scenarios
            /\ files[Summary(Asked[k])] = invocation
            /\ files[Requests(Asked[k])] = invocation
  /\ pc = "requests" =>
       todo # <<>> /\ Head(todo) \in Scenarios /\ files[Summary(Head(todo))] = invocation
  /\ OutputsInOrder
  /\ ResultsAreOfTheTrace
=============================================================================
