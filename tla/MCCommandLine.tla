--------------------------- MODULE MCCommandLine ----------------------------
(***************************************************************************)
(* A small instance of CommandLine for TLC.                                *)
(***************************************************************************)
EXTENDS CommandLine, SequencesExt

MCDefault ==
  [o \in {"--config", "--scenario", "--workload", "--requests", "--seed",
          "--decode-profile", "--cuda-profile"} |->
     CASE o = "--scenario" -> "all"
       [] o = "--workload" -> "mixed_burst"
       [] o \in {"--requests", "--seed"} -> "500"
       [] OTHER -> ""]

MCConfigFiles ==
  [path \in {"one.ini", "two.ini", "odd.ini"} |->
     CASE path = "one.ini" -> [o \in {"--requests", "--workload"} |->
                                 IF o = "--requests" THEN "1" ELSE "short"]
       [] path = "two.ini" -> [o \in {"--requests"} |-> "2"]
       [] path = "odd.ini" -> [o \in {"--workload"} |-> "odd"]]

MCNumbers == {"1", "2", "3", "500"}
MCBatches == <<1, 4, 8>>
MCLengths == <<2, 6>>

\* What one option adds to a command line, in and out of order.
Phrases ==
  {<<"--config", "one.ini">>, <<"--config", "two.ini">>, <<"--config", "odd.ini">>,
   <<"--requests", "3">>, <<"--requests", "odd">>, <<"--workload", "prefix_heavy">>,
   <<"--scenario", "paged">>, <<"--scenario", "odd">>, <<"--decode-profile", "p.csv">>,
   <<"--cuda-profile", "p.csv">>, <<"--cuda-validate">>, <<"--help">>, <<"--odd">>,
   <<"--config">>}

MCCommandLines == {p \o q : p, q \in Phrases \cup {<<>>}}
               \cup {p \o q \o r : p, q, r \in {<<"--config", "one.ini">>, <<"--config", "two.ini">>,
                                               <<"--requests", "3">>, <<"--requests", "1">>}}
=============================================================================
