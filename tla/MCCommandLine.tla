--------------------------- MODULE MCCommandLine ---------------------------
(* A small instance of CommandLine: two container steps, the first with a    *)
(* timeout.                                                                  *)
EXTENDS CommandLine

NoSteps == {}
StepOne == {1}

\* A file with everything, one that lacks the key and turns the seeds off, one
\* with the key alone and the seeds in their usual place, and an empty one.
Files == {[llm |-> Settings, credentials |-> TRUE, seeds |-> "on", dir |-> TRUE],
          [llm |-> {"model"}, credentials |-> FALSE, seeds |-> "off", dir |-> TRUE],
          [llm |-> {"api_key"}, credentials |-> TRUE, seeds |-> "on", dir |-> FALSE],
          Empty}

KeyOnly == CHOOSE f \in Files : f.llm = {"api_key"}

\* `miniflow diagnose` meets all of them everywhere; `miniflow -f`, which reads
\* its configuration the same way, finds the first two and no third.
MCRunSurroundings ==
    { [flag |-> TRUE, credFlag |-> FALSE, env |-> {},
       disk |-> [p \in Places |-> IF p = "flag" THEN CHOOSE f \in Files : f.llm = Settings
                                 ELSE IF p = "project" THEN KeyOnly ELSE Missing]] }

MCSurroundings ==
    MCRunSurroundings \cup
    [flag : BOOLEAN, credFlag : {FALSE}, env : SUBSET {"api_key", "model", "OPENAI_API_KEY"},
     disk : [Places -> Files \cup {Missing, Broken}]]
=============================================================================
