---------------------------- MODULE CommandLine ----------------------------
(***************************************************************************)
(* One miniflow command (cmd/miniflow).  `miniflow -f` (runPipeline) is one *)
(* call of the executor and what is around it: the configuration, what the *)
(* command prepares, the signal that cancels the context, the diagnosis of *)
(* failed steps, the two final writes and the exit code.  `miniflow        *)
(* diagnose` (runDiagnose) only diagnoses; the other commands have no state.*)
(***************************************************************************)
EXTENDS Executor, Configuration

CONSTANTS
    RunSurroundings             \* the surroundings of `miniflow -f`

ASSUME RunAssumption == RunSurroundings \subseteq Surroundings

\* The command installs no operation handler: an operation step fails.
ASSUME NoHandlerAssumption == HasHandler = FALSE

VARIABLES
    command,    \* "run" or "diagnose"
    stage,      \* where it is
    hasSource,  \* the spec has a source to check out
    auto,       \* --auto-diagnose
    dbFails,    \* the database has refused a write
    diagnosing, \* the step result the diagnosis has come to
    diagnosed,  \* the steps diagnosed
    stored,     \* status in pipeline_results, "none" if there is no row
    context,    \* exec_contexts has a row
    exit        \* "none", "ok" (0), "error" (1) or "killed"

cliVars == <<configuration, command, stage, hasSource, auto, dbFails, diagnosing, diagnosed, stored,
             context, exit>>
allVars == <<vars, cliVars>>

CommandInit ==
    /\ Init /\ ~cancelled
    /\ ConfigurationInit
    /\ stage = "main"
    /\ hasSource \in BOOLEAN /\ auto \in BOOLEAN /\ dbFails = FALSE
    /\ \/ command = "run" /\ around \in RunSurroundings
       \/ /\ command = "diagnose"   \* what follows has no part in that
          /\ ~faulty /\ \A i \in DOMAIN code : code[i] = 0
          /\ ~hasSource /\ ~auto
    /\ diagnosing = 1
    /\ diagnosed = {}
    /\ stored = "none"
    /\ context = FALSE
    /\ exit = "none"

Options == UNCHANGED <<command, hasSource, auto, dbFails>>

\* runPipeline returns or calls os.Exit: the process ends, and with it the
\* goroutines that still read container logs.
ExitWith(e) ==
    /\ stage' = "exited"
    /\ exit' = e
    /\ collecting' = {}

-----------------------------------------------------------------------------
(* main *)

Start ==
    /\ stage = "main"
    /\ LoadSettings
    /\ stage' = "flags"
    /\ UNCHANGED <<vars, diagnosing, diagnosed, stored, context, exit>>
    /\ Options

\* An unknown flag ends the command.
Parse ==
    /\ stage = "flags"
    /\ \/ ParseFlags /\ stage' = "setup" /\ UNCHANGED <<exit, collecting>>
       \/ ExitWith("error") /\ UNCHANGED configuration
    /\ UNCHANGED <<pc, cur, table, outcome, cancelled, expired, cont, code,
                   fresh, ret, late, handled, faulty, diagnosing, diagnosed,
                   stored, context>>
    /\ Options

-----------------------------------------------------------------------------
(* runPipeline *)

\* Reading the spec, the clients, the database, then the credentials, then
\* BuildSteps: each may fail.
Setup ==
    /\ stage = "setup" /\ command = "run"
    /\ \/ FindCredentials /\ stage' = "workspace" /\ UNCHANGED <<exit, collecting>>
       \/ (FindCredentials \/ UNCHANGED configuration) /\ ExitWith("error")
    /\ UNCHANGED <<pc, cur, table, outcome, cancelled, expired, cont, code,
                   fresh, ret, late, handled, faulty, diagnosing, diagnosed,
                   stored, context>>
    /\ Options

\* signalContext comes after that: an earlier signal has its default effect,
\* and at any time in runDiagnose.
Killed ==
    /\ stage \in {"main", "flags", "setup"} \/ (command = "diagnose" /\ stage # "exited")
    /\ ExitWith("killed")
    /\ UNCHANGED configuration
    /\ UNCHANGED <<pc, cur, table, outcome, cancelled, expired, cont, code,
                   fresh, ret, late, handled, faulty, diagnosing, diagnosed,
                   stored, context>>
    /\ Options

\* CreateWorkspace.
Workspace ==
    /\ stage = "workspace"
    /\ \/ /\ stage' = IF hasSource THEN "checkout" ELSE "execute"
          /\ UNCHANGED <<exit, collecting>>
       \/ ExitWith("error")
    /\ UNCHANGED <<pc, cur, table, outcome, cancelled, expired, cont, code,
                   fresh, ret, late, handled, faulty, configuration,
                   diagnosing, diagnosed, stored, context>>
    /\ Options

\* Mutant of Checkout: git runs without the context.
CheckoutDetached ==
    /\ stage = "checkout" /\ ~cancelled
    /\ stage' = "execute"
    /\ UNCHANGED <<vars, configuration, diagnosing, diagnosed, stored, context, exit>>
    /\ Options

\* PrepareWorkspace runs git under the context; its error ends the command.
Checkout ==
    /\ stage = "checkout"
    /\ \/ stage' = "execute" /\ UNCHANGED <<exit, collecting>>
       \/ ExitWith("error")
    /\ UNCHANGED <<pc, cur, table, outcome, cancelled, expired, cont, code,
                   fresh, ret, late, handled, faulty, configuration,
                   diagnosing, diagnosed, stored, context>>
    /\ Options

Execute ==
    /\ stage = "execute"
    /\ ExecStep
    /\ UNCHANGED cliVars

\* ExecutePipeline has returned; sanitizing and printing change no status.
Executed ==
    /\ stage = "execute" /\ pc = "done"
    /\ stage' = IF auto /\ outcome # "success" THEN "configure" ELSE "save"
    /\ UNCHANGED <<vars, configuration, diagnosing, diagnosed, stored, context, exit>>
    /\ Options

\* createDiagnoseConfig
Configure ==
    /\ stage = "configure"
    /\ FindSeeds
    /\ stage' = "diagnose"
    /\ UNCHANGED <<vars, diagnosing, diagnosed, stored, context, exit>>
    /\ Options

\* Mutant of Diagnose: the loop ends at the first step that did not fail.
DiagnoseFirst ==
    /\ stage = "diagnose" /\ command = "run"
    /\ stage' = "save"
    /\ diagnosed' = diagnosed \cup {i \in {1} : table[i] = "failed"}
    /\ UNCHANGED <<vars, configuration, diagnosing, stored, context, exit>>
    /\ Options

\* autoDiagnoseFailedSteps: one step result after the other; only a failed
\* step is diagnosed, which takes until the model answers or the context dies.
Diagnose ==
    /\ stage = "diagnose" /\ command = "run"
    /\ \/ /\ diagnosing <= NSteps
          /\ diagnosed' = IF table[diagnosing] = "failed"
                          THEN diagnosed \cup {diagnosing} ELSE diagnosed
          /\ diagnosing' = diagnosing + 1
          /\ UNCHANGED stage
       \/ /\ diagnosing > NSteps
          /\ stage' = "save"
          /\ UNCHANGED <<diagnosed, diagnosing>>
    /\ UNCHANGED <<vars, configuration, stored, context, exit>>
    /\ Options

\* SavePipelineResult under the context: a dead one stores nothing, and an
\* error is only logged.
SaveResult ==
    /\ stage = "save"
    /\ stage' = "context"
    /\ \E refused \in BOOLEAN :
         /\ stored' = IF cancelled \/ refused THEN stored ELSE outcome
         /\ dbFails' = refused
    /\ UNCHANGED <<vars, configuration, diagnosing, diagnosed, context, exit>>
    /\ UNCHANGED <<command, hasSource, auto>>

\* SaveExecContext, likewise.
SaveContext ==
    /\ stage = "context"
    /\ stage' = "exit"
    /\ \E refused \in BOOLEAN :
         /\ context' = (~cancelled /\ ~refused)
         /\ dbFails' = (dbFails \/ refused)
    /\ UNCHANGED <<vars, configuration, diagnosing, diagnosed, stored, exit>>
    /\ UNCHANGED <<command, hasSource, auto>>

Exit ==
    /\ stage = "exit"
    /\ ExitWith(IF outcome = "success" THEN "ok" ELSE "error")
    /\ UNCHANGED <<pc, cur, table, outcome, cancelled, expired, cont, code,
                   fresh, ret, late, handled, faulty, configuration,
                   diagnosing, diagnosed, stored, context>>
    /\ Options

-----------------------------------------------------------------------------
(* runDiagnose *)

\* --step or the text may be missing, the file unreadable.
GiveLog ==
    /\ stage = "setup" /\ command = "diagnose"
    /\ \/ stage' = "configure" /\ UNCHANGED <<exit, collecting>>
       \/ ExitWith("error")
    /\ UNCHANGED <<pc, cur, table, outcome, cancelled, expired, cont, code,
                   fresh, ret, late, handled, faulty, configuration,
                   diagnosing, diagnosed, stored, context>>
    /\ Options

\* The diagnosis has no context to end it; whatever it finds, the command has
\* succeeded.
DiagnoseText ==
    /\ stage = "diagnose" /\ command = "diagnose"
    /\ ExitWith("ok")
    /\ UNCHANGED <<pc, cur, table, outcome, cancelled, expired, cont, code,
                   fresh, ret, late, handled, faulty, configuration,
                   diagnosing, diagnosed, stored, context>>
    /\ Options

-----------------------------------------------------------------------------
(* Around it *)

\* The goroutine of signalContext takes the first signal and no other.
Signal ==
    /\ command = "run" /\ stage \notin {"main", "flags", "setup", "exited"}
    /\ Cancel
    /\ UNCHANGED cliVars

\* The daemon, the log goroutines and a step's timer go on while the process
\* lives; a container needs no process to end.
Daemon ==
    /\ \/ \E i \in Containers :
            \/ ContainerExits(i)
            \/ stage # "exited" /\ (LogLine(i) \/ LogEnds(i))
       \/ stage = "execute" /\ Timeout
    /\ UNCHANGED cliVars

Ended == stage = "exited" /\ UNCHANGED allVars

Command ==
    \/ Start \/ Parse
    \/ Setup \/ Workspace \/ Checkout \/ Execute \/ Executed
    \/ Configure \/ Diagnose \/ SaveResult \/ SaveContext \/ Exit
    \/ GiveLog \/ DiagnoseText

CommandNext == Command \/ Killed \/ Signal \/ Daemon \/ Ended

CommandSpec == CommandInit /\ [][CommandNext]_allVars

\* The process's own statements run.  Everything that waits for git, the
\* daemon, a container or the model waits under the context and returns once
\* it is dead; a database call returns.
CommandFairness ==
    /\ WF_allVars(Workspace \/ Executed \/ Configure \/ SaveResult \/ SaveContext \/ Exit)
    /\ WF_allVars(cancelled /\ (Checkout \/ Diagnose))
    /\ WF_allVars(stage = "execute" /\ OwnStep /\ UNCHANGED cliVars)
    /\ WF_allVars(stage = "execute" /\ CtxErr /\ DaemonCall /\ UNCHANGED cliVars)
    /\ \A i \in Containers :
         WF_allVars(stage # "exited" /\ LogEnds(i) /\ UNCHANGED cliVars)

FairCommandSpec == CommandSpec /\ CommandFairness

-----------------------------------------------------------------------------
(* Properties *)

\* A command that ran its pipeline leaves one account of it: exit code 0
\* exactly for a success, a stored status that is the executor's, a missing
\* row or context only after an interruption or with a database that refuses,
\* with --auto-diagnose a diagnosis of every failed step and of no other, and
\* no container that still runs once the process is gone.
OneAccount ==
    stage = "exited" /\ pc = "done" =>
        /\ exit = "ok" <=> outcome = "success"
        /\ stored \in {"none", outcome}
        /\ stored = "none" \/ ~context => cancelled \/ dbFails
        /\ diagnosed = {i \in StepIds : auto /\ table[i] = "failed"}
        /\ ~faulty => \A i \in Containers : cont[i] # "running"

\* One Ctrl+C ends the command wherever it is: nothing it waits for outlives
\* the context.  (Later signals have no effect, so it has to.)
InterruptEndsCommand == cancelled ~> stage = "exited"

\* What the command goes by comes from the right place.  Environment variables
\* come before files and files before defaults; of the files one decides, the
\* one that --config names or the first that exists, and a broken one leaves
\* the defaults.  Credentials and seeds, which are looked up later, and after
\* the flags are parsed, go by the same file as the model's settings, unless
\* --config names another.
Precedence ==
    LET Loadable(p) == around.disk[p] \notin {Missing, Broken}
        default == {p \in {"project", "home"} : Loadable(p) /\
                      (p = "home" => around.disk["project"] = Missing)}
        file    == IF around.flag /\ Loadable("flag") THEN {"flag"} ELSE default
    IN  /\ stage \notin {"main", "exited"} => \A s \in Settings :
             /\ s \in around.env <=> resolvedLLM[s] = "environment"
             /\ s \notin around.env =>
                  {p \in Places : resolvedLLM[s] = p} = {p \in default : s \in around.disk[p].llm}
        /\ credentials \notin {"none", "flag variable"} =>
             {p \in Places : credentials = p} = {p \in file : around.disk[p].credentials}
        /\ stage = "diagnose" =>
             /\ {p \in Places : seedsDir = p}
                = {p \in file : around.disk[p].seeds = "on" /\ around.disk[p].dir}
             /\ seedsDir = "none" <=> \E p \in file : around.disk[p].seeds = "off"

\* config.go lists the sources of a setting: flags come first, and the file
\* that --config names is the first of the files.
FlagDecides ==
    stage = "diagnose" /\ around.flag /\ around.disk["flag"] \notin {Missing, Broken} =>
        \A s \in around.disk["flag"].llm \ around.env : resolvedLLM[s] = "flag"

=============================================================================
