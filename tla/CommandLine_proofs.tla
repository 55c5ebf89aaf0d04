-------------------------- MODULE CommandLine_proofs --------------------------
(***************************************************************************)
(* Theorems of CommandLine, for any pipeline, any surroundings and any     *)
(* moment of the signal: the executor keeps its guarantees inside the      *)
(* command, exit included, what the command leaves behind is one account   *)
(* of the run, and its settings come from the right place.                 *)
(***************************************************************************)
EXTENDS CommandLine, Executor_proofs

-----------------------------------------------------------------------------
(* The executor inside the command                                           *)

NotCollecting == <<pc, cur, table, outcome, cancelled, expired, cont, code, fresh, ret, late,
                   handled, faulty>>

\* The end of the process is no step of the executor: it takes the log
\* goroutines away.
Vanish == collecting' = {} /\ UNCHANGED NotCollecting

\* What a step of the command is to the executor.
LEMMA CommandStep == CommandNext => Next \/ Vanish \/ UNCHANGED vars
<1> SUFFICES ASSUME CommandNext PROVE Next \/ Vanish \/ UNCHANGED vars
  OBVIOUS
<1> USE DEF vars, Vanish, NotCollecting, ExitWith
<1>1. CASE Start \/ Parse \/ Setup \/ Workspace \/ Checkout
  BY <1>1 DEF Start, Parse, Setup, Workspace, Checkout
<1>2. CASE Execute
  BY <1>2 DEF Execute, Next
<1>3. CASE Executed \/ Configure \/ Diagnose \/ SaveResult \/ SaveContext \/ Exit
  BY <1>3 DEF Executed, Configure, Diagnose, SaveResult, SaveContext, Exit
<1>4. CASE GiveLog \/ DiagnoseText \/ Killed
  BY <1>4 DEF GiveLog, DiagnoseText, Killed
<1>5. CASE Signal \/ Daemon
  BY <1>5 DEF Signal, Daemon, Next
<1>6. CASE Ended
  BY <1>6 DEF Ended, allVars
<1> QED
  BY <1>1, <1>2, <1>3, <1>4, <1>5, <1>6 DEF CommandNext, Command

LEMMA VanishKeeps == IInv /\ Vanish => IInv'
BY DEF IInv, Vanish, NotCollecting, TypeOK, Control, Rows, Reason, Timer, Reachable, Reliable,
       Logs, NoOrphanRuns, LeftoverNeedsDeadContext, LateLinesAreAbandoned, CancelNeedsCause,
       CtxErr

LEMMA ExecutorKept == IInv /\ [CommandNext]_allVars => IInv'
BY CommandStep, IInvStep, VanishKeeps DEF allVars

LEMMA ExecutorInside == CommandSpec => []IInv
<1>1. CommandInit => IInv
  BY IInvInit DEF CommandInit
<1> QED
  BY <1>1, ExecutorKept, PTL DEF CommandSpec

\* What the executor promises of containers and logs holds in the command too,
\* while it diagnoses and saves and once it has ended.
THEOREM StepsLeaveNothingBehind == CommandSpec => []NothingOutlivesItsStep
<1>1. IInv => NothingOutlivesItsStep
  BY DEF IInv, NothingOutlivesItsStep
<1> QED
  BY ExecutorInside, <1>1, PTL

\* The command's step results are those StepProtocol allows, however it ends.
THEOREM CommandKeepsProtocol == CommandSpec => ImplementsProtocol
<1>1. CommandInit => Protocol!ProtocolInit
  BY ProtocolInitially DEF CommandInit
<1>2. IInv /\ [CommandNext]_allVars => [Protocol!ProtocolNext]_(Protocol!protocol)
  <2>1. Vanish => UNCHANGED Protocol!protocol
    BY DEF Vanish, NotCollecting, Protocol!protocol
  <2> QED
    BY <2>1, CommandStep, ProtocolStep DEF allVars
<1> QED
  BY <1>1, <1>2, ExecutorInside, PTL
     DEF CommandSpec, ImplementsProtocol, Protocol!ProtocolSpec

-----------------------------------------------------------------------------
(* One account                                                               *)

\* A success is the success of every step.
Won == outcome = "success" => \A i \in StepIds : table[i] = "success"

LEMMA WonStep == IInv /\ Won /\ [CommandNext]_allVars => Won'
<1> SUFFICES ASSUME IInv, Won, CommandNext, ~UNCHANGED <<table, outcome>> PROVE Won'
  BY DEF Won, allVars, vars
<1> USE NStepsAssumption, StepSetsAssumption DEF IInv, TypeOK, Control, Rows, StepIds, Won
<1>1. Next /\ ~UNCHANGED vars
  BY CommandStep DEF vars, Vanish, NotCollecting
<1>2. CASE Prepare \/ LoopCancelled
  BY <1>2 DEF Prepare, LoopCancelled
<1>3. CASE StartStep
  BY <1>3 DEF StartStep
<1>4. ASSUME NEW s, FinishStep(s), outcome = "none" PROVE Won'
  BY <1>4 DEF FinishStep
<1>5. CASE ContainerStepDone
  BY <1>4, <1>5 DEF ContainerStepDone, Call
<1>6. CASE OperationDone
  BY <1>4, <1>6 DEF OperationDone
<1>7. CASE SkipStep
  BY <1>7 DEF SkipStep
<1>8. CASE Return
  BY <1>8 DEF Return
<1>9. ~(\/ PermissionsDone \/ LoopContinue \/ EnsureImage \/ Create \/ Run \/ WaitExit
        \/ WaitError \/ Join \/ Inspect \/ Cleanup \/ Remove)
  BY DEF PermissionsDone, LoopContinue, EnsureImage, Create, Run, WaitExit, WaitError,
         Join, Inspect, Cleanup, Remove, Go
<1>10. ~(\/ \E i \in Containers : ContainerExits(i) \/ LogLine(i) \/ LogEnds(i)
         \/ Cancel \/ Timeout \/ Terminated)
  BY DEF ContainerExits, LogLine, LogEnds, Cancel, Timeout, Terminated, vars
<1> QED
  BY <1>1, <1>2, <1>3, <1>5, <1>6, <1>7, <1>8, <1>9, <1>10 DEF Next, ExecStep

Ahead  == {"main", "flags", "setup", "workspace", "checkout"}
Writes   == {"save", "context", "exit"}

\* Where the executor is, and what has been written, at each stage.
Stages ==
    /\ stage \in Ahead \cup {"execute", "configure", "diagnose", "exited"} \cup Writes
    /\ command \in {"run", "diagnose"}
    /\ command = "diagnose" \/ stage \in Ahead => pc = "sort"
    /\ stage \in {"workspace", "checkout", "execute"} \cup Writes => command = "run"
    /\ stage \in Writes => pc = "done"
    /\ stage \in {"configure", "diagnose"} /\ command = "run" =>
         pc = "done" /\ auto /\ outcome # "success"
    /\ auto \in BOOLEAN /\ cancelled \in BOOLEAN /\ dbFails \in BOOLEAN /\ context \in BOOLEAN

\* What has been diagnosed, stored and kept so far.
Written ==
    /\ diagnosing \in 1..NSteps + 1
    /\ stage \notin {"diagnose", "exited"} \cup Writes => diagnosing = 1
    /\ stage # "exited" /\ stage \notin Writes =>
         /\ diagnosed = {i \in StepIds : i < diagnosing /\ table[i] = "failed"}
         /\ stored = "none"
    /\ stage \in Writes => diagnosed = {i \in StepIds : auto /\ table[i] = "failed"}
    /\ stage = "save" => stored = "none"
    /\ stage \in {"context", "exit"} =>
         stored \in {"none", outcome} /\ (stored = "none" => cancelled \/ dbFails)
    /\ stage = "exit" /\ ~context => cancelled \/ dbFails

AccountInv == IInv /\ Won /\ Stages /\ Written /\ OneAccount

LEMMA AccountInit == CommandInit => AccountInv
<1> SUFFICES ASSUME CommandInit PROVE AccountInv
  OBVIOUS
<1> USE NStepsAssumption DEF CommandInit, Init
<1>1. IInv
  BY IInvInit
<1>2. Won /\ OneAccount
  BY DEF Won, OneAccount
<1>3. Stages
  <2>1. auto \in BOOLEAN /\ cancelled \in BOOLEAN /\ dbFails \in BOOLEAN /\ context \in BOOLEAN
    BY Zenon
  <2> QED
    BY <2>1 DEF Stages, Ahead, Writes
<1>4. Written
  BY DEF Written, Writes, StepIds
<1> QED
  BY <1>1, <1>2, <1>3, <1>4 DEF AccountInv

LEMMA AccountStep == AccountInv /\ [CommandNext]_allVars => AccountInv'
<1> SUFFICES ASSUME AccountInv, [CommandNext]_allVars PROVE AccountInv'
  OBVIOUS
<1>1. IInv' /\ Won'
  BY ExecutorKept, WonStep DEF AccountInv
\* With a reliable daemon nothing runs once the executor is done.
<1>2. (pc = "done" /\ ~faulty => \A i \in Containers : cont[i] # "running")'
  BY <1>1 DEF IInv, NoOrphanRuns
<1> USE NStepsAssumption DEF AccountInv, Won, Stages, Ahead, Writes, StepIds, Options
<1>3. CASE UNCHANGED allVars
  BY <1>1, <1>3 DEF allVars, vars, cliVars, Stages, Written, OneAccount
<1>4. CASE Execute
  BY <1>1, <1>4 DEF Execute, cliVars, Written, OneAccount, IInv, TypeOK
<1>5. CASE Signal \/ Daemon
  <2>1. UNCHANGED <<pc, table, outcome, faulty, cliVars>> /\ (cancelled => cancelled')
        /\ cancelled' \in BOOLEAN /\ (stage = "exited" => UNCHANGED cancelled)
    BY <1>1, <1>5 DEF Signal, Daemon, Cancel, ContainerExits, LogLine, LogEnds, Timeout, IInv, TypeOK
  <2> QED
    BY <1>1, <1>2, <2>1 DEF cliVars, Written, OneAccount
\* The stages before the executor, and the diagnosis of a text.
<1>6. CASE Start \/ Parse \/ Setup \/ Workspace \/ Checkout \/ GiveLog \/ Killed
  <2>1. UNCHANGED <<pc, table, outcome, cancelled, diagnosing, diagnosed, stored, context, command,
                    auto, dbFails>>
    BY <1>6 DEF Start, Parse, Setup, Workspace, Checkout, GiveLog, Killed, vars
  <2>2. pc = "sort"
    BY <1>6 DEF Start, Parse, Setup, Workspace, Checkout, GiveLog, Killed
  <2>3. /\ stage' \in Ahead \cup {"execute", "configure", "exited"}
        /\ stage' \in {"workspace", "checkout", "execute"} => command = "run"
        /\ stage' = "configure" => command = "diagnose"
        /\ stage \in Ahead \/ stage' = "exited"
    BY <1>6 DEF Start, Parse, Setup, Workspace, Checkout, GiveLog, Killed, ExitWith
  <2> QED
    BY <1>1, <2>1, <2>2, <2>3 DEF Written, OneAccount
<1>7. CASE DiagnoseText
  BY <1>1, <1>7 DEF DiagnoseText, ExitWith, Written, OneAccount
<1>8. CASE Executed
  BY <1>1, <1>8 DEF Executed, vars, Written, OneAccount, IInv, TypeOK, Control
<1>9. CASE Configure
  BY <1>1, <1>9 DEF Configure, vars, Written, OneAccount
<1>10. CASE Diagnose
  BY <1>1, <1>10 DEF Diagnose, vars, Written, OneAccount
<1>11. CASE SaveResult
  BY <1>1, <1>11 DEF SaveResult, vars, Written, OneAccount, IInv, Control
<1>12. CASE SaveContext
  BY <1>1, <1>12 DEF SaveContext, vars, Written, OneAccount
<1>13. CASE Exit
  BY <1>1, <1>2, <1>13 DEF Exit, ExitWith, Written, OneAccount
<1>14. CASE Ended
  BY <1>3, <1>14 DEF Ended
<1> QED
  BY <1>3, <1>4, <1>5, <1>6, <1>7, <1>8, <1>9, <1>10, <1>11, <1>12, <1>13, <1>14
     DEF CommandNext, Command

\* Wherever the signal strikes and whichever write is refused: exit code, stored
\* row, diagnoses and containers tell the same story of the pipeline.
THEOREM CommandLeavesOneAccount == CommandSpec => []OneAccount
<1>1. AccountInv => OneAccount
  BY DEF AccountInv
<1> QED
  BY AccountInit, AccountStep, <1>1, PTL DEF CommandSpec

-----------------------------------------------------------------------------
(* Precedence                                                                *)

Loadable(p) == around.disk[p] \notin {Missing, Broken}

\* The file that decides, before the flags are parsed and after.
ByDefault(p) ==
    p \in {"project", "home"} /\ Loadable(p) /\ (p = "home" => around.disk["project"] = Missing)
ByFlag(p) == IF around.flag /\ Loadable("flag") THEN p = "flag" ELSE ByDefault(p)
Default  == {p \in Places : ByDefault(p)}
Deciding == {p \in Places : ByFlag(p)}

\* A loaded configuration is that of the file in the set, or empty.
Taken(loaded, files) ==
    \/ \E p \in files : files = {p} /\ loaded = From(p, around.disk[p])
    \/ files = {} /\ loaded = From("none", Empty)

Known == around \in Surroundings

LEMMA TypeOfAround ==
    ASSUME Known
    PROVE  /\ around.flag \in BOOLEAN /\ around.credFlag \in BOOLEAN
           /\ around.env \subseteq Settings \cup {"OPENAI_API_KEY"}
           /\ \A p \in Places : Loadable(p) => around.disk[p] \in Contents
           /\ \A p \in Places : ~Loadable(p) => around.disk[p] \in {Missing, Broken}
           /\ Empty \in Contents
           /\ Broken # Missing /\ Empty # Broken
<1>1. Empty \in Contents
  BY DEF Empty, Contents, Settings
<1> QED
  BY <1>1, SurroundingsAssumption DEF Known, Loadable

LEMMA DefaultTaken == Known => Taken(LoadDefault, Default)
<1> SUFFICES ASSUME Known PROVE Taken(LoadDefault, Default)
  OBVIOUS
<1> DEFINE places == <<"project", "home">>
           found == {i \in DOMAIN places : around.disk[places[i]] # Missing}
           first == CHOOSE i \in found : \A j \in found : i <= j
<1>1. DOMAIN places = {1, 2} /\ places[1] = "project" /\ places[2] = "home"
  OBVIOUS
<1>2. Load(places) = IF found = {} THEN From("none", Empty)
                     ELSE From(places[first], around.disk[places[first]])
  BY DEF Load, FirstOf
<1> HIDE DEF places
<1>3. CASE around.disk["project"] # Missing
  <2>1. 1 \in found /\ \A j \in found : 1 <= j
    BY <1>1, <1>3
  <2>2. first \in found /\ \A j \in found : first <= j
    BY <2>1
  <2>3. first = 1
    BY <1>1, <2>1, <2>2
  <2>4. Load(places) = From("project", around.disk["project"])
    BY <1>1, <1>2, <2>1, <2>3
  <2> QED
    BY <1>3, <2>4, TypeOfAround DEF LoadDefault, From, Taken, Default, ByDefault, Loadable, Places, places
<1>4. CASE around.disk["project"] = Missing /\ around.disk["home"] # Missing
  <2>1. found = {2}
    BY <1>1, <1>4
  <2>2. first = 2
    BY <2>1
  <2>3. Load(places) = From("home", around.disk["home"])
    BY <1>1, <1>2, <2>1, <2>2
  <2> QED
    BY <1>4, <2>3, TypeOfAround DEF LoadDefault, From, Taken, Default, ByDefault, Loadable, Places, places
<1>5. CASE around.disk["project"] = Missing /\ around.disk["home"] = Missing
  <2>1. found = {}
    BY <1>1, <1>5
  <2> QED
    BY <1>2, <1>5, <2>1, TypeOfAround
       DEF LoadDefault, From, Taken, Default, ByDefault, Loadable, Places, places
<1> QED
  BY <1>3, <1>4, <1>5

\* Once the flags are parsed.
LEMMA DecidingTaken ==
    Known /\ configPath = (IF around.flag THEN "flag" ELSE "") => Taken(LoadConfig, Deciding)
BY DefaultTaken DEF LoadConfig, Deciding, Default, ByFlag, Loadable, Taken, Places

\* What the command has looked up, setting by setting.
LLMRight ==
    \A t \in Settings :
        /\ t \in around.env <=> resolvedLLM[t] = "environment"
        /\ t \notin around.env => \A p \in Places :
             resolvedLLM[t] = p <=> ByDefault(p) /\ t \in around.disk[p].llm
CredentialsRight ==
    credentials # "flag variable" => \A p \in Places :
        credentials = p <=> ByFlag(p) /\ around.disk[p].credentials
SeedsRight ==
    /\ \A p \in Places : seedsDir = p <=>
         ByFlag(p) /\ around.disk[p].seeds = "on" /\ around.disk[p].dir
    /\ seedsDir = "none" <=> \E p \in Places : ByFlag(p) /\ around.disk[p].seeds = "off"

LEMMA LLMFromDefault ==
    ASSUME Known, resolvedLLM' = ResolveLLMConfig(LoadDefault), UNCHANGED around
    PROVE  LLMRight'
<1>1. PICK files, loaded : files = Default /\ loaded = LoadDefault /\ Taken(loaded, files)
  BY DefaultTaken
<1>2. loaded.place \in Places \cup {"none"} /\ \A p \in files : loaded = From(p, around.disk[p])
  BY <1>1 DEF Taken, From, Default
<1>3. ASSUME NEW t \in Settings, t \notin around.env
      PROVE  \A p \in Places : resolvedLLM'[t] = p <=> p \in files /\ t \in around.disk[p].llm
  BY <1>1, <1>2, <1>3 DEF ResolveLLMConfig, Taken, From, Empty, Places, Default
<1>4. \A t \in Settings : t \in around.env <=> resolvedLLM'[t] = "environment"
  BY <1>1, <1>2 DEF ResolveLLMConfig, Places
<1> QED
  BY <1>1, <1>3, <1>4 DEF LLMRight, Default, ByDefault, Loadable

LEMMA CredentialsFromFlag ==
    ASSUME Known, Taken(LoadConfig, Deciding), credentials' = ResolveCredentials(LoadConfig),
           UNCHANGED around
    PROVE  CredentialsRight'
<1>1. PICK files, loaded : files = Deciding /\ loaded = LoadConfig /\ Taken(loaded, files)
  OBVIOUS
<1>2. \/ credentials' = "flag variable"
      \/ \A p \in Places : credentials' = p <=> p \in files /\ around.disk[p].credentials
  <2>1. CASE files = {}
    <3>1. loaded.config.credentials = FALSE
      BY <1>1, <2>1 DEF Taken, From, Empty
    <3>2. credentials' = IF credPath # "" THEN "flag variable" ELSE "default"
      BY <1>1, <3>1 DEF ResolveCredentials
    <3> QED
      BY <2>1, <3>2 DEF Places
  <2>2. ASSUME NEW f \in files, files = {f}, loaded = From(f, around.disk[f])
        PROVE  <1>2
    <3>1. f \in Places /\ loaded.place = f /\ loaded.config = around.disk[f]
      BY <1>1, <2>2 DEF From, Deciding
    <3>2. credentials' = IF credPath # "" THEN "flag variable"
                         ELSE IF around.disk[f].credentials THEN f ELSE "default"
      BY <1>1, <3>1 DEF ResolveCredentials
    <3> QED
      BY <2>2, <3>1, <3>2 DEF Places
  <2> QED
    BY <1>1, <2>1, <2>2 DEF Taken
<1> QED
  BY <1>1, <1>2 DEF CredentialsRight, Deciding, ByFlag, ByDefault, Loadable

LEMMA SeedsFromFlag ==
    ASSUME Known, Taken(LoadConfig, Deciding), seedsDir' = ResolveSeedsConfig(LoadConfig),
           UNCHANGED around
    PROVE  SeedsRight'
<1>1. PICK files, loaded : files = Deciding /\ loaded = LoadConfig /\ Taken(loaded, files)
  OBVIOUS
<1>2. /\ \A p \in Places : seedsDir' = p <=>
           p \in files /\ around.disk[p].seeds = "on" /\ around.disk[p].dir
      /\ seedsDir' = "none" <=> \E p \in files : around.disk[p].seeds = "off"
  BY <1>1 DEF ResolveSeedsConfig, Taken, From, Empty, Places, Deciding
<1> QED
  BY <1>1, <1>2 DEF SeedsRight, Deciding, ByFlag, ByDefault, Loadable

\* Which of it has been looked up at which stage.
Settled ==
    /\ Known
    /\ stage = "main" => configPath = ""
    /\ stage \notin {"main", "flags", "exited"} => configPath = IF around.flag THEN "flag" ELSE ""
    /\ stage \in {"main", "flags"} => credentials = "none"
    /\ stage \notin {"main", "exited"} => LLMRight
    /\ credentials # "none" => CredentialsRight
    /\ stage = "diagnose" => SeedsRight

LEMMA SettledStep == Settled /\ [CommandNext]_allVars => Settled'
<1> SUFFICES ASSUME Settled, [CommandNext]_allVars PROVE Settled'
  OBVIOUS
<1>1. CASE Start
  <2>1. LoadConfig = LoadDefault
    BY <1>1 DEF Start, Settled, LoadConfig
  <2>2. /\ UNCHANGED <<around, configPath, credPath, credentials, seedsDir>>
        /\ resolvedLLM' = ResolveLLMConfig(LoadDefault) /\ stage = "main" /\ stage' = "flags"
    BY <1>1, <2>1 DEF Start, LoadSettings
  <2> QED
    BY <2>2, LLMFromDefault DEF Settled, Known
<1>2. CASE Parse /\ stage' = "setup"
  <2>1. ParseFlags
    BY <1>2 DEF Parse, ExitWith
  <2> QED
    BY <1>2, <2>1 DEF Parse, ParseFlags, Settled, Known, LLMRight, ByDefault, Loadable
<1>3. CASE Setup /\ FindCredentials
  <2>1. /\ UNCHANGED <<around, configPath, credPath, resolvedLLM, seedsDir>>
        /\ credentials' = ResolveCredentials(LoadConfig)
        /\ stage = "setup" /\ stage' \in {"workspace", "exited"}
    BY <1>3 DEF Setup, FindCredentials, ExitWith
  <2>2. CredentialsRight'
    BY <2>1, DecidingTaken, CredentialsFromFlag DEF Settled
  <2> QED
    BY <2>1, <2>2 DEF Settled, Known, LLMRight, ByDefault, Loadable
<1>4. CASE Configure
  <2>1. /\ UNCHANGED <<around, configPath, credPath, resolvedLLM, credentials>>
        /\ seedsDir' = ResolveSeedsConfig(LoadConfig)
        /\ stage = "configure" /\ stage' = "diagnose"
    BY <1>4 DEF Configure, FindSeeds
  <2>2. SeedsRight'
    BY <2>1, DecidingTaken, SeedsFromFlag DEF Settled
  <2> QED
    BY <2>1, <2>2 DEF Settled, Known, LLMRight, CredentialsRight, ByFlag, ByDefault, Loadable
\* Everything else looks nothing up.
<1>5. ASSUME UNCHANGED configuration,
             stage' \notin {"main", "flags", "diagnose"} \/ stage' = stage,
             stage \in {"main", "flags"} => stage' \in {stage, "exited"},
             stage = "exited" => stage' = stage
      PROVE  Settled'
  BY <1>5 DEF Settled, Known, configuration, LLMRight, CredentialsRight, SeedsRight, ByFlag,
     ByDefault, Loadable
<1>6. CASE Parse /\ stage' # "setup"
  BY <1>5, <1>6 DEF Parse, ExitWith
<1>7. CASE Setup /\ ~FindCredentials
  BY <1>5, <1>7 DEF Setup, ExitWith
<1>8. CASE Workspace \/ Checkout \/ Executed \/ Diagnose \/ SaveResult \/ SaveContext \/ Exit
           \/ GiveLog \/ DiagnoseText \/ Killed
  BY <1>5, <1>8 DEF Workspace, Checkout, Executed, Diagnose, SaveResult, SaveContext, Exit,
     GiveLog, DiagnoseText, Killed, ExitWith
<1>9. CASE Execute \/ Signal \/ Daemon \/ Ended \/ UNCHANGED allVars
  BY <1>5, <1>9 DEF Execute, Signal, Daemon, Ended, allVars, cliVars
<1> QED
  BY <1>1, <1>2, <1>3, <1>4, <1>6, <1>7, <1>8, <1>9 DEF CommandNext, Command

LEMMA SettledIsRight == Settled => Precedence
<1> SUFFICES ASSUME Settled PROVE Precedence
  OBVIOUS
<1> DEFINE Usable(p) == around.disk[p] \notin {Missing, Broken}
           default == {p \in {"project", "home"} : Usable(p) /\
                         (p = "home" => around.disk["project"] = Missing)}
           file    == IF around.flag /\ Usable("flag") THEN {"flag"} ELSE default
<1>1. \A p \in Places : p \in default <=> ByDefault(p)
  BY DEF ByDefault, Loadable
<1>2. \A p \in Places : p \in file <=> ByFlag(p)
  BY <1>1 DEF ByFlag, Loadable
<1>3. default \subseteq Places /\ file \subseteq Places
  BY DEF Places
<1> HIDE DEF default, file
<1>4. ASSUME stage \notin {"main", "exited"}, NEW t \in Settings
      PROVE  /\ t \in around.env <=> resolvedLLM[t] = "environment"
             /\ t \notin around.env =>
                  {p \in Places : resolvedLLM[t] = p} = {p \in default : t \in around.disk[p].llm}
  BY <1>1, <1>3, <1>4 DEF Settled, LLMRight
<1>5. credentials \notin {"none", "flag variable"} =>
        {p \in Places : credentials = p} = {p \in file : around.disk[p].credentials}
  BY <1>2, <1>3 DEF Settled, CredentialsRight
<1>6. stage = "diagnose" =>
        /\ {p \in Places : seedsDir = p}
             = {p \in file : around.disk[p].seeds = "on" /\ around.disk[p].dir}
        /\ seedsDir = "none" <=> \E p \in file : around.disk[p].seeds = "off"
  BY <1>2, <1>3 DEF Settled, SeedsRight
<1> QED
  BY <1>4, <1>5, <1>6 DEF Precedence, default, file

\* Whatever the environment, the flags and the files: every setting a command
\* goes by comes from the place that Precedence names.
THEOREM SettingsHavePrecedence == CommandSpec => []Precedence
<1>1. CommandInit => Settled
  BY RunAssumption DEF CommandInit, ConfigurationInit, Settled, Known
<1> QED
  BY <1>1, SettledStep, SettledIsRight, PTL DEF CommandSpec

=============================================================================
