--------------------------- MODULE Configuration ---------------------------
(***************************************************************************)
(* Where the miniflow command takes its settings from (internal/config and *)
(* loadConfig in cmd/miniflow): files, environment variables, flags and    *)
(* defaults.  A setting's value is the name of the place it comes from.    *)
(***************************************************************************)
EXTENDS Integers, Sequences

\* The settings of the language model, and the places where a file may lie:
\* --config, ./.miniflow.json and ~/.miniflow.json.
Settings == {"api_key", "base_url", "model"}
Places   == {"flag", "project", "home"}

\* A file that parses: the LLM settings it has, whether it has credentials, its
\* seeds section ("absent", "off" or "on": enabled is false if it is not
\* there) and whether that names a directory.
Contents == [llm : SUBSET Settings, credentials : BOOLEAN,
             seeds : {"absent", "off", "on"}, dir : BOOLEAN]

CONSTANTS
    Missing, Broken,   \* a place without a file; a file that is no JSON
    Surroundings       \* of a command: whether --config and --credentials are
                       \* given, what the environment sets, and the files

ASSUME SurroundingsAssumption ==
    /\ Missing \notin Contents /\ Broken \notin Contents \cup {Missing}
    /\ Surroundings \subseteq
         [flag : BOOLEAN, credFlag : BOOLEAN,
          env : SUBSET (Settings \cup {"OPENAI_API_KEY"}),
          disk : [Places -> Contents \cup {Missing, Broken}]]

VARIABLES
    around,       \* the surroundings of the command
    configPath,   \* the flag variable: "" until cobra has parsed the flags
    credPath,     \* likewise
    resolvedLLM,  \* of each setting, where its value comes from
    credentials,  \* where the path of the credentials comes from
    seedsDir      \* where the seed directory comes from, "none" if disabled

configuration == <<around, configPath, credPath, resolvedLLM, credentials, seedsDir>>

Empty == [llm |-> {}, credentials |-> FALSE, seeds |-> "absent", dir |-> FALSE]

-----------------------------------------------------------------------------
(* Package config *)

\* A loaded configuration and the file it was read from.
From(place, config) == [place |-> place, config |-> config]

\* The file at the first of the positions found.
FirstOf(places, found) ==
    IF found = {} THEN From("none", Empty)
    ELSE LET first == places[CHOOSE i \in found : \A j \in found : i <= j]
         IN  From(first, around.disk[first])

\* Mutant of Load: a broken file is passed over.
LoadLenient(places) ==
    FirstOf(places, {i \in DOMAIN places : around.disk[places[i]] \notin {Missing, Broken}})

\* The first file that exists; Broken is returned as an error.
Load(places) ==
    FirstOf(places, {i \in DOMAIN places : around.disk[places[i]] # Missing})

LoadDefault ==
    LET loaded == Load(<<"project", "home">>)
    IN IF loaded.config = Broken THEN From("none", Empty) ELSE loaded

\* loadConfig with LoadWithFlag: a file that is named and cannot be loaded is
\* reported, and the default files take its place.
LoadConfig ==
    IF configPath # "" /\ around.disk[configPath] \notin {Missing, Broken}
    THEN From(configPath, around.disk[configPath])
    ELSE LoadDefault

ResolveLLMConfig(loaded) ==
    [s \in Settings |->
       IF s \in around.env THEN "environment"
       ELSE IF s \in loaded.config.llm THEN loaded.place
       ELSE IF s = "api_key"
            THEN IF "OPENAI_API_KEY" \in around.env THEN "OPENAI_API_KEY" ELSE "none"
       ELSE "default"]

\* The credentials: flag, configuration file, ~/.miniflow/credentials.json.
ResolveCredentials(loaded) ==
    IF credPath # "" THEN "flag variable"
    ELSE IF loaded.config.credentials THEN loaded.place ELSE "default"

ResolveSeedsConfig(loaded) ==
    IF loaded.config.seeds = "off" THEN "none"
    ELSE IF loaded.config.seeds = "on" /\ loaded.config.dir THEN loaded.place
    ELSE "default"

-----------------------------------------------------------------------------
(* Package main *)

ConfigurationInit ==
    /\ around \in Surroundings
    /\ configPath = "" /\ credPath = ""
    /\ resolvedLLM = [s \in Settings |-> "none"]
    /\ credentials = "none"
    /\ seedsDir = "none"

\* main, before it builds the command.
LoadSettings ==
    /\ resolvedLLM' = ResolveLLMConfig(LoadConfig)
    /\ UNCHANGED <<around, configPath, credPath, credentials, seedsDir>>

\* rootCmd.Execute parses the flags.
ParseFlags ==
    /\ configPath' = IF around.flag THEN "flag" ELSE ""
    /\ credPath' = IF around.credFlag THEN "flag" ELSE ""
    /\ UNCHANGED <<around, resolvedLLM, credentials, seedsDir>>

\* runPipeline reads the configuration again.
FindCredentials ==
    /\ credentials' = ResolveCredentials(LoadConfig)
    /\ UNCHANGED <<around, configPath, credPath, resolvedLLM, seedsDir>>

\* createDiagnoseConfig, a third time.  The client exists if there is a key.
FindSeeds ==
    /\ seedsDir' = ResolveSeedsConfig(LoadConfig)
    /\ UNCHANGED <<around, configPath, credPath, resolvedLLM, credentials>>
=============================================================================
