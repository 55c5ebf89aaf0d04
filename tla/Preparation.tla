---------------------------- MODULE Preparation ----------------------------
(***************************************************************************)
(* From a pipeline spec to the order of its steps, the path the CLI and    *)
(* the run service share: Validate (pkg/pipeline), BuildSteps with the     *)
(* step registry and the credential store, PrepareWorkspace with Clone,    *)
(* then ValidateDAG and TopologicalSort, which are KahnSort's passes.      *)
(* The names and the depends_on of the steps are KahnSort's input; a step  *)
(* keeps both when it is compiled.                                         *)
(***************************************************************************)
EXTENDS KahnSort, SequencesExt

CONSTANTS
    Cases,      \* what is prepared: [pipeline, spec] records
    Keys        \* the environment variables, sorted

NoText == ""   \* the empty string

\* A variable with its value; a credential of the store.  The match of a
\* credential is cut into pieces, as is the repository.
Pair       == STRING \X STRING
Credential == [id : STRING, match : Seq(STRING), type : STRING, key : STRING]

ASSUME KeysAssumption == Keys \in Seq(STRING)

ASSUME CasesAssumption ==
    /\ Cases # {}
    /\ \A c \in Cases :
         /\ c.pipeline \in Pipelines
         /\ c.spec.credentials \in Seq(Credential)
         /\ c.spec.env \in Seq(Pair) /\ c.spec.envFile \in Seq(Pair)
         /\ \A pairs \in {c.spec.env, c.spec.envFile} : \A i \in DOMAIN pairs :
              \E k \in DOMAIN Keys : Keys[k] = pairs[i][1]
         /\ \A v \in StepIds :
              c.spec.steps[v].env \in Seq(Pair) /\ c.spec.steps[v].secrets \in Seq(STRING)

VARIABLES
    spec,       \* everything else the spec says, and the host it is read on
    phase,      \* the next statement: "validate", "env", "build", "workspace",
                \*   "credential", "auth", "hostkeys", "clone", "dag"; "error"
    pipelineEnv,\* PipelineEnv's list of <<key, value>>
    steps,      \* the compiled steps, in the spec's order
    cred,       \* the credential the checkout uses, or Nobody
    auth        \* the authentication it uses

prepVars == <<spec, phase, pipelineEnv, steps, cred, auth>>
kahnVars == <<pc, inDegree, queue, head, filling, cur, scan>>
allVars  == <<vars, prepVars>>

Nobody == [id |-> NoText, match |-> <<>>, type |-> "none", key |-> NoText]

LoadInit ==
    /\ \E c \in Cases : input = c.pipeline /\ spec = c.spec
    /\ pc = "check"
    /\ inDegree = [v \in StepIds |-> 0]
    /\ queue = <<>> /\ head = 0 /\ filling = FALSE /\ cur = 0 /\ scan = 1
    /\ phase = "validate"
    /\ pipelineEnv = <<>>
    /\ steps = <<>>
    /\ cred = Nobody
    /\ auth = "none"

Goto(p) == phase' = p /\ UNCHANGED <<spec, input, kahnVars>>

-----------------------------------------------------------------------------
(* Validate *)

Raw == NoText   \* a step without a type: image and commands, the old format

\* The fields of `with` a type must give as a string that is not empty.
Required(type) ==
    CASE type = "script.run"                    -> {"script"}
      [] type = "git.checkout"                  -> {"repository"}
      [] type = "file.operation"                -> {"operation"}
      [] type \in {"cache.restore", "cache.save"} -> {"key", "path"}
      [] type = "artifact.save"                 -> {"name", "path"}
      [] type = "artifact.restore"              -> {"name"}
      [] OTHER                                  -> {}

Types == {Raw, "script.run", "git.checkout", "file.operation", "cache.restore",
          "cache.save", "artifact.save", "artifact.restore"}

StepValid(s) ==
    /\ s.type \in Types
    /\ s.type \in {Raw, "script.run"} => s.image
    /\ s.type = Raw => s.commands
    /\ Required(s.type) \subseteq s.with
    /\ \A k \in DOMAIN s.secrets : s.secrets[k] # NoText

SpecValid ==
    /\ N > 0
    /\ \A v \in StepIds : NameOf(v) # NoName /\ StepValid(spec.steps[v])
    /\ spec.hasSource => spec.repo # <<>>

Validate ==
    /\ phase = "validate"
    /\ Goto(IF SpecValid THEN "env" ELSE "error")
    /\ UNCHANGED <<pipelineEnv, steps, cred, auth>>

-----------------------------------------------------------------------------
(* BuildSteps *)

\* The value of key k in a list of pairs that is read from left to right, if
\* there is one.
ValueOf(pairs, k) ==
    {pairs[i][2] : i \in {i \in DOMAIN pairs :
                            /\ pairs[i][1] = k
                            /\ \A j \in DOMAIN pairs : j > i => pairs[j][1] # k}}

\* A map filled from the file, then from Env, listed by key.
ListedEnv(all) ==
    LET listed[i \in 0..Len(Keys)] ==
          IF i = 0 THEN <<>>
          ELSE listed[i - 1] \o IF ValueOf(all, Keys[i]) = {} THEN <<>>
                                ELSE <<<<Keys[i], CHOOSE x \in ValueOf(all, Keys[i]) : TRUE>>>>
    IN  listed[Len(Keys)]

PipelineEnv ==
    /\ phase = "env"
    /\ \/ /\ spec.envFileReadable
          /\ pipelineEnv' = ListedEnv(spec.envFile \o spec.env)
          /\ Goto("build")
       \/ /\ ~spec.envFileReadable
          /\ Goto("error")
          /\ UNCHANGED pipelineEnv
    /\ UNCHANGED <<steps, cred, auth>>

\* compileFileOperation: what each operation needs.
FileOperationOK(s) ==
    CASE s.op = "mkdir"  -> "target" \in s.with
      [] s.op = "delete" -> "source" \in s.with
      [] s.op \in {"copy", "move", "archive", "extract"} ->
                            {"source", "target"} \subseteq s.with
      [] OTHER           -> FALSE

OperationTypes == Types \ {Raw, "script.run", "file.operation"}

CompileFails(s) ==
    \/ s.type \notin Types
    \/ s.type = "script.run" /\ "script" \notin s.with
    \/ s.type = "file.operation" /\ ~FileOperationOK(s)

\* Mutant of Compile: a file operation gets no default image.
CompileImageless(s) ==
    [operation |-> IF s.type \in OperationTypes THEN s.type ELSE "none",
     with      |-> s.with,
     image     |-> s.image,
     commands  |-> s.type \in {"script.run", "file.operation"} \/ s.commands]

\* Compile, when it does not fail: an operation for the worker itself, or an
\* image and commands; alpine:latest is the image of a file operation without.
Compile(s) ==
    [operation |-> IF s.type \in OperationTypes THEN s.type ELSE "none",
     with      |-> s.with,
     image     |-> s.image \/ s.type = "file.operation",
     commands  |-> s.type \in {"script.run", "file.operation"} \/ s.commands]

\* The first credential with the id, and what ResolveSecretEnv makes of it.
Named(id) ==
    LET at == {i \in DOMAIN spec.credentials : spec.credentials[i].id = id}
    IN  IF id = NoText \/ at = {} THEN Nobody
        ELSE spec.credentials[CHOOSE i \in at : \A j \in at : i <= j]

SecretEnv(id) ==
    LET c == Named(id)
    IN  IF c = Nobody THEN <<>>         \* not found: a warning, no entry
        ELSE <<<<IF c.type = "env" THEN c.key ELSE id, id>>>>

\* The step's own variables, then its secrets in their order.
OwnEnv(s) ==
    LET appended[i \in 0..Len(s.secrets)] ==
          IF i = 0 THEN s.env ELSE appended[i - 1] \o SecretEnv(s.secrets[i])
    IN  appended[Len(s.secrets)]

\* Mutant of StepEnv: every step appends to the pipeline's list itself, so the
\* steps built before see the new entries where their own were.
StepEnvShared(s) ==
    [k \in 1..(Len(steps) + 1) |->
       IF k > Len(steps) THEN pipelineEnv \o OwnEnv(s)
       ELSE pipelineEnv \o
            [i \in 1..(Len(steps[k].env) - Len(pipelineEnv)) |->
               IF i <= Len(OwnEnv(s)) THEN OwnEnv(s)[i]
               ELSE steps[k].env[Len(pipelineEnv) + i]]]

\* The environment of each step built so far and of s, the next: the pipeline's
\* list is copied before s appends to it.
StepEnv(s) ==
    [k \in 1..(Len(steps) + 1) |->
       IF k > Len(steps) THEN pipelineEnv \o OwnEnv(s) ELSE steps[k].env]

\* One iteration of the loop over spec.Steps.
BuildStep ==
    /\ phase = "build" /\ Len(steps) < N
    /\ LET s == spec.steps[Len(steps) + 1]
       IN  \/ /\ CompileFails(s)
              /\ Goto("error")
              /\ UNCHANGED steps
           \/ /\ ~CompileFails(s)
              /\ steps' = [k \in 1..(Len(steps) + 1) |->
                             [code |-> IF k > Len(steps) THEN Compile(s)
                                       ELSE steps[k].code,
                              env  |-> StepEnv(s)[k]]]
              /\ Goto("build")
    /\ UNCHANGED <<pipelineEnv, cred, auth>>

Built ==
    /\ phase = "build" /\ Len(steps) = N
    /\ Goto(IF spec.hasSource THEN "workspace" ELSE "dag")
    /\ UNCHANGED <<pipelineEnv, steps, cred, auth>>

-----------------------------------------------------------------------------
(* CreateWorkspace, PrepareWorkspace, Clone *)

Workspace ==
    /\ phase = "workspace"
    /\ \E p \in {"credential", "error"} : Goto(p)
    /\ UNCHANGED <<pipelineEnv, steps, cred, auth>>

\* Mutant of Preferred: among equally long matches the last one stays.
PreferredLatest(best, c, repo) ==
    IF c.match = <<"*">> THEN IF best.len = 0 THEN [cred |-> c, len |-> 1] ELSE best
    ELSE IF IsPrefix(c.match, repo) /\ Len(c.match) >= best.len
         THEN [cred |-> c, len |-> Len(c.match)] ELSE best

\* The longest prefix is preferred; "*" counts as one character.
Preferred(best, c, repo) ==
    IF c.match = <<"*">> THEN IF best.len = 0 THEN [cred |-> c, len |-> 1] ELSE best
    ELSE IF IsPrefix(c.match, repo) /\ Len(c.match) > best.len
         THEN [cred |-> c, len |-> Len(c.match)] ELSE best

\* CredentialStore.Match
Match(repo) ==
    LET best[i \in 0..Len(spec.credentials)] ==
          IF i = 0 THEN [cred |-> Nobody, len |-> 0]
          ELSE Preferred(best[i - 1], spec.credentials[i], repo)
    IN  best[Len(spec.credentials)].cred

\* The credential the spec names, if the store has it; else the best match.
MatchCredential ==
    /\ phase = "credential"
    /\ cred' = IF Named(spec.credential) # Nobody THEN Named(spec.credential)
               ELSE Match(spec.repo)
    /\ Goto("auth")
    /\ UNCHANGED <<pipelineEnv, steps, auth>>

\* buildAuth, which may fail on an SSH key, then hostSSHAuth: a key of the
\* host before its agent, for an SSH repository only.
HostAuth ==
    IF ~spec.ssh THEN "none"
    ELSE IF spec.hostKey THEN "host key"
    ELSE IF spec.agent THEN "agent" ELSE "none"

Authenticate ==
    /\ phase = "auth"
    /\ \/ /\ cred.type \in {"token", "password", "ssh_key"}
          /\ auth' = cred.type
          /\ Goto("hostkeys")
       \/ /\ cred.type = "ssh_key"
          /\ Goto("error")
          /\ UNCHANGED auth
       \/ /\ cred.type \notin {"token", "password", "ssh_key"}
          /\ auth' = HostAuth
          /\ Goto("hostkeys")
    /\ UNCHANGED <<pipelineEnv, steps, cred>>

\* knownHostsCallback: a known_hosts file that cannot be read or parsed ends
\* the checkout, a missing one does not.
HostKeys ==
    /\ phase = "hostkeys"
    /\ \/ Goto("clone")
       \/ spec.ssh /\ Goto("error")
    /\ UNCHANGED <<pipelineEnv, steps, cred, auth>>

\* PlainCloneContext, PlainOpen and Head.
Clone ==
    /\ phase = "clone"
    /\ \E p \in {"dag", "error"} : Goto(p)
    /\ UNCHANGED <<pipelineEnv, steps, cred, auth>>

-----------------------------------------------------------------------------
\* ExecutePipeline: ValidateDAG and TopologicalSort.
Sort ==
    /\ phase = "dag"
    /\ Next
    /\ UNCHANGED prepVars

Prepare ==
    \/ Validate \/ PipelineEnv \/ BuildStep \/ Built \/ Workspace
    \/ MatchCredential \/ Authenticate \/ HostKeys \/ Clone \/ Sort

PrepareSpec == LoadInit /\ [][Prepare]_allVars

-----------------------------------------------------------------------------
(* Properties *)

\* The requirements of stepops.ExecuteOperation, which checks them again when
\* the operation runs.
HandlerNeeds(type) ==
    CASE type = "git.checkout"     -> {"repository"}
      [] type \in {"cache.restore", "cache.save"} -> {"key", "path"}
      [] type = "artifact.save"    -> {"name", "path"}
      [] type = "artifact.restore" -> {"name"}

\* The three lists of step types agree: whatever Validate and Compile let
\* through is a container step with an image and a command to run, or an
\* operation stepops knows, with every field stepops will ask for.
BuiltIsRunnable ==
    phase \notin {"validate", "env", "build", "error"} =>
        \A v \in StepIds :
            LET c == steps[v].code
            IN  IF c.operation = "none" THEN c.image /\ c.commands
                ELSE HandlerNeeds(c.operation) \subseteq c.with

\* What a step's environment must say of variable k: its own secrets, the last
\* named first, then its env, then the pipeline's env, then the env file.
Wanted(v, k) ==
    LET s == spec.steps[v]
        own == {i \in DOMAIN s.secrets :
                  SecretEnv(s.secrets[i]) = <<<<k, s.secrets[i]>>>>}
    IN  IF own # {} THEN {s.secrets[i] : i \in {i \in own : \A j \in own : j <= i}}
        ELSE IF ValueOf(s.env, k) # {} THEN ValueOf(s.env, k)
        ELSE IF ValueOf(spec.env, k) # {} THEN ValueOf(spec.env, k)
        ELSE ValueOf(spec.envFile, k)

SecretKeys == {spec.credentials[i].key : i \in DOMAIN spec.credentials}
               \cup {spec.credentials[i].id : i \in DOMAIN spec.credentials}

\* No step's environment is touched by building another: at every moment each
\* built step has its own variables over the pipeline's, and a secret only if
\* it asked for it.
EnvIsOwn ==
    \A v \in 1..Len(steps) : \A k \in {Keys[i] : i \in DOMAIN Keys} \cup SecretKeys :
        ValueOf(steps[v].env, k) = Wanted(v, k)

Fits(c) == c.match # <<>> /\ (c.match = <<"*">> \/ IsPrefix(c.match, spec.repo))

\* git authenticates with the credential the spec names, or else with one that
\* fits the repository - no longer match was passed over, nor an equal one
\* registered earlier - and with the host's key or agent only without those.
CheckoutAuth ==
    phase \in {"hostkeys", "clone"} =>
        /\ Named(spec.credential) # Nobody => cred = Named(spec.credential)
        /\ Named(spec.credential) = Nobody /\ cred # Nobody =>
              \E i \in DOMAIN spec.credentials :
                  /\ spec.credentials[i] = cred /\ Fits(cred)
                  /\ \A j \in DOMAIN spec.credentials :
                        LET c == spec.credentials[j]
                        IN  Fits(c) => /\ Len(c.match) <= Len(cred.match)
                                       /\ j < i => Len(c.match) < Len(cred.match)
        /\ Named(spec.credential) = Nobody /\ cred = Nobody =>
              \A j \in DOMAIN spec.credentials : ~Fits(spec.credentials[j])
        /\ auth \in {"host key", "agent"} =>
              spec.ssh /\ cred.type \notin {"token", "password", "ssh_key"}
=============================================================================
