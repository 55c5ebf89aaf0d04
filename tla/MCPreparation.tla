--------------------------- MODULE MCPreparation ---------------------------
(* Small instances of Preparation with four steps.  Dependencies: plain      *)
(* steps with every way to depend on each other.  Kinds: one step of every   *)
(* type, its fields given or not.  Environments: two steps over a pipeline   *)
(* and a file that set the same variables.  Checkouts: pairs of credentials  *)
(* for one repository, named or matched, on hosts with and without keys.     *)
EXTENDS Preparation

CONSTANTS sa, sb, sc, sd

FourNames == {sa, sb, sc, sd, NoName}
TwoKeys == <<"A", "B">>

\* Named: properly named steps with sets of at most two dependencies - chains,
\* forks, diamonds and cycles among them.  Careless: repeated and empty names,
\* dependencies that are repeated, missing or the step itself.
WellNamed ==
    LET pairs == {<<sa, sb>>, <<sc, sd>>, <<sa, sc>>, <<sb, sc>>, <<sa, sd>>, <<sb, sd>>}
        deps == {<<>>} \cup {<<x>> : x \in {sa, sb, sc, sd}} \cup pairs
    IN  [name : {<<sa, sb, sc, sd>>}, dependsOn : [StepIds -> deps]]

Careless ==
    [name : {<<sa, sb, sc, sd>>, <<sa, sb, sc, NoName>>, <<sa, sb, sc, sa>>, <<sa, sb, sb, sc>>},
     dependsOn : [StepIds -> {<<>>, <<sa>>, <<sb, sb>>, <<sc, sa>>, <<sd, sc, sd>>}]]

AllPipelines == WellNamed \cup Careless

Chain == [name |-> <<sa, sb, sc, sd>>, dependsOn |-> <<<<>>, <<sa>>, <<sb>>, <<sc>>>>]

PlainStep == [type |-> Raw, image |-> TRUE, commands |-> TRUE, with |-> {},
              op |-> "none", env |-> <<>>, secrets |-> <<>>]
PlainSpec == [steps |-> [v \in StepIds |-> PlainStep],
              env |-> <<>>, envFile |-> <<>>, envFileReadable |-> TRUE,
              credentials |-> <<>>, hasSource |-> FALSE, repo |-> <<>>,
              ssh |-> FALSE, credential |-> "", hostKey |-> FALSE, agent |-> FALSE]

Dependencies == [pipeline : AllPipelines, spec : {PlainSpec}]

Kinds ==
    LET fields == {"script", "repository", "operation", "key", "path", "name",
                   "source", "target"}
        kind == [type : Types \cup {"deploy"}, image : BOOLEAN, commands : BOOLEAN,
                 with : {{}, fields, {"operation", "target"}, {"operation", "source"},
                         {"name"}, {"key"}},
                 op : {"none", "mkdir", "delete", "copy"},
                 env : {<<>>}, secrets : {<<>>, <<"">>}]
    IN  {[pipeline |-> Chain, spec |-> [PlainSpec EXCEPT !.steps[2] = k]] : k \in kind}

Cred(id, match, type, key) == [id |-> id, match |-> match, type |-> type, key |-> key]

Environments ==
    LET step == [type : {Raw}, image : {TRUE}, commands : {TRUE}, with : {{}},
                 op : {"none"}, env : {<<>>, <<<<"A", "own">>>>, <<<<"B", "own">>>>},
                 secrets : {<<>>, <<"s">>, <<"t", "s">>, <<"missing">>}]
        file == {<<>>, <<<<"A", "file">>, <<"B", "file">>>>}
        env  == {<<>>, <<<<"A", "spec">>>>}
    IN  {[pipeline |-> Chain,
          spec |-> [PlainSpec EXCEPT !.steps[1] = p, !.steps[3] = q,
                      !.envFile = f, !.env = e, !.envFileReadable = r,
                      !.credentials = <<Cred("s", <<>>, "env", "A"),
                                        Cred("t", <<>>, "token", "t")>>]] :
             p \in step, q \in step, f \in file, e \in env, r \in BOOLEAN}

Checkouts ==
    LET creds == {Cred("x", m, t, "x") : m \in {<<>>, <<"*">>, <<"h">>, <<"h", "o">>, <<"g">>},
                                         t \in {"token", "ssh_key", "env"}}
                 \cup {Cred("y", <<"h", "o">>, "password", "y")}
    IN  {[pipeline |-> Chain,
          spec |-> [PlainSpec EXCEPT !.credentials = <<p, q>>, !.hasSource = TRUE,
                      !.repo = r, !.ssh = s, !.credential = n, !.hostKey = h,
                      !.agent = h]] :
             p \in creds, q \in creds, r \in {<<>>, <<"h", "o", "r">>},
             s \in BOOLEAN, n \in {"", "y", "z"}, h \in BOOLEAN}

AllCases == Dependencies \cup Kinds \cup Environments \cup Checkouts
=============================================================================
