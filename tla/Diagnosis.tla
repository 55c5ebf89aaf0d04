----------------------------- MODULE Diagnosis -----------------------------
(***************************************************************************)
(* The diagnosis of one failed step (internal/fixer): its log, the loading *)
(* of the seed cases, the classification of the log, the ranking of the    *)
(* seeds against it, and the five ways in which Diagnose ends, with or     *)
(* without the language model.  A seed's patterns are a set of tokens.     *)
(* The worker's fix suggestion (internal/api) only classifies a text.      *)
(***************************************************************************)
EXTENDS StepLog, FiniteSets

CONSTANTS
    Builtin,   \* DefaultSeeds(): a sequence of seeds
    Cases,     \* what is diagnosed: [step, out, err, files]
    Replies    \* answers of the model: sequences of lines

\* A file is a sequence of seeds; Broken is one that cannot be read or parsed.
Broken == <<[id |-> "broken", words |-> {}, override |-> FALSE]>>

Seed == {s \in [id : STRING, words : SUBSET STRING, override : BOOLEAN] : IsFiniteSet(s.words)}

NoId == ""

\* seeds.go gives every seed an id of its own.
ASSUME BuiltinAssumption ==
    /\ Builtin \in Seq(Seed)
    /\ \A i \in DOMAIN Builtin : Builtin[i].id # NoId
    /\ \A i, j \in DOMAIN Builtin : Builtin[i].id = Builtin[j].id => i = j

ASSUME CasesAssumption ==
    \A c \in Cases : /\ c.step \in BOOLEAN /\ c.files \in Seq(Seq(Seed))
                     /\ c.out \in Seq(STRING) /\ c.err \in Seq(STRING)

VARIABLES
    pc,
    ofStep,    \* a step of a run is diagnosed, not a text of the user's
    files,     \* the files of the seed directory, in directory order
    file,      \* the file being loaded
    entry,     \* its entry being loaded
    seeds,     \* e.seeds
    index,     \* existingIDs: id to position in seeds
    failures,  \* the files that LoadFromDir reports
    log,       \* sanitizedLog
    class,     \* result.Classification.Type
    matches,   \* result.MatchedSeeds, as positions in seeds
    client,    \* cfg.LLM, one of Clients
    result     \* the other fields of the result that a reader goes by

loading   == <<files, file, entry, seeds, index, failures>>
analysing == <<log, class, matches>>
vars == <<pc, ofStep, collection, loading, analysing, client, result>>

TopK == 3

\* Without an API key there is no client.  A call fails on the transport, the
\* caller's context, a status other than 200, a body that is no JSON or a
\* reply without choices; it is not retried.
Clients == {"none", "fails", "answers"}

NoResult == [cause |-> "none", seed |-> 0, fix |-> "none", degraded |-> FALSE,
             usage |-> FALSE, error |-> FALSE]

IndexOf(s) == [id \in {s[i].id : i \in DOMAIN s} |->
                 CHOOSE i \in DOMAIN s :
                   s[i].id = id /\ \A j \in DOMAIN s : s[j].id = id => j <= i]

\* Without --log and --log-file there is no diagnosis; a step's log may be
\* empty.
Init ==
    /\ \E c \in Cases :
         /\ ofStep = c.step
         /\ IF c.step THEN Collecting(c.out, c.err) ELSE Given(c.out)
         /\ files = c.files
    /\ pc = "file"
    /\ file = 1
    /\ entry = 1
    /\ seeds = Builtin
    /\ index = IndexOf(Builtin)
    /\ failures = {}
    /\ log = <<>>
    /\ class = "none"
    /\ matches = <<>>
    /\ client = "none"
    /\ result = NoResult

-----------------------------------------------------------------------------
\* The command's pipeline has run before the seeds are loaded.
ReadLog ==
    /\ Collect
    /\ UNCHANGED <<pc, ofStep, loading, analysing, client, result>>

\* Handler.SuggestFix, for a text that a client of the worker posts: sanitized
\* by the standard rules and classified, without seeds or model.
SuggestFix ==
    /\ pc = "file" /\ file = 1 /\ ~ofStep
    /\ log' = Sanitize(FALSE, raw)
    /\ class' = Classify(Sanitize(FALSE, raw))
    /\ pc' = "suggested"
    /\ UNCHANGED <<ofStep, collection, loading, matches, client, result>>

-----------------------------------------------------------------------------
(* SeedEngine.LoadFromDir and LoadFromYAML *)

\* A file that cannot be read or parsed is reported; loading goes on.
OpenFile ==
    /\ pc = "file" /\ ~reading /\ file <= Len(files)
    /\ IF files[file] = Broken
       THEN /\ failures' = failures \cup {file}
            /\ file' = file + 1
            /\ UNCHANGED <<pc, entry, index>>
       ELSE /\ index' = IndexOf(seeds)
            /\ entry' = 1
            /\ pc' = "entry"
            /\ UNCHANGED <<failures, file>>
    /\ UNCHANGED <<ofStep, collection, files, seeds, analysing, client, result>>

\* Mutant of LoadEntry: a seed that was appended is not entered in the index.
LoadEntryUnindexed ==
    /\ pc = "entry" /\ entry <= Len(files[file])
    /\ LET seed == files[file][entry] IN
       IF seed.id \in DOMAIN index
       THEN seeds' = [seeds EXCEPT ![index[seed.id]] = seed]
       ELSE seeds' = IF seed.id = NoId THEN seeds ELSE Append(seeds, seed)
    /\ entry' = entry + 1
    /\ UNCHANGED <<pc, ofStep, collection, files, file, failures, index,
                   analysing, client, result>>

\* A seed without an id is skipped, one with a known id replaces the seed
\* that has it, any other is appended.
LoadEntry ==
    /\ pc = "entry" /\ entry <= Len(files[file])
    /\ LET seed == files[file][entry] IN
       \/ /\ seed.id = NoId
          /\ UNCHANGED <<seeds, index>>
       \/ /\ seed.id # NoId /\ seed.id \in DOMAIN index
          /\ seeds' = [seeds EXCEPT ![index[seed.id]] = seed]
          /\ UNCHANGED index
       \/ /\ seed.id # NoId /\ seed.id \notin DOMAIN index
          /\ seeds' = Append(seeds, seed)
          /\ index' = [id \in DOMAIN index \cup {seed.id} |->
                         IF id = seed.id THEN Len(seeds) + 1 ELSE index[id]]
    /\ entry' = entry + 1
    /\ UNCHANGED <<pc, ofStep, collection, files, file, failures, analysing,
                   client, result>>

CloseFile ==
    /\ pc = "entry" /\ entry > Len(files[file])
    /\ pc' = "file"
    /\ file' = file + 1
    /\ UNCHANGED <<ofStep, collection, files, entry, seeds, index, failures,
                   analysing, client, result>>

-----------------------------------------------------------------------------
(* Diagnose *)

Hits(seed) == Cardinality(seed.words \cap ToSet(log))

\* The score of a seed is the share of its patterns that are found.
Better(s, t) == Hits(s) * Cardinality(t.words) > Hits(t) * Cardinality(s.words)

Matching == {p \in DOMAIN seeds : Hits(seeds[p]) > 0}

\* sort.Slice is not stable: equal scores come in any order.
Ranked(order) == \A i, j \in DOMAIN order :
                    i < j => ~Better(seeds[order[j]], seeds[order[i]])

Top(order) == SubSeq(order, 1, IF Len(order) < TopK THEN Len(order) ELSE TopK)

\* An empty log is answered at once, whichever client there is.
DiagnoseEmpty ==
    /\ pc = "file" /\ ~reading /\ file > Len(files)
    /\ raw = <<>>
    /\ class' = "unknown"
    /\ result' = [NoResult EXCEPT !.error = TRUE]
    /\ pc' = "done"
    /\ UNCHANGED <<ofStep, collection, loading, log, matches, client>>

\* createDiagnoseConfig has made the client; nothing before this looks at it.
\* autoDiagnoseFailedSteps hands over the log that runPipeline has sanitized
\* by the standard rules; Diagnose sanitizes what it gets by the semantic ones.
Sanitized(step) == Sanitize(TRUE, IF step THEN Sanitize(FALSE, raw) ELSE raw)

Begin ==
    /\ pc = "file" /\ ~reading /\ file > Len(files)
    /\ raw # <<>>
    /\ log' = Sanitized(ofStep)
    /\ class' = Classify(Sanitized(ofStep))
    /\ client' \in Clients
    /\ pc' = "match"
    /\ UNCHANGED <<ofStep, collection, loading, matches, result>>

\* Mutant of Match: the list is cut before it is sorted.
MatchFirst ==
    /\ pc = "match"
    /\ \E order \in SetToSeqs({p \in Matching :
                               Cardinality({q \in Matching : q < p}) < TopK}) :
         Ranked(order) /\ matches' = order
    /\ pc' = "decide"
    /\ UNCHANGED <<ofStep, collection, loading, log, class, client, result>>

Match ==
    /\ pc = "match"
    /\ \E order \in SetToSeqs(Matching) : Ranked(order) /\ matches' = Top(order)
    /\ pc' = "decide"
    /\ UNCHANGED <<ofStep, collection, loading, log, class, client, result>>

End(r) ==
    /\ result' = r
    /\ pc' = "done"
    /\ UNCHANGED <<ofStep, collection, loading, analysing, client>>

\* The advice of the best seed, or a stock phrase.
FromSeeds == IF matches = <<>>
             THEN [NoResult EXCEPT !.cause = "stock", !.degraded = TRUE]
             ELSE [NoResult EXCEPT !.cause = "seed", !.seed = matches[1],
                                   !.degraded = TRUE]

\* The same with an error, and with the configuration the seed proposes.
Fallback == [FromSeeds EXCEPT !.error = TRUE,
               !.fix = IF matches # <<>> /\ seeds[matches[1]].override
                       THEN "seed" ELSE "none"]

\* Mutant of AppError: the seed's configuration is proposed here too.
AppErrorFix ==
    /\ pc = "decide" /\ class = "app_error"
    /\ End(Fallback)

\* An error of the application is explained, never repaired.
AppError ==
    /\ pc = "decide" /\ class = "app_error"
    /\ End(FromSeeds)

NoClient ==
    /\ pc = "decide" /\ class # "app_error"
    /\ client = "none"
    /\ End(Fallback)

\* cfg.LLM.Chat returned an error: network, HTTP status, no choices, or the
\* caller's context.
ChatFails ==
    /\ pc = "decide" /\ class # "app_error"
    /\ client = "fails"
    /\ End(Fallback)

\* extractJSONFromFence: the lines between fences, if there are any.
Fenced(reply) ==
    LET within == {i \in DOMAIN reply :
                     /\ reply[i] # "fence"
                     /\ Cardinality({j \in 1..i : reply[j] = "fence"}) % 2 = 1}
    IN IF within = {} THEN reply ELSE [k \in 1..Cardinality(within) |->
         reply[CHOOSE i \in within : Cardinality({j \in within : j <= i}) = k]]

\* parseLLMResponse: one JSON object with a root cause and nothing else.
Parsed(reply) ==
    (IF reply # <<>> /\ reply[1] = "fence" THEN Fenced(reply) ELSE reply) = <<"json">>

\* A reply that is not the JSON asked for is shown as it is.
ChatAnswers ==
    /\ pc = "decide" /\ class # "app_error"
    /\ client = "answers"
    /\ \E reply \in Replies :
         IF Parsed(reply)
         THEN \E fix \in {"llm", "none"} :
                End([NoResult EXCEPT !.cause = "llm", !.usage = TRUE, !.fix = fix])
         ELSE End([NoResult EXCEPT !.cause = "text", !.usage = TRUE, !.error = TRUE])

Next ==
    \/ ReadLog \/ SuggestFix \/ OpenFile \/ LoadEntry \/ CloseFile
    \/ DiagnoseEmpty \/ Begin \/ Match
    \/ AppError \/ NoClient \/ ChatFails \/ ChatAnswers

Spec == Init /\ [][Next]_vars

-----------------------------------------------------------------------------
(* Properties *)

\* The built-in list counts as file 0.  What it and the readable files define,
\* as positions <<file, entry>>; what stands at one; which is read later.
Contents(f) == IF f = 0 THEN Builtin ELSE IF files[f] = Broken THEN <<>> ELSE files[f]
Definitions ==
    {d \in UNION {{<<f, e>> : e \in DOMAIN Contents(f)} : f \in 0..Len(files)} :
       Contents(d[1])[d[2]].id # NoId}
Defined(d)  == Contents(d[1])[d[2]]
Later(c, d) == c[1] > d[1] \/ (c[1] = d[1] /\ c[2] > d[2])

\* After loading, the library has every id that the built-in list or a readable
\* file defines, once, as it was defined last, and nothing else, and a built-in
\* seed keeps its place; a broken file costs only its own seeds.
LastDefinitionWins ==
    pc \notin {"file", "entry", "suggested"} =>
        /\ \A d \in Definitions : \E p \in DOMAIN seeds : seeds[p].id = Defined(d).id
        /\ \A p \in DOMAIN seeds : \E d \in Definitions :
             /\ seeds[p] = Defined(d)
             /\ \A c \in Definitions : Later(c, d) => Defined(c).id # Defined(d).id
        /\ \A p, q \in DOMAIN seeds : seeds[p].id = seeds[q].id => p = q
        /\ \A i \in DOMAIN Builtin : seeds[i].id = Builtin[i].id

\* A diagnosis that falls back on a seed quotes one that no seed of the whole
\* library outscores, and it shows as many of the best seeds as there are, up
\* to three, best first.
BestSeedWins ==
    pc \in {"decide", "done"} /\ matches # <<>> =>
        /\ Len(matches) = IF Cardinality(Matching) < TopK THEN Cardinality(Matching)
                          ELSE TopK
        /\ Cardinality(ToSet(matches)) = Len(matches)
        /\ Ranked(matches)
        /\ \A p \in Matching \ ToSet(matches), q \in ToSet(matches) :
             ~Better(seeds[p], seeds[q])
        /\ result.cause = "seed" => \A p \in DOMAIN seeds :
             ~Better(seeds[p], seeds[result.seed])

\* The ends of Diagnose agree with each other: a result is marked degraded
\* exactly if the model gave no reply, a fix comes from a parsed reply or from
\* a seed's own configuration, and a log with an application error in it is
\* only explained, whatever else it shows and whichever client is configured.
EndsAgree ==
    pc = "done" /\ result.cause # "none" =>
        /\ result.degraded <=> ~result.usage
        /\ result.usage => client = "answers"
        /\ result.fix = "llm" => result.usage /\ ~result.error
        /\ result.fix = "seed" => seeds[result.seed].override /\ result.error
        /\ ToSet(log) \cap AppSignals # {} => result.fix = "none" /\ ~result.usage

\* The lines of a stream as one text, and a text without the carriage returns
\* at line ends.
Rebuilt(fed, s) ==
    LET upto[k \in 0..Len(fed)] ==
          IF k = 0 THEN <<>>
          ELSE IF fed[k].stream = s THEN upto[k - 1] \o Append(fed[k].text, "nl")
          ELSE upto[k - 1]
    IN upto[Len(fed)]
WithoutCR(text) ==
    LET upto[i \in 0..Len(text)] ==
          IF i = 0 THEN <<>>
          ELSE Append(IF text[i] = "nl" THEN TrimCR(upto[i - 1]) ELSE upto[i - 1], text[i])
    IN upto[Len(text)]

\* Whatever frames the daemon cuts a stream into, the lines that the log
\* callback gets, put together again, are the stream (but for the carriage
\* returns at their ends): none is lost, split, joined or repeated.
LinesRebuildLog ==
    \A s \in Streams :
        LET fed   == Rebuilt(lines, s)
            ended == got[s] = <<>> \/ Last(got[s]) = "nl"
        IN WithoutCR(got[s]) = IF reading THEN fed \o pending[s]
                               ELSE IF ended THEN fed ELSE Front(fed)

\* A position in the text that the rule for URLs can reach: it stands between
\* an http(s):// and the first @ after the first colon that follows.
Reached(p) ==
    \E i, a \in DOMAIN raw :
        /\ i < p /\ p < a /\ raw[i] = "url" /\ raw[a] = "at"
        /\ \A b \in i + 1..a - 1 : raw[b] = "at" =>
             \A c \in i + 1..b : raw[c] \notin {"colon", "url"}

\* A position that the rule for Docker's auth can reach: it stands between an
\* opening and the next quote that no URL takes away.
Quoted(p) ==
    \E i, e \in DOMAIN raw :
        /\ Opens(raw, i) /\ i + 4 < p /\ p < e /\ raw[e] = "quote"
        /\ \A q \in i + 5..p - 1 : raw[q] = "quote" => Reached(q)

Sure(signals) ==
    {p \in DOMAIN raw : raw[p] \in signals \ Buried /\ ~Reached(p) /\ ~Quoted(p)}

\* What sanitizing does to the verdict has one of four causes: a signal is lost
\* only to a URL that a colon and an @ follow somewhere, to a quoted Docker auth
\* around it or to an identifier of forty characters, and an infra_error comes
\* up only in a log that says something is missing and has a credential word, a
\* secret or what a secret was replaced by in it.  A step's log, sanitized by
\* both sets of rules, and the same text from the user, sanitized by either,
\* are judged alike but for the bearer tokens in such logs.
VerdictHasCause ==
    class # "none" /\ raw # <<>> =>
        /\ Sure(AppSignals) # {} => class = "app_error"
        /\ class = "app_error" => ToSet(raw) \cap AppSignals # {}
        /\ Sure(InfraSignals) # {} => class # "unknown"
        /\ class = "infra_error" /\ ToSet(raw) \cap InfraSignals = {} =>
             /\ "missing" \in ToSet(raw)
             /\ ToSet(raw) \cap {"config", "jwt", "key", "url", "tag"} # {}
        /\ \A step \in BOOLEAN :
             Classify(Sanitized(step)) # class => {"jwt", "missing"} \subseteq ToSet(raw)

=============================================================================
