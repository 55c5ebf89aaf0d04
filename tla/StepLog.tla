------------------------------ MODULE StepLog ------------------------------
(***************************************************************************)
(* The log of one step: its container's two streams, which the daemon      *)
(* sends in frames of any size (internal/container), cut into lines for    *)
(* the event feed and collected into one text; and what the sanitizer and  *)
(* the classifier (internal/log) do with such a text.                      *)
(*                                                                         *)
(* A text is a sequence of tokens.  Besides signals and plain words:       *)
(*    "nl" "cr"    line feed and carriage return                           *)
(*    "url"        http:// or https://      "colon" "at"   : and @         *)
(*    "quote" "auth"   " and the word auth                                 *)
(*    "jwt"        Bearer, the blanks or line feeds after it and its token *)
(*    "key"        an AWS key, GitHub token, npm token or the header of a  *)
(*                 private key                                             *)
(*    "tag"        a replacement with TOKEN, KEY or CREDENTIALS in it      *)
(*    "mark"       a replacement without: whatever it says, the classifier *)
(*                 does not read it                                        *)
(*    "config"     config, credential, key or token, as a word             *)
(*    "missing"    not found                                               *)
(* A signal with a colon in it is followed by a "colon".                   *)
(***************************************************************************)
EXTENDS Integers, Sequences, SequencesExt, FiniteSetsExt

CONSTANTS
    AppSignals,    \* those of the classifier's app_error rules
    InfraSignals,  \* those that make an infra_error wherever they stand
    Buried,        \* tokens in an identifier of forty characters or more,
                   \* signals and words among them
    Wide(_)        \* a text of ten characters or more

\* Signals and identifiers are none of the tokens that the rules look for or
\* put in.
ASSUME TokensAssumption ==
    (AppSignals \cup InfraSignals \cup Buried) \cap
        {"url", "colon", "at", "quote", "auth", "jwt", "key", "tag", "mark"} = {}

VARIABLES
    coming,   \* of each stream, what the daemon has not sent yet
    got,      \* the buffers stdout and stderr
    pending,  \* callbackWriter.pending of each stream
    lines,    \* the lines passed to the callback, with their stream
    reading,  \* collectContainerLogs runs
    raw       \* StepResult.RawLog, or the text given to `miniflow diagnose`

collection == <<coming, got, pending, lines, reading, raw>>

Streams == {"stdout", "stderr"}

-----------------------------------------------------------------------------
(* callbackWriter and collectContainerLogs *)

Collecting(out, err) ==
    /\ coming = [s \in Streams |-> IF s = "stdout" THEN out ELSE err]
    /\ got = [s \in Streams |-> <<>>]
    /\ pending = [s \in Streams |-> <<>>]
    /\ lines = <<>>
    /\ reading = TRUE
    /\ raw = <<>>

\* `miniflow diagnose --log` and --log-file bring the text with them.
Given(text) ==
    /\ coming = [s \in Streams |-> <<>>]
    /\ got = [s \in Streams |-> <<>>]
    /\ pending = [s \in Streams |-> <<>>]
    /\ lines = <<>>
    /\ reading = FALSE
    /\ raw = text

Breaks(text) == {i \in DOMAIN text : text[i] = "nl"}

\* The position after the last line feed before position i.
LineStart(text, i) == 1 + Max({0} \cup {b \in Breaks(text) : b < i})

TrimCR(line) == IF line # <<>> /\ Last(line) = "cr" THEN Front(line) ELSE line

\* The whole lines of a text, and what follows the last of them.
Cut(text) ==
    LET upto[i \in 0..Len(text)] ==
          IF i = 0 THEN [lines |-> <<>>, rest |-> <<>>]
          ELSE LET before == upto[i - 1] IN
               IF text[i] = "nl"
               THEN [lines |-> Append(before.lines, TrimCR(before.rest)), rest |-> <<>>]
               ELSE [lines |-> before.lines, rest |-> Append(before.rest, text[i])]
    IN upto[Len(text)]

Tagged(s, texts) == [k \in DOMAIN texts |-> [stream |-> s, text |-> texts[k]]]

\* Mutant of Write: pending is not emptied before the rest is put there.
WriteKeepsPending(s, data) ==
    /\ got' = [got EXCEPT ![s] = @ \o data]
    /\ lines' = lines \o Tagged(s, Cut(pending[s] \o data).lines)
    /\ pending' = [pending EXCEPT ![s] = @ \o Cut(pending[s] \o data).rest]

\* callbackWriter.Write
Write(s, data) ==
    /\ got' = [got EXCEPT ![s] = @ \o data]
    /\ lines' = lines \o Tagged(s, Cut(pending[s] \o data).lines)
    /\ pending' = [pending EXCEPT ![s] = Cut(pending[s] \o data).rest]

\* StdCopy hands over the next frame.
Frame(s) ==
    /\ reading
    /\ \E n \in DOMAIN coming[s] :
         /\ Write(s, SubSeq(coming[s], 1, n))
         /\ coming' = [coming EXCEPT ![s] = SubSeq(@, n + 1, Len(@))]
    /\ UNCHANGED <<reading, raw>>

Flushed(s) == IF pending[s] = <<>> THEN <<>> ELSE Tagged(s, <<pending[s]>>)

Blank == {"nl", "cr"}
TrimSpace(text) ==
    LET ink == {i \in DOMAIN text : text[i] \notin Blank}
    IN  IF ink = {} THEN <<>> ELSE SubSeq(text, Min(ink), Max(ink))

\* The streams end, or break off.  An error costs the step its log, unless
\* the context is dead, when RunContainer overlooks it.
LogsEnd ==
    /\ reading
    /\ lines' = lines \o Flushed("stdout") \o Flushed("stderr")
    /\ pending' = [s \in Streams |-> <<>>]
    /\ reading' = FALSE
    /\ LET output == TrimSpace(got["stdout"] \o <<"nl">> \o got["stderr"]) IN
       raw' \in IF \A s \in Streams : coming[s] = <<>> THEN {output} ELSE {output, <<>>}
    /\ UNCHANGED <<coming, got>>

Collect == LogsEnd \/ \E s \in Streams : Frame(s)

-----------------------------------------------------------------------------
(* Sanitizer.Sanitize *)

\* The rules that take a word and put one in: those for bearer tokens, AWS keys,
\* private keys, GitHub and npm tokens and long identifiers.  The standard rules
\* call a bearer token JWT, the semantic ones JWT_TOKEN.
Replaced(semantic, t) ==
    IF t = "key" \/ (t = "jwt" /\ semantic) THEN "tag"
    ELSE IF t = "jwt" \/ t \in Buried THEN "mark" ELSE t

\* ReplaceAllString for a rule whose match at i ends at end[i], if that is not
\* 0.  It goes from left to right; done is where the last match ended.
ReplaceAllString(text, end, by) ==
    LET upto[i \in 0..Len(text)] ==
          IF i = 0 THEN [out |-> <<>>, done |-> 0]
          ELSE LET before == upto[i - 1] IN
               IF i <= before.done THEN before
               ELSE IF end[i] # 0
               THEN [out |-> before.out \o by, done |-> end[i]]
               ELSE [out |-> Append(before.out, text[i]), done |-> before.done]
    IN upto[Len(text)].out

After(text, i, tokens) == {j \in DOMAIN text : j > i /\ text[j] \in tokens}

\* Mutant of URLEnd: the rule takes everything up to the last @.
URLEndLast(text, i) ==
    LET colons == After(text, i, {"colon", "url"})
        c      == Min(colons)
        ats    == After(text, c, {"at"})
    IN IF text[i] = "url" /\ colons # {} /\ ats # {} THEN Max(ats) ELSE 0

\* The end of the match of https?://[^:]+:[^@]+@ that starts at i, or 0.
\* Neither class excludes a line feed, and https:// has a colon of its own.
URLEnd(text, i) ==
    LET colons == After(text, i, {"colon", "url"})
        c      == Min(colons)
        ats    == After(text, c, {"at"})
        alone  == text[c] = "colon"
    IN IF /\ text[i] = "url" /\ colons # {} /\ ats # {}
          /\ alone => c > i + 1 /\ Min(ats) > c + 1
       THEN Min(ats) ELSE 0

RedactURLs(text) ==
    ReplaceAllString(text, [i \in DOMAIN text |-> URLEnd(text, i)], <<"tag", "at">>)

\* "auth":"
Opening == <<"quote", "auth", "quote", "colon", "quote">>
Opens(text, i) == \A k \in DOMAIN Opening :
                     i + k - 1 \in DOMAIN text /\ text[i + k - 1] = Opening[k]

\* [^"]{10,}: every replacement is as long as that.
LongEnough(value) == ToSet(value) \cap {"tag", "mark"} # {} \/ Wide(value)

\* The end of the match of "auth":"[^"]{10,}" that starts at i, or 0: a line
\* feed does not end the value.
AuthEnd(text, i) ==
    LET quotes == After(text, i + 4, {"quote"})
    IN IF /\ Opens(text, i) /\ quotes # {}
          /\ LongEnough(SubSeq(text, i + 5, Min(quotes) - 1))
       THEN Min(quotes) ELSE 0

RedactAuths(text) ==
    ReplaceAllString(text, [i \in DOMAIN text |-> AuthEnd(text, i)], Opening \o <<"mark", "quote">>)

\* The rule for URLs comes before the one for Docker's auth.  The others take
\* nothing that these two look for and put nothing of the kind in, so that
\* their places in the order make no difference.
Sanitize(semantic, text) ==
    RedactAuths(RedactURLs([i \in DOMAIN text |-> Replaced(semantic, text[i])]))

-----------------------------------------------------------------------------
(* Classifier.Classify *)

\* "configuration not found": both words, in any order, on one line.
ConfigMissing(text) ==
    \E i, j \in DOMAIN text :
        /\ text[i] \in {"config", "tag"}
        /\ text[j] = "missing"
        /\ LineStart(text, i) = LineStart(text, j)

\* Every app_error rule comes before every infra_error rule; what is left is
\* unknown, with or without an exit code in it.
Classify(text) ==
    IF ToSet(text) \cap AppSignals # {} THEN "app_error"
    ELSE IF ToSet(text) \cap InfraSignals # {} \/ ConfigMissing(text) THEN "infra_error"
    ELSE "unknown"
=============================================================================
