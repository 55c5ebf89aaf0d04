---------------------------- MODULE MCDiagnosis ----------------------------
(* A small instance of Diagnosis. *)
EXTENDS Diagnosis

MCSeed(i, w, o) == [id |-> i, words |-> w, override |-> o]

MCBuiltin == << MCSeed("auth", {"denied", "panic"}, TRUE),
                MCSeed("net", {"missing"}, FALSE),
                MCSeed("app", {"panic", "missing", "at"}, TRUE) >>

\* A seed replaced by an equal one, one replaced twice, a new one defined
\* twice, and one without an id.
Entries == { MCSeed("net", {"missing", "denied"}, TRUE),
             MCSeed("disk", {"denied"}, FALSE),
             MCSeed("disk", {"denied", "missing"}, TRUE),
             MCSeed("", {"denied"}, TRUE) }

SeedFiles == {Broken, <<>>} \cup {<<e>> : e \in Entries}
             \cup {<<d, e>> : d, e \in Entries}

MCDirectories == {<<>>} \cup {<<f>> : f \in SeedFiles}
                 \cup {<<f, g>> : f, g \in SeedFiles}

\* The characters of a token, as far as the quoted values tell them apart.
Width(t) == CASE t \in {"nl", "cr", "colon", "at", "quote"} -> 1
              [] t \in {"auth", "config", "url", "panic"} -> 6
              [] OTHER -> 13
MCWide(text) == MapThenSumSet(LAMBDA k : Width(text[k]), DOMAIN text) >= 10

Texts(tokens, n) == UNION {[1..k -> tokens] : k \in 0..n}

Case(s, o, e, f) == [step |-> s, out |-> o, err |-> e, files |-> f]

\* Three families: every directory with texts that its seeds tell apart, every
\* text with one directory, and every stream with one directory.
Plain == {<<>>, <<"denied">>, <<"panic", "nl", "missing">>, <<"denied", "missing">>}
Short == Texts({"url", "colon", "at", "nl", "panic", "denied", "jwt", "key", "tag", "config",
                "missing", "long", "longpanic"}, 3)
\* Docker's auth: with a token or two before it, among half openings, and with
\* a URL that takes its closing quote away.
Auth  == {FlattenSeq(<<t, Opening, u>>) : t \in Texts({"url", "quote", "panic"}, 2),
            u \in Texts({"url", "colon", "at", "quote", "panic"}, 3) \cup Texts({"quote", "auth", "panic", "denied"}, 4)}
         \cup {FlattenSeq(t) : t \in Texts({Opening, <<"quote">>, <<"auth">>, <<"nl">>,
                                         <<"denied">>, <<"config">>, <<"missing">>}, 4)}
         \cup {Opening \o <<"url", "quote", "colon", "key", "at", "denied", "quote">>}
Long  == Texts({"url", "colon", "at", "panic"}, 5) \cup Texts({"url", "colon", "at", "nl", "denied"}, 4)
Bytes == Texts({"nl", "cr", "denied"}, 3)

MCCases ==
    {Case(FALSE, t, <<>>, d) : t \in Plain \ {<<>>}, d \in MCDirectories}
    \cup {Case(FALSE, t, <<>>, <<>>) : t \in (Short \cup Long \cup Auth) \ {<<>>}}
    \cup {Case(TRUE, t, <<>>, <<>>) : t \in Plain \cup {<<"jwt", "missing">>, Opening \o <<"denied", "quote">>}}
    \cup {Case(TRUE, t, u, <<>>) : t, u \in Bytes}

\* "text" stands for any line that is no JSON object with a root cause.
Lines == {"fence", "json", "text"}
MCReplies == Texts(Lines, 2) \cup {<<"fence", l, "fence">> : l \in Lines}
=============================================================================
