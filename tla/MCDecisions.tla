---------------------------- MODULE MCDecisions ----------------------------
(* Cases for Decisions: every shape of a show against every kind of text with *)
(* a matching title, and a few shows against every way a title can be wrong.  *)
EXTENDS Decisions, TLC

SpanLimit == 3

One == 1 :> 2
Two == 1 :> 2 @@ 2 :> 3

Show(seasons, total, keys, count, failed) ==
    [type |-> "tv", seasons |-> seasons, total |-> total, keys |-> keys, count |-> count,
     inLibrary |-> count > 0, snapshotFailed |-> failed, status |-> "active", year |-> 2020, tmdb |-> 7,
     keywords |-> {}, exclude |-> {}, groups |-> {}, accept |-> "all", preferred |-> {}]

Film(in, failed) == [Show(<<>>, 1, {}, 0, failed) EXCEPT !.type = "movie", !.inLibrary = in]

\* TMDB lists nothing, or specials only; the library has an episode or none.
Unlisted == {Show(s, 0, k, Cardinality(k), FALSE) : s \in {<<>>, 0 :> 2}, k \in {{}, {<<1, 1>>}}}

Shows ==
    {Show(s, 0, k, Cardinality(k), f) : s \in {One, Two}, f \in BOOLEAN,
        k \in {{}, {<<1, 1>>}, {1} \X (1 .. 2), {<<1, 2>>, <<2, 1>>}, ({1} \X (1 .. 2)) \cup ({2} \X (1 .. 3))}}
    \cup {Show(s, 2, {}, c, FALSE) : s \in {<<>>, One, Two}, c \in {0, 1, 2, 5}}
    \cup Unlisted
    \cup {Show([n \in {0, 1} |-> 2], 0, {<<1, 1>>}, 1, FALSE)}

Ruled == UNION {{[s EXCEPT !.exclude = {"cam"}], [s EXCEPT !.groups = {"grp"}], [s EXCEPT !.accept = "pack"],
                 [s EXCEPT !.accept = "single"], [s EXCEPT !.keywords = {"cut"}, !.preferred = {"grp"}],
                 [s EXCEPT !.year = 0], [s EXCEPT !.tmdb = 0]} :
                s \in {Show(One, 0, {<<1, 1>>}, 1, FALSE), Show(One, 0, {<<1, 1>>}, 1, TRUE), Film(FALSE, FALSE),
                       Film(TRUE, FALSE), Film(TRUE, TRUE)}}

Texts ==
    {NoText,
     [NoText EXCEPT !.token = {<<1, 1, 1>>}], [NoText EXCEPT !.token = {<<1, 2, 2>>}],
     [NoText EXCEPT !.token = {<<1, 1, 2>>}], [NoText EXCEPT !.token = {<<2, 1, 1>>}],
     [NoText EXCEPT !.token = {<<1, 1, 9>>}], [NoText EXCEPT !.dotted = {<<0, 1, 1>>}],
     [NoText EXCEPT !.plain = {<<1, 2, 3>>}, !.seasons = {2}],
     [NoText EXCEPT !.native = {<<1, 2, 2>>}, !.counts = {2}],
     [NoText EXCEPT !.native = {<<1, 2, 2>>}, !.seasons = {2}],
     [NoText EXCEPT !.cnSeason = {<<2, 1, 2>>}, !.seasons = {2}],
     [NoText EXCEPT !.counts = {3}, !.seasonPack = TRUE, !.seasons = {2}],
     [NoText EXCEPT !.counts = {5}], [NoText EXCEPT !.counts = {2}, !.seasons = {1}],
     [NoText EXCEPT !.seasonPack = TRUE, !.seasons = {1, 2}, !.strongPack = TRUE],
     [NoText EXCEPT !.update = {<<1, 1, 2>>}],
     [NoText EXCEPT !.seriesPack = TRUE]}

Line(hit, years) == [hit |-> hit, years |-> years]
Part(text, lines, ids, words) == [says |-> text, lines |-> lines, ids |-> ids, words |-> words]

Link(kind, source, title, context, key) ==
    [key |-> key, url |-> key, titleKey |-> {title}, kind |-> kind, source |-> source, priority |-> 0,
     title |-> title, context |-> context]

Kinds == {<<"115", "telegram">>, <<"115", "rss">>, <<"magnet", "site">>, <<"ed2k", "telegram">>}

\* Titles that name the work; what they carry varies.
NumberedLinks ==
    {Link(k[1], k[2], Part(t, {Line("term", {2020})}, {}, {}), Part(c, {}, {}, {}), k) :
        k \in Kinds, t \in Texts, c \in {NoText, [NoText EXCEPT !.token = {<<1, 1, 2>>}]}}

\* One episode; how the title and the message name the work varies.
NamedLinks ==
    {Link(k[1], k[2], Part(t, {l}, i, w), c, k) :
        k \in Kinds \cup {<<"invalid", "rss">>},
        t \in {[NoText EXCEPT !.token = {<<1, 2, 2>>}], [NoText EXCEPT !.token = {<<1, 1, 2>>}]},
        l \in {Line("term", {}), Line("fragment", {2019}), Line("none", {2019}), Line("none", {2020})},
        i \in {{}, {7}, {8}}, w \in {{}, {"cam", "cut"}, {"grp", "cut"}},
        c \in {NoPart, Part(NoText, {Line("term", {2020})}, {}, {}), Part(NoText, {Line("fragment", {2019})}, {7}, {})}}

Row(title, context, key, status) ==
    [link |-> Link("115", "telegram", Part(title, {Line("term", {2020})}, {}, {}), context, key), status |-> status]

RowSets == {{}, {Row([NoText EXCEPT !.token = {<<1, 1, 2>>}], NoPart, <<"115", "r1">>, "pending")},
            {Row([NoText EXCEPT !.token = {<<1, 2, 2>>}], NoPart, <<"115", "r1">>, "delivered"),
             Row([NoText EXCEPT !.token = {<<1, 1, 1>>}], NoPart, <<"115", "r2">>, "failed")},
            {Row(NoText, Part([NoText EXCEPT !.token = {<<2, 1, 1>>}], {}, {}, {}), <<"115", "rss">>, "pending")}}

Cases == [sub : Shows, link : NumberedLinks, rows : RowSets]
         \cup [sub : Ruled \cup Unlisted \cup {Film(FALSE, FALSE), Film(TRUE, FALSE)}, link : NamedLinks, rows : {{}}]
=============================================================================
