--------------------------- MODULE CandidateRules ---------------------------
(***************************************************************************)
(* Whether a resource found for a subscription is one it wants, in what     *)
(* order fallback resources are tried, and which of them are duplicates of   *)
(* what the subscription has.                                               *)
(*                                                                         *)
(* A link has a title and a context (the message it was found in), both      *)
(* parts: what the patterns read in them (a text of EpisodeRules), the lines *)
(* with the years and the title they carry, TMDB ids and other words.        *)
(***************************************************************************)
EXTENDS EpisodeRules, Sequences

NoPart == [says |-> NoText, lines |-> {}, ids |-> {}, words |-> {}]

JoinParts(a, b) == [says |-> JoinTexts(a.says, b.says), lines |-> a.lines \cup b.lines,
                    ids |-> a.ids \cup b.ids, words |-> a.words \cup b.words]

\* The text of a result is its context and its title.
FullPart(link) == JoinParts(link.context, link.title)

\* An ed2k link is read by its file name alone: the message describes the pack.
ReadPart(link) == IF link.kind = "ed2k" /\ link.title # NoPart THEN link.title ELSE FullPart(link)

Years(part) == UNION {l.years : l \in part.lines}

\* A line has the whole title ("term"), it only contains it ("fragment"), or neither.
TitleFragmentIn(part) == \E l \in part.lines : l.hit # "none"
TitleTermIn(part) == \E l \in part.lines : l.hit = "term"

ResultIsFallbackSource(link) == link.source \in {"rss", "torznab", "site"}
ResultIsSitePlugin(link) == link.source = "site"
ResultIsPrimary115(link) == link.kind = "115" /\ ~ResultIsFallbackSource(link)

EpisodesOf(sub, link) == EpisodeKeysFromText(sub, ReadPart(link).says)

\* A link as the rules see it: the subscription it is judged for, its two texts
\* and the episodes that are read in it.
Reading(sub, link, part, full) ==
    [sub |-> sub, link |-> link, part |-> part, full |-> full, pack |-> IsPackText(part.says),
     episodes |-> EpisodeKeysFromText(sub, part.says), expected |-> AllTmdbEpisodeKeys(sub),
     owned |-> OwnedEpisodeKeys(sub), missing |-> MissingEpisodeKeys(sub)]

ReadLink(sub, link) == Reading(sub, link, ReadPart(link), FullPart(link))

OrElse(why, other) == IF why # "" THEN why ELSE other

-----------------------------------------------------------------------------
(* Identity: is it the same work? *)

HasSubscriptionTmdbId(sub, part) == sub.tmdb # 0 /\ sub.tmdb \in part.ids

ReleaseYearMatches(r, part) ==
    \/ r.sub.year = 0
    \/ HasSubscriptionTmdbId(r.sub, part)
    \/ \A text \in {r.link.title, r.link.context} :
         /\ \A l \in text.lines : l.years = {} \/ r.sub.year \in l.years \/ l.hit = "none"
         /\ Years(text) = {} \/ r.sub.year \in Years(text) \/ ~TitleFragmentIn(text)

TitleIdentityConflicts(r) ==
    LET agrees(years) == r.sub.year = 0 \/ years = {} \/ r.sub.year \in years
    IN  /\ ~HasSubscriptionTmdbId(r.sub, r.full)
        /\ Years(r.link.title) # {}
        /\ IF TitleFragmentIn(r.link.title)
           THEN ~agrees(Years(r.link.title))
           ELSE ~(ResultIsPrimary115(r.link) /\ TitleFragmentIn(r.full) /\ agrees(Years(r.full)))

TmdbOrTitleMatches(sub, part) ==
    IF sub.tmdb # 0 /\ part.ids # {} THEN sub.tmdb \in part.ids ELSE TitleTermIn(part)

-----------------------------------------------------------------------------
(* The rules of the user *)

FirstThatHolds(hits, why) == IF \A i \in DOMAIN hits : ~hits[i] THEN "" ELSE why[Min({i \in DOMAIN hits : hits[i]})]

QualityRuleSkipReason(r) ==
    FirstThatHolds(<<r.sub.exclude \cap r.part.words # {},
                     r.sub.groups # {} /\ r.sub.groups \cap r.part.words = {},
                     r.sub.accept = "pack" /\ ~r.pack,
                     r.sub.accept = "single" /\ r.pack>>,
                   <<"excluded_word", "release_group", "packs_only", "singles_only">>)

QualityPreferenceScore(r) ==
    CASE r.sub.preferred \cap r.part.words # {} -> 1
      [] OTHER -> IF QualityRuleSkipReason(r) = "" THEN 0 ELSE -1

ResultMatchesSubscription(r) ==
    /\ r.part # NoPart
    /\ ~TitleIdentityConflicts(r)
    /\ ReleaseYearMatches(r, r.part)
    /\ TmdbOrTitleMatches(r.sub, r.part)
    /\ r.sub.keywords \subseteq r.part.words
    /\ QualityRuleSkipReason(r) = ""

EpisodeSkipReason(r) ==
    CASE r.sub.type # "tv"                           -> IF r.sub.inLibrary THEN "movie_in_library" ELSE "matched"
      [] r.sub.type = "tv" /\ r.sub.snapshotFailed   -> ""
      [] r.sub.type = "tv" /\ ~r.sub.snapshotFailed /\ r.expected = {} -> "matched"
      [] OTHER -> IF r.missing = {} THEN "complete"
                  ELSE IF r.episodes = {} THEN "no_episode_read"
                  ELSE IF r.episodes \cap r.missing = {} THEN "not_missing" ELSE "matched"

\* The explanation reads the whole text, of ed2k links too.
ResultSkipReason(r) ==
    IF r.full = NoPart THEN "empty_text"
    ELSE IF TitleIdentityConflicts(r) THEN "other_title"
    ELSE IF ~ReleaseYearMatches(r, r.full) THEN "other_year"
    ELSE IF ~TmdbOrTitleMatches(r.sub, r.full)
    THEN (IF r.sub.tmdb # 0 /\ r.full.ids # {} THEN "other_tmdb_id" ELSE "title_missing")
    ELSE IF ~(r.sub.keywords \subseteq r.full.words) THEN "keyword_missing"
    ELSE OrElse(QualityRuleSkipReason(r), EpisodeSkipReason(r))

-----------------------------------------------------------------------------
(* The decision *)

\* Mutant: a share is believed whatever episodes it names.
ResultMatchesAnyShare(r) ==
    \/ r.sub.snapshotFailed
    \/ r.sub.type # "tv" /\ ~r.sub.inLibrary
    \/ /\ r.sub.type = "tv"
       /\ ~(r.episodes # {} /\ r.owned # {} /\ r.episodes \subseteq r.owned)
       /\ \/ r.expected = {} /\ (r.episodes = {} \/ r.owned = {})
          \/ r.missing # {} /\ (r.episodes \cap r.missing # {} \/ ResultIsPrimary115(r.link))

\* A bare title passes only for primary 115 shares, and for site plugins that
\* name the TMDB id.
ResultMatchesMissingEpisodes(r) ==
    \/ r.sub.snapshotFailed
    \/ r.sub.type # "tv" /\ ~r.sub.inLibrary
    \/ /\ r.sub.type = "tv"
       /\ ~(r.episodes # {} /\ r.owned # {} /\ r.episodes \subseteq r.owned)
       /\ \/ r.expected = {} /\ (r.episodes = {} \/ r.owned = {})
          \/ r.missing # {} /\ r.episodes \cap r.missing # {}
          \/ /\ r.missing # {}
             /\ r.episodes = {}
             /\ \/ ResultIsPrimary115(r.link)
                \/ ResultIsSitePlugin(r.link) /\ HasSubscriptionTmdbId(r.sub, r.part)

CandidateRejectReason(r) ==
    CASE r.link.kind = "invalid"                       -> "invalid_download_link"
      [] r.link.kind # "invalid" /\ ~ResultMatchesSubscription(r) -> OrElse(ResultSkipReason(r), "subscription_mismatch")
      [] OTHER ->
           IF ResultMatchesMissingEpisodes(r) THEN ""
           ELSE IF r.sub.type = "tv" /\ r.episodes # {}
           THEN (IF r.episodes \cap r.missing = {} THEN "episodes_already_in_library" ELSE "episodes_not_needed")
           ELSE IF r.sub.type # "tv" /\ r.sub.inLibrary THEN "movie_already_in_library"
           ELSE OrElse(ResultSkipReason(r), "missing_episode_mismatch")

LesserOf(a, b) == IF a < b THEN a ELSE b
GreaterOf(a, b) == IF a > b THEN a ELSE b

EpisodeScore(r, coverage) ==
    CASE r.sub.type # "tv" -> 0
      [] r.sub.type = "tv" /\ coverage # {} ->
           LesserOf(Cardinality(coverage), 50) * 20 + (IF coverage = r.episodes THEN 30 ELSE 10)
      [] OTHER -> IF r.episodes = {} THEN 5 ELSE 0

CandidateScore(r) ==
    100 + EpisodeScore(r, r.episodes \cap r.missing) + QualityPreferenceScore(r) * 25
        + LesserOf(GreaterOf(r.link.priority, -50), 50) + (IF ResultIsSitePlugin(r.link) THEN 5 ELSE 0)

DecisionFor(r, reason) ==
    [accepted |-> reason = "", reason |-> OrElse(reason, "matched"),
     score |-> IF reason = "" THEN CandidateScore(r) ELSE 0,
     episodes |-> r.episodes, missing |-> r.missing, coverage |-> r.episodes \cap r.missing]

DecideReading(r) == DecisionFor(r, CandidateRejectReason(r))

DecideResourceCandidate(sub, link) == DecideReading(ReadLink(sub, link))

HasEpisodeScope(sub) == sub.total > 0 \/ DOMAIN sub.seasons # {} \/ sub.count > 0 \/ sub.keys # {} \/ sub.inLibrary

\* Mutant: a link is stopped if the library has one of its episodes.
GuardSkipsPartlyOwned(r) ==
    CASE r.sub.type # "tv" -> IF r.sub.inLibrary THEN "movie_already_in_library" ELSE ""
      [] r.sub.type = "tv" /\ r.episodes \subseteq r.missing -> ""
      [] OTHER -> IF r.missing # {} \/ HasEpisodeScope(r.sub) THEN "episodes_already_in_library" ELSE ""

GuardSkipReason(r) ==
    CASE r.sub.type # "tv" -> IF r.sub.inLibrary THEN "movie_already_in_library" ELSE ""
      [] r.sub.type = "tv" /\ r.episodes = {} -> ""
      [] OTHER -> IF r.missing # {} THEN (IF r.episodes \cap r.missing = {} THEN "episodes_already_in_library" ELSE "")
                  ELSE IF HasEpisodeScope(r.sub) THEN "episodes_not_needed" ELSE ""

SkipReasons == {"episodes_already_in_library", "episodes_not_needed", "movie_already_in_library"}

\* Saving refuses every rejected link; a delivery of a row that was saved
\* before only stops when the library has its episodes by now.
ReadingAllowed(r, reason, scope) ==
    \/ reason = ""
    \/ /\ scope = "delivery"
       /\ reason \notin SkipReasons /\ GuardSkipReason(r) \notin SkipReasons

ResourceAllowed(sub, link, scope) ==
    \E r \in {ReadLink(sub, link)} : ReadingAllowed(r, CandidateRejectReason(r), scope)

-----------------------------------------------------------------------------
(* Which candidate first *)

FullPackTitleBonus(part) ==
    CASE part.says.strongPack \/ part.says.seriesPack -> 2
      [] OTHER -> IF part.says.seasonPack THEN 1 ELSE 0

\* Compared position by position, smaller first.
SortKeyOfReading(r, coverage) ==
    LET flag(b) == IF b THEN 0 ELSE 1
    IN  <<flag(r.missing # {} /\ r.episodes = r.missing), -Cardinality(coverage),
          flag(r.episodes # {} /\ r.episodes = coverage), -FullPackTitleBonus(r.part),
          -QualityPreferenceScore(r), -r.link.priority, flag(ResultIsSitePlugin(r.link))>>

FallbackCandidateSortKey(sub, link) ==
    LET keyOf(r) == SortKeyOfReading(r, r.episodes \cap r.missing) IN keyOf(ReadLink(sub, link))

KeyBefore(a, b) == \E i \in DOMAIN a : a[i] < b[i] /\ \A j \in 1 .. i - 1 : a[j] = b[j]

BestFallbackResults(sub, links) ==
    {l \in links : \A k \in links : ~KeyBefore(FallbackCandidateSortKey(sub, k), FallbackCandidateSortKey(sub, l))}

-----------------------------------------------------------------------------
(* Rows of a subscription: [link, status]. A row keeps the title of its link,   *)
(* not the context.                                                           *)

ResourceStatusIsEffective(st) ==
    st \notin {"delivery_failed_final", "delivery_failed_retryable", "failed", "link_invalid",
                   "pending_recheck", "skipped"}

RowEpisodes(sub, row) == EpisodeKeysFromText(sub, row.link.title.says)

\* Mutant: rows that share an episode with the link make it a duplicate.
DuplicateWhenOverlapping(link, episodes, other, existing) ==
    CASE link.key = other.key -> "same_key"
      [] link.key # other.key /\ episodes \cap existing # {} -> "covered_episodes"
      [] OTHER -> ""

\* The link against that of a row. The dedupe key is the magnet hash or the
\* canonical share with its receive code.
DuplicateReason(link, episodes, other, existing) ==
    CASE link.key = other.key -> "same_key"
      [] link.key # other.key /\ episodes # {} /\ episodes \subseteq existing -> "covered_episodes"
      [] OTHER -> IF link.titleKey = other.titleKey /\ link.titleKey # {} /\ episodes = existing
                  THEN "similar_title" ELSE ""

ResourceAlreadyExists(sub, link, rows) ==
    \E row \in rows :
        /\ ResourceStatusIsEffective(row.status)
        /\ DuplicateReason(link, EpisodesOf(sub, link), row.link, RowEpisodes(sub, row)) # ""

Subscription115Resources(rows) == {r \in rows : r.link.kind = "115" /\ ResourceStatusIsEffective(r.status)}

FallbackBlockedByPrimary(sub, link, rows) ==
    /\ ResultIsFallbackSource(link)
    /\ link.kind = "115"
    /\ \E r \in Subscription115Resources(rows), episodes \in {EpisodeKeysFromText(sub, FullPart(link).says)} :
         sub.type # "tv" \/ (episodes # {} /\ episodes \subseteq RowEpisodes(sub, r))

\* What ends the search of the subscription's own sources.
FallbackUsable(sub, link, rows) ==
    /\ link.kind # "invalid"
    /\ DecideResourceCandidate(sub, link).accepted
    /\ ~FallbackBlockedByPrimary(sub, link, rows)
    /\ ~ResourceAlreadyExists(sub, link, rows)

\* The row that saving inserts: none for a link that is not allowed or a
\* duplicate, and none when any row, also a failed one, has the same url.
InsertedRows(sub, link, rows) ==
    IF /\ link.kind # "invalid"
       /\ ResourceAllowed(sub, link, "save")
       /\ ~ResourceAlreadyExists(sub, link, rows)
       /\ \A r \in rows : r.link.url # link.url
    THEN {[link |-> link, status |-> "pending"]} ELSE {}

\* Episodes that rows already promise.
CoveredEpisodes(sub, rows) == UNION {RowEpisodes(sub, r) : r \in {x \in rows : ResourceStatusIsEffective(x.status)}}

\* What the ed2k pass saves: one link per file, judged against the episodes
\* that no row promised when the pass began; a name without a number passes.
Ed2kWanted(sub, link, covered) ==
    LET needed == MissingEpisodeKeys(sub) \ covered
        episodes == EpisodesOf(sub, link)
    IN  /\ link.kind = "ed2k" /\ link.title # NoPart
        /\ needed # {}
        /\ episodes # {} => episodes \cap needed # {}
        /\ ResourceAllowed(sub, link, "save")
=============================================================================
