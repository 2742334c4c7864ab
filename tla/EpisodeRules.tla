---------------------------- MODULE EpisodeRules ----------------------------
(***************************************************************************)
(* Episode arithmetic of the subscriptions: which episodes a show has,      *)
(* which of them the library owns, and which ones a text claims to carry.   *)
(* An episode is a pair <<season, number>>.                                 *)
(*                                                                         *)
(* A text is what the regular expressions find in it: per notation the      *)
(* marks <<season, first, last>>, the seasons it names, the episode counts   *)
(* of phrases such as "all 12 episodes", and three kinds of pack words.     *)
(***************************************************************************)
EXTENDS Integers, FiniteSetsExt

CONSTANT MaxRangeSpan      \* longest range that is believed (120 in the code)

ASSUME MaxRangeSpanAssumption == MaxRangeSpan \in Nat

NoText == [update |-> {}, cnSeason |-> {}, dotted |-> {}, token |-> {}, plain |-> {}, native |-> {},
           seasons |-> {}, counts |-> {},
           seasonPack |-> FALSE, seriesPack |-> FALSE, strongPack |-> FALSE]

\* Two texts written one under the other.
JoinTexts(a, b) ==
    [update |-> a.update \cup b.update, cnSeason |-> a.cnSeason \cup b.cnSeason,
     dotted |-> a.dotted \cup b.dotted, token |-> a.token \cup b.token,
     plain |-> a.plain \cup b.plain, native |-> a.native \cup b.native,
     seasons |-> a.seasons \cup b.seasons, counts |-> a.counts \cup b.counts,
     seasonPack |-> a.seasonPack \/ b.seasonPack, seriesPack |-> a.seriesPack \/ b.seriesPack,
     strongPack |-> a.strongPack \/ b.strongPack]

-----------------------------------------------------------------------------
(* Episode keys *)

\* A missing season counts as season 1; a range that runs backwards or is
\* suspiciously long is dropped as a whole.
ExpandEpisodeRange(season, start, end) ==
    IF start <= 0 \/ end < start \/ end - start > MaxRangeSpan
    THEN {}
    ELSE {IF season = 0 THEN 1 ELSE season} \X (start .. end)

Expanded(marks) == UNION {ExpandEpisodeRange(m[1], m[2], m[3]) : m \in marks}

\* Specials (season 0) and seasons without episodes are left out.
TmdbSeasonsFromDetail(detail) ==
    LET listed == {s \in DOMAIN detail : s > 0 /\ detail[s] > 0}
    IN  [s \in listed |-> detail[s]]

AllTmdbEpisodeKeys(sub) ==
    LET keys == UNION {{s} \X (1 .. sub.seasons[s]) : s \in {n \in DOMAIN sub.seasons : n > 0}}
    IN  IF keys # {} THEN keys ELSE {1} \X (1 .. sub.total)

OnlySeasonOne(keys) == \A k \in keys : k[1] = 1

\* The keys of the library decide; a bare count is only read as the first
\* episodes of season 1 when no other season is expected.
OwnedEpisodeKeys(sub) ==
    CASE sub.keys # {}                            -> sub.keys
      [] sub.keys = {} /\ sub.count <= 0          -> {}
      [] OTHER -> IF OnlySeasonOne(AllTmdbEpisodeKeys(sub)) THEN {1} \X (1 .. sub.count) ELSE {}

MissingEpisodeKeys(sub) ==
    IF sub.type # "tv" THEN {} ELSE AllTmdbEpisodeKeys(sub) \ OwnedEpisodeKeys(sub)

\* Maximal runs of consecutive episodes of one season: what the labels of the
\* user interface and of the health summary are written from.
EpisodeRuns(keys) ==
    {<<k[1], k[2], Max({e \in k[2] .. Max({x[2] : x \in keys}) :
                           \A n \in k[2] .. e : <<k[1], n>> \in keys})>> :
        k \in {x \in keys : <<x[1], x[2] - 1>> \notin keys}}

-----------------------------------------------------------------------------
(* What a text claims *)

\* A phrase "updated to episode n" stands for the episodes 1 .. n.
UpdateEpisodes(text) == Expanded({<<1, 1, m[3]>> : m \in {x \in text.update : x[3] > 0}})

FirstNonEmpty(sets) == IF \A i \in DOMAIN sets : sets[i] = {} THEN {} ELSE sets[Min({i \in DOMAIN sets : sets[i] # {}})]

\* The notations are tried in order; the first that yields something wins. A
\* phrase with a full count keeps the plain Chinese episode numbers from being read.
EpisodesFromText(text) ==
    FirstNonEmpty(<<UpdateEpisodes(text), Expanded({m \in text.cnSeason : m[1] > 0}), Expanded(text.dotted),
                    Expanded(text.token), Expanded({m \in text.plain : m[2] <= m[3]}),
                    Expanded(IF text.counts # {} THEN {} ELSE text.native)>>)

EpisodesOfSeason(keys, season) == {k \in keys : k[1] = season}

SeasonsOf(keys) == {k[1] : k \in keys}

\* The season that has exactly `count` episodes: the only one that misses
\* some, else the only one at all.
SeasonKeysForCount(expected, missing, count) ==
    LET withCount == {s \in SeasonsOf(expected) : Cardinality(EpisodesOfSeason(expected, s)) = count}
        theOnly(seasons) == UNION {EpisodesOfSeason(expected, s) : s \in {x \in seasons : seasons = {x}}}
    IN  FirstNonEmpty(<<theOnly(withCount \cap SeasonsOf(missing)), theOnly(withCount)>>)

SeasonKeysForCounts(expected, missing, counts) ==
    LET decided == {c \in counts : SeasonKeysForCount(expected, missing, c) # {}}
    IN  CASE counts = {} \/ expected = {}                        -> {}
          [] counts # {} /\ Cardinality(expected) \in counts     -> expected
          [] OTHER -> IF decided # {} THEN SeasonKeysForCount(expected, missing, Max(decided))
                      ELSE IF Cardinality(SeasonsOf(expected)) = 1 THEN expected ELSE {}

SeasonRangeKeys(text, season) == Expanded({<<season, m[2], m[3]>> : m \in text.plain})

SeasonCountKeys(text, season, whole) ==
    CASE text.counts = {} \/ whole = {} -> {}
      [] text.counts # {} /\ (Cardinality(whole) \in text.counts \/ text.seasonPack) -> whole
      [] OTHER -> ExpandEpisodeRange(season, 1, Max(text.counts))

\* `explicit` is what EpisodesFromText reads in the text.
PackKeysWithSeasonContext(expected, text, explicit) ==
    LET packed == IF text.seasonPack /\ explicit = {} THEN {k \in expected : k[1] \in text.seasons} ELSE {}
        single(s) == SeasonRangeKeys(text, s) \cup SeasonCountKeys(text, s, EpisodesOfSeason(expected, s))
    IN  packed \cup (IF Cardinality(text.seasons) = 1 THEN UNION {single(s) : s \in text.seasons} ELSE {})

PackEpisodeKeysFromText(expected, missing, text, explicit) ==
    CASE expected = {}                                   -> {}
      [] expected # {} /\ text.seasons # {}              -> PackKeysWithSeasonContext(expected, text, explicit) \cap expected
      [] text.seasons = {} /\ explicit # {}              -> {}
      [] OTHER -> IF text.seriesPack THEN expected
                  ELSE SeasonKeysForCounts(expected, missing, text.counts) \cap expected

\* Mutant: the season that a text names does not move its numbers.
ExplicitUnmoved(text, explicit) == explicit

\* A text that names exactly one season means that season wherever a number
\* was read without one.
ExplicitInSeason(text, explicit) ==
    IF Cardinality(text.seasons) = 1
    THEN {<<IF k[1] = 1 THEN CHOOSE s \in text.seasons : TRUE ELSE k[1], k[2]>> : k \in explicit}
    ELSE explicit

KeysRead(expected, missing, text, explicit) ==
    ExplicitInSeason(text, explicit) \cup PackEpisodeKeysFromText(expected, missing, text, explicit)

EpisodeKeysFromText(sub, text) ==
    KeysRead(AllTmdbEpisodeKeys(sub), MissingEpisodeKeys(sub), text, EpisodesFromText(text))

IsPackText(text) ==
    LET episodes == EpisodesFromText(text)
    IN  \/ Cardinality(episodes) > 1
        \/ text.counts # {}
        \/ (text.seasonPack \/ text.seriesPack) /\ (episodes = {} \/ text.strongPack)

-----------------------------------------------------------------------------
(* Completion *)

\* Mutant: a mere count is believed whatever seasons there are.
CompleteByMereCount(sub) ==
    LET expected == AllTmdbEpisodeKeys(sub)
        owned    == OwnedEpisodeKeys(sub)
    IN  CASE sub.type = "movie"                        -> sub.inLibrary
          [] sub.type # "movie" /\ expected = {}       -> sub.total > 0 /\ sub.count >= sub.total
          [] OTHER -> IF owned # {} THEN expected \subseteq owned ELSE sub.count >= Cardinality(expected)

SubscriptionIsComplete(sub) ==
    LET expected == AllTmdbEpisodeKeys(sub)
        owned    == OwnedEpisodeKeys(sub)
    IN  CASE sub.type = "movie"                        -> sub.inLibrary
          [] sub.type # "movie" /\ expected = {}       -> sub.total > 0 /\ sub.count >= sub.total
          [] OTHER -> IF owned # {} THEN expected \subseteq owned
                      ELSE OnlySeasonOne(expected) /\ sub.count >= Cardinality(expected)

SubscriptionShouldHide(sub) == sub.status = "completed" \/ SubscriptionIsComplete(sub)

SubscriptionNeedsResourceSearch(sub) ==
    CASE sub.snapshotFailed                            -> TRUE
      [] ~sub.snapshotFailed /\ sub.type = "movie"     -> ~sub.inLibrary
      [] OTHER -> AllTmdbEpisodeKeys(sub) = {} \/ MissingEpisodeKeys(sub) # {}

\* Bulk searches treat it as having nothing left to find for ten minutes.
SubscriptionIsCaughtUp(sub) ==
    IF sub.type = "movie" THEN sub.inLibrary
    ELSE (sub.total > 0 \/ DOMAIN sub.seasons # {}) /\ MissingEpisodeKeys(sub) = {}

\* The state that the health badge shows.
SubscriptionHealth(sub, failedResources, checked) ==
    CASE SubscriptionShouldHide(sub)                                 -> "complete"
      [] ~SubscriptionShouldHide(sub) /\ failedResources > 0         -> "danger"
      [] ~SubscriptionShouldHide(sub) /\ failedResources = 0 /\ ~checked -> "idle"
      [] OTHER -> IF sub.type = "tv" /\ MissingEpisodeKeys(sub) # {} THEN "missing" ELSE "ok"
=============================================================================
