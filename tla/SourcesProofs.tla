---------------------------- MODULE SourcesProofs ----------------------------
(***************************************************************************)
(* The rules for any subscription, link and rows; and the user's sources    *)
(* and the paid one, for any number of sources, edits, searching threads    *)
(* and windows: what a refresh writes back, and what a window pays for.     *)
(***************************************************************************)
EXTENDS Decisions, Sources, Haisou, FiniteSetTheorems, WellFoundedInduction, TLAPS

----------------------------------------------------------------------------
(* The rules: a verdict is the judgement on its case *)

Numbered(sub) ==
    /\ \A s \in DOMAIN sub.seasons : s \in Int /\ sub.seasons[s] \in Int
    /\ sub.total \in Int /\ sub.count \in Int

VerdictInv ==
    /\ question \in Case
    /\ verdict.judged => verdict = Judgement(question.sub, question.link, question.rows)

\* Every verdict that is kept is the judgement of its case.
LEMMA VerdictsAreJudgements == DecisionsSpec => []VerdictInv
<1>1. DecisionsInit => VerdictInv
  BY DEF DecisionsInit, VerdictInv, NoVerdict
<1>2. VerdictInv /\ [DecisionsNext]_caseVars => VerdictInv'
  BY DEF VerdictInv, DecisionsNext, Judge, caseVars
<1>3. QED
  BY <1>1, <1>2, PTL DEF DecisionsSpec

----------------------------------------------------------------------------
(* Completion *)

\* Of a show with one season, the episodes are counted.
LEMMA SeasonOneIsCounted ==
    ASSUME NEW sub, Numbered(sub), AllTmdbEpisodeKeys(sub) # {}, OnlySeasonOne(AllTmdbEpisodeKeys(sub))
    PROVE  Cardinality(AllTmdbEpisodeKeys(sub)) \in Nat \ {0}
<1> DEFINE expected == AllTmdbEpisodeKeys(sub)
           seasons == {n \in DOMAIN sub.seasons : n > 0}
           keys == UNION {{s} \X (1 .. sub.seasons[s]) : s \in seasons}
<1>1. expected = IF keys # {} THEN keys ELSE {1} \X (1 .. sub.total)
  BY DEF AllTmdbEpisodeKeys
<1>2. ASSUME NEW n \in Int
      PROVE  IsFiniteSet({1} \X (1 .. n))
  <2>1. IsFiniteSet({1})
    BY FS_Singleton
  <2>2. IsFiniteSet(1 .. n)
    BY FS_Interval
  <2>3. QED
    BY <2>1, <2>2, FS_Product
<1>3. \E n \in Int : expected \subseteq {1} \X (1 .. n)
  <2>1. CASE keys = {}
    BY <1>1, <2>1 DEF Numbered
  <2>2. CASE keys # {}
    <3>1. ASSUME NEW k \in keys
          PROVE  k \in {1} \X (1 .. sub.seasons[1]) /\ 1 \in seasons
      <4>1. PICK s \in seasons : k \in {s} \X (1 .. sub.seasons[s])
        OBVIOUS
      <4>2. k[1] = s
        BY <4>1
      <4>3. s = 1
        BY <1>1, <2>2, <4>2 DEF OnlySeasonOne
      <4>4. QED
        BY <4>1, <4>3
    <3>2. sub.seasons[1] \in Int
      BY <2>2, <3>1 DEF Numbered
    <3>3. keys \subseteq {1} \X (1 .. sub.seasons[1])
      BY <3>1
    <3>4. QED
      BY <1>1, <2>2, <3>2, <3>3
  <2>3. QED
    BY <2>1, <2>2
<1> HIDE DEF expected
<1>4. IsFiniteSet(expected)
  BY <1>2, <1>3, FS_Subset
<1>5. Cardinality(expected) \in Nat /\ Cardinality(expected) # 0
  BY <1>4, FS_CardinalityType, FS_EmptySet DEF expected
<1>6. QED
  BY <1>5 DEF expected

\* The four judgements of a numbered show agree.
LEMMA CompletionAgrees ==
    ASSUME NEW sub, Numbered(sub), sub.type = "tv", AllTmdbEpisodeKeys(sub) # {}
    PROVE  /\ SubscriptionIsComplete(sub) <=> MissingEpisodeKeys(sub) = {}
           /\ SubscriptionIsCaughtUp(sub) <=> SubscriptionIsComplete(sub)
           /\ ~sub.snapshotFailed => (SubscriptionNeedsResourceSearch(sub) <=> ~SubscriptionIsComplete(sub))
<1> DEFINE expected == AllTmdbEpisodeKeys(sub)
           owned == OwnedEpisodeKeys(sub)
<1>1. MissingEpisodeKeys(sub) = expected \ owned
  BY DEF MissingEpisodeKeys
<1>2. SubscriptionIsComplete(sub) <=> IF owned # {} THEN expected \subseteq owned
                                      ELSE OnlySeasonOne(expected) /\ sub.count >= Cardinality(expected)
  BY DEF SubscriptionIsComplete
<1>3. owned = {} /\ OnlySeasonOne(expected) => sub.count <= 0
  <2> SUFFICES ASSUME owned = {}, OnlySeasonOne(expected), ~(sub.count <= 0)
               PROVE  FALSE
    OBVIOUS
  <2>1. sub.keys = {}
    BY DEF OwnedEpisodeKeys
  <2>2. owned = {1} \X (1 .. sub.count)
    BY <2>1 DEF OwnedEpisodeKeys
  <2>3. <<1, 1>> \in {1} \X (1 .. sub.count)
    BY DEF Numbered
  <2>4. QED
    BY <2>2, <2>3
<1>4. SubscriptionIsComplete(sub) <=> MissingEpisodeKeys(sub) = {}
  <2>1. CASE owned # {}
    BY <1>1, <1>2, <2>1
  <2>2. CASE owned = {}
    <3>1. ~(OnlySeasonOne(expected) /\ sub.count >= Cardinality(expected))
      BY <1>3, <2>2, SeasonOneIsCounted DEF Numbered
    <3>2. MissingEpisodeKeys(sub) # {}
      BY <1>1, <2>2
    <3>3. QED
      BY <1>2, <2>2, <3>1, <3>2
  <2>3. QED
    BY <2>1, <2>2
<1>5. sub.total > 0 \/ DOMAIN sub.seasons # {}
  <2> SUFFICES ASSUME DOMAIN sub.seasons = {}, ~(sub.total > 0)
               PROVE  FALSE
    OBVIOUS
  <2>1. UNION {{s} \X (1 .. sub.seasons[s]) : s \in {n \in DOMAIN sub.seasons : n > 0}} = {}
    OBVIOUS
  <2>2. expected = {1} \X (1 .. sub.total)
    BY <2>1 DEF AllTmdbEpisodeKeys
  <2>3. 1 .. sub.total = {}
    BY DEF Numbered
  <2>4. QED
    BY <2>2, <2>3
<1>6. SubscriptionIsCaughtUp(sub) <=> MissingEpisodeKeys(sub) = {}
  BY <1>5 DEF SubscriptionIsCaughtUp
<1>7. ~sub.snapshotFailed => (SubscriptionNeedsResourceSearch(sub) <=> MissingEpisodeKeys(sub) # {})
  BY DEF SubscriptionNeedsResourceSearch
<1>8. QED
  BY <1>4, <1>6, <1>7

\* For any show whose episodes are known, whatever the library reports, keys or a
\* bare count: completion, missing keys, the bulk filter and the need to search
\* give the same answer (library/match.py, search/schedule.py, search/service.py).
THEOREM CompletionIsOneQuestion == DecisionsSpec => []CompletionConsistent
<1>1. VerdictInv => CompletionConsistent
  <2> SUFFICES ASSUME VerdictInv, Judged, question.sub.type = "tv", AllTmdbEpisodeKeys(question.sub) # {}
               PROVE  /\ verdict.complete <=> MissingEpisodeKeys(question.sub) = {}
                      /\ verdict.caughtUp <=> verdict.complete
                      /\ ~question.sub.snapshotFailed => (verdict.search <=> ~verdict.complete)
    BY DEF CompletionConsistent
  <2> DEFINE show == question.sub
  <2>1. /\ verdict.complete = SubscriptionIsComplete(show) /\ verdict.caughtUp = SubscriptionIsCaughtUp(show)
        /\ verdict.search = SubscriptionNeedsResourceSearch(show)
    BY DEF VerdictInv, Judged, Judgement
  <2>2. Numbered(show)
    BY DecisionsAssumption DEF VerdictInv, Numbered
  <2>3. QED
    BY <2>1, <2>2, CompletionAgrees
<1>2. QED
  BY <1>1, VerdictsAreJudgements, PTL

----------------------------------------------------------------------------
(* What is accepted, and what stops a delivery *)

\* No refusal is without a reason.
LEMMA ReasonsAreGiven ==
    ASSUME NEW why, NEW other, other # ""
    PROVE  OrElse(why, other) # ""
BY DEF OrElse

\* A link is accepted by both rules, or it is not accepted.
LEMMA AcceptedMatches ==
    ASSUME NEW r, CandidateRejectReason(r) = ""
    PROVE  ResultMatchesMissingEpisodes(r)
<1> SUFFICES ASSUME ~ResultMatchesMissingEpisodes(r)
             PROVE  FALSE
  OBVIOUS
<1>1. CASE r.link.kind = "invalid"
  BY <1>1 DEF CandidateRejectReason
<1>2. CASE r.link.kind # "invalid" /\ ~ResultMatchesSubscription(r)
  <2>1. CandidateRejectReason(r) = OrElse(ResultSkipReason(r), "subscription_mismatch")
    BY <1>2 DEF CandidateRejectReason
  <2>2. QED
    BY <2>1, ReasonsAreGiven
<1>3. CASE r.link.kind # "invalid" /\ ResultMatchesSubscription(r)
  <2>1. CandidateRejectReason(r) =
          IF r.sub.type = "tv" /\ r.episodes # {}
          THEN (IF r.episodes \cap r.missing = {} THEN "episodes_already_in_library" ELSE "episodes_not_needed")
          ELSE IF r.sub.type # "tv" /\ r.sub.inLibrary THEN "movie_already_in_library"
          ELSE OrElse(ResultSkipReason(r), "missing_episode_mismatch")
    BY <1>3 DEF CandidateRejectReason
  <2>2. OrElse(ResultSkipReason(r), "missing_episode_mismatch") # ""
    BY ReasonsAreGiven
  <2>3. QED
    BY <2>1, <2>2
<1>4. QED
  BY <1>1, <1>2, <1>3

\* A decision accepts if there is no reason against it, else it gives the reason.
LEMMA DecisionAccepts ==
    ASSUME NEW r, NEW reason
    PROVE  /\ DecisionFor(r, reason).episodes = r.episodes
           /\ DecisionFor(r, reason).accepted <=> reason = ""
           /\ reason # "" => DecisionFor(r, reason).reason = reason
<1>1. DecisionFor(r, reason).reason = OrElse(reason, "matched")
  BY DEF DecisionFor
<1>2. reason # "" => OrElse(reason, "matched") = reason
  BY DEF OrElse
<1>3. QED
  BY <1>1, <1>2 DEF DecisionFor

\* A link nothing speaks against brings a missing episode, or says of none.
LEMMA AcceptedBrings ==
    ASSUME NEW sub, NEW link, NEW r, r = ReadLink(sub, link), CandidateRejectReason(r) = "",
           sub.type = "tv", ~sub.snapshotFailed, r.expected # {}
    PROVE  \/ \E k \in r.expected : k \in r.episodes \ r.owned
           \/ /\ r.episodes = {}
              /\ \/ link.kind = "115" /\ ~ResultIsFallbackSource(link)
                 \/ link.source = "site" /\ sub.tmdb \in r.part.ids
<1>1. ResultMatchesMissingEpisodes(r)
  BY AcceptedMatches
<1>2. r.sub = sub /\ r.link = link /\ r.missing = r.expected \ r.owned
  BY DEF ReadLink, Reading, MissingEpisodeKeys
<1>3. \/ r.missing # {} /\ r.episodes \cap r.missing # {}
      \/ /\ r.episodes = {}
         /\ \/ ResultIsPrimary115(r.link)
            \/ ResultIsSitePlugin(r.link) /\ HasSubscriptionTmdbId(r.sub, r.part)
  BY <1>1, <1>2 DEF ResultMatchesMissingEpisodes
<1>4. QED
  BY <1>2, <1>3 DEF ResultIsPrimary115, ResultIsSitePlugin, HasSubscriptionTmdbId

\* Whatever a text claims and whatever the library has: a link that is accepted for
\* a show with known episodes brings one that is missing, or is a bare title from a
\* Telegram share or a site that knows the TMDB id (candidate_decision.py).
THEOREM AcceptedLinksAreNeeded == DecisionsSpec => []AcceptedIsNeeded
<1>1. VerdictInv => AcceptedIsNeeded
  <2> SUFFICES ASSUME VerdictInv, Judged, verdict.decision.accepted, question.sub.type = "tv",
                      ~question.sub.snapshotFailed, AllTmdbEpisodeKeys(question.sub) # {}
               PROVE  \/ \E k \in AllTmdbEpisodeKeys(question.sub) :
                            k \in verdict.decision.episodes \ OwnedEpisodeKeys(question.sub)
                      \/ /\ verdict.decision.episodes = {}
                         /\ \/ question.link.kind = "115" /\ ~ResultIsFallbackSource(question.link)
                            \/ question.link.source = "site" /\ question.sub.tmdb \in ReadPart(question.link).ids
    BY DEF AcceptedIsNeeded
  <2>1. verdict.decision = DecideResourceCandidate(question.sub, question.link)
    BY DEF VerdictInv, Judged, Judgement
  <2>2. PICK r : r = ReadLink(question.sub, question.link)
    OBVIOUS
  <2>3. /\ r.episodes = verdict.decision.episodes /\ CandidateRejectReason(r) = ""
        /\ r.expected = AllTmdbEpisodeKeys(question.sub) /\ r.owned = OwnedEpisodeKeys(question.sub)
        /\ r.part = ReadPart(question.link)
    <3>1. verdict.decision = DecisionFor(r, CandidateRejectReason(r))
      BY <2>1, <2>2 DEF DecideResourceCandidate, DecideReading
    <3>2. PICK reason : reason = CandidateRejectReason(r)
      OBVIOUS
    <3>3. verdict.decision = DecisionFor(r, reason)
      BY <3>1, <3>2
    <3>4. /\ DecisionFor(r, reason).episodes = r.episodes
          /\ DecisionFor(r, reason).accepted <=> reason = ""
      BY DecisionAccepts
    <3>5. verdict.decision.episodes = r.episodes /\ reason = ""
      BY <3>3, <3>4
    <3>6. QED
      BY <2>2, <3>2, <3>5 DEF ReadLink, Reading
  <2>4. \/ \E k \in r.expected : k \in r.episodes \ r.owned
        \/ /\ r.episodes = {}
           /\ \/ question.link.kind = "115" /\ ~ResultIsFallbackSource(question.link)
              \/ question.link.source = "site" /\ question.sub.tmdb \in r.part.ids
    BY <2>2, <2>3, AcceptedBrings
  <2>5. QED
    BY <2>3, <2>4
<1>2. QED
  BY <1>1, VerdictsAreJudgements, PTL

\* The first of several that hold is one of them.
LEMMA LeastIsMember ==
    ASSUME NEW set \in SUBSET Nat, set # {}
    PROVE  Min(set) \in set
<1>1. \E x \in set : \A y \in set : ~(<<y, x>> \in OpToRel(<, Nat))
  BY WFMin, NatLessThanWellFounded
<1>2. PICK x \in set : \A y \in set : ~(y < x)
  BY <1>1 DEF OpToRel
<1>3. \A y \in set : x <= y
  BY <1>2
<1>4. QED
  BY <1>3 DEF Min

\* An explanation of why a link does not match is no reason to stop a delivery.
LEMMA RulesDoNotStop ==
    ASSUME NEW r
    PROVE  QualityRuleSkipReason(r) \in {"", "excluded_word", "release_group", "packs_only", "singles_only"}
<1> DEFINE hits == <<r.sub.exclude \cap r.part.words # {},
                     r.sub.groups # {} /\ r.sub.groups \cap r.part.words = {},
                     r.sub.accept = "pack" /\ ~r.pack,
                     r.sub.accept = "single" /\ r.pack>>
           why == <<"excluded_word", "release_group", "packs_only", "singles_only">>
           found == {i \in DOMAIN hits : hits[i]}
<1>1. QualityRuleSkipReason(r) = IF \A i \in DOMAIN hits : ~hits[i] THEN "" ELSE why[Min(found)]
  BY DEF QualityRuleSkipReason, FirstThatHolds
<1>2. DOMAIN hits = 1 .. 4
  OBVIOUS
<1>3. \A i \in 1 .. 4 : why[i] \in {"excluded_word", "release_group", "packs_only", "singles_only"}
  OBVIOUS
<1> HIDE DEF hits, why
<1>4. CASE \A i \in DOMAIN hits : ~hits[i]
  BY <1>1, <1>4
<1>5. CASE \E i \in DOMAIN hits : hits[i]
  <2>1. found # {} /\ found \subseteq 1 .. 4
    BY <1>2, <1>5
  <2>2. Min(found) \in found
    BY <2>1, LeastIsMember
  <2>3. QED
    BY <1>1, <1>3, <1>5, <2>1, <2>2
<1>6. QED
  BY <1>4, <1>5

\* The reasons that explain a skipped result stop no delivery.
LEMMA ExplanationsDoNotStop ==
    ASSUME NEW r
    PROVE  ResultSkipReason(r) \notin SkipReasons
<1>1. EpisodeSkipReason(r) \in {"", "movie_in_library", "matched", "complete", "no_episode_read", "not_missing"}
  BY DEF EpisodeSkipReason
<1>2. OrElse(QualityRuleSkipReason(r), EpisodeSkipReason(r)) \notin SkipReasons
  BY <1>1, RulesDoNotStop DEF OrElse, SkipReasons
<1>3. QED
  BY <1>2 DEF ResultSkipReason, SkipReasons

\* The lists of a reading are those of its show.
Stated(r) ==
    /\ r.expected = AllTmdbEpisodeKeys(r.sub) /\ r.owned = OwnedEpisodeKeys(r.sub)
    /\ r.missing = IF r.sub.type # "tv" THEN {} ELSE r.expected \ r.owned

\* A candidate that is refused as owned is owned.
LEMMA RefusalStops ==
    ASSUME NEW r, Stated(r), CandidateRejectReason(r) \in SkipReasons
    PROVE  LibraryHas(r.sub, r.episodes)
<1> DEFINE reason == CandidateRejectReason(r)
<1>1. /\ OrElse(ResultSkipReason(r), "subscription_mismatch") \notin SkipReasons
      /\ OrElse(ResultSkipReason(r), "missing_episode_mismatch") \notin SkipReasons
  BY ExplanationsDoNotStop DEF OrElse, SkipReasons
<1>2. r.link.kind # "invalid" /\ ResultMatchesSubscription(r) /\ ~ResultMatchesMissingEpisodes(r)
  <2>1. r.link.kind = "invalid" => reason = "invalid_download_link"
    BY DEF CandidateRejectReason
  <2>2. r.link.kind # "invalid" /\ ~ResultMatchesSubscription(r)
          => reason = OrElse(ResultSkipReason(r), "subscription_mismatch")
    BY DEF CandidateRejectReason
  <2>3. r.link.kind # "invalid" /\ ResultMatchesSubscription(r) /\ ResultMatchesMissingEpisodes(r) => reason = ""
    BY DEF CandidateRejectReason
  <2>4. "" \notin SkipReasons /\ "invalid_download_link" \notin SkipReasons
    BY DEF SkipReasons
  <2>5. QED
    BY <1>1, <2>1, <2>2, <2>3, <2>4
<1>3. reason = IF r.sub.type = "tv" /\ r.episodes # {}
               THEN (IF r.episodes \cap r.missing = {} THEN "episodes_already_in_library" ELSE "episodes_not_needed")
               ELSE IF r.sub.type # "tv" /\ r.sub.inLibrary THEN "movie_already_in_library"
               ELSE OrElse(ResultSkipReason(r), "missing_episode_mismatch")
  BY <1>2 DEF CandidateRejectReason
<1>4. CASE r.sub.type # "tv"
  BY <1>1, <1>3, <1>4 DEF LibraryHas
<1>5. CASE r.sub.type = "tv"
  <2>1. r.episodes # {}
    BY <1>1, <1>3, <1>5
  <2>2. CASE r.expected # {}
    <3>1. r.episodes \cap r.missing = {}
      BY <1>2, <1>5, <2>1, <2>2 DEF ResultMatchesMissingEpisodes, Stated
    <3>2. r.episodes \cap r.expected \subseteq r.owned
      BY <1>5, <3>1 DEF Stated
    <3>3. QED
      BY <1>5, <2>1, <2>2, <3>2 DEF LibraryHas, Stated
  <2>3. CASE r.expected = {}
    <3>1. r.owned # {}
      BY <1>2, <1>5, <2>1, <2>3 DEF ResultMatchesMissingEpisodes
    <3>2. QED
      BY <1>5, <2>1, <2>3, <3>1 DEF LibraryHas, Stated
  <2>4. QED
    BY <2>2, <2>3
<1>6. QED
  BY <1>4, <1>5

\* So is what the guard stops, where the list of episodes is known.
LEMMA GuardStops ==
    ASSUME NEW r, Stated(r), GuardSkipReason(r) \in SkipReasons
    PROVE  \/ LibraryHas(r.sub, r.episodes)
           \/ /\ r.sub.type = "tv" /\ AllTmdbEpisodeKeys(r.sub) = {}
              /\ r.episodes # {} /\ HasEpisodeScope(r.sub)
<1>1. "" \notin SkipReasons
  BY DEF SkipReasons
<1>2. CASE r.sub.type # "tv"
  BY <1>1, <1>2 DEF GuardSkipReason, LibraryHas
<1>3. CASE r.sub.type = "tv"
  <2>1. r.episodes # {}
    BY <1>1, <1>3 DEF GuardSkipReason
  <2>2. GuardSkipReason(r) =
          IF r.missing # {} THEN (IF r.episodes \cap r.missing = {} THEN "episodes_already_in_library" ELSE "")
          ELSE IF HasEpisodeScope(r.sub) THEN "episodes_not_needed" ELSE ""
    BY <1>3, <2>1 DEF GuardSkipReason
  <2>3. r.episodes \cap r.missing = {} /\ (r.missing # {} \/ HasEpisodeScope(r.sub))
    BY <1>1, <2>2
  <2>4. r.episodes \cap r.expected \subseteq r.owned /\ (r.expected = {} => r.missing = {})
    BY <1>3, <2>3 DEF Stated
  <2>5. QED
    BY <1>3, <2>1, <2>3, <2>4 DEF LibraryHas, Stated
<1>4. QED
  BY <1>2, <1>3

\* What is owned is refused, if the library can be believed ...
LEMMA OwnedIsRefused ==
    ASSUME NEW r, Stated(r), LibraryHas(r.sub, r.episodes), ~r.sub.snapshotFailed
    PROVE  CandidateRejectReason(r) # ""
<1>1. ~ResultMatchesMissingEpisodes(r)
  <2>1. CASE r.sub.type # "tv"
    BY <2>1 DEF ResultMatchesMissingEpisodes, LibraryHas
  <2>2. CASE r.sub.type = "tv"
    <3>1. r.episodes # {} /\ r.episodes \cap r.missing = {}
          /\ (r.expected = {} => r.owned # {} /\ r.missing = {})
      BY <2>2 DEF LibraryHas, Stated
    <3>2. QED
      BY <2>2, <3>1 DEF ResultMatchesMissingEpisodes
  <2>3. QED
    BY <2>1, <2>2
<1>2. OrElse(ResultSkipReason(r), "subscription_mismatch") # ""
      /\ OrElse(ResultSkipReason(r), "missing_episode_mismatch") # ""
  BY DEF OrElse
<1>3. QED
  BY <1>1, <1>2 DEF CandidateRejectReason

\* ... and the guard has a reason to stop it.
LEMMA OwnedIsStopped ==
    ASSUME NEW r, Stated(r), LibraryHas(r.sub, r.episodes),
           r.sub.total \in Int, r.sub.count \in Int
    PROVE  GuardSkipReason(r) \in SkipReasons
<1>1. {"movie_already_in_library", "episodes_already_in_library", "episodes_not_needed"} \subseteq SkipReasons
  BY DEF SkipReasons
<1>2. CASE r.sub.type # "tv"
  BY <1>1, <1>2 DEF GuardSkipReason, LibraryHas
<1>3. CASE r.sub.type = "tv"
  <2>1. r.episodes # {} /\ r.episodes \cap r.missing = {}
    BY <1>3 DEF LibraryHas, Stated
  <2>2. CASE r.missing # {}
    BY <1>1, <1>3, <2>1, <2>2 DEF GuardSkipReason
  <2>3. CASE r.missing = {}
    <3>1. AllTmdbEpisodeKeys(r.sub) # {} => DOMAIN r.sub.seasons # {} \/ r.sub.total > 0
      <4>1. SUFFICES ASSUME DOMAIN r.sub.seasons = {}, ~(r.sub.total > 0)
                     PROVE  AllTmdbEpisodeKeys(r.sub) = {}
        OBVIOUS
      <4>2. 1 .. r.sub.total = {}
        BY <4>1
      <4>3. {1} \X (1 .. r.sub.total) = {}
        BY <4>2
      <4>4. {{s} \X (1 .. r.sub.seasons[s]) : s \in {n \in DOMAIN r.sub.seasons : n > 0}} = {}
        BY <4>1
      <4>5. QED
        BY <4>3, <4>4 DEF AllTmdbEpisodeKeys
    <3>2. OwnedEpisodeKeys(r.sub) # {} => r.sub.keys # {} \/ r.sub.count > 0
      BY DEF OwnedEpisodeKeys
    <3>3. HasEpisodeScope(r.sub)
      BY <1>3, <3>1, <3>2 DEF HasEpisodeScope, LibraryHas
    <3>4. QED
      BY <1>1, <1>3, <2>1, <2>3, <3>3 DEF GuardSkipReason
  <2>4. QED
    BY <2>2, <2>3
<1>4. QED
  BY <1>2, <1>3

\* Whatever reason the rules give and the guard puts in its place: a row whose link
\* brings something that is listed and lacking is never stopped before its delivery,
\* and one that the library has always is, unless the snapshot failed
\* (resource/guard.py, library/match.py).
THEOREM DeliveriesFollowTheLibrary == DecisionsSpec => []GuardFollowsLibrary
<1>1. VerdictInv => GuardFollowsLibrary
  <2> SUFFICES ASSUME VerdictInv, Judged PROVE GuardFollowsLibrary
    BY DEF GuardFollowsLibrary
  <2>1. /\ verdict.decision = DecideResourceCandidate(question.sub, question.link)
        /\ verdict.deliver = ResourceAllowed(question.sub, question.link, "delivery")
    BY DEF VerdictInv, Judged, Judgement
  <2>2. PICK r : r = ReadLink(question.sub, question.link)
    OBVIOUS
  <2>3. PICK reason : reason = CandidateRejectReason(r)
    OBVIOUS
  <2>4. verdict.deliver <=> \/ reason = ""
                            \/ reason \notin SkipReasons /\ GuardSkipReason(r) \notin SkipReasons
    BY <2>1, <2>2, <2>3 DEF ResourceAllowed, ReadingAllowed
  <2>5. r.sub = question.sub /\ Stated(r)
    BY <2>2 DEF ReadLink, Reading, MissingEpisodeKeys, Stated
  <2>6. verdict.decision = DecisionFor(r, reason)
    BY <2>1, <2>2, <2>3 DEF DecideResourceCandidate, DecideReading
  <2>7. DecisionFor(r, reason).episodes = r.episodes
    BY DecisionAccepts
  <2>8. verdict.decision.episodes = r.episodes
    BY <2>6, <2>7
  <2>9. reason # "" => verdict.decision.reason = reason
    BY <2>6, DecisionAccepts
  <2>10. ~verdict.deliver =>
           \/ LibraryHas(r.sub, r.episodes)
           \/ /\ r.sub.type = "tv" /\ AllTmdbEpisodeKeys(r.sub) = {}
              /\ r.episodes # {} /\ HasEpisodeScope(r.sub)
              /\ reason # "" /\ reason \notin SkipReasons
    BY <2>3, <2>4, <2>5, RefusalStops, GuardStops
  <2>11. LibraryHas(r.sub, r.episodes) /\ ~r.sub.snapshotFailed => ~verdict.deliver
    <3>1. r.sub.total \in Int /\ r.sub.count \in Int
      BY <2>5, DecisionsAssumption DEF VerdictInv
    <3>2. QED
      BY <2>3, <2>4, <2>5, <3>1, OwnedIsRefused, OwnedIsStopped
  <2>12. QED
    BY <2>5, <2>8, <2>9, <2>10, <2>11 DEF GuardFollowsLibrary
<1>2. QED
  BY <1>1, VerdictsAreJudgements, PTL

----------------------------------------------------------------------------
(* Duplicates, and the season of a number *)

\* What an effective row carries is covered.
LEMMA EffectiveRowsCover ==
    ASSUME NEW sub, NEW rows, NEW row \in rows, ResourceStatusIsEffective(row.status)
    PROVE  RowEpisodes(sub, row) \subseteq CoveredEpisodes(sub, rows)
<1>1. CoveredEpisodes(sub, rows) = UNION {RowEpisodes(sub, r) : r \in {x \in rows : ResourceStatusIsEffective(x.status)}}
  BY DEF CoveredEpisodes
<1>2. row \in {x \in rows : ResourceStatusIsEffective(x.status)}
  OBVIOUS
<1>3. QED
  BY <1>1, <1>2

\* A duplicate of another link has no episode that the other has not.
LEMMA DuplicatesBringNothing ==
    ASSUME NEW link, NEW episodes, NEW other, NEW existing, DuplicateReason(link, episodes, other, existing) # ""
    PROVE  link.key = other.key \/ episodes \subseteq existing
<1> SUFFICES ASSUME link.key # other.key, ~(episodes \subseteq existing)
             PROVE  FALSE
  OBVIOUS
<1>1. DuplicateReason(link, episodes, other, existing) =
        IF link.titleKey = other.titleKey /\ link.titleKey # {} /\ episodes = existing THEN "similar_title" ELSE ""
  BY DEF DuplicateReason
<1>2. QED
  BY <1>1

\* Whatever the texts claim: what a link of a show would bring, if it is left out as a
\* duplicate or because a Telegram share has it, is with rows that still count, or
\* one of them has the very link (resource/duplicates, fallback filter).
THEOREM SkippedLinksBringNothing == DecisionsSpec => []SkipLosesNoEpisode
<1>1. VerdictInv => SkipLosesNoEpisode
  <2> DEFINE show == question.sub
             link == question.link
             rows == question.rows
             Goal == \/ \E r \in rows : ResourceStatusIsEffective(r.status) /\ r.link.key = link.key
                     \/ EpisodesOf(show, link) \subseteq CoveredEpisodes(show, rows)
  <2>1. SUFFICES ASSUME VerdictInv, Judged, show.type = "tv", verdict.duplicate \/ verdict.blocked
                 PROVE  Goal
    <3>1. ASSUME VerdictInv, Judged
          PROVE  verdict.decision.episodes = EpisodesOf(show, link)
      <4>1. PICK r, reason : r = ReadLink(show, link) /\ reason = CandidateRejectReason(r)
        OBVIOUS
      <4>2. verdict.decision = DecisionFor(r, reason)
        BY <3>1, <4>1 DEF VerdictInv, Judged, Judgement, DecideResourceCandidate, DecideReading
      <4>3. DecisionFor(r, reason).episodes = r.episodes
        BY DecisionAccepts
      <4>4. r.episodes = EpisodesOf(show, link)
        BY <4>1 DEF ReadLink, Reading, EpisodesOf
      <4>5. QED
        BY <4>2, <4>3, <4>4
    <3>2. QED
      BY <3>1 DEF SkipLosesNoEpisode
  <2>2. /\ verdict.duplicate = ResourceAlreadyExists(show, link, rows)
        /\ verdict.blocked = FallbackBlockedByPrimary(show, link, rows)
    BY <2>1 DEF VerdictInv, Judged, Judgement
  <2>3. CASE ResourceAlreadyExists(show, link, rows)
    <3>1. PICK row \in rows : /\ ResourceStatusIsEffective(row.status)
                              /\ DuplicateReason(link, EpisodesOf(show, link), row.link, RowEpisodes(show, row)) # ""
      BY <2>3 DEF ResourceAlreadyExists
    <3>2. link.key = row.link.key \/ EpisodesOf(show, link) \subseteq RowEpisodes(show, row)
      BY <3>1, DuplicatesBringNothing
    <3>3. RowEpisodes(show, row) \subseteq CoveredEpisodes(show, rows)
      BY <3>1, EffectiveRowsCover
    <3>4. QED
      BY <3>1, <3>2, <3>3
  <2>4. CASE FallbackBlockedByPrimary(show, link, rows)
    <3>1. link.kind = "115"
      BY <2>4 DEF FallbackBlockedByPrimary
    <3>2. PICK row \in Subscription115Resources(rows) :
            EpisodeKeysFromText(show, FullPart(link).says) \subseteq RowEpisodes(show, row)
      BY <2>1, <2>4 DEF FallbackBlockedByPrimary
    <3>3. row \in rows /\ ResourceStatusIsEffective(row.status)
      BY <3>2 DEF Subscription115Resources
    <3>4. EpisodesOf(show, link) = EpisodeKeysFromText(show, FullPart(link).says)
      BY <3>1 DEF EpisodesOf, ReadPart
    <3>5. RowEpisodes(show, row) \subseteq CoveredEpisodes(show, rows)
      BY <3>3, EffectiveRowsCover
    <3>6. QED
      BY <3>2, <3>4, <3>5
  <2>5. QED
    BY <2>1, <2>2, <2>3, <2>4
<1>2. QED
  BY <1>1, VerdictsAreJudgements, PTL

\* What is found first is found somewhere.
LEMMA FirstIsOne ==
    ASSUME NEW n \in Nat, NEW sets, DOMAIN sets = 1 .. n, NEW k \in FirstNonEmpty(sets)
    PROVE  \E i \in 1 .. n : k \in sets[i]
<1> DEFINE found == {i \in DOMAIN sets : sets[i] # {}}
<1>1. FirstNonEmpty(sets) = IF \A i \in DOMAIN sets : sets[i] = {} THEN {} ELSE sets[Min(found)]
  BY DEF FirstNonEmpty
<1>2. ~(\A i \in DOMAIN sets : sets[i] = {}) /\ k \in sets[Min(found)]
  BY <1>1
<1>3. found # {} /\ found \subseteq 1 .. n
  BY <1>2
<1> HIDE DEF found
<1>4. found \in SUBSET Nat
  BY <1>3
<1>5. Min(found) \in found
  BY <1>3, <1>4, LeastIsMember
<1>6. QED
  BY <1>2, <1>3, <1>5

\* A range stays in its season; no season is season one.
LEMMA ExpandedSeason ==
    ASSUME NEW season, NEW start, NEW end, NEW k \in ExpandEpisodeRange(season, start, end)
    PROVE  k[1] = IF season = 0 THEN 1 ELSE season
<1>1. k \in {IF season = 0 THEN 1 ELSE season} \X (start .. end)
  BY DEF ExpandEpisodeRange
<1>2. QED
  BY <1>1

\* So do the marks of a notation.
LEMMA ExpandedMark ==
    ASSUME NEW marks, NEW k \in Expanded(marks)
    PROVE  \E m \in marks : k[1] = IF m[1] = 0 THEN 1 ELSE m[1]
<1>1. PICK m \in marks : k \in ExpandEpisodeRange(m[1], m[2], m[3])
  BY DEF Expanded
<1>2. QED
  BY <1>1, ExpandedSeason

Notations == {"cnSeason", "dotted", "token", "plain", "native"}
Marks(text) == UNION {text[n] : n \in Notations}

\* A number whose season is not the first was written with its season.
LEMMA SeasonsAreWritten ==
    ASSUME NEW text, NEW k \in EpisodesFromText(text), k[1] # 1
    PROVE  \E m \in Marks(text) : m[1] = k[1]
<1> DEFINE updates == {<<1, 1, m[3]>> : m \in {x \in text.update : x[3] > 0}}
           cn == {m \in text.cnSeason : m[1] > 0}
           plain == {m \in text.plain : m[2] <= m[3]}
           native == IF text.counts # {} THEN {} ELSE text.native
           sets == <<Expanded(updates), Expanded(cn), Expanded(text.dotted), Expanded(text.token),
                     Expanded(plain), Expanded(native)>>
<1>1. EpisodesFromText(text) = FirstNonEmpty(sets)
  BY DEF EpisodesFromText, UpdateEpisodes
<1>2. DOMAIN sets = 1 .. 6
  OBVIOUS
<1>3. /\ sets[1] = Expanded(updates) /\ sets[2] = Expanded(cn) /\ sets[3] = Expanded(text.dotted)
      /\ sets[4] = Expanded(text.token) /\ sets[5] = Expanded(plain) /\ sets[6] = Expanded(native)
  OBVIOUS
<1>4. \A m \in updates : m[1] = 1
  OBVIOUS
<1>5. \A m \in cn \cup text.dotted \cup text.token \cup plain \cup native : m \in Marks(text)
  <2>1. /\ text["cnSeason"] \subseteq Marks(text) /\ text["dotted"] \subseteq Marks(text)
        /\ text["token"] \subseteq Marks(text) /\ text["plain"] \subseteq Marks(text)
        /\ text["native"] \subseteq Marks(text)
    BY DEF Marks, Notations
  <2>2. cn \subseteq text["cnSeason"] /\ plain \subseteq text["plain"] /\ native \subseteq text["native"]
    OBVIOUS
  <2>3. QED
    BY <2>1, <2>2
<1> HIDE DEF updates, cn, plain, native, sets
<1>6. PICK i \in 1 .. 6 : k \in sets[i]
  BY <1>1, <1>2, FirstIsOne
<1>7. \E marks \in {updates, cn, text.dotted, text.token, plain, native} : k \in Expanded(marks)
  <2>1. i \in {1, 2, 3, 4, 5, 6}
    OBVIOUS
  <2>2. QED
    BY <1>3, <1>6, <2>1
<1>8. PICK marks \in {updates, cn, text.dotted, text.token, plain, native} : k \in Expanded(marks)
  BY <1>7
<1>9. PICK m \in marks : k[1] = IF m[1] = 0 THEN 1 ELSE m[1]
  BY <1>8, ExpandedMark
<1>10. m[1] = k[1] /\ m[1] # 1
  BY <1>9
<1>11. m \in Marks(text)
  BY <1>4, <1>5, <1>8, <1>10
<1>12. QED
  BY <1>10, <1>11

\* What a text that names one season says of a pack is about that season.
LEMMA PacksAreOfTheSeason ==
    ASSUME NEW expected, NEW missing, NEW text, NEW explicit, NEW s \in Nat \ {0}, text.seasons = {s},
           NEW k \in PackEpisodeKeysFromText(expected, missing, text, explicit)
    PROVE  k[1] = s
<1> DEFINE packed == IF text.seasonPack /\ explicit = {} THEN {x \in expected : x[1] \in text.seasons} ELSE {}
           single(x) == SeasonRangeKeys(text, x) \cup SeasonCountKeys(text, x, EpisodesOfSeason(expected, x))
<1>1. k \in PackKeysWithSeasonContext(expected, text, explicit)
  BY DEF PackEpisodeKeysFromText
<1>2. k \in packed \/ k \in UNION {single(x) : x \in text.seasons}
  BY <1>1 DEF PackKeysWithSeasonContext
<1>3. CASE k \in packed
  BY <1>3
<1>4. CASE k \in single(s)
  <2>1. CASE k \in SeasonRangeKeys(text, s)
    <3>1. k \in Expanded({<<s, m[2], m[3]>> : m \in text.plain})
      BY <2>1 DEF SeasonRangeKeys
    <3>2. PICK m \in {<<s, x[2], x[3]>> : x \in text.plain} : k[1] = IF m[1] = 0 THEN 1 ELSE m[1]
      BY <3>1, ExpandedMark
    <3>3. m[1] = s
      OBVIOUS
    <3>4. QED
      BY <3>2, <3>3
  <2>2. CASE k \in SeasonCountKeys(text, s, EpisodesOfSeason(expected, s))
    <3>1. k \in EpisodesOfSeason(expected, s) \/ k \in ExpandEpisodeRange(s, 1, Max(text.counts))
      BY <2>2 DEF SeasonCountKeys
    <3>2. CASE k \in EpisodesOfSeason(expected, s)
      BY <3>2 DEF EpisodesOfSeason
    <3>3. CASE k \in ExpandEpisodeRange(s, 1, Max(text.counts))
      <4>1. k[1] = IF s = 0 THEN 1 ELSE s
        BY <3>3, ExpandedSeason
      <4>2. QED
        BY <4>1
    <3>4. QED
      BY <3>1, <3>2, <3>3
  <2>3. QED
    BY <1>4, <2>1, <2>2
<1>5. QED
  BY <1>2, <1>3, <1>4

\* What is read in a text that names one season is of it, or is marked otherwise.
LEMMA SeasonIsRead ==
    ASSUME NEW sub, NEW text, NEW s \in Nat \ {0}, text.seasons = {s}, NEW k \in EpisodeKeysFromText(sub, text)
    PROVE  k[1] = s \/ \E m \in Marks(text) : m[1] = k[1] /\ k[1] # 1
<1> DEFINE explicit == EpisodesFromText(text)
           packs == PackEpisodeKeysFromText(AllTmdbEpisodeKeys(sub), MissingEpisodeKeys(sub), text, explicit)
<1>1. k \in ExplicitInSeason(text, explicit) \/ k \in packs
  BY DEF EpisodeKeysFromText, KeysRead
<1>2. CASE k \in packs
  BY <1>2, PacksAreOfTheSeason
<1>3. CASE k \in ExplicitInSeason(text, explicit)
  <2>1. Cardinality(text.seasons) = 1
    BY FS_Singleton
  <2>2. (CHOOSE x \in text.seasons : TRUE) = s
    OBVIOUS
  <2>3. PICK j \in explicit : k = <<IF j[1] = 1 THEN s ELSE j[1], j[2]>>
    BY <1>3, <2>1, <2>2 DEF ExplicitInSeason
  <2>4. k[1] = IF j[1] = 1 THEN s ELSE j[1]
    BY <2>3
  <2>5. j[1] # 1 => \E m \in Marks(text) : m[1] = j[1]
    BY SeasonsAreWritten
  <2>6. QED
    BY <2>4, <2>5
<1>4. QED
  BY <1>1, <1>2, <1>3

\* Whatever notations, ranges, counts and packs a text mixes: if it names one season,
\* every episode that is read in it is of that season or was written with the number
\* of another (episode/packs.py, explicit.py).
THEOREM OneSeasonIsRead == DecisionsSpec => []SeasonReading
<1>1. VerdictInv => SeasonReading
  <2> DEFINE text == ReadPart(question.link).says
  <2>1. SUFFICES ASSUME VerdictInv, Judged, NEW s \in text.seasons, text.seasons = {s},
                        NEW k \in verdict.decision.episodes
                 PROVE  k[1] = s \/ \E m \in Marks(text) : m[1] = k[1] /\ k[1] # 1
    BY DEF SeasonReading, Marks, Notations
  <2>2. PICK r, reason : r = ReadLink(question.sub, question.link) /\ reason = CandidateRejectReason(r)
    OBVIOUS
  <2>3. verdict.decision = DecisionFor(r, reason)
    BY <2>1, <2>2 DEF VerdictInv, Judged, Judgement, DecideResourceCandidate, DecideReading
  <2>4. DecisionFor(r, reason).episodes = r.episodes
    BY DecisionAccepts
  <2>5. r.episodes = EpisodeKeysFromText(question.sub, text)
    BY <2>2 DEF ReadLink, Reading
  <2>6. s \in Nat \ {0}
    <3>1. question \in Case
      BY <2>1 DEF VerdictInv
    <3>2. /\ question.link.title.says.seasons \subseteq Nat \ {0}
          /\ question.link.context.says.seasons \subseteq Nat \ {0}
      BY <3>1, DecisionsAssumption
    <3>3. FullPart(question.link).says.seasons =
            question.link.context.says.seasons \cup question.link.title.says.seasons
      BY DEF FullPart, JoinParts, JoinTexts
    <3>4. QED
      BY <3>2, <3>3 DEF ReadPart
  <2>7. k \in EpisodeKeysFromText(question.sub, text)
    BY <2>3, <2>4, <2>5
  <2>8. QED
    BY <2>1, <2>6, <2>7, SeasonIsRead
<1>2. QED
  BY <1>1, VerdictsAreJudgements, PTL

----------------------------------------------------------------------------
(* The timed refresh *)

Setting == [rev : Nat, enabled : SUBSET SourceId, checked : SUBSET SourceId]
Refresh == [at : {"idle", "fetch", "persist", "save"}, due : SUBSET SourceId,
            done : SUBSET SourceId, copy : Setting]

\* No edit that was there when the sources had been asked is missing from the
\* setting; nor from the copy, once the refresh has read it again.
RefreshInv ==
    /\ setting \in Setting /\ refresh \in Refresh /\ settled \in Nat
    /\ settled <= setting.rev
    /\ refresh.at = "save" => settled <= refresh.copy.rev

\* At first nothing is being refreshed.
LEMMA RefreshInvInit == SourcesInit => RefreshInv
BY DEF SourcesInit, RefreshInv, Setting, Refresh, NoRefresh, NoCopy

\* What the refresh is when its times cannot be written, or have been.
LEMMA NoRefreshType == NoRefresh \in Refresh /\ NoRefresh.at = "idle"
BY DEF NoRefresh, NoCopy, Refresh, Setting

\* Refreshing one source keeps the copy as new as the last edit that was settled.
LEMMA RefreshSourceKeeps ==
    ASSUME RefreshInv, NEW s \in SourceId, RefreshSource(s)
    PROVE  RefreshInv'
<1>1. UNCHANGED setting /\ refresh.at = "fetch"
  BY DEF RefreshSource
<1>2. /\ refresh' = NoRefresh \/
           refresh' = [refresh EXCEPT !.done = @ \cup {s},
                         !.at = IF refresh.due = refresh.done \cup {s} THEN "persist" ELSE @]
      /\ settled' = IF refresh'.at = "persist" THEN setting.rev ELSE settled
  BY DEF RefreshSource
<1>3. refresh' \in Refresh /\ refresh'.at # "save"
  <2>1. CASE refresh' = NoRefresh
    BY <2>1, NoRefreshType
  <2>2. CASE refresh' # NoRefresh
    BY <1>1, <1>2, <2>2 DEF RefreshInv, Refresh
  <2>3. QED
    BY <2>1, <2>2
<1>4. settled' \in Nat /\ settled' <= setting.rev
  BY <1>2 DEF RefreshInv, Setting
<1>5. QED
  BY <1>1, <1>3, <1>4 DEF RefreshInv

\* So does every step.
LEMMA RefreshInvStep == RefreshInv /\ [SourcesNext]_sourcesVars => RefreshInv'
<1> SUFFICES ASSUME RefreshInv, [SourcesNext]_sourcesVars
             PROVE  RefreshInv'
  OBVIOUS
<1>1. ASSUME NEW s \in SourceId, RefreshSource(s)
      PROVE  RefreshInv'
  BY <1>1, RefreshSourceKeeps
<1>2. CASE FetchDueSources
  BY <1>2 DEF FetchDueSources, RefreshInv, Refresh, Setting
<1>3. CASE PersistReadsSetting
  BY <1>3 DEF PersistReadsSetting, RefreshInv, Refresh, Setting
<1>4. CASE PersistSourceRefreshTimes
  <2>1. /\ setting' = [refresh.copy EXCEPT !.checked = @ \cup refresh.done]
        /\ refresh' = NoRefresh /\ settled' = settled
    BY <1>4 DEF PersistSourceRefreshTimes
  <2>2. settled <= refresh.copy.rev /\ refresh.copy \in Setting
        /\ refresh.done \subseteq SourceId
    BY <1>4 DEF PersistSourceRefreshTimes, RefreshInv, Refresh
  <2>3. setting' \in Setting /\ setting'.rev = refresh.copy.rev
    BY <2>1, <2>2 DEF Setting
  <2>4. QED
    BY <2>1, <2>2, <2>3, NoRefreshType DEF RefreshInv
<1>5. ASSUME NEW s \in SourceId, UserEditsSources(s)
      PROVE  RefreshInv'
  <2> DEFINE sources == IF s \in setting.enabled THEN setting.enabled \ {s}
                        ELSE setting.enabled \cup {s}
  <2>1. /\ setting' = [setting EXCEPT !.rev = @ + 1, !.enabled = sources]
        /\ UNCHANGED <<refresh, settled>>
    BY <1>5 DEF UserEditsSources
  <2>2. setting \in Setting /\ setting.rev + 1 \in Nat /\ setting.rev \in Nat
    BY DEF RefreshInv, Setting
  <2>3. sources \subseteq SourceId
    BY <2>2 DEF Setting
  <2> HIDE DEF sources
  <2>4. setting' \in Setting /\ setting'.rev = setting.rev + 1
    BY <2>1, <2>2, <2>3 DEF Setting
  <2>5. QED
    BY <2>1, <2>2, <2>4 DEF RefreshInv
<1>6. ASSUME NEW s \in SourceId, ComesDue(s)
      PROVE  RefreshInv'
  BY <1>6 DEF ComesDue, RefreshInv, Setting
<1>7. CASE UNCHANGED <<setting, refresh, settled>>
  BY <1>7 DEF RefreshInv
<1>8. \/ UNCHANGED <<setting, refresh, settled>>
      \/ FetchDueSources \/ PersistReadsSetting \/ PersistSourceRefreshTimes
      \/ \E s \in SourceId : RefreshSource(s) \/ UserEditsSources(s) \/ ComesDue(s)
  BY DEF SourcesNext, HuntStep, RefreshStep, SourceTimePasses, StartHunt,
         PrioritySearchDone, SearchPriorityWave, SiteBreaks, SiteHasMatch,
         StatsGrowOld, SourceOnCooldownEnds, CachedResultsExpire, sourcesVars
<1>9. QED
  BY <1>1, <1>2, <1>3, <1>4, <1>5, <1>6, <1>7, <1>8

\* However often the user edits the setting while a refresh asks its sources:
\* what the refresh writes back has every edit that was saved by then.
THEOREM RefreshLosesNoEdit == SourcesSpec => []RefreshKeepsEdits
<1>1. RefreshInv => RefreshKeepsEdits
  BY DEF RefreshInv, RefreshKeepsEdits
<1>2. QED
  BY <1>1, RefreshInvInit, RefreshInvStep, PTL DEF SourcesSpec

----------------------------------------------------------------------------
(* The paid source *)

\* Every page that was sent in this window has taken a slot of it.
BudgetInv == calls \in Nat /\ sent = calls /\ calls <= MaxPerWindow

\* Every step counts a call with its sending, and within the budget.
LEMMA BudgetInvStep == BudgetInv /\ [HaisouNext]_haisouVars => BudgetInv'
<1> SUFFICES ASSUME BudgetInv, [HaisouNext]_haisouVars
             PROVE  BudgetInv'
  OBVIOUS
<1>1. CASE RollWindow
  BY <1>1, HaisouAssumption DEF RollWindow, BudgetInv
<1>2. ASSUME NEW p \in Searcher, AcquireHaisouSearchSlot(p)
      PROVE  BudgetInv'
  BY <1>2, HaisouAssumption DEF AcquireHaisouSearchSlot, HasSlot, BudgetInv
<1>3. \/ UNCHANGED <<calls, sent>> \/ RollWindow
      \/ \E p \in Searcher : AcquireHaisouSearchSlot(p)
  BY DEF HaisouNext, PaidCacheExpires, SearchHaisou, SearchHaisouPage,
         HaisouApiError, SetCachedHaisouSearch, haisouVars
<1>4. QED
  BY <1>1, <1>2, <1>3 DEF BudgetInv

\* However many threads pass the first look at the budget together, and
\* whatever pages they ask for again: no window pays for more than it allows.
THEOREM WindowsStayInBudget == HaisouSpec => []BudgetKept
<1>1. HaisouInit => BudgetInv
  BY HaisouAssumption DEF HaisouInit, BudgetInv
<1>2. BudgetInv => BudgetKept
  BY DEF BudgetInv, BudgetKept
<1>3. QED
  BY <1>1, <1>2, BudgetInvStep, PTL DEF HaisouSpec
=============================================================================
