----------------------------- MODULE Decisions -----------------------------
(***************************************************************************)
(* The rules of EpisodeRules and CandidateRules over a set of cases: a case *)
(* is a subscription, a link that was found for it and the rows it has. One *)
(* step judges the case; the properties compare the judgement with what the *)
(* case itself says.                                                        *)
(***************************************************************************)
EXTENDS CandidateRules

CONSTANT Case              \* [sub, link, rows]

\* A show has numbers of episodes, and a text names seasons from 1 on.
ASSUME DecisionsAssumption ==
    \A c \in Case :
        /\ \A s \in DOMAIN c.sub.seasons : s \in Int /\ c.sub.seasons[s] \in Int
        /\ c.sub.total \in Int /\ c.sub.count \in Int
        /\ \A part \in {c.link.title, c.link.context} : part.says.seasons \subseteq Nat \ {0}

VARIABLES question,        \* the case to be judged
          verdict          \* what the rules say, or NoVerdict before

caseVars == <<question, verdict>>

NoVerdict == [judged |-> FALSE]

DecisionsInit == question \in Case /\ verdict = NoVerdict

Judgement(show, link, rows) ==
    [judged    |-> TRUE,
     complete  |-> SubscriptionIsComplete(show),
     search    |-> SubscriptionNeedsResourceSearch(show),
     caughtUp  |-> SubscriptionIsCaughtUp(show),
     health    |-> SubscriptionHealth(show, Cardinality(rows), TRUE),
     decision  |-> DecideResourceCandidate(show, link),
     save      |-> ResourceAllowed(show, link, "save"),
     deliver   |-> ResourceAllowed(show, link, "delivery"),
     usable    |-> FallbackUsable(show, link, rows),
     duplicate |-> ResourceAlreadyExists(show, link, rows),
     blocked   |-> FallbackBlockedByPrimary(show, link, rows),
     inserted  |-> InsertedRows(show, link, rows),
     ed2k      |-> Ed2kWanted(show, link, CoveredEpisodes(show, rows)),
     best      |-> BestFallbackResults(show, {link} \cup {r.link : r \in rows})]

Judge ==
    /\ ~verdict.judged
    /\ verdict' = Judgement(question.sub, question.link, question.rows)
    /\ UNCHANGED question

DecisionsNext == Judge

DecisionsSpec == DecisionsInit /\ [][DecisionsNext]_caseVars

-----------------------------------------------------------------------------
Judged == verdict.judged

\* The four places that ask whether a show is finished agree whenever its
\* episodes are known: completion, the need to search, the bulk filter and the
\* missing keys.
CompletionConsistent ==
    Judged /\ question.sub.type = "tv" /\ AllTmdbEpisodeKeys(question.sub) # {} =>
        /\ verdict.complete <=> MissingEpisodeKeys(question.sub) = {}
        /\ verdict.caughtUp <=> verdict.complete
        /\ ~question.sub.snapshotFailed => (verdict.search <=> ~verdict.complete)

\* An accepted link of a show whose episodes are known brings a missing
\* episode, or it names none and comes from where bare titles are believed: it is a
\* share that Telegram brought, or a site's with the TMDB id.
AcceptedIsNeeded ==
    Judged /\ verdict.decision.accepted /\ question.sub.type = "tv" /\ ~question.sub.snapshotFailed
           /\ AllTmdbEpisodeKeys(question.sub) # {} =>
        \/ \E k \in AllTmdbEpisodeKeys(question.sub) : k \in verdict.decision.episodes \ OwnedEpisodeKeys(question.sub)
        \/ /\ verdict.decision.episodes = {}
           /\ \/ question.link.kind = "115" /\ ~ResultIsFallbackSource(question.link)
              \/ question.link.source = "site" /\ question.sub.tmdb \in ReadPart(question.link).ids

\* A link of a show that is left out as a duplicate, or because a Telegram share
\* has it, takes no episode away: other effective rows have all it would bring.
\* A row with the very same link is its own witness.
SkipLosesNoEpisode ==
    Judged /\ question.sub.type = "tv" /\ (verdict.duplicate \/ verdict.blocked) =>
        \/ \E r \in question.rows : ResourceStatusIsEffective(r.status) /\ r.link.key = question.link.key
        \/ verdict.decision.episodes \subseteq CoveredEpisodes(question.sub, question.rows)

\* What counts as owned before a delivery: the film, or each episode of the link
\* that TMDB lists. Where TMDB lists nothing, one episode in the library is enough.
LibraryHas(show, episodes) ==
    IF show.type # "tv" THEN show.inLibrary
    ELSE /\ episodes # {}
         /\ IF AllTmdbEpisodeKeys(show) # {}
            THEN episodes \cap AllTmdbEpisodeKeys(show) \subseteq OwnedEpisodeKeys(show)
            ELSE OwnedEpisodeKeys(show) # {}

\* Whatever reason the rules give, and whatever the guard puts in its place: a row
\* whose link brings something that is listed and lacking is never stopped, and,
\* unless the snapshot of the library has failed, one that is owned is always
\* stopped, whatever else is wrong with its link. Episodes beyond TMDB's list are
\* not waited for. Of a show without a list, more is stopped than the library has:
\* any link with episodes once it has one (LibraryHas), and a link that is not of
\* this show once anything is known of it (resource/guard.py, library/match.py).
GuardFollowsLibrary ==
    Judged =>
        /\ ~verdict.deliver =>
             \/ LibraryHas(question.sub, verdict.decision.episodes)
             \/ /\ question.sub.type = "tv" /\ AllTmdbEpisodeKeys(question.sub) = {}
                /\ verdict.decision.episodes # {} /\ HasEpisodeScope(question.sub)
                /\ verdict.decision.reason \notin SkipReasons
        /\ LibraryHas(question.sub, verdict.decision.episodes) /\ ~question.sub.snapshotFailed
             => ~verdict.deliver

\* A text that names one season is about this season: each of its episodes is
\* of that season, or was written with another season's number.
SeasonReading ==
    Judged => \A s \in ReadPart(question.link).says.seasons :
        ReadPart(question.link).says.seasons = {s} =>
            \A k \in verdict.decision.episodes :
                \/ k[1] = s
                \/ \E m \in UNION {ReadPart(question.link).says[n] : n \in {"cnSeason", "dotted", "token", "plain", "native"}} :
                      m[1] = k[1] /\ k[1] # 1
=============================================================================
