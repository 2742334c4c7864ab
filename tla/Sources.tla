------------------------------ MODULE Sources ------------------------------
(***************************************************************************)
(* The RSS, Torznab and site sources: the search of a subscription, wave by    *)
(* wave of equal priority until one source has a match, and the timed refresh,  *)
(* which writes its times back into the setting that routes edit. Two records   *)
(* of health keep a source from being asked: statistics in the database and a   *)
(* cooldown in memory.                                                          *)
(***************************************************************************)
EXTENDS Integers, FiniteSets

CONSTANTS SourceId,
          UserPriority,     \* [SourceId -> Int]
          FailMargin,       \* SOURCE_HEALTH_FAIL_MARGIN
          MaxLead,          \* bound: how far failures and successes are counted apart
          MaxSourceFaults,  \* bound: changes for the worse of a site, slow answers, a locked database
          MaxEdits,         \* bound: edits of the setting
          TimedSource       \* bound: the sources that come due, and are edited

ASSUME SourcesAssumption ==
    /\ UserPriority \in [SourceId -> Int] /\ FailMargin \in Int
    /\ MaxLead \in Nat /\ MaxSourceFaults \in Nat /\ MaxEdits \in Nat
    /\ TimedSource \subseteq SourceId

VARIABLES site,          \* what a source would answer: match | nomatch | down | challenge
          stats,         \* source_stats: [lead, errorFresh, fresh, slow]
          failures,      \* source_health._failures
          cooling,       \* sources on cooldown
          cache,         \* [source -> none | empty | match | nomatch]
          hunt,          \* the search: [at, ready, degraded, asked, matched]
          setting,       \* rss_sources: [rev, enabled, checked]
          refresh,       \* the refresh: [at, due, done, copy]
          settled,       \* revision of the setting when the last refresh had asked its sources
          sourceFaults

sourcesVars == <<site, stats, failures, cooling, cache, hunt, setting, refresh, settled, sourceFaults>>

NoHunt == [at |-> "idle", ready |-> {}, degraded |-> {}, asked |-> {}, matched |-> FALSE]
NoCopy == [rev |-> 0, enabled |-> {}, checked |-> {}]
NoRefresh == [at |-> "idle", due |-> {}, done |-> {}, copy |-> NoCopy]

-----------------------------------------------------------------------------
(* Health *)

Clip(n) == IF n > MaxLead THEN MaxLead ELSE IF n < -1 THEN -1 ELSE n

\* Mutant: failures count however long ago they were.
SourceHealthForever(s) ==
    stats[s].lead >= FailMargin \/ (stats[s].slow /\ stats[s].fresh)

\* More failures than successes and the last failure recent, or the last answer
\* slow and recent.
SourceHealthStatus(s) == \* degraded
    \/ stats[s].errorFresh /\ stats[s].lead >= FailMargin
    \/ stats[s].slow /\ stats[s].fresh

RecordSourceFetch(stat, ok, late) ==
    [lead |-> Clip(IF ok THEN stat.lead - 1 ELSE stat.lead + 1), errorFresh |-> stat.errorFresh \/ ~ok,
     fresh |-> TRUE, slow |-> late]

FilterReadySources(all) == IF all \ cooling = {} THEN all ELSE all \ cooling

\* A degraded source falls below the others.
SourcePriority(s, degraded) == UserPriority[s] - IF s \in degraded THEN 80 ELSE 0

NoteSourceSuccess(s) == failures' = [failures EXCEPT ![s] = 0] /\ cooling' = cooling \ {s}

\* A timeout counts twice; two are enough.
NoteSourceFailure(s) ==
    \E n \in {1, 2} :
      /\ failures' = [failures EXCEPT ![s] = IF @ + n > 2 THEN 2 ELSE @ + n]
      /\ cooling' = IF failures[s] + n >= 2 THEN cooling \cup {s} ELSE cooling

-----------------------------------------------------------------------------
(* One source is asked *)

\* The outcomes of _fetch_source: [result, stat, raises, slow]. Whatever goes wrong
\* is an empty answer; only a locked database, where the outcome is written, raises.
\* A page behind a challenge is recorded as a failure, and then as a success.
FetchSource(s) ==
    LET Answer(result, stat, late) == [result |-> result, stat |-> stat, raises |-> FALSE, fault |-> late]
        late == {FALSE} \cup {sourceFaults < MaxSourceFaults}
        raised == [result |-> "empty", stat |-> stats[s], raises |-> TRUE, fault |-> TRUE]
        failed == RecordSourceFetch(stats[s], FALSE, FALSE)
        answers == CASE site[s] \in {"match", "nomatch"} ->
                          {Answer(site[s], RecordSourceFetch(stats[s], TRUE, l), l) : l \in late}
                     [] site[s] = "down" -> {Answer("empty", failed, FALSE)}
                     [] site[s] = "challenge" -> {Answer("empty", RecordSourceFetch(failed, TRUE, FALSE), FALSE)}
    IN  IF SourceHealthStatus(s) THEN {Answer("empty", stats[s], FALSE)}
        ELSE answers \cup IF sourceFaults < MaxSourceFaults THEN {raised} ELSE {}

\* What was skipped or failed is remembered like an answer without results.
FetchSourceForQueries(s) ==
    IF cache[s] # "none"
    THEN {[result |-> cache[s], stat |-> stats[s], raises |-> FALSE, fault |-> FALSE]}
    ELSE FetchSource(s)

Counted(out) == sourceFaults' = IF out.fault THEN sourceFaults + 1 ELSE sourceFaults

-----------------------------------------------------------------------------
(* The search of a subscription *)

Sources == setting.enabled

StartHunt ==
    /\ hunt.at = "idle" /\ Sources # {}
    /\ hunt' = [NoHunt EXCEPT !.at = "waves", !.ready = FilterReadySources(Sources),
                               !.degraded = {s \in FilterReadySources(Sources) : SourceHealthStatus(s)}]
    /\ UNCHANGED <<site, stats, failures, cooling, cache, setting, refresh, settled, sourceFaults>>

\* The sources of the first wave that is not through; the order is that of the start.
PriorityWave ==
    LET open == hunt.ready \ hunt.asked
    IN  {s \in open : \A r \in open : SourcePriority(r, hunt.degraded) <= SourcePriority(s, hunt.degraded)}

\* The first match ends the wave and the search; the others are cancelled.
SearchPriorityWave(s) ==
    /\ hunt.at = "waves" /\ ~hunt.matched /\ s \in PriorityWave
    /\ \E out \in FetchSourceForQueries(s) :
         /\ stats' = [stats EXCEPT ![s] = out.stat]
         /\ Counted(out)
         /\ hunt' = [hunt EXCEPT !.asked = @ \cup {s}, !.matched = (out.result = "match")]
         /\ IF out.raises THEN NoteSourceFailure(s) /\ UNCHANGED cache
            ELSE NoteSourceSuccess(s) /\ cache' = [cache EXCEPT ![s] = out.result]
    /\ UNCHANGED <<site, setting, refresh, settled>>

PrioritySearchDone ==
    /\ hunt.at = "waves" /\ (hunt.matched \/ hunt.asked = hunt.ready)
    /\ hunt' = NoHunt
    /\ UNCHANGED <<site, stats, failures, cooling, cache, setting, refresh, settled, sourceFaults>>

-----------------------------------------------------------------------------
(* The timed refresh *)

FetchDueSources ==
    /\ refresh.at = "idle"
    /\ LET due == setting.enabled \ setting.checked
       IN  due # {} /\ refresh' = [at |-> "fetch", due |-> due, done |-> {}, copy |-> setting]
    /\ UNCHANGED <<site, stats, failures, cooling, cache, hunt, setting, settled, sourceFaults>>

\* If the outcome cannot be written, the refresh ends without its times.
RefreshSource(s) ==
    /\ refresh.at = "fetch" /\ s \in refresh.due \ refresh.done
    /\ \E out \in FetchSource(s) :
         /\ stats' = [stats EXCEPT ![s] = out.stat]
         /\ Counted(out)
         /\ refresh' = IF out.raises THEN NoRefresh
                       ELSE [refresh EXCEPT !.done = @ \cup {s},
                                            !.at = IF refresh.due = refresh.done \cup {s} THEN "persist" ELSE @]
         /\ settled' = IF refresh'.at = "persist" THEN setting.rev ELSE settled
    /\ UNCHANGED <<site, failures, cooling, cache, hunt, setting>>

\* Mutant: the setting is not read again, the copy from the start is written.
PersistKeepsCopy ==
    /\ refresh.at = "persist"
    /\ refresh' = [refresh EXCEPT !.at = "save"]
    /\ UNCHANGED <<site, stats, failures, cooling, cache, hunt, setting, settled, sourceFaults>>

\* The setting is read again, and written with the times.
PersistReadsSetting ==
    /\ refresh.at = "persist"
    /\ refresh' = [refresh EXCEPT !.at = "save", !.copy = setting]
    /\ UNCHANGED <<site, stats, failures, cooling, cache, hunt, setting, settled, sourceFaults>>

PersistSourceRefreshTimes ==
    /\ refresh.at = "save"
    /\ setting' = [refresh.copy EXCEPT !.checked = @ \cup refresh.done]
    /\ refresh' = NoRefresh
    /\ UNCHANGED <<site, stats, failures, cooling, cache, hunt, settled, sourceFaults>>

-----------------------------------------------------------------------------
(* Others *)

UserEditsSources(s) ==
    /\ setting.rev < MaxEdits /\ s \in TimedSource
    /\ setting' = [setting EXCEPT !.rev = @ + 1,
                                  !.enabled = IF s \in @ THEN @ \ {s} ELSE @ \cup {s}]
    /\ UNCHANGED <<site, stats, failures, cooling, cache, hunt, refresh, settled, sourceFaults>>

SiteBreaks(s) ==
    /\ sourceFaults < MaxSourceFaults /\ sourceFaults' = sourceFaults + 1
    /\ \E kind \in {"nomatch", "down", "challenge"} : site' = [site EXCEPT ![s] = kind]
    /\ UNCHANGED <<stats, failures, cooling, cache, hunt, setting, refresh, settled>>

SiteHasMatch(s) ==
    /\ site[s] # "match"
    /\ site' = [site EXCEPT ![s] = "match"]
    /\ UNCHANGED <<stats, failures, cooling, cache, hunt, setting, refresh, settled, sourceFaults>>

\* The interval of a source passes.
ComesDue(s) ==
    /\ s \in setting.checked \cap TimedSource
    /\ setting' = [setting EXCEPT !.checked = @ \ {s}]
    /\ UNCHANGED <<site, stats, failures, cooling, cache, hunt, refresh, settled, sourceFaults>>

\* 10 minutes without a record, or without a failure, 3 minutes of cooldown, and
\* the age of a stored answer.
StatsGrowOld(s) ==
    /\ stats[s].fresh
    /\ \E still \in {FALSE} \cup {stats[s].errorFresh} :
         stats' = [stats EXCEPT ![s] = [@ EXCEPT !.errorFresh = FALSE, !.fresh = still]]
    /\ UNCHANGED <<site, failures, cooling, cache, hunt, setting, refresh, settled, sourceFaults>>

SourceOnCooldownEnds(s) ==
    /\ s \in cooling /\ cooling' = cooling \ {s} /\ failures' = [failures EXCEPT ![s] = 0]
    /\ UNCHANGED <<site, stats, cache, hunt, setting, refresh, settled, sourceFaults>>

CachedResultsExpire(s) ==
    /\ cache[s] # "none" /\ cache' = [cache EXCEPT ![s] = "none"]
    /\ UNCHANGED <<site, stats, failures, cooling, hunt, setting, refresh, settled, sourceFaults>>

-----------------------------------------------------------------------------
SourcesInit ==
    /\ site = [s \in SourceId |-> "match"]
    /\ stats = [s \in SourceId |-> [lead |-> 0, errorFresh |-> FALSE, fresh |-> FALSE, slow |-> FALSE]]
    /\ failures = [s \in SourceId |-> 0] /\ cooling = {}
    /\ cache = [s \in SourceId |-> "none"]
    /\ setting = [rev |-> 0, enabled |-> SourceId, checked |-> SourceId]
    /\ hunt = NoHunt /\ refresh = NoRefresh /\ settled = 0 /\ sourceFaults = 0

HuntStep == PrioritySearchDone \/ \E s \in SourceId : SearchPriorityWave(s)
RefreshStep == PersistReadsSetting \/ PersistSourceRefreshTimes \/ \E s \in SourceId : RefreshSource(s)
SourceTimePasses(s) == StatsGrowOld(s) \/ SourceOnCooldownEnds(s) \/ CachedResultsExpire(s)

SourcesNext ==
    \/ StartHunt \/ HuntStep
    \/ FetchDueSources \/ RefreshStep
    \/ \E s \in SourceId : \/ UserEditsSources(s) \/ SiteBreaks(s) \/ SiteHasMatch(s)
                           \/ ComesDue(s) \/ SourceTimePasses(s)

SourcesFairness ==
    /\ WF_sourcesVars(StartHunt) /\ WF_sourcesVars(HuntStep)
    /\ \A s \in SourceId : /\ SF_sourcesVars(StatsGrowOld(s)) /\ SF_sourcesVars(SourceOnCooldownEnds(s))
                           /\ SF_sourcesVars(CachedResultsExpire(s))

SourcesSpec == SourcesInit /\ [][SourcesNext]_sourcesVars /\ SourcesFairness

-----------------------------------------------------------------------------
(* Properties *)

\* Failures, slow answers and cooldowns, and the empty answers that stand for
\* them in the cache, do not lock a source out: once it is enabled and has matches
\* for good, searches find a match again and again.
SourceComesBack ==
    (\E s \in SourceId : <>[](site[s] = "match" /\ s \in setting.enabled)) => []<>hunt.matched

\* The refresh writes back a whole setting that it read long after its sources: an
\* edit that was saved while they were asked is not undone.
RefreshKeepsEdits == settled <= setting.rev
=============================================================================
