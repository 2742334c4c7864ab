---------------------------- MODULE Subscriptions ----------------------------
(***************************************************************************)
(* The rows of one show: the user creates, pauses, resumes and deletes them,   *)
(* syncs compare copies of them with a snapshot of the Emby library and the    *)
(* episode count of TMDB, and searches judge them too. Whoever finds the show   *)
(* complete ends the subscription and tells the user. Between the reading of a  *)
(* row and the writing lie the answers of Emby and TMDB.                        *)
(*                                                                         *)
(* A row has the status, the number of episodes in the library and the number   *)
(* that exist; of the rows of a show, the database admits one that is open.      *)
(***************************************************************************)
EXTENDS Integers, FiniteSets

CONSTANTS RowId,        \* ids of rows, in the order of their creation
          Pass,         \* syncs: "create" of a new row, others of the list
          MaxEpisodes,  \* bound: episodes of the show
          MaxOutages,    \* bound: failures of Emby or TMDB
          MaxRequests   \* bound: requests of the user

ASSUME SubscriptionsAssumption ==
    /\ RowId \subseteq Nat /\ IsFiniteSet(RowId) /\ RowId # {}
    /\ "create" \in Pass /\ IsFiniteSet(Pass)
    /\ MaxEpisodes \in Nat /\ MaxOutages \in Nat /\ MaxRequests \in Nat

VARIABLES entry,        \* [RowId -> row]
          airing,       \* episodes that TMDB knows
          library,      \* episodes that Emby has
          snapshot,     \* _emby_snapshot_cache: episodes counted; -1: none
          sync,         \* [Pass -> state of the sync]
          judge,        \* the search that judges a row
          outages,
          requests

subsVars == <<entry, airing, library, snapshot, sync, judge, outages, requests>>

Absent == [status |-> "absent", owned |-> 0, total |-> 0]
IdleSync == [at |-> "idle", rows |-> {}, copy |-> [i \in RowId |-> Absent], count |-> 0,
             detail |-> [i \in RowId |-> 0], notify |-> {}]
IdleJudge == [at |-> "idle", id |-> 0, copy |-> Absent, notify |-> {}]

Entries == {i \in RowId : entry[i].status # "absent"}
Open(rows) == {i \in RowId : rows[i].status \in {"active", "paused"}}

\* idx_subscriptions_tmdb_unique
Admitted(rows) == Cardinality(Open(rows)) <= 1

RowIsComplete(r) == r.total > 0 /\ r.owned >= r.total
RowShouldHide(r) == r.status = "completed" \/ RowIsComplete(r)

ActiveSubscriptions == {i \in Entries : entry[i].status = "active" /\ ~RowShouldHide(entry[i])}

-----------------------------------------------------------------------------
(* The snapshot of the library: for 10 minutes the answer, then a fall-back *)

CachedSnapshot == IF snapshot >= 0 THEN {[count |-> snapshot, failed |-> FALSE]} ELSE {}

\* A failure is answered with the cache for six hours; -1 is no answer.
FailedOrStale == {[count |-> c, failed |-> TRUE] : c \in {-1, snapshot}}

RefreshLibrarySnapshot ==
    {[count |-> library, failed |-> FALSE]} \cup (IF outages < MaxOutages THEN FailedOrStale ELSE {})

\* How old the cache is, is left open.
LibrarySnapshotOrNone(force) == RefreshLibrarySnapshot \cup (IF force THEN {} ELSE CachedSnapshot)

SnapshotGiven(answer) ==
    /\ snapshot' = IF answer.failed THEN snapshot ELSE answer.count
    /\ outages' = IF answer.failed THEN outages + 1 ELSE outages

-----------------------------------------------------------------------------
(* A sync: snapshot, TMDB, one transaction, notifications *)

CopyOf(rows) == [i \in RowId |-> IF i \in rows THEN entry[i] ELSE Absent]

SyncBegins(p, rows, force) ==
    /\ sync[p].at = "idle" /\ rows # {}
    /\ \E answer \in LibrarySnapshotOrNone(force) :
         /\ SnapshotGiven(answer)
         /\ sync' = IF answer.count < 0 THEN sync
                    ELSE [sync EXCEPT ![p] = [IdleSync EXCEPT !.at = "details", !.rows = rows,
                                                              !.copy = CopyOf(rows), !.count = answer.count]]

\* The job of the worker syncs all rows and forces a new snapshot; the realtime
\* monitor and a search of all sync the active ones.
SyncSubscriptionList(p, all) ==
    /\ p # "create"
    /\ IF all THEN SyncBegins(p, Entries, TRUE) ELSE SyncBegins(p, ActiveSubscriptions, FALSE)
    /\ UNCHANGED <<entry, airing, library, judge, requests>>

NeedsTmdbDetail(r) == r.status # "completed" /\ (r.total = 0 \/ r.owned >= r.total)

\* TMDB is asked for row after row; a failure leaves what is known.
MissingTmdbDetails(p) ==
    /\ sync[p].at = "details"
    /\ LET needed == {i \in sync[p].rows : NeedsTmdbDetail(sync[p].copy[i])}
       IN  \E answered \in SUBSET needed :
             /\ answered = needed \/ outages < MaxOutages
             /\ outages' = IF answered = needed THEN outages ELSE outages + 1
             /\ sync' = [sync EXCEPT ![p] =
                  [@ EXCEPT !.at = "write", !.detail = [i \in RowId |-> IF i \in answered THEN airing ELSE 0]]]
    /\ UNCHANGED <<entry, airing, library, snapshot, judge, requests>>

LibraryState(copy, count, detail) ==
    LET total == IF detail # 0 THEN detail ELSE copy.total
        done  == copy.status = "completed" \/ RowIsComplete([copy EXCEPT !.owned = count, !.total = total])
    IN  [status |-> IF done THEN "completed" ELSE copy.status, owned |-> count, total |-> total]

NewlyCompleted(copy, state) == state.status = "completed" /\ copy.status # "completed"

\* Mutant: only the counts are compared.
CountsUnchanged(copy, state) == copy.owned = state.owned /\ copy.total = state.total

SubscriptionStateUnchanged(copy, state) == copy = state

\* Mutant: whether the row has ended by now is not looked at.
UpdatesCompletedRow(i, copy, state) ==
    ~SubscriptionStateUnchanged(copy, state) /\ entry[i].status # "absent"

\* The rows that the transaction changes: only the completion looks at the
\* status the row has by now.
UpdatesRow(i, copy, state) ==
    /\ ~SubscriptionStateUnchanged(copy, state)
    /\ entry[i].status # "absent"
    /\ NewlyCompleted(copy, state) => entry[i].status # "completed"

SyncSubscriptionsWithSnapshot(p) ==
    LET me    == sync[p]
        state == [i \in RowId |-> LibraryState(me.copy[i], me.count, me.detail[i])]
        hit   == {i \in me.rows : UpdatesRow(i, me.copy[i], state[i])}
        rows  == [i \in RowId |-> IF i \in hit THEN state[i] ELSE entry[i]]
        ended == {i \in hit : NewlyCompleted(me.copy[i], state[i])}
    IN  /\ me.at = "write"
        /\ IF Admitted(rows)
           THEN /\ entry' = rows
                /\ sync' = [sync EXCEPT ![p] = IF ended = {} THEN IdleSync
                                               ELSE [IdleSync EXCEPT !.at = "notify", !.notify = ended]]
           ELSE sync' = [sync EXCEPT ![p] = IdleSync] /\ UNCHANGED entry
        /\ UNCHANGED <<airing, library, snapshot, judge, outages, requests>>

SyncNotifies(p) ==
    /\ sync[p].at = "notify"
    /\ sync' = [sync EXCEPT ![p] = IdleSync]
    /\ UNCHANGED <<entry, airing, library, snapshot, judge, outages, requests>>

-----------------------------------------------------------------------------
(* A search, or the realtime monitor, judges one row *)

\* A count that the library has reached is asked for again, at most every 6 hours.
NeedsTmdbEnrichment(r) == r.total = 0 \/ r.owned >= r.total

\* The totals that the row may have next.
EnrichSubscriptionWithTmdb(r) == {r.total} \cup (IF NeedsTmdbEnrichment(r) THEN {airing} ELSE {})

\* The row is read, TMDB completes it, and the copy waits for the library.
JudgeBegins(i) ==
    /\ judge.at = "idle"
    /\ i \in Entries /\ entry[i].status = "active"
    /\ \E total \in EnrichSubscriptionWithTmdb(entry[i]) :
         /\ entry' = [entry EXCEPT ![i].total = total]
         /\ judge' = [judge EXCEPT !.at = "library", !.id = i, !.copy = [entry[i] EXCEPT !.total = total]]
    /\ UNCHANGED <<airing, library, snapshot, sync, outages, requests>>

\* A snapshot without an episode leaves the count that the row had.
EnrichTvSubscription(copy, count) == [copy EXCEPT !.owned = IF count > 0 THEN count ELSE @]

\* Ends a row, if nobody has yet.
MarkCompleted(i) == entry' = [entry EXCEPT ![i].status = "completed"]

EnrichSubscriptionWithLibrary ==
    /\ judge.at = "library"
    /\ \E answer \in LibrarySnapshotOrNone(FALSE) :
         LET seen == EnrichTvSubscription(judge.copy, answer.count)
             ends == RowShouldHide(seen) /\ entry[judge.id].status \notin {"absent", "completed"}
         IN  /\ SnapshotGiven(answer)
             /\ IF ends THEN MarkCompleted(judge.id) ELSE UNCHANGED entry
             /\ judge' = IF ends THEN [IdleJudge EXCEPT !.at = "notify", !.notify = {judge.id}] ELSE IdleJudge
    /\ UNCHANGED <<airing, library, sync, requests>>

JudgeNotifies ==
    /\ judge.at = "notify"
    /\ judge' = IdleJudge
    /\ UNCHANGED <<entry, airing, library, snapshot, sync, outages, requests>>

-----------------------------------------------------------------------------
(* The user *)

Oldest(set) == CHOOSE i \in set : \A j \in set : i <= j

\* Any row of the show is taken for the duplicate; one that is complete is
\* ended on the way. The database refuses the new row if another one is open,
\* and the request fails. A row that was made is synced, then searched.
CreateSubscription ==
    LET first == Oldest(Entries)
        ended == IF Entries # {} /\ entry[first].status # "completed"
                 THEN [entry EXCEPT ![first].status = "completed"] ELSE entry
        id    == Oldest(RowId \ Entries)
        rows  == [ended EXCEPT ![id] = [status |-> "active", owned |-> 0, total |-> 0]]
    IN  /\ requests < MaxRequests
        /\ RowId \ Entries # {}
        /\ Entries # {} => RowShouldHide(entry[first])
        /\ requests' = requests + 1
        /\ IF Admitted(rows)
           THEN /\ sync["create"].at = "idle"
                /\ entry' = rows
                /\ sync' = [sync EXCEPT !["create"] = [IdleSync EXCEPT !.at = "begin", !.rows = {id}]]
           ELSE entry' = ended /\ UNCHANGED sync
        /\ UNCHANGED <<airing, library, snapshot, judge, outages>>

\* The row is read again; no snapshot, no sync.
SyncCreatedSubscription ==
    /\ sync["create"].at = "begin"
    /\ IF sync["create"].rows \cap Entries = {}
       THEN sync' = [sync EXCEPT !["create"] = IdleSync] /\ UNCHANGED <<snapshot, outages>>
       ELSE \E answer \in LibrarySnapshotOrNone(FALSE) :
              /\ SnapshotGiven(answer)
              /\ sync' = IF answer.count < 0 THEN [sync EXCEPT !["create"] = IdleSync]
                         ELSE [sync EXCEPT !["create"] =
                                [@ EXCEPT !.at = "details", !.copy = CopyOf(sync["create"].rows), !.count = answer.count]]
    /\ UNCHANGED <<entry, airing, library, judge, requests>>

\* "completed" from the user deletes the row.
UpdateSubscription(i, wanted) ==
    /\ requests < MaxRequests
    /\ i \in Entries /\ entry[i].status # wanted
    /\ LET rows == [entry EXCEPT ![i].status = wanted]
       IN  Admitted(rows) /\ entry' = rows
    /\ requests' = requests + 1
    /\ UNCHANGED <<airing, library, snapshot, sync, judge, outages>>

DeleteSubscription(i) ==
    /\ requests < MaxRequests
    /\ i \in Entries
    /\ entry' = [entry EXCEPT ![i] = Absent]
    /\ requests' = requests + 1
    /\ UNCHANGED <<airing, library, snapshot, sync, judge, outages>>

EpisodeAirs ==
    /\ airing < MaxEpisodes
    /\ airing' = airing + 1
    /\ UNCHANGED <<entry, library, snapshot, sync, judge, outages, requests>>

EpisodeArrives ==
    /\ library < airing
    /\ library' = airing
    /\ UNCHANGED <<entry, airing, snapshot, sync, judge, outages, requests>>

-----------------------------------------------------------------------------
SubscriptionsInit ==
    /\ entry = [i \in RowId |-> IF i = Oldest(RowId) THEN [status |-> "active", owned |-> 0, total |-> 0] ELSE Absent]
    /\ airing = 1 /\ library = 0
    /\ snapshot = -1
    /\ sync = [p \in Pass |-> IdleSync]
    /\ judge = IdleJudge
    /\ outages = 0 /\ requests = 0

SyncStep(p) == MissingTmdbDetails(p) \/ SyncSubscriptionsWithSnapshot(p) \/ SyncNotifies(p)
JudgeStep == EnrichSubscriptionWithLibrary \/ JudgeNotifies

SubscriptionsNext ==
    \/ \E p \in Pass, all \in BOOLEAN : SyncSubscriptionList(p, all)
    \/ \E p \in Pass : SyncStep(p)
    \/ \E i \in RowId : JudgeBegins(i)
    \/ JudgeStep
    \/ CreateSubscription \/ SyncCreatedSubscription
    \/ \E i \in RowId, wanted \in {"active", "paused"} : UpdateSubscription(i, wanted)
    \/ \E i \in RowId : DeleteSubscription(i)
    \/ EpisodeAirs \/ EpisodeArrives

\* The monitor queues the sync of all rows every ten minutes as a job of its own,
\* so that no other pass keeps it out, and what has begun goes on.
SubscriptionsFairness ==
    /\ \A p \in Pass \ {"create"} : SF_subsVars(SyncSubscriptionList(p, TRUE))
    /\ \A p \in Pass : WF_subsVars(SyncStep(p))
    /\ WF_subsVars(JudgeStep)

SubscriptionsSpec == SubscriptionsInit /\ [][SubscriptionsNext]_subsVars /\ SubscriptionsFairness

-----------------------------------------------------------------------------
(* Properties *)

Telling(i) ==
    Cardinality({p \in Pass : i \in sync[p].notify}) + Cardinality(judge.notify \cap {i})

\* The user is told of a completion once: whoever tells has itself ended the row,
\* and of several passes that judge the same row only one does. (Not every
\* completion is told: a duplicate check ends rows silently.)
ToldByWhoEndsIt ==
    [][\A i \in RowId : Telling(i)' > Telling(i) =>
         /\ entry[i].status \in {"active", "paused"} /\ entry'[i].status = "completed"
         /\ Telling(i)' = Telling(i) + 1]_subsVars

\* A show whose episodes are all in the library does not stay subscribed, also
\* when passes with older copies reopen its row or undo the counts of another.
CompleteShowEnds ==
    \A i \in RowId : entry[i].status = "active" /\ library = MaxEpisodes ~> entry[i].status # "active"
=============================================================================
