------------------------- MODULE SubscriptionsProofs -------------------------
(***************************************************************************)
(* Who tells the user that a show is complete, for any number of rows and  *)
(* syncs; and what a search leaves behind, for any links, sources and      *)
(* views of the library.                                                   *)
(***************************************************************************)
EXTENDS Subscriptions, SearchFlow, FiniteSetTheorems, WellFoundedInduction, TLAPS

----------------------------------------------------------------------------
(* The rows of a show and who ends them *)

EntryStatus == {"absent", "active", "paused", "completed"}
EntryRow == [status : EntryStatus, owned : Int, total : Int]
SyncState == [at : {"idle", "begin", "details", "write", "notify"}, rows : SUBSET RowId,
              copy : [RowId -> EntryRow], count : Int, detail : [RowId -> Int], notify : SUBSET RowId]
JudgeState == [at : {"idle", "library", "notify"}, id : {0} \cup RowId, copy : EntryRow,
               notify : SUBSET RowId]

\* Only who is about to tell the user has rows to tell of.
ToldInv ==
    /\ entry \in [RowId -> EntryRow]
    /\ airing \in Int /\ library \in Int /\ snapshot \in Int
    /\ sync \in [Pass -> SyncState] /\ judge \in JudgeState
    /\ \A p \in Pass : sync[p].notify # {} => sync[p].at = "notify"
    /\ judge.notify # {} => judge.at = "notify"
    /\ judge.at = "library" => judge.id \in RowId

\* The oldest of some rows is one of them.
LEMMA OldestExists ==
    ASSUME NEW set \in SUBSET RowId, set # {}
    PROVE  Oldest(set) \in set
<1>1. set \subseteq Nat
  BY SubscriptionsAssumption
<1>2. \E x \in set : \A y \in set : ~(<<y, x>> \in OpToRel(<, Nat))
  BY <1>1, WFMin, NatLessThanWellFounded
<1>3. PICK x \in set : \A y \in set : ~(y < x)
  BY <1>1, <1>2 DEF OpToRel
<1>4. \A y \in set : x <= y
  BY <1>1, <1>3
<1>5. QED
  BY <1>4 DEF Oldest

\* A row that is absent, a sync and a judge at rest have their types.
LEMMA IdleTypes ==
    /\ Absent \in EntryRow /\ Absent.status = "absent"
    /\ IdleSync \in SyncState /\ IdleSync.at = "idle" /\ IdleSync.notify = {}
    /\ IdleJudge \in JudgeState /\ IdleJudge.at = "idle" /\ IdleJudge.notify = {}
BY DEF Absent, IdleSync, IdleJudge, EntryRow, EntryStatus, SyncState, JudgeState

\* What the library answers is a number of episodes.
LEMMA AnswersAreCounts ==
    ASSUME ToldInv, NEW force \in BOOLEAN, NEW answer \in LibrarySnapshotOrNone(force), SnapshotGiven(answer)
    PROVE  answer.count \in Int /\ snapshot' \in Int
BY DEF ToldInv, LibrarySnapshotOrNone, RefreshLibrarySnapshot, FailedOrStale, CachedSnapshot, SnapshotGiven

\* A copy of rows is rows.
LEMMA CopiesAreRows ==
    ASSUME ToldInv, NEW rows \in SUBSET RowId
    PROVE  CopyOf(rows) \in [RowId -> EntryRow]
BY IdleTypes DEF ToldInv, CopyOf

\* What a sync makes of its copy is a row.
LEMMA StatesAreRows ==
    ASSUME NEW copy \in EntryRow, NEW count \in Int, NEW detail \in Int
    PROVE  LibraryState(copy, count, detail) \in EntryRow
<1> DEFINE total == IF detail # 0 THEN detail ELSE copy.total
<1>1. total \in Int /\ copy.status \in EntryStatus /\ "completed" \in EntryStatus
  BY DEF EntryRow, EntryStatus
<1> HIDE DEF total
<1>2. LibraryState(copy, count, detail) =
        [status |-> IF copy.status = "completed" \/ RowIsComplete([copy EXCEPT !.owned = count, !.total = total])
                    THEN "completed" ELSE copy.status,
         owned |-> count, total |-> total]
  BY DEF LibraryState, total
<1>3. PICK done \in BOOLEAN : LibraryState(copy, count, detail) =
        [status |-> IF done THEN "completed" ELSE copy.status, owned |-> count, total |-> total]
  BY <1>2 DEF RowIsComplete
<1>4. QED
  BY <1>1, <1>3 DEF EntryRow

\* What is listed are rows.
LEMMA SubsetsOfOpenAreRows == Entries \subseteq RowId /\ ActiveSubscriptions \subseteq RowId
BY DEF Entries, ActiveSubscriptions

\* At first nobody has anything to tell.
LEMMA ToldAtFirst == SubscriptionsInit => ToldInv
<1> SUFFICES ASSUME SubscriptionsInit PROVE ToldInv
  OBVIOUS
<1>1. entry \in [RowId -> EntryRow]
  BY IdleTypes DEF SubscriptionsInit, EntryRow, EntryStatus
<1>2. QED
  BY <1>1, IdleTypes DEF SubscriptionsInit, ToldInv

\* A sync that lists its rows tells nothing.
LEMMA ListedSyncTells ==
    ASSUME ToldInv, NEW p \in Pass, NEW all \in BOOLEAN, SyncSubscriptionList(p, all)
    PROVE  ToldInv' /\ UNCHANGED <<entry, judge>> /\ \A q \in Pass : sync'[q].notify = sync[q].notify
<1>1. PICK rows \in SUBSET RowId, force \in BOOLEAN : SyncBegins(p, rows, force)
  BY SubsetsOfOpenAreRows DEF SyncSubscriptionList
<1>2. PICK answer \in LibrarySnapshotOrNone(force) :
        /\ SnapshotGiven(answer)
        /\ sync' = IF answer.count < 0 THEN sync
                   ELSE [sync EXCEPT ![p] = [IdleSync EXCEPT !.at = "details", !.rows = rows,
                                                             !.copy = CopyOf(rows), !.count = answer.count]]
  BY <1>1 DEF SyncBegins
<1>3. answer.count \in Int /\ snapshot' \in Int
  BY <1>2, AnswersAreCounts
<1>4. CopyOf(rows) \in [RowId -> EntryRow]
  BY CopiesAreRows
<1>5. PICK new : new = [IdleSync EXCEPT !.at = "details", !.rows = rows, !.copy = CopyOf(rows),
                                        !.count = answer.count]
  OBVIOUS
<1>6. new \in SyncState /\ new.notify = {}
  BY <1>3, <1>4, <1>5, IdleTypes DEF SyncState, IdleSync
<1>7. sync[p].notify = {}
  BY <1>1 DEF ToldInv, SyncBegins
<1>8. sync' = IF answer.count < 0 THEN sync ELSE [sync EXCEPT ![p] = new]
  BY <1>2, <1>5
<1>9. QED
  BY <1>3, <1>6, <1>7, <1>8 DEF ToldInv, SyncSubscriptionList

\* Nor does one that asks TMDB for details.
LEMMA DetailsTellNothing ==
    ASSUME ToldInv, NEW p \in Pass, MissingTmdbDetails(p)
    PROVE  ToldInv' /\ UNCHANGED <<entry, judge>> /\ \A q \in Pass : sync'[q].notify = sync[q].notify
<1>1. PICK answered : sync' = [sync EXCEPT ![p] =
        [@ EXCEPT !.at = "write", !.detail = [i \in RowId |-> IF i \in answered THEN airing ELSE 0]]]
  BY DEF MissingTmdbDetails
<1> DEFINE detail == [i \in RowId |-> IF i \in answered THEN airing ELSE 0]
           new == [sync[p] EXCEPT !.at = "write", !.detail = detail]
<1>2. sync[p] \in SyncState /\ sync[p].at = "details" /\ sync[p].notify = {} /\ airing \in Int
  BY DEF ToldInv, MissingTmdbDetails
<1>3. detail \in [RowId -> Int]
  BY <1>2
<1>4. sync' = [sync EXCEPT ![p] = new]
  BY <1>1, <1>2
<1> HIDE DEF detail
<1>5. new \in SyncState /\ new.notify = {} /\ new.at = "write"
  BY <1>2, <1>3 DEF SyncState
<1> HIDE DEF new
<1>6. QED
  BY <1>2, <1>4, <1>5 DEF ToldInv, MissingTmdbDetails

\* The transaction of a sync tells of the rows that it ends itself.
LEMMA WriteEndsWhatItTells ==
    ASSUME ToldInv, NEW p \in Pass, SyncSubscriptionsWithSnapshot(p)
    PROVE  /\ ToldInv' /\ UNCHANGED judge
           /\ sync[p].notify = {}
           /\ \A q \in Pass \ {p} : sync'[q].notify = sync[q].notify
           /\ \A i \in sync'[p].notify : entry[i].status \in {"active", "paused"} /\ entry'[i].status = "completed"
<1> DEFINE me == sync[p]
           state == [i \in RowId |-> LibraryState(me.copy[i], me.count, me.detail[i])]
           hit == {i \in me.rows : UpdatesRow(i, me.copy[i], state[i])}
           rows == [i \in RowId |-> IF i \in hit THEN state[i] ELSE entry[i]]
           ended == {i \in hit : NewlyCompleted(me.copy[i], state[i])}
           done == IF ended = {} THEN IdleSync ELSE [IdleSync EXCEPT !.at = "notify", !.notify = ended]
<1>1. me \in SyncState /\ me.at = "write" /\ me.notify = {}
  BY DEF ToldInv, SyncSubscriptionsWithSnapshot
<1>2. state \in [RowId -> EntryRow]
  <2>1. \A i \in RowId : me.copy[i] \in EntryRow /\ me.count \in Int /\ me.detail[i] \in Int
    BY <1>1 DEF SyncState
  <2>2. \A i \in RowId : LibraryState(me.copy[i], me.count, me.detail[i]) \in EntryRow
    BY <2>1, StatesAreRows
  <2>3. QED
    BY <2>2
<1>3. hit \subseteq RowId /\ ended \subseteq hit
  BY <1>1 DEF SyncState
<1>4. rows \in [RowId -> EntryRow]
  BY <1>2 DEF ToldInv
<1>5. \A i \in ended : entry[i].status \in {"active", "paused"} /\ rows[i].status = "completed"
  <2> SUFFICES ASSUME NEW i \in ended
               PROVE  entry[i].status \in {"active", "paused"} /\ rows[i].status = "completed"
    OBVIOUS
  <2>1. i \in RowId /\ i \in hit
    BY <1>3
  <2>2. state[i].status = "completed" /\ entry[i].status # "absent" /\ entry[i].status # "completed"
    BY <2>1 DEF UpdatesRow, NewlyCompleted
  <2>3. entry[i].status \in EntryStatus
    BY <2>1 DEF ToldInv, EntryRow
  <2>4. rows[i] = state[i]
    BY <2>1
  <2>5. QED
    BY <2>2, <2>3, <2>4 DEF EntryStatus
<1>6. IF Admitted(rows) THEN entry' = rows /\ sync' = [sync EXCEPT ![p] = done]
      ELSE sync' = [sync EXCEPT ![p] = IdleSync] /\ UNCHANGED entry
  BY DEF SyncSubscriptionsWithSnapshot
<1>7. UNCHANGED <<airing, library, snapshot, judge>>
  BY DEF SyncSubscriptionsWithSnapshot
<1> HIDE DEF rows, hit, state
<1>8. /\ done \in SyncState /\ done.notify \subseteq ended
      /\ done.notify # {} => done.at = "notify"
  BY <1>3, IdleTypes DEF SyncState, IdleSync
<1> HIDE DEF ended, done
<1>9. PICK new \in SyncState :
        /\ sync' = [sync EXCEPT ![p] = new]
        /\ new.notify # {} => new.at = "notify"
        /\ \A i \in new.notify : entry[i].status \in {"active", "paused"} /\ entry'[i].status = "completed"
  BY <1>5, <1>6, <1>8, IdleTypes
<1>10. entry' \in [RowId -> EntryRow]
  BY <1>4, <1>6 DEF ToldInv
<1>11. QED
  BY <1>1, <1>7, <1>9, <1>10 DEF ToldInv

\* A sync that notifies has less to tell.
LEMMA NotifyingTellsLess ==
    ASSUME ToldInv, NEW p \in Pass, SyncNotifies(p)
    PROVE  /\ ToldInv' /\ UNCHANGED <<entry, judge>>
           /\ \A q \in Pass : sync'[q].notify \subseteq sync[q].notify
BY IdleTypes DEF ToldInv, SyncNotifies

\* A search that begins to judge tells nothing.
LEMMA JudgeBeginningTellsNothing ==
    ASSUME ToldInv, NEW i \in RowId, JudgeBegins(i)
    PROVE  ToldInv' /\ UNCHANGED sync /\ judge'.notify = judge.notify
<1>1. PICK total \in EnrichSubscriptionWithTmdb(entry[i]) :
         /\ entry' = [entry EXCEPT ![i].total = total]
         /\ judge' = [judge EXCEPT !.at = "library", !.id = i, !.copy = [entry[i] EXCEPT !.total = total]]
  BY DEF JudgeBegins
<1>2. entry[i] \in EntryRow /\ airing \in Int
  BY DEF ToldInv
<1>3. total \in Int
  BY <1>2 DEF EnrichSubscriptionWithTmdb, EntryRow
<1>4. PICK copy \in EntryRow : copy = [entry[i] EXCEPT !.total = total]
  BY <1>2, <1>3 DEF EntryRow
<1>5. entry' \in [RowId -> EntryRow]
  BY <1>1, <1>4 DEF ToldInv
<1>6. judge' \in JudgeState /\ judge'.at = "library" /\ judge'.id = i /\ judge'.notify = judge.notify
  BY <1>1, <1>4 DEF ToldInv, JudgeState
<1>7. judge.notify = {}
  BY DEF ToldInv, JudgeBegins
<1>8. QED
  BY <1>5, <1>6, <1>7 DEF ToldInv, JudgeBegins

\* The judge tells of the row that it ends itself.
LEMMA JudgeEndsWhatItTells ==
    ASSUME ToldInv, EnrichSubscriptionWithLibrary
    PROVE  /\ ToldInv' /\ UNCHANGED sync
           /\ judge.notify = {}
           /\ \A i \in judge'.notify : /\ entry[i].status \in {"active", "paused"} /\ entry'[i].status = "completed"
                                       /\ judge'.notify = {i}
<1>1. PICK answer \in LibrarySnapshotOrNone(FALSE), ends \in BOOLEAN :
         /\ SnapshotGiven(answer)
         /\ ends => entry[judge.id].status \notin {"absent", "completed"}
         /\ IF ends THEN MarkCompleted(judge.id) ELSE UNCHANGED entry
         /\ judge' = IF ends THEN [IdleJudge EXCEPT !.at = "notify", !.notify = {judge.id}] ELSE IdleJudge
  <2>1. PICK answer \in LibrarySnapshotOrNone(FALSE) :
           LET seen == EnrichTvSubscription(judge.copy, answer.count)
               ends == RowShouldHide(seen) /\ entry[judge.id].status \notin {"absent", "completed"}
           IN  /\ SnapshotGiven(answer)
               /\ IF ends THEN MarkCompleted(judge.id) ELSE UNCHANGED entry
               /\ judge' = IF ends THEN [IdleJudge EXCEPT !.at = "notify", !.notify = {judge.id}] ELSE IdleJudge
    BY DEF EnrichSubscriptionWithLibrary
  <2>2. PICK ends \in BOOLEAN :
          ends = (/\ RowShouldHide(EnrichTvSubscription(judge.copy, answer.count))
                  /\ entry[judge.id].status \notin {"absent", "completed"})
    OBVIOUS
  <2>3. QED
    BY <2>1, <2>2
<1>2. snapshot' \in Int
  BY <1>1, AnswersAreCounts
<1>3. judge.id \in RowId /\ judge.notify = {} /\ judge \in JudgeState /\ entry \in [RowId -> EntryRow]
  BY DEF ToldInv, EnrichSubscriptionWithLibrary
<1>4. entry[judge.id].status \in EntryStatus /\ "completed" \in EntryStatus
  BY <1>3 DEF EntryRow, EntryStatus
<1>5. entry' \in [RowId -> EntryRow] /\ (ends => entry'[judge.id].status = "completed")
  BY <1>1, <1>3, <1>4 DEF MarkCompleted, EntryRow
<1>6. PICK told : told = [IdleJudge EXCEPT !.at = "notify", !.notify = {judge.id}]
  OBVIOUS
<1>7. told \in JudgeState /\ told.at = "notify" /\ told.notify = {judge.id}
  BY <1>3, <1>6, IdleTypes DEF JudgeState, IdleJudge
<1>8. judge' = IF ends THEN told ELSE IdleJudge
  BY <1>1, <1>6
<1>9. ToldInv'
  BY <1>2, <1>5, <1>7, <1>8, IdleTypes DEF ToldInv, EnrichSubscriptionWithLibrary
<1>10. ASSUME NEW i \in judge'.notify
       PROVE  entry[i].status \in {"active", "paused"} /\ entry'[i].status = "completed" /\ judge'.notify = {i}
  <2>1. ends /\ i = judge.id /\ judge'.notify = {judge.id}
    BY <1>7, <1>8, <1>10, IdleTypes
  <2>2. entry[i].status \in {"active", "paused"}
    BY <1>1, <1>4, <2>1 DEF EntryStatus
  <2>3. QED
    BY <1>5, <2>1, <2>2
<1>11. QED
  BY <1>3, <1>9, <1>10 DEF EnrichSubscriptionWithLibrary

\* When it notifies, it has nothing more to tell.
LEMMA JudgeNotifyingTellsLess ==
    ASSUME ToldInv, JudgeNotifies
    PROVE  ToldInv' /\ UNCHANGED <<entry, sync>> /\ judge'.notify = {}
BY IdleTypes DEF ToldInv, JudgeNotifies

\* A creation tells nothing.
LEMMA CreatingTellsNothing ==
    ASSUME ToldInv, CreateSubscription
    PROVE  ToldInv' /\ UNCHANGED judge /\ \A q \in Pass : sync'[q].notify \subseteq sync[q].notify
<1> DEFINE first == Oldest(Entries)
           ended == IF Entries # {} /\ entry[first].status # "completed"
                    THEN [entry EXCEPT ![first].status = "completed"] ELSE entry
           id == Oldest(RowId \ Entries)
           fresh == [status |-> "active", owned |-> 0, total |-> 0]
           rows == [ended EXCEPT ![id] = fresh]
           begun == [IdleSync EXCEPT !.at = "begin", !.rows = {id}]
<1>1. ended \in [RowId -> EntryRow]
  <2>1. Entries # {} => first \in RowId
    BY OldestExists, SubsetsOfOpenAreRows
  <2>2. CASE Entries # {}
    <3>1. entry[first] \in EntryRow /\ "completed" \in EntryStatus
      BY <2>1, <2>2 DEF ToldInv, EntryStatus
    <3>2. [entry[first] EXCEPT !.status = "completed"] \in EntryRow
      BY <3>1 DEF EntryRow
    <3>3. QED
      BY <2>1, <2>2, <3>2 DEF ToldInv
  <2>3. CASE Entries = {}
    BY <2>3 DEF ToldInv
  <2>4. QED
    BY <2>2, <2>3
<1>2. id \in RowId
  <2>1. RowId \ Entries # {} /\ RowId \ Entries \in SUBSET RowId
    BY DEF CreateSubscription
  <2>2. QED
    BY <2>1, OldestExists
<1>3. fresh \in EntryRow
  BY DEF EntryRow, EntryStatus
<1>4. begun \in SyncState /\ begun.notify = {}
  BY <1>2, IdleTypes DEF SyncState, IdleSync
<1>5. \/ /\ sync["create"].at = "idle" /\ entry' = rows
         /\ sync' = [sync EXCEPT !["create"] = begun]
      \/ entry' = ended /\ UNCHANGED sync
  BY DEF CreateSubscription
<1>6. UNCHANGED <<airing, library, snapshot, judge>> /\ "create" \in Pass
  BY SubscriptionsAssumption DEF CreateSubscription
<1> HIDE DEF ended, id, fresh, begun
<1>7. entry' \in [RowId -> EntryRow]
  BY <1>1, <1>3, <1>5
<1>8. sync' \in [Pass -> SyncState] /\ \A q \in Pass : \/ sync'[q] = sync[q]
                                                       \/ sync'[q].notify = {}
  BY <1>4, <1>5, <1>6 DEF ToldInv
<1>9. \A q \in Pass : /\ sync'[q].notify # {} => sync'[q].at = "notify"
                      /\ sync'[q].notify \subseteq sync[q].notify
  BY <1>8 DEF ToldInv
<1>10. QED
  BY <1>6, <1>7, <1>8, <1>9 DEF ToldInv

\* Nor does the sync of the row it made, when it begins.
LEMMA CreatedSyncTellsNothing ==
    ASSUME ToldInv, SyncCreatedSubscription
    PROVE  ToldInv' /\ UNCHANGED <<entry, judge>> /\ \A q \in Pass : sync'[q].notify \subseteq sync[q].notify
<1> DEFINE old == sync["create"]
           copy == CopyOf(old.rows)
<1>1. "create" \in Pass /\ old \in SyncState /\ old.at = "begin" /\ old.notify = {}
  BY SubscriptionsAssumption DEF ToldInv, SyncCreatedSubscription
<1>2. copy \in [RowId -> EntryRow]
  BY <1>1, CopiesAreRows DEF SyncState
<1>3. \/ sync' = [sync EXCEPT !["create"] = IdleSync] /\ UNCHANGED snapshot
      \/ \E answer \in LibrarySnapshotOrNone(FALSE) :
            /\ SnapshotGiven(answer)
            /\ \/ sync' = [sync EXCEPT !["create"] = IdleSync]
               \/ sync' = [sync EXCEPT !["create"] =
                            [old EXCEPT !.at = "details", !.copy = copy, !.count = answer.count]]
  BY <1>1 DEF SyncCreatedSubscription, ToldInv
<1> HIDE DEF old, copy
<1>4. PICK new \in SyncState :
        /\ new.notify = {} /\ sync' = [sync EXCEPT !["create"] = new]
        /\ snapshot' \in Int
  <2>1. CASE sync' = [sync EXCEPT !["create"] = IdleSync] /\ UNCHANGED snapshot
    BY <2>1, IdleTypes DEF ToldInv
  <2>2. ASSUME NEW answer \in LibrarySnapshotOrNone(FALSE), SnapshotGiven(answer),
               \/ sync' = [sync EXCEPT !["create"] = IdleSync]
               \/ sync' = [sync EXCEPT !["create"] =
                            [old EXCEPT !.at = "details", !.copy = copy, !.count = answer.count]]
        PROVE  \E n \in SyncState :
                  n.notify = {} /\ sync' = [sync EXCEPT !["create"] = n] /\ snapshot' \in Int
    <3>1. answer.count \in Int /\ snapshot' \in Int
      BY <2>2, AnswersAreCounts
    <3> DEFINE begun == [old EXCEPT !.at = "details", !.copy = copy, !.count = answer.count]
    <3>2. begun \in SyncState /\ begun.notify = {}
      BY <1>1, <1>2, <3>1 DEF SyncState
    <3>3. sync' = [sync EXCEPT !["create"] = IdleSync] \/ sync' = [sync EXCEPT !["create"] = begun]
      BY <2>2
    <3> HIDE DEF begun
    <3>4. QED
      BY <3>1, <3>2, <3>3, IdleTypes
  <2>3. QED
    BY <1>3, <2>1, <2>2
<1>5. \A q \in Pass : /\ sync'[q].notify # {} => sync'[q].at = "notify"
                      /\ sync'[q].notify \subseteq sync[q].notify
  BY <1>4 DEF ToldInv
<1>6. QED
  BY <1>1, <1>4, <1>5 DEF ToldInv, SyncCreatedSubscription

\* Nor do the user, new episodes and the library.
LEMMA OthersTellNothing ==
    ASSUME ToldInv,
           \/ \E i \in RowId, wanted \in {"active", "paused"} : UpdateSubscription(i, wanted)
           \/ \E i \in RowId : DeleteSubscription(i)
           \/ EpisodeAirs \/ EpisodeArrives \/ UNCHANGED subsVars
    PROVE  ToldInv' /\ UNCHANGED <<sync, judge>>
<1>1. entry' \in [RowId -> EntryRow]
  <2>1. ASSUME NEW i \in RowId, NEW wanted \in {"active", "paused"}, UpdateSubscription(i, wanted)
        PROVE  entry' \in [RowId -> EntryRow]
    <3>1. entry' = [entry EXCEPT ![i] = [entry[i] EXCEPT !.status = wanted]] /\ entry[i] \in EntryRow
      BY <2>1 DEF UpdateSubscription, ToldInv
    <3>2. [entry[i] EXCEPT !.status = wanted] \in EntryRow
      BY <3>1 DEF EntryRow, EntryStatus
    <3>3. QED
      BY <3>1, <3>2 DEF ToldInv
  <2>2. ASSUME NEW i \in RowId, DeleteSubscription(i)
        PROVE  entry' \in [RowId -> EntryRow]
    BY <2>2, IdleTypes DEF DeleteSubscription, ToldInv
  <2>3. CASE EpisodeAirs \/ EpisodeArrives \/ UNCHANGED subsVars
    BY <2>3 DEF EpisodeAirs, EpisodeArrives, subsVars, ToldInv
  <2>4. QED
    BY <2>1, <2>2, <2>3
<1>2. UNCHANGED <<snapshot, sync, judge>> /\ airing' \in Int /\ library' \in Int
  <2>1. ASSUME NEW i \in RowId, NEW wanted \in {"active", "paused"}, UpdateSubscription(i, wanted)
        PROVE  UNCHANGED <<airing, library, snapshot, sync, judge>>
    BY <2>1 DEF UpdateSubscription
  <2>2. ASSUME NEW i \in RowId, DeleteSubscription(i)
        PROVE  UNCHANGED <<airing, library, snapshot, sync, judge>>
    BY <2>2 DEF DeleteSubscription
  <2>3. CASE EpisodeAirs \/ EpisodeArrives \/ UNCHANGED subsVars
    BY <2>3 DEF EpisodeAirs, EpisodeArrives, subsVars, ToldInv
  <2>4. QED
    BY <2>1, <2>2, <2>3 DEF ToldInv
<1>3. QED
  BY <1>1, <1>2 DEF ToldInv

-----------------------------------------------------------------------------
(* Counting who tells *)

Ends(i) == entry[i].status \in {"active", "paused"} /\ entry'[i].status = "completed"

\* Who has less to tell does not add to what is told of a row.
LEMMA FewerTell ==
    ASSUME ToldInv, NEW i \in RowId, judge'.notify \cap {i} \subseteq judge.notify \cap {i},
           \A q \in Pass : sync'[q].notify \subseteq sync[q].notify
    PROVE  ~(Telling(i)' > Telling(i))
<1> DEFINE was == {p \in Pass : i \in sync[p].notify}
           now == {p \in Pass : i \in sync'[p].notify}
           judged == judge.notify \cap {i}
           judges == judge'.notify \cap {i}
<1>1. now \subseteq was /\ was \subseteq Pass /\ judges \subseteq judged /\ judged \subseteq {i}
  OBVIOUS
<1>2. IsFiniteSet(was) /\ IsFiniteSet({i})
  BY <1>1, SubscriptionsAssumption, FS_Subset, FS_Singleton
<1>3. IsFiniteSet(judged)
  BY <1>1, <1>2, FS_Subset
<1>4. /\ IsFiniteSet(now) /\ Cardinality(now) <= Cardinality(was)
      /\ IsFiniteSet(judges) /\ Cardinality(judges) <= Cardinality(judged)
  BY <1>1, <1>2, <1>3, FS_Subset
<1>5. /\ Cardinality(now) \in Nat /\ Cardinality(was) \in Nat
      /\ Cardinality(judges) \in Nat /\ Cardinality(judged) \in Nat
  BY <1>2, <1>3, <1>4, FS_CardinalityType
<1>6. Telling(i) = Cardinality(was) + Cardinality(judged) /\ Telling(i)' = Cardinality(now) + Cardinality(judges)
  BY DEF Telling
<1> HIDE DEF was, now, judged, judges
<1>7. QED
  BY <1>4, <1>5, <1>6

\* A sync that had nothing to tell adds itself, once, for a row it ends.
LEMMA OneMoreSyncTells ==
    ASSUME ToldInv, NEW i \in RowId, NEW p \in Pass, UNCHANGED judge, sync[p].notify = {},
           \A q \in Pass \ {p} : sync'[q].notify = sync[q].notify,
           i \in sync'[p].notify => Ends(i)
    PROVE  Telling(i)' > Telling(i) => Ends(i) /\ Telling(i)' = Telling(i) + 1
<1> DEFINE was == {q \in Pass : i \in sync[q].notify}
           now == {q \in Pass : i \in sync'[q].notify}
           judged == Cardinality(judge.notify \cap {i})
<1>1. was \subseteq Pass /\ p \notin was
  OBVIOUS
<1>2. IsFiniteSet(was) /\ Cardinality(was) \in Nat
  BY <1>1, SubscriptionsAssumption, FS_Subset, FS_CardinalityType
<1>3. IsFiniteSet(judge.notify \cap {i})
  BY FS_Singleton, FS_Subset
<1>4. judged \in Nat
  BY <1>3, FS_CardinalityType
<1>5. Telling(i) = Cardinality(was) + judged /\ Telling(i)' = Cardinality(now) + judged
  BY DEF Telling
<1>6. CASE i \in sync'[p].notify
  <2>1. now = was \cup {p}
    BY <1>6
  <2>2. Cardinality(now) = Cardinality(was) + 1
    BY <1>1, <1>2, <2>1, FS_AddElement
  <2> HIDE DEF was, now, judged
  <2>3. QED
    BY <1>2, <1>4, <1>5, <1>6, <2>2
<1>7. CASE i \notin sync'[p].notify
  <2>1. now = was
    BY <1>7
  <2> HIDE DEF was, now, judged
  <2>2. QED
    BY <1>2, <1>4, <1>5, <2>1
<1>8. QED
  BY <1>6, <1>7

\* So does the search that judges.
LEMMA JudgeTellsOnce ==
    ASSUME ToldInv, NEW i \in RowId, UNCHANGED sync, judge.notify = {},
           i \in judge'.notify => Ends(i)
    PROVE  Telling(i)' > Telling(i) => Ends(i) /\ Telling(i)' = Telling(i) + 1
<1> DEFINE was == {q \in Pass : i \in sync[q].notify}
<1>1. IsFiniteSet(was)
  BY SubscriptionsAssumption, FS_Subset
<1>2. Cardinality(was) \in Nat
  BY <1>1, FS_CardinalityType
<1>3. judge.notify \cap {i} = {} /\ judge'.notify \cap {i} = IF i \in judge'.notify THEN {i} ELSE {}
  OBVIOUS
<1>4. Cardinality({}) = 0 /\ Cardinality({i}) = 1
  BY FS_EmptySet, FS_Singleton
<1>5. /\ Telling(i) = Cardinality(was) + Cardinality(judge.notify \cap {i})
      /\ Telling(i)' = Cardinality(was) + Cardinality(judge'.notify \cap {i})
  BY DEF Telling
<1> HIDE DEF was
<1>6. QED
  BY <1>2, <1>3, <1>4, <1>5

-----------------------------------------------------------------------------

\* Every step keeps the invariant, and raises the number of those who tell of a
\* row only by ending that row.
LEMMA StepTells ==
    ASSUME ToldInv, [SubscriptionsNext]_subsVars
    PROVE  /\ ToldInv'
           /\ \A i \in RowId : Telling(i)' > Telling(i) => Ends(i) /\ Telling(i)' = Telling(i) + 1
<1> DEFINE Fewer == /\ judge'.notify \subseteq judge.notify
                    /\ \A q \in Pass : sync'[q].notify \subseteq sync[q].notify
           Good == /\ ToldInv'
                   /\ \A i \in RowId : Telling(i)' > Telling(i) => Ends(i) /\ Telling(i)' = Telling(i) + 1
<1>1. ASSUME ToldInv', Fewer
      PROVE  Good
  <2>1. \A i \in RowId : judge'.notify \cap {i} \subseteq judge.notify \cap {i}
    BY <1>1
  <2>2. \A i \in RowId : ~(Telling(i)' > Telling(i))
    BY <1>1, <2>1, FewerTell
  <2>3. QED
    BY <1>1, <2>2
<1>2. ASSUME NEW p \in Pass, NEW all \in BOOLEAN, SyncSubscriptionList(p, all)
      PROVE  Good
  <2>1. ToldInv' /\ Fewer
    BY <1>2, ListedSyncTells
  <2>2. QED
    BY <1>1, <2>1
<1>3. ASSUME NEW p \in Pass, SyncStep(p)
      PROVE  Good
  <2>1. CASE MissingTmdbDetails(p)
    <3>1. ToldInv' /\ Fewer
      BY <2>1, DetailsTellNothing
    <3>2. QED
      BY <1>1, <3>1
  <2>2. CASE SyncSubscriptionsWithSnapshot(p)
    <3>1. /\ ToldInv' /\ UNCHANGED judge /\ sync[p].notify = {}
          /\ \A q \in Pass \ {p} : sync'[q].notify = sync[q].notify
          /\ \A i \in sync'[p].notify : Ends(i)
      BY <2>2, WriteEndsWhatItTells DEF Ends
    <3>2. \A i \in RowId : Telling(i)' > Telling(i) => Ends(i) /\ Telling(i)' = Telling(i) + 1
      BY <3>1, OneMoreSyncTells
    <3>3. QED
      BY <3>1, <3>2
  <2>3. CASE SyncNotifies(p)
    <3>1. ToldInv' /\ Fewer
      BY <2>3, NotifyingTellsLess
    <3>2. QED
      BY <1>1, <3>1
  <2>4. QED
    BY <1>3, <2>1, <2>2, <2>3 DEF SyncStep
<1>4. ASSUME NEW i \in RowId, JudgeBegins(i)
      PROVE  Good
  <2>1. ToldInv' /\ Fewer
    BY <1>4, JudgeBeginningTellsNothing
  <2>2. QED
    BY <1>1, <2>1
<1>5. ASSUME EnrichSubscriptionWithLibrary
      PROVE  Good
  <2>1. /\ ToldInv' /\ UNCHANGED sync /\ judge.notify = {}
        /\ \A i \in judge'.notify : Ends(i)
    BY <1>5, JudgeEndsWhatItTells DEF Ends
  <2>2. \A i \in RowId : Telling(i)' > Telling(i) => Ends(i) /\ Telling(i)' = Telling(i) + 1
    BY <2>1, JudgeTellsOnce
  <2>3. QED
    BY <2>1, <2>2
<1>6. ASSUME JudgeNotifies
      PROVE  Good
  <2>1. ToldInv' /\ Fewer
    BY <1>6, JudgeNotifyingTellsLess
  <2>2. QED
    BY <1>1, <2>1
<1>7. ASSUME CreateSubscription
      PROVE  Good
  <2>1. ToldInv' /\ Fewer
    BY <1>7, CreatingTellsNothing
  <2>2. QED
    BY <1>1, <2>1
<1>8. ASSUME SyncCreatedSubscription
      PROVE  Good
  <2>1. ToldInv' /\ Fewer
    BY <1>8, CreatedSyncTellsNothing
  <2>2. QED
    BY <1>1, <2>1
<1>9. ASSUME \/ \E i \in RowId, wanted \in {"active", "paused"} : UpdateSubscription(i, wanted)
             \/ \E i \in RowId : DeleteSubscription(i)
             \/ EpisodeAirs \/ EpisodeArrives \/ UNCHANGED subsVars
      PROVE  Good
  <2>1. ToldInv' /\ Fewer
    BY <1>9, OthersTellNothing
  <2>2. QED
    BY <1>1, <2>1
<1> HIDE DEF Good
<1>10. Good
  <2>1. SubscriptionsNext \/ UNCHANGED subsVars
    OBVIOUS
  <2>2. CASE SubscriptionsNext
    BY <2>2, <1>2, <1>3, <1>4, <1>5, <1>6, <1>7, <1>8, <1>9, Zenon DEF SubscriptionsNext, JudgeStep
  <2>3. QED
    BY <2>1, <2>2, <1>9
<1>11. QED
  BY <1>10 DEF Good

\* Of the syncs and judges that find the same show complete at once, whatever copies
\* of its row they compare and whatever the user does meanwhile, each one that tells
\* the user has ended the row in that very step (end_completed_subscription, the
\* guarded UPDATE of the sync): no completion is told twice.
THEOREM OnlyTheEnderTells == SubscriptionsSpec => ToldByWhoEndsIt
<1> DEFINE Told == \A i \in RowId : Telling(i)' > Telling(i) =>
              /\ entry[i].status \in {"active", "paused"} /\ entry'[i].status = "completed"
              /\ Telling(i)' = Telling(i) + 1
<1>1. ToldInv /\ [SubscriptionsNext]_subsVars => ToldInv' /\ [Told]_subsVars
  BY StepTells DEF Ends
<1>2. SubscriptionsInit => ToldInv
  BY ToldAtFirst
<1>3. SubscriptionsSpec => [][Told]_subsVars
  BY <1>1, <1>2, PTL DEF SubscriptionsSpec
<1>4. QED
  BY <1>3 DEF ToldByWhoEndsIt

----------------------------------------------------------------------------
(* What a search hands on and settles *)

Places == {"idle", "enrich", "fast", "full", "ed2k", "deliver", "delivering", "fallback", "attach",
           "candidate", "finish", "cut"}
BeforeDelivery == {"idle", "enrich", "fast", "full", "ed2k", "deliver"}
AfterDelivery == {"delivering", "fallback", "attach", "candidate", "finish"}

Settled(n) == n \in Name /\ status[n] \notin {"pending", "hung"}

\* What has been handed on and is not being sent is settled from the first
\* delivery on; before it, nothing is, and only the two deliveries send.
SettledInv ==
    /\ status \in [Name -> Statuses]
    /\ pc \in Places
    /\ groups \in Seq(SUBSET Name)
    /\ pc \in {"idle", "enrich"} => created = {}
    /\ pc \in BeforeDelivery \cup {"delivering", "fallback"} => tried = {}
    /\ pc \in AfterDelivery => \A n \in (created \cup tried) \ sending : Settled(n)
    /\ pc \notin {"delivering", "candidate"} => sending = {}
    /\ pc = "candidate" => \E n \in Name : sending = {n}

\* At first nothing was handed on.
LEMMA SettledAtFirst == Init => SettledInv
<1> SUFFICES ASSUME Init PROVE SettledInv
  OBVIOUS
<1>1. status \in [Name -> Statuses] /\ "none" \in Statuses
  BY DEF Init, Statuses
<1>2. groups \in Seq(SUBSET Name)
  BY DEF Init
<1>3. QED
  BY <1>1, <1>2 DEF Init, SettledInv, Places, BeforeDelivery, AfterDelivery

\* Results that are attached become rows with a status.
LEMMA AttachingKeepsTypes ==
    ASSUME SettledInv, NEW found, AttachTelegramResults(found)
    PROVE  status' \in [Name -> Statuses]
<1>1. PICK new : status' = [n \in Name |-> IF n \in new THEN "pending" ELSE status[n]]
  BY DEF AttachTelegramResults
<1>2. QED
  BY <1>1 DEF SettledInv, Statuses

\* Up to the delivery nothing is handed on that the invariant speaks of.
LEMMA StagesSettle ==
    ASSUME SettledInv,
           Begin \/ (\E incremental \in BOOLEAN : Enriched(incremental)) \/ FastStage \/ FullStage \/ Ed2kStage
    PROVE  SettledInv'
<1>1. ASSUME Begin
      PROVE  SettledInv'
  BY <1>1 DEF Begin, SettledInv, Places, BeforeDelivery, AfterDelivery
<1>2. ASSUME NEW incremental \in BOOLEAN, Enriched(incremental)
      PROVE  SettledInv'
  <2>1. status' \in [Name -> Statuses]
    BY <1>2 DEF Enriched, SettledInv, Statuses
  <2>2. pc = "enrich" /\ pc' \in {"finish", "full", "fast"}
    BY <1>2 DEF Enriched
  <2>3. UNCHANGED <<created, sending, groups, tried>>
    BY <1>2 DEF Enriched
  <2>4. created = {} /\ tried = {} /\ sending = {}
    BY <2>2 DEF SettledInv, BeforeDelivery
  <2>5. QED
    BY <2>1, <2>2, <2>3, <2>4 DEF SettledInv, Places, BeforeDelivery, AfterDelivery
<1>3. ASSUME FastStage \/ FullStage
      PROVE  SettledInv'
  <2>1. status' \in [Name -> Statuses]
    BY <1>3, AttachingKeepsTypes DEF FastStage, FullStage
  <2>2. pc \in {"fast", "full"} /\ pc' \in {"full", "deliver", "ed2k"} /\ UNCHANGED <<sending, groups, tried>>
    BY <1>3 DEF FastStage, FullStage
  <2>3. QED
    BY <2>1, <2>2 DEF SettledInv, Places, BeforeDelivery, AfterDelivery
<1>4. ASSUME Ed2kStage
      PROVE  SettledInv'
  <2>1. PICK new : status' = [n \in Name |-> IF n \in new THEN "pending" ELSE status[n]]
    BY <1>4 DEF Ed2kStage
  <2>2. status' \in [Name -> Statuses]
    BY <2>1 DEF SettledInv, Statuses
  <2>3. pc = "ed2k" /\ pc' = "deliver" /\ UNCHANGED <<sending, groups, tried>>
    BY <1>4 DEF Ed2kStage
  <2>4. QED
    BY <2>2, <2>3 DEF SettledInv, Places, BeforeDelivery, AfterDelivery
<1>5. QED
  BY <1>1, <1>2, <1>3, <1>4

\* While created rows are delivered, those done have a verdict.
LEMMA DeliveringSettles ==
    ASSUME SettledInv, Deliver \/ (\E n \in Name : DeliverCreated(n)) \/ AllDelivered
    PROVE  SettledInv'
<1>1. ASSUME Deliver
      PROVE  SettledInv'
  <2>1. pc = "deliver" /\ sending' = created /\ UNCHANGED <<status, created, groups, tried>> /\ tried = {}
    BY <1>1 DEF Deliver, SettledInv, BeforeDelivery
  <2>2. IF created # {} THEN pc' = "delivering" ELSE pc' \in {"finish", "fallback"}
    BY <1>1 DEF Deliver
  <2>3. QED
    BY <2>1, <2>2 DEF SettledInv, Places, BeforeDelivery, AfterDelivery
<1>2. ASSUME NEW n \in Name, DeliverCreated(n)
      PROVE  SettledInv'
  <2>1. PICK outcome \in Statuses \ {"pending", "hung"} : status' = [status EXCEPT ![n] = outcome]
    BY <1>2 DEF DeliverCreated, DeliveryOutcomes, Statuses
  <2>2. pc = "delivering" /\ UNCHANGED <<pc, created, groups, tried>> /\ sending' = sending \ {n}
    BY <1>2 DEF DeliverCreated
  <2>3. status' \in [Name -> Statuses] /\ tried = {}
    BY <2>1, <2>2 DEF SettledInv
  <2>4. ASSUME NEW m \in (created \cup tried) \ sending'
        PROVE  Settled(m)'
    <3>1. CASE m = n
      BY <2>1, <3>1 DEF SettledInv, Settled
    <3>2. CASE m # n
      <4>1. m \in (created \cup tried) \ sending
        BY <2>2, <2>4, <3>2
      <4>2. Settled(m)
        BY <2>2, <4>1 DEF SettledInv, AfterDelivery
      <4>3. QED
        BY <2>1, <3>2, <4>2 DEF SettledInv, Settled
    <3>3. QED
      BY <3>1, <3>2
  <2>5. QED
    BY <2>2, <2>3, <2>4 DEF SettledInv, Places, BeforeDelivery, AfterDelivery
<1>3. ASSUME AllDelivered
      PROVE  SettledInv'
  <2>1. /\ pc = "delivering" /\ sending = {} /\ pc' \in {"fallback", "finish"}
        /\ UNCHANGED <<status, created, sending, groups, tried>>
    BY <1>3 DEF AllDelivered
  <2>2. QED
    BY <2>1 DEF SettledInv, Places, BeforeDelivery, AfterDelivery, Settled
<1>4. QED
  BY <1>1, <1>2, <1>3

\* Asking the other sources opens no row that was handed on.
LEMMA SourcesSettle ==
    ASSUME SettledInv, SearchFallback
    PROVE  SettledInv'
<1>1. PICK found :
        /\ found = <<>> \/ DOMAIN found = DOMAIN Groups
        /\ \A i \in DOMAIN found : found[i] \subseteq Groups[i]
        /\ groups' = [i \in DOMAIN found |-> {n \in found[i] : Decision[view, n].accepted}]
  BY DEF SearchFallback
<1>2. groups' \in Seq(SUBSET Name)
  <2> DEFINE matched(i) == {n \in found[i] : Decision[view, n].accepted}
  <2>1. \A i \in DOMAIN found : matched(i) \subseteq found[i]
    OBVIOUS
  <2>2. groups' = [i \in DOMAIN found |-> matched(i)]
    BY <1>1
  <2> HIDE DEF matched
  <2>3. CASE found = <<>>
    <3>1. DOMAIN found = 1 .. 0
      BY <2>3
    <3>2. groups' \in [1 .. 0 -> SUBSET Name]
      BY <2>2, <3>1
    <3>3. QED
      BY <3>2
  <2>4. CASE DOMAIN found = DOMAIN Groups
    <3>1. DOMAIN Groups = 1 .. Len(Groups) /\ Len(Groups) \in Nat /\ \A i \in 1 .. Len(Groups) : Groups[i] \subseteq Name
      BY SearchFlowAssumption
    <3>2. \A i \in 1 .. Len(Groups) : matched(i) \subseteq Name
      BY <1>1, <2>1, <2>4, <3>1
    <3>3. groups' \in [1 .. Len(Groups) -> SUBSET Name]
      BY <2>2, <2>4, <3>1, <3>2
    <3>4. QED
      BY <3>1, <3>3
  <2>5. QED
    BY <1>1, <2>3, <2>4
<1>3. pc = "fallback" /\ pc' = "attach" /\ UNCHANGED <<status, created, sending, tried>>
  BY DEF SearchFallback
<1>4. QED
  BY <1>2, <1>3 DEF SettledInv, Places, BeforeDelivery, AfterDelivery, Settled

\* A candidate is tried, sent and settled before the next one is attached.
LEMMA CandidatesSettle ==
    ASSUME SettledInv, AttachFirstFromGroup \/ DeliverCandidate
    PROVE  SettledInv'
<1>1. ASSUME AttachFirstFromGroup
      PROVE  SettledInv'
  <2>1. pc = "attach" /\ sending = {} /\ groups \in Seq(SUBSET Name) /\ UNCHANGED created
    BY <1>1 DEF AttachFirstFromGroup, SettledInv
  <2>2. \A n \in created \cup tried : Settled(n)
    BY <2>1 DEF SettledInv, AfterDelivery
  <2>3. CASE groups = <<>>
    <3>1. pc' = "finish" /\ UNCHANGED <<status, sending, tried, groups>>
      BY <1>1, <2>3 DEF AttachFirstFromGroup
    <3>2. QED
      BY <2>1, <2>2, <3>1 DEF SettledInv, Places, BeforeDelivery, AfterDelivery, Settled
  <2>4. CASE groups # <<>>
    <3>1. Head(groups) \subseteq Name /\ Tail(groups) \in Seq(SUBSET Name)
      BY <2>1, <2>4
    <3>2. CASE groups' = Tail(groups) /\ UNCHANGED <<status, sending, tried, pc>>
      BY <2>1, <2>2, <3>1, <3>2 DEF SettledInv, Places, BeforeDelivery, AfterDelivery, Settled
    <3>3. ASSUME NEW n \in Name, status' = [status EXCEPT ![n] = "pending"], sending' = {n},
                 tried' = tried \cup {n}, pc' = "candidate", UNCHANGED groups
          PROVE  SettledInv'
      <4>1. status' \in [Name -> Statuses]
        BY <3>3 DEF SettledInv, Statuses
      <4>2. \A m \in (created' \cup tried') \ sending' : Settled(m)'
        BY <2>1, <2>2, <3>3 DEF Settled, SettledInv
      <4>3. QED
        BY <2>1, <3>3, <4>1, <4>2 DEF SettledInv, Places, BeforeDelivery, AfterDelivery
    <3>4. \/ groups' = Tail(groups) /\ UNCHANGED <<status, sending, tried, pc>>
          \/ \E n \in Head(groups) : /\ status' = [status EXCEPT ![n] = "pending"] /\ sending' = {n}
                                     /\ tried' = tried \cup {n} /\ pc' = "candidate" /\ UNCHANGED groups
      BY <1>1, <2>4 DEF AttachFirstFromGroup
    <3>5. QED
      BY <3>1, <3>2, <3>3, <3>4
  <2>5. QED
    BY <2>3, <2>4
<1>2. ASSUME DeliverCandidate
      PROVE  SettledInv'
  <2>1. PICK n \in sending, outcome \in Statuses \ {"pending", "hung"} :
          status' = [status EXCEPT ![n] = outcome] /\ pc' \in {"finish", "attach"}
    BY <1>2 DEF DeliverCandidate, DeliveryOutcomes, Statuses
  <2>2. pc = "candidate" /\ sending' = {} /\ UNCHANGED <<created, groups, tried>>
    BY <1>2 DEF DeliverCandidate
  <2>3. n \in Name /\ sending = {n}
    BY <2>1, <2>2 DEF SettledInv
  <2>4. status' \in [Name -> Statuses]
    BY <2>1, <2>3 DEF SettledInv
  <2>5. \A m \in (created \cup tried) \ {n} : Settled(m)
    BY <2>2, <2>3 DEF SettledInv, AfterDelivery
  <2>6. \A m \in created \cup tried : Settled(m)'
    BY <2>1, <2>2, <2>3, <2>5 DEF Settled, SettledInv
  <2>7. QED
    BY <2>1, <2>2, <2>4, <2>6 DEF SettledInv, Places, BeforeDelivery, AfterDelivery
<1>3. QED
  BY <1>1, <1>2

\* A search ends by itself only with nothing left to deliver.
LEMMA EndsSettle ==
    ASSUME SettledInv, Finish \/ TimeOut
    PROVE  SettledInv'
<1>1. ASSUME Finish
      PROVE  SettledInv'
  <2>1. groups' \in Seq(SUBSET Name)
    BY <1>1 DEF Finish
  <2>2. QED
    BY <1>1, <2>1 DEF Finish, SettledInv, Places, BeforeDelivery, AfterDelivery
<1>2. ASSUME TimeOut
      PROVE  SettledInv'
  BY <1>2 DEF TimeOut, SettledInv, Places, BeforeDelivery, AfterDelivery
<1>3. QED
  BY <1>1, <1>2

\* The monitor, the clock and the retries give no settled row back.
LEMMA OthersSettle ==
    ASSUME SettledInv, AttachLive \/ (\E n \in Name : GrowOld(n) \/ Retry(n)) \/ UNCHANGED vars
    PROVE  SettledInv'
<1>1. UNCHANGED <<pc, created, sending, groups, tried>>
  BY DEF AttachLive, GrowOld, Retry, vars
<1>2. status' \in [Name -> Statuses] /\ \A m \in Name : status[m] \notin {"pending", "hung"} => status'[m] \notin {"pending", "hung"}
  <2>1. CASE AttachLive
    <3>1. PICK outcome \in DeliveryOutcomes \ {"pending"} :
            \E new : status' = [n \in Name |-> IF n \in new THEN outcome ELSE status[n]]
      BY <2>1, Zenon DEF AttachLive
    <3>2. outcome \in Statuses \ {"pending", "hung"}
      BY DEF DeliveryOutcomes, Statuses
    <3>3. QED
      BY <3>1, <3>2 DEF SettledInv, Statuses
  <2>2. ASSUME NEW n \in Name, GrowOld(n) \/ Retry(n)
        PROVE  status' \in [Name -> Statuses] /\ \A m \in Name : status[m] \notin {"pending", "hung"} => status'[m] \notin {"pending", "hung"}
    BY <2>2 DEF GrowOld, Retry, SettledInv, Statuses
  <2>3. CASE UNCHANGED vars
    BY <2>3 DEF vars, SettledInv
  <2>4. QED
    BY <2>1, <2>2, <2>3
<1>3. \A m : Settled(m) => Settled(m)'
  BY <1>2 DEF Settled
<1>4. QED
  BY <1>1, <1>2, <1>3 DEF SettledInv

\* A search that comes to its end by itself leaves no row that it handed on pending,
\* for any links, sources and answers: each was delivered or has its verdict, and
\* nobody reopened it (deliver_created, the fallback's loop, mark_pending_failed).
THEOREM SearchSettlesWhatItHandsOn == Spec => []HandedOnSettled
<1>1. SettledInv /\ [Next]_vars => SettledInv'
  <2> SUFFICES ASSUME SettledInv, [Next]_vars
               PROVE  SettledInv'
    OBVIOUS
  <2>1. CASE SearchStep
    BY <2>1, StagesSettle, DeliveringSettles, SourcesSettle, CandidatesSettle, EndsSettle, Zenon DEF SearchStep
  <2>2. CASE Others
    BY <2>2, EndsSettle, OthersSettle, Zenon DEF Others
  <2>3. CASE UNCHANGED vars
    BY <2>3, OthersSettle
  <2>4. QED
    BY <2>1, <2>2, <2>3 DEF Next
<1>2. SettledInv => HandedOnSettled
  BY DEF SettledInv, HandedOnSettled, AfterDelivery, Settled
<1>3. QED
  BY <1>1, <1>2, SettledAtFirst, PTL DEF Spec
=============================================================================
