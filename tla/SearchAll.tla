------------------------------ MODULE SearchAll ------------------------------
(***************************************************************************)
(* The search of all active subscriptions, one job at a time. It lists those  *)
(* that are due, searches them in waves whose size follows the pressure of     *)
(* Telegram, each search under a permit of the search semaphore and a time     *)
(* limit, while TMDB and Emby are asked beside it; at the end one transaction  *)
(* marks what was attempted. The semaphore is resized while it is in use.      *)
(***************************************************************************)
EXTENDS Integers, FiniteSets, Sequences

CONSTANTS Subs,         \* ids of the subscriptions, numbers
          Capacity,     \* SUBSCRIPTION_SEARCH_CONCURRENCY
          Moving,       \* bound: subscriptions whose episodes, or whose status, change
          MaxBreaks,    \* bound: runs that an exception ends
          MaxUserActs   \* bound: runs that the user forces, subscriptions that the user pauses or resumes

ASSUME SearchAllAssumption ==
    /\ IsFiniteSet(Subs) /\ Subs \subseteq Nat /\ Moving \subseteq Subs
    /\ Capacity \in Nat \ {0, 1}
    /\ MaxBreaks \in Nat /\ MaxUserActs \in Nat

VARIABLES listed,       \* [Subs -> [status, lacks, age]]: the row, whether episodes are missing, its last check
          runPc,        \* where the run is
          left,         \* subscriptions that are left
          attempt,      \* [Subs -> state of its search in this run]
          counted,      \* [Subs -> what the run counts for it]
          noted,        \* _pending_checked_ids
          side,         \* the TMDB and Emby tasks that still run
          allowed,      \* concurrency that the pressure allows
          permit,       \* subscription_search_semaphore: [value, limit]
          strays,       \* holders of a semaphore that was replaced
          breaks,
          acts

allVars == <<listed, runPc, left, attempt, counted, noted, side, allowed, permit, strays, breaks, acts>>

Ages == {"old", "recent", "now"}     \* never or 10 min and more; 2 to 10 min; under 2 min

PermitHolders == {s \in Subs : attempt[s] = "searching"} \ strays

-----------------------------------------------------------------------------
(* Which, and in which order *)

SubscriptionIsDone(s) == listed[s].lacks = 0

ShouldSkipRecentSearchAll(s) ==
    \/ listed[s].age = "now"
    \/ listed[s].age = "recent" /\ SubscriptionIsDone(s)

\* Who lacks more, then who was checked longer ago, then who is older.
SearchedBefore(s, t) ==
    LET a == listed[s]
        b == listed[t]
        rank == [old |-> 0, recent |-> 1, now |-> 2]
    IN  \/ a.lacks > b.lacks
        \/ a.lacks = b.lacks /\ rank[a.age] < rank[b.age]
        \/ a.lacks = b.lacks /\ a.age = b.age /\ s < t

PrioritizeSubscriptions(set) ==
    {order \in [1 .. Cardinality(set) -> set] :
        \A i, j \in 1 .. Cardinality(set) : i < j => SearchedBefore(order[i], order[j])}

FilterForSearchAll(set) == PrioritizeSubscriptions({s \in set : ~ShouldSkipRecentSearchAll(s)})

\* The list of a forced run is not sorted: the newest come first.
Following == {s \in Subs : listed[s].status = "active"}
NewestFirst(set) ==
    {order \in [1 .. Cardinality(set) -> set] :
        \A i, j \in 1 .. Cardinality(set) : i < j => order[i] > order[j]}

-----------------------------------------------------------------------------
(* The semaphore of the searches, for one event loop *)

DesiredSearchConcurrency == allowed

SearchAllWaveSize ==
    IF DesiredSearchConcurrency >= Capacity
    THEN (IF DesiredSearchConcurrency + 1 < 6 THEN DesiredSearchConcurrency + 1 ELSE 6)
    ELSE DesiredSearchConcurrency

FreshSemaphore == [value |-> DesiredSearchConcurrency, limit |-> DesiredSearchConcurrency]

\* Mutant: a cut gives the semaphore as many free permits as its new limit.
SearchSemaphoreUncut ==
    CASE permit.limit = DesiredSearchConcurrency -> [sem |-> permit, new |-> FALSE]
      [] DesiredSearchConcurrency < permit.limit ->
           IF permit.value >= permit.limit THEN [sem |-> FreshSemaphore, new |-> TRUE]
           ELSE [sem |-> FreshSemaphore, new |-> FALSE]
      [] OTHER -> IF permit.value < permit.limit THEN [sem |-> permit, new |-> FALSE]
                  ELSE [sem |-> FreshSemaphore, new |-> TRUE]

\* What a call of search_semaphore leaves behind: the semaphore, and whether it is a new one.
SearchSemaphore ==
    CASE permit.limit = DesiredSearchConcurrency -> [sem |-> permit, new |-> FALSE]
      [] DesiredSearchConcurrency < permit.limit ->
           IF permit.value >= permit.limit THEN [sem |-> FreshSemaphore, new |-> TRUE]
           ELSE [sem |-> [value |-> IF permit.value < DesiredSearchConcurrency THEN permit.value
                                    ELSE DesiredSearchConcurrency,
                          limit |-> DesiredSearchConcurrency], new |-> FALSE]
      [] OTHER -> IF permit.value < permit.limit THEN [sem |-> permit, new |-> FALSE]
                  ELSE [sem |-> FreshSemaphore, new |-> TRUE]

\* A permit that is given back goes to a search that waits for it, if one does.
GiveBack(s) ==
    LET waiting == {t \in Subs \ {s} : attempt[t] = "waiting"}
    IN  IF s \in PermitHolders /\ waiting # {}
        THEN /\ \E t \in waiting : attempt' = [attempt EXCEPT ![s] = "none", ![t] = "searching"]
             /\ UNCHANGED permit
        ELSE /\ attempt' = [attempt EXCEPT ![s] = "none"]
             /\ permit' = [permit EXCEPT !.value = IF s \in PermitHolders THEN @ + 1 ELSE @]

-----------------------------------------------------------------------------
SearchAllInit ==
    /\ listed = [s \in Subs |-> [status |-> "active", lacks |-> 0, age |-> "old"]]
    /\ runPc = "idle" /\ left = <<>>
    /\ attempt = [s \in Subs |-> "none"]
    /\ counted = [s \in Subs |-> "none"]
    /\ noted = {} /\ side = {}
    /\ allowed = Capacity
    /\ permit = [value |-> Capacity, limit |-> Capacity]
    /\ strays = {}
    /\ breaks = 0 /\ acts = 0

\* Mutant: what a run that broke has noted is kept.
SearchAllKeepsNotes(force) ==
    /\ runPc = "idle"
    /\ runPc' = "snapshot"
    /\ force => acts < MaxUserActs
    /\ acts' = IF force THEN acts + 1 ELSE acts
    /\ left' \in IF force THEN NewestFirst(Following) ELSE FilterForSearchAll(Following)
    /\ permit' = FreshSemaphore /\ strays' = {}
    /\ UNCHANGED <<listed, attempt, counted, noted, side, allowed, breaks>>

\* The run drops what an earlier one noted and did not write, then waits for
\* the snapshot of the library. Its loop is new, and so is the semaphore.
SearchAllActiveSubscriptions(force) ==
    /\ runPc = "idle"
    /\ runPc' = "snapshot"
    /\ force => acts < MaxUserActs
    /\ acts' = IF force THEN acts + 1 ELSE acts
    /\ left' \in IF force THEN NewestFirst(Following) ELSE FilterForSearchAll(Following)
    /\ noted' = {}
    /\ permit' = FreshSemaphore /\ strays' = {}
    /\ UNCHANGED <<listed, attempt, counted, side, allowed, breaks>>

\* A failed snapshot leaves out the Emby sync.
LibrarySnapshot ==
    /\ runPc = "snapshot"
    /\ runPc' = "waves"
    /\ side' \in {{"tmdb"}, {"tmdb", "emby"}}
    /\ UNCHANGED <<listed, left, attempt, counted, noted, allowed, permit, strays, breaks, acts>>

WaveRunning == \E s \in Subs : attempt[s] # "none"

\* Mutant: the subscription behind a wave is skipped.
StartWaveSkipsOne ==
    /\ runPc = "waves" /\ ~WaveRunning /\ left # <<>>
    /\ LET size == IF SearchAllWaveSize < Len(left) THEN SearchAllWaveSize ELSE Len(left)
           wave == {left[i] : i \in 1 .. size}
       IN  /\ attempt' = [s \in Subs |-> IF s \in wave THEN "begin" ELSE attempt[s]]
           /\ left' = SubSeq(left, size + 2, Len(left))
    /\ UNCHANGED <<listed, runPc, counted, noted, side, allowed, permit, strays, breaks, acts>>

StartWave ==
    /\ runPc = "waves" /\ ~WaveRunning /\ left # <<>>
    /\ LET size == IF SearchAllWaveSize < Len(left) THEN SearchAllWaveSize ELSE Len(left)
           wave == {left[i] : i \in 1 .. size}
       IN  /\ attempt' = [s \in Subs |-> IF s \in wave THEN "begin" ELSE attempt[s]]
           /\ left' = SubSeq(left, size + 1, Len(left))
    /\ UNCHANGED <<listed, runPc, counted, noted, side, allowed, permit, strays, breaks, acts>>

Ends(s, result, note) ==
    /\ counted' = [counted EXCEPT ![s] = result]
    /\ noted' = IF note THEN noted \cup {s} ELSE noted

\* The row is read again: the user may have paused or deleted it. An active one
\* asks for its permit.
SearchOne(s) ==
    /\ attempt[s] = "begin"
    /\ IF listed[s].status # "active" THEN Ends(s, "inactive", FALSE) /\ GiveBack(s) /\ UNCHANGED strays
       ELSE LET got == SearchSemaphore
                free == got.sem.value > 0
            IN  /\ attempt' = [attempt EXCEPT ![s] = IF free THEN "searching" ELSE "waiting"]
                /\ permit' = [got.sem EXCEPT !.value = IF free THEN @ - 1 ELSE @]
                /\ strays' = IF got.new THEN strays \cup PermitHolders ELSE strays
                /\ UNCHANGED <<counted, noted>>
    /\ UNCHANGED <<listed, runPc, left, side, allowed, breaks, acts>>

SearchAndAttachGuarded(s) ==
    /\ attempt[s] = "searching"
    /\ Ends(s, "attempted", TRUE)
    /\ GiveBack(s) /\ strays' = strays \ {s}
    /\ UNCHANGED <<listed, runPc, left, side, allowed, breaks, acts>>

\* The time limit counts the wait for the permit too; what failed counts as
\* checked.
SearchFails(s) ==
    /\ attempt[s] \in {"waiting", "searching"}
    /\ Ends(s, "attempted", TRUE)
    /\ GiveBack(s) /\ strays' = strays \ {s}
    /\ UNCHANGED <<listed, runPc, left, side, allowed, breaks, acts>>

\* An exception outside the try of a search, as by a locked database, ends the
\* gather and the run; the other searches of the wave run on until the loop closes.
WaveBreaks(s) ==
    /\ runPc = "waves" /\ attempt[s] = "begin" /\ breaks < MaxBreaks
    /\ breaks' = breaks + 1
    /\ runPc' = "broken"
    /\ attempt' = [attempt EXCEPT ![s] = "none"]
    /\ UNCHANGED <<listed, left, counted, noted, side, allowed, permit, strays, acts>>

AllWavesDone ==
    /\ runPc = "waves" /\ ~WaveRunning /\ left = <<>>
    /\ runPc' = "closing"
    /\ UNCHANGED <<listed, left, attempt, counted, noted, side, allowed, permit, strays, breaks, acts>>

\* TMDB or Emby has answered; the sync may have found an episode in the library.
SyncEmbyInBackground ==
    /\ "emby" \in side
    /\ side' = side \ {"emby"}
    /\ \E have \in SUBSET Moving : listed' = [s \in Subs |-> IF s \in have THEN [listed[s] EXCEPT !.lacks = 0] ELSE listed[s]]
    /\ UNCHANGED <<runPc, left, attempt, counted, noted, allowed, permit, strays, breaks, acts>>

PrefetchTmdb ==
    /\ "tmdb" \in side
    /\ side' = side \ {"tmdb"}
    /\ \E grown \in SUBSET Moving : listed' = [s \in Subs |-> IF s \in grown THEN [listed[s] EXCEPT !.lacks = 1] ELSE listed[s]]
    /\ UNCHANGED <<runPc, left, attempt, counted, noted, allowed, permit, strays, breaks, acts>>

\* TMDB is given a second more, Emby its time limit; what still runs is cancelled.
\* A run that went through writes its marks in one transaction.
FlushPendingChecked ==
    /\ listed' = [s \in Subs |-> IF s \in noted THEN [listed[s] EXCEPT !.age = "now"] ELSE listed[s]]
    /\ noted' = {}

CloseRun ==
    /\ runPc \in {"closing", "broken"}
    /\ runPc' = "idle" /\ side' = {}
    /\ IF runPc = "closing" THEN FlushPendingChecked ELSE UNCHANGED <<listed, noted>>
    /\ attempt' = [s \in Subs |-> "none"] /\ left' = <<>>
    /\ permit' = FreshSemaphore /\ strays' = {}
    /\ counted' = [s \in Subs |-> "none"]
    /\ UNCHANGED <<allowed, breaks, acts>>

-----------------------------------------------------------------------------
(* Time, Telegram and the user *)

TimePasses(s) ==
    /\ listed[s].age # "old"
    /\ listed' = [listed EXCEPT ![s].age = IF @ = "now" THEN "recent" ELSE "old"]
    /\ UNCHANGED <<runPc, left, attempt, counted, noted, side, allowed, permit, strays, breaks, acts>>

\* The interval of the request gate rises with each FloodWait and falls again.
GatePressureChanges ==
    /\ allowed' \in {1, 2, Capacity} \ {allowed}
    /\ runPc = "waves"
    /\ UNCHANGED <<listed, runPc, left, attempt, counted, noted, side, permit, strays, breaks, acts>>

UserToggles(s) ==
    /\ s \in Moving /\ acts < MaxUserActs
    /\ acts' = acts + 1
    /\ listed' = [listed EXCEPT ![s].status = IF @ = "active" THEN "paused" ELSE "active"]
    /\ UNCHANGED <<runPc, left, attempt, counted, noted, side, allowed, permit, strays, breaks>>

RunStep ==
    \/ LibrarySnapshot \/ StartWave \/ AllWavesDone \/ CloseRun
    \/ \E s \in Subs : SearchOne(s) \/ SearchAndAttachGuarded(s) \/ SearchFails(s)

SearchAllNext ==
    \/ \E force \in BOOLEAN : SearchAllActiveSubscriptions(force)
    \/ RunStep
    \/ SyncEmbyInBackground \/ PrefetchTmdb \/ GatePressureChanges
    \/ \E s \in Subs : WaveBreaks(s) \/ TimePasses(s) \/ UserToggles(s)

\* The monitor starts runs again and again, the loop runs what is ready and the
\* time limits end the searches, time passes. Nothing else is owed.
SearchAllFairness ==
    /\ WF_allVars(SearchAllActiveSubscriptions(FALSE))
    /\ WF_allVars(RunStep)
    /\ \A s \in Subs : WF_allVars(TimePasses(s))

SearchAllSpec == SearchAllInit /\ [][SearchAllNext]_allVars /\ SearchAllFairness

-----------------------------------------------------------------------------
(* Properties *)

\* However the semaphore is cut and replaced while searches hold and wait for
\* permits, and however those end, no permit is lost and none is made up: the
\* free ones and the held ones are at least its limit and at most the capacity.
SearchPermitsKept ==
    /\ permit.value + Cardinality(PermitHolders) >= permit.limit
    /\ permit.value + Cardinality(PermitHolders) <= Capacity
    /\ permit.value >= 0

\* A subscription is marked as checked only by a run that attempted it: neither
\* one that was paused when its turn came, nor a note of a run that broke.
MarkedWasAttempted ==
    [][\A s \in Subs : listed'[s].age = "now" /\ listed[s].age # "now" => counted[s] = "attempted"]_allVars

\* Each subscription that stays active is attempted again and again, whatever
\* the time limits, the pressure, the cooldowns and the broken runs do.
EachIsSearched ==
    \A s \in Subs : []<>(attempt[s] \in {"waiting", "searching"} \/ listed[s].status # "active")
=============================================================================
