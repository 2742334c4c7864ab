---------------------------- MODULE DialogSearch ----------------------------
(***************************************************************************)
(* Searches of Telegram dialogs (adapters/telegram/history) by coroutines  *)
(* of one event loop, as in a search-all job, and what they share          *)
(* (services/concurrency.py): a semaphore that follows the pressure of     *)
(* FloodWait errors, and one lock per dialog.  Both live in globals that   *)
(* serve one loop at a time: a call from another loop replaces them.       *)
(*                                                                         *)
(* A search works on a pool of tasks, one per dialog:                      *)
(*   "history"  takes a permit, then the lock of the dialog;               *)
(*   "fast"     takes the lock of the dialog, then a permit; stops at the  *)
(*              first hit, or when its 5 s are over.                       *)
(***************************************************************************)
EXTENDS Naturals, Sequences, FiniteSets

CONSTANTS
    Search,         \* coroutines that search, one search at a time each
    Dialog,         \* Telegram groups and channels
    DialogsOf,      \* the dialogs a search goes through
    Kind,           \* "history" or "fast"
    Timed,          \* searches with a timeout around them
    MaxPermits,     \* the semaphore's size without pressure
    EmptyStreak,    \* TELEGRAM_EMPTY_DIALOG_STREAK
    MaxLocks,       \* _MAX_LOCKS
    MaxTakeovers    \* bound on the calls from other loops

ASSUME DialogSearchAssumption ==
    /\ IsFiniteSet(Search) /\ IsFiniteSet(Dialog)
    /\ \A s \in Search : /\ DialogsOf[s] \subseteq Dialog
                         /\ Kind[s] \in {"history", "fast"}
    /\ Timed \subseteq Search
    /\ MaxPermits \in Nat \ {0}
    /\ EmptyStreak \in Nat /\ MaxLocks \in Nat /\ MaxTakeovers \in Nat

VARIABLES
    desired,    \* desired_telegram_dialog_concurrency()
    sem,        \* telegram_dialog_semaphore and its limit, if of this loop
    value,      \* _value of every semaphore that is still referred to
    queue,      \* _waiters of every semaphore: the tasks, in order
    semOf,      \* the semaphore a search has taken; 0 while it does not run
    task,       \* the tasks of every search
    spent,      \* has the search run out of time?
    locks,      \* telegram_source_locks: the lock of each dialog
    takeovers   \* how often another loop has taken over a global

vars == <<desired, sem, value, queue, semOf, task, spent, locks, takeovers>>

\* Objects are numbered; 0 is None.  A number nobody refers to is free.
ObjectId == 1..(Cardinality(Search) + 1)

\* "new": created, not run yet; "granted": it has got a permit; "hit" and
\* "empty": finished; "over": its result has been taken.
Stage == {"todo", "new", "wait_permit", "granted", "wait_lock", "remote",
          "hit", "empty", "over"}
Task == [stage : Stage, lock : {0} \cup ObjectId]

Todo == [stage |-> "todo", lock |-> 0]

Init ==
    /\ desired = MaxPermits
    /\ sem = [id |-> 0, limit |-> 0]
    /\ value = [i \in ObjectId |-> 0]
    /\ queue = [i \in ObjectId |-> <<>>]
    /\ semOf = [s \in Search |-> 0]
    /\ task = [s \in Search |-> [d \in Dialog |-> Todo]]
    /\ spent = [s \in Search |-> FALSE]
    /\ locks = [d \in Dialog |-> 0]
    /\ takeovers = 0

Running(s) == semOf[s] # 0
InStage(s, stage) == {d \in DialogsOf[s] : task[s][d].stage = stage}
Finished(s) == InStage(s, "hit") \cup InStage(s, "empty")

Pending(s) == DialogsOf[s] \ (InStage(s, "todo") \cup InStage(s, "over"))

HasPermit(s, t) ==
    \/ t.stage \in {"granted", "remote"}
    \/ t.stage = "wait_lock" /\ Kind[s] = "history"

HasLock(s, t) ==
    \/ t.stage = "remote"
    \/ t.stage \in {"wait_permit", "granted"} /\ Kind[s] = "fast"

----------------------------------------------------------------------------
(* The semaphore *)

Smaller(m, n) == IF m < n THEN m ELSE n

\* Nothing has changed, or pressure has eased while permits are out.
Kept ==
    /\ sem.id # 0
    /\ \/ desired = sem.limit
       \/ desired > sem.limit /\ value[sem.id] < sem.limit

\* Pressure has risen while permits are out: _value is cut to the new limit.
ShrunkInPlace ==
    sem.id # 0 /\ desired < sem.limit /\ value[sem.id] < sem.limit

\* The counters of the semaphores that somebody refers to.
Alive(counters, used, current) ==
    [i \in ObjectId |->
        IF i = current \/ (\E t \in Search : used[t] = i) THEN counters[i] ELSE 0]

FreshSem == CHOOSE i \in ObjectId : i # sem.id /\ \A t \in Search : semOf[t] # i

TelegramDialogSearchSemaphore ==
    \/ /\ Kept
       /\ UNCHANGED <<sem, value>>
    \/ /\ ShrunkInPlace
       /\ sem' = [sem EXCEPT !.limit = desired]
       /\ value' = [value EXCEPT ![sem.id] = Smaller(@, desired)]
    \/ /\ ~Kept /\ ~ShrunkInPlace
       /\ sem' = [id |-> FreshSem, limit |-> desired]
       /\ value' = [Alive(value, semOf, 0) EXCEPT ![FreshSem] = desired]

\* The gate of Telegram requests widens its interval after a FloodWait and
\* narrows it step by step.
PressureChanges ==
    /\ desired' \in 1..Smaller(desired + 1, MaxPermits) \ {desired}
    /\ UNCHANGED <<sem, value, queue, semOf, task, spent, locks, takeovers>>

\* Mutant: a cancelled task that has no lock yet keeps its permit.
FreedWithLock(s, new) ==
    {d \in Dialog : /\ task[s][d].stage \in {"granted", "remote"}
                    /\ ~HasPermit(s, new[d])}

\* The dialogs whose tasks give a permit back when the tasks become `new'.
Freed(s, new) ==
    {d \in Dialog : HasPermit(s, task[s][d]) /\ ~HasPermit(s, new[d])}

\* Mutant: cancelled tasks stay in line.
AllInLine(s, new) == {queue[semOf[s]]}

\* The line without the cancelled tasks, in the same order; a set of one.
StillInLine(s, new) ==
    LET line == queue[semOf[s]]
        left == {j \in 1..Len(line) : line[j][1] = s => new[line[j][2]].stage # "todo"}
        size == Cardinality(left)
    IN  {[k \in 1..size |-> line[place[k]]] :
            place \in {p \in [1..size -> left] : \A j, k \in 1..size : j < k => p[j] < p[k]}}

\* The tasks of s become `new'; the permits they no longer have go to the
\* tasks in line, in order, and back to the semaphore.
Settle(s, new) ==
    LET i == semOf[s]
        freed == Cardinality(Freed(s, new))
    IN  \E line \in StillInLine(s, new) :
          LET n == Smaller(freed, Len(line))
              woken == {line[j] : j \in 1..n}
          IN  /\ task' = [t \in Search |-> [d \in Dialog |->
                            LET old == IF t = s THEN new[d] ELSE task[t][d]
                            IN  IF <<t, d>> \in woken
                                THEN [old EXCEPT !.stage = "granted"] ELSE old]]
              /\ queue' = [queue EXCEPT ![i] = SubSeq(line, n + 1, Len(line))]
              /\ value' = Alive([value EXCEPT ![i] = @ + (freed - n)], semOf', sem.id)

Finish(s, d, stage) ==
    Settle(s, [task[s] EXCEPT ![d] = [stage |-> stage, lock |-> 0]])

\* semaphore.acquire(), by a task that has the lock `lock' or none.
Acquire(s, d, lock) ==
    LET i == semOf[s] IN
    IF value[i] > 0
    THEN /\ task' = [task EXCEPT ![s][d] = [stage |-> "granted", lock |-> lock]]
         /\ value' = [value EXCEPT ![i] = @ - 1]
         /\ UNCHANGED queue
    ELSE /\ task' = [task EXCEPT ![s][d] = [stage |-> "wait_permit", lock |-> lock]]
         /\ queue' = [queue EXCEPT ![i] = Append(@, <<s, d>>)]
         /\ UNCHANGED value

----------------------------------------------------------------------------
(* The locks of dialogs *)

InUse(d, l) == l # 0 /\ \E s \in Search : task[s][d].lock = l

\* Mutant: only the tasks that read the dialog are taken to hold its lock.
LockHeldByReaders(d, l) ==
    \E s \in Search : task[s][d].lock = l /\ task[s][d].stage = "remote"

LockHeld(d, l) ==
    \E s \in Search : task[s][d].lock = l /\ HasLock(s, task[s][d])

Awaited(d, l) ==
    \E s \in Search : task[s][d].lock = l /\ task[s][d].stage = "wait_lock"

\* _evict_stale_locks: a lock that is let go of is not locked() until the
\* task it is handed to runs.
EvictStaleLocks(dict) ==
    IF Cardinality({d \in Dialog : dict[d] # 0}) <= MaxLocks THEN dict
    ELSE [d \in Dialog |-> IF LockHeld(d, dict[d]) THEN dict[d] ELSE 0]

FreshLock(d) == CHOOSE l \in ObjectId : l # locks[d] /\ ~InUse(d, l)

\* The lock is the task's.
Locked(s, d, lock) ==
    IF Kind[s] = "fast" THEN Acquire(s, d, lock)
    ELSE /\ task' = [task EXCEPT ![s][d] = [stage |-> "remote", lock |-> lock]]
         /\ UNCHANGED <<value, queue>>

\* async with telegram_source_lock(source)
TelegramSourceLock(s, d) ==
    LET dict == EvictStaleLocks(locks)
        lock == IF dict[d] # 0 THEN dict[d] ELSE FreshLock(d)
    IN  /\ locks' = [dict EXCEPT ![d] = lock]
        /\ IF LockHeld(d, lock) \/ Awaited(d, lock)
           THEN /\ task' = [task EXCEPT ![s][d] = [stage |-> "wait_lock", lock |-> lock]]
                /\ UNCHANGED <<value, queue>>
           ELSE Locked(s, d, lock)

\* One of the tasks that wait for a lock nobody holds gets it.
TakeLock(s, d) ==
    /\ task[s][d].stage = "wait_lock"
    /\ ~LockHeld(d, task[s][d].lock)
    /\ Locked(s, d, task[s][d].lock)
    /\ UNCHANGED <<desired, sem, semOf, spent, locks, takeovers>>

\* A call from another loop takes the global over; the next call from this
\* loop finds neither the semaphore ...
OtherLoopSearches ==
    /\ sem.id # 0 /\ takeovers < MaxTakeovers
    /\ takeovers' = takeovers + 1
    /\ sem' = [id |-> 0, limit |-> 0]
    /\ value' = Alive(value, semOf, 0)
    /\ UNCHANGED <<desired, queue, semOf, task, spent, locks>>

\* ... nor the locks.
OtherLoopLocks ==
    /\ locks' = [d \in Dialog |-> 0]
    /\ locks # locks' /\ takeovers < MaxTakeovers
    /\ takeovers' = takeovers + 1
    /\ UNCHANGED <<desired, sem, value, queue, semOf, task, spent>>

----------------------------------------------------------------------------
(* Tasks *)

\* A history task that finds the time over returns at once.
StartTask(s, d) ==
    /\ task[s][d].stage = "new"
    /\ UNCHANGED <<desired, sem, semOf, spent, takeovers>>
    /\ \/ /\ Kind[s] = "history" /\ spent[s]
          /\ Finish(s, d, "empty")
          /\ UNCHANGED locks
       \/ /\ Kind[s] = "history" /\ ~spent[s]
          /\ Acquire(s, d, 0)
          /\ UNCHANGED locks
       \/ /\ Kind[s] = "fast"
          /\ TelegramSourceLock(s, d)

\* With a permit, the time is checked once more.
GoOn(s, d) ==
    /\ task[s][d].stage = "granted"
    /\ UNCHANGED <<desired, sem, semOf, spent, takeovers>>
    /\ \/ /\ spent[s]
          /\ Finish(s, d, "empty")
          /\ UNCHANGED locks
       \/ /\ Kind[s] = "history" /\ ~spent[s]
          /\ TelegramSourceLock(s, d)
       \/ /\ Kind[s] = "fast" /\ ~spent[s]
          /\ task' = [task EXCEPT ![s][d].stage = "remote"]
          /\ UNCHANGED <<value, queue, locks>>

\* The remote calls have timeouts; errors count as no hit.  Only a fast
\* search minds which it is.
RemoteEnds(s, d) ==
    /\ task[s][d].stage = "remote"
    /\ UNCHANGED <<desired, sem, semOf, spent, locks, takeovers>>
    /\ \/ Finish(s, d, "empty")
       \/ Kind[s] = "fast" /\ Finish(s, d, "hit")

----------------------------------------------------------------------------
(* Searches *)

\* As many tasks are created as the semaphore has permits right now.
Primed(s) == Smaller(value'[sem'.id], Cardinality(DialogsOf[s]))

SearchBegins(s) ==
    /\ ~Running(s)
    /\ TelegramDialogSearchSemaphore
    /\ semOf' = [semOf EXCEPT ![s] = sem'.id]
    /\ \E first \in SUBSET DialogsOf[s] :
         /\ Cardinality(first) = Primed(s)
         /\ task' = [task EXCEPT ![s] = [d \in Dialog |->
                       IF d \in first THEN [stage |-> "new", lock |-> 0] ELSE Todo]]
    /\ spent' = [spent EXCEPT ![s] = FALSE]
    /\ UNCHANGED <<desired, queue, locks, takeovers>>

\* What is still pending is cancelled; permits and locks are given back.
Return(s) ==
    /\ semOf' = [semOf EXCEPT ![s] = 0]
    /\ Settle(s, [d \in Dialog |-> Todo])

\* Results are taken and as many tasks created, while there is time.
Refill(s, next) ==
    /\ task' = [task EXCEPT ![s] = [d \in Dialog |->
                  CASE d \in Finished(s) -> [stage |-> "over", lock |-> 0]
                    [] d \in next -> [stage |-> "new", lock |-> 0]
                    [] OTHER -> task[s][d]]]
    /\ UNCHANGED <<value, queue, semOf>>

\* Mutant: every search stops after so many dialogs.
SlotsFreedUntilStreak(s) ==
    IF spent[s] \/ Cardinality(Finished(s) \cup InStage(s, "over")) >= EmptyStreak
    THEN 0
    ELSE Smaller(Cardinality(Finished(s)), Cardinality(InStage(s, "todo")))

SlotsFreed(s) ==
    IF spent[s] THEN 0
    ELSE Smaller(Cardinality(Finished(s)), Cardinality(InStage(s, "todo")))

CollectHistory(s) ==
    /\ Kind[s] = "history" /\ Finished(s) # {}
    /\ \E next \in SUBSET InStage(s, "todo") : Cardinality(next) = SlotsFreed(s) /\ Refill(s, next)
    /\ UNCHANGED <<desired, sem, spent, locks, takeovers>>

\* A fast search stops at a hit, or after so many dialogs without one.
Enough(s) ==
    \/ InStage(s, "hit") # {}
    \/ /\ Cardinality(InStage(s, "over") \cup Finished(s)) >= EmptyStreak
       /\ Pending(s) # Finished(s)

CollectFast(s) ==
    /\ Kind[s] = "fast" /\ Finished(s) # {}
    /\ IF Enough(s) THEN Return(s) /\ spent' = [spent EXCEPT ![s] = FALSE]
       ELSE \E next \in SUBSET InStage(s, "todo") :
              /\ Cardinality(next) = Smaller(SlotsFreed(s), 1)
              /\ Refill(s, next)
              /\ UNCHANGED spent
    /\ UNCHANGED <<desired, sem, locks, takeovers>>

\* Mutant: a fast search goes on waiting for the tasks it has created.
FastWaitsOn(s) == FALSE

FastGivesUp(s) == Kind[s] = "fast" /\ spent[s]

SearchEnds(s) ==
    /\ Running(s)
    /\ Pending(s) = {} \/ FastGivesUp(s)
    /\ Return(s)
    /\ spent' = [spent EXCEPT ![s] = FALSE]
    /\ UNCHANGED <<desired, sem, locks, takeovers>>

TimeRunsOut(s) ==
    /\ Running(s) /\ ~spent[s]
    /\ spent' = [spent EXCEPT ![s] = TRUE]
    /\ UNCHANGED <<desired, sem, value, queue, semOf, task, locks, takeovers>>

\* wait_for around the search cancels it.
TelegramSearchTimesOut(s) ==
    /\ Running(s) /\ s \in Timed
    /\ Return(s)
    /\ spent' = [spent EXCEPT ![s] = TRUE]
    /\ UNCHANGED <<desired, sem, locks, takeovers>>

TaskRuns(s, d) == StartTask(s, d) \/ GoOn(s, d) \/ RemoteEnds(s, d)
SearchRuns(s) == CollectHistory(s) \/ CollectFast(s) \/ SearchEnds(s)

Next ==
    \/ PressureChanges
    \/ OtherLoopSearches
    \/ OtherLoopLocks
    \/ \E s \in Search : SearchBegins(s)
    \/ \E s \in Search, d \in Dialog : TaskRuns(s, d)
    \/ \E s \in Search, d \in Dialog : TakeLock(s, d)
    \/ \E s \in Search : SearchRuns(s)
    \/ \E s \in Search : TimeRunsOut(s)
    \/ \E s \in Search : TelegramSearchTimesOut(s)

Spec == Init /\ [][Next]_vars

(***************************************************************************)
(* A loop runs what is ready, remote calls end by their timeouts, budgets  *)
(* end by the clock, and locks are handed over in order.  The timeout      *)
(* around a search is not relied upon: manual searches have none.          *)
(***************************************************************************)
Fairness ==
    /\ \A s \in Search, d \in Dialog : WF_vars(TaskRuns(s, d))
    /\ \A s \in Search, d \in Dialog : SF_vars(TakeLock(s, d))
    /\ \A s \in Search : WF_vars(SearchRuns(s))
    /\ \A s \in Search : WF_vars(TimeRunsOut(s))

FairSpec == Spec /\ Fairness

----------------------------------------------------------------------------
(* Properties *)

Holders(i) ==
    {w \in Search \X Dialog : semOf[w[1]] = i /\ HasPermit(w[1], task[w[1]][w[2]])}

TypeOK ==
    /\ desired \in 1..MaxPermits
    /\ sem.id \in {0} \cup ObjectId /\ sem.limit \in 0..MaxPermits
    /\ value \in [ObjectId -> 0..MaxPermits]
    /\ \A i \in ObjectId, w \in Search \X Dialog :
         (\E j \in 1..Len(queue[i]) : queue[i][j] = w)
            <=> semOf[w[1]] = i /\ task[w[1]][w[2]].stage = "wait_permit"
    /\ semOf \in [Search -> {0} \cup ObjectId]
    /\ task \in [Search -> [Dialog -> Task]]
    /\ \A s \in Search, d \in Dialog :
         task[s][d].lock # 0 <=> \/ HasLock(s, task[s][d])
                                 \/ task[s][d].stage = "wait_lock"
    /\ spent \in [Search -> BOOLEAN]
    /\ locks \in [Dialog -> {0} \cup ObjectId]
    /\ takeovers \in 0..MaxTakeovers

\* A semaphore in use never runs dry of permits, whatever is cancelled, cut
\* or handed over, and never gives out more than it was built with.
PermitsKept ==
    \A i \in ObjectId :
        i = sem.id \/ (\E s \in Search : semOf[s] = i)
            => value[i] + Cardinality(Holders(i)) \in 1..MaxPermits

\* "Serialize remote work for the same Telegram dialog/source."
\* (concurrency.py): two searches read one dialog at once only when a lock
\* they use was dropped, by a call from another loop or an eviction.
SourceSerialized ==
    \A d \in Dialog, s, t \in Search :
          /\ s # t
          /\ task[s][d].stage = "remote" /\ task[t][d].stage = "remote"
        => task[s][d].lock # locks[d] \/ task[t][d].lock # locks[d]

\* The search returns before its time is over.
ReturnsInTime(s) ==
    semOf[s] # 0 /\ semOf'[s] = 0 /\ ~spent[s] /\ ~spent'[s]

\* A history search that returns in time has been through all its dialogs,
\* or through none.
AllDialogsOrNone ==
    [][\A s \in Search :
         ReturnsInTime(s) /\ Kind[s] = "history"
            => InStage(s, "over") \in {{}, DialogsOf[s]}]_vars

\* "Prime the pool with as many tasks as the semaphore allows", "Launch next
\* dialog as soon as a slot frees up." (history/dialog_search.py): a history
\* search that returns in time has been through all its dialogs.
EveryDialogSearched ==
    [][\A s \in Search :
         ReturnsInTime(s) /\ Kind[s] = "history"
            => InStage(s, "over") = DialogsOf[s]]_vars

\* Every search returns, although history and fast searches take permits and
\* locks in opposite orders.
SearchesReturn == \A s \in Search : Running(s) ~> ~Running(s)
=============================================================================
