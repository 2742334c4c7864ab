# ToGo115 in TLA+

ToGo115 watches Telegram channels and other sources for resources of the series
and films a user has subscribed to, and delivers what it finds to a 115 drive
or a Telegram bot. This directory holds TLA+ models of the program: its
background jobs, the searches of one and of all subscriptions, the rules by
which resources are chosen, their delivery, the Telegram history, session and
bot, the other sources, the subscriptions and their sync with the Emby library;
the TLC runs that check them; and TLAPS proofs of their safety properties.

Source paths are relative to `src/app/services/` unless they begin with `src/`.
`PROJECT.json` maps every definition to the lines it models, and lists the runs,
the mutants that show each property can fail, the hazards and the findings.

## 1. The system

One process (uvicorn, `src/app/main.py`), restarted by its container when it
ends. In it run:

- the **main event loop**: HTTP routes, the monitor (`monitor.py`, a pass every
  60 s), the job worker coroutine, its heartbeats, the bot's polling, the
  realtime Telegram listener;
- **one thread per executing job**, each with an event loop of its own
  (`job_worker.py:148`), which searches, delivers, retries or syncs;
- helper threads for blocking calls.

They share one SQLite database (WAL, one connection per thread) and the globals
of the process: semaphores, locks, caches. Code between two awaits is atomic
for coroutines of the same loop and not for those of another.

### Inventory

| Component | State | Operations | Interacts with | What is hard | What makes it correct |
|---|---|---|---|---|---|
| Job table `jobs.py` | rows of `background_jobs` | create, claim, heartbeat, done, failed, requeue | schedulers, worker | verdict statements have no guard | ids in order, verdicts final, legal moves only |
| Schedulers `subscription/search/tasks.py` | none | reuse, supersede or create a job | routes, monitor | a row is judged by its age | work is queued at most once |
| Worker `job_worker.py` | its coroutine, executions, heartbeats | poll, claim one or two, execute, requeue | job table, threads | failing heartbeats and claims, gather, crashes | searches stay alone, no row executed twice, every job settles |
| Monitor `monitor.py` | time of last runs | schedule retries, sync, prewarm, rescan | schedulers, bot, Telegram | runs for ever through errors | each duty keeps being done |
| Delivery `subscription/delivery/` | `resources` rows, locks per loop and link | deliver, classify, retry, sweep | searches, routes, bot, 115 drive | two loops, stale rows, timeouts that hide an acceptance | no link twice without cause, delivered is final, nothing left pending |
| Attach `subscription/attach/`, `resource/` | `resources` rows | match, insert | realtime monitor, RSS, searches | a failure abandons the rest | one row per link and episode |
| Search of one `search/service.py`, `flow.py`, `discovery.py` | per-search state | fast, full, ed2k, fallback stages | dialogs, sources, delivery | 120 s around 300 s transfers | what is created is delivered |
| Search of all `search/all.py` | ids to mark as checked | waves of searches | searches, Emby | globals of another loop | each active subscription searched once |
| Primitives `concurrency.py` | semaphores, locks, their loop | get, cut, rebuild, evict | all searches | replaced while in use | permits kept, sources serialised |
| Telegram search `adapters/telegram/history/` | task pools | prime, refill, collect, cancel | primitives, gate | permits and locks in two orders | every search returns, having read its dialogs |
| Message index and scans `history/`, `scan/` | index rows, watermark, cursor, caches | search the index, the server, the newest messages; prewarm | Telegram search, realtime monitor | marks move before writes that may fail | what is posted gets into the index |
| Request gate `adapters/telegram/rate_limit.py` | interval, cooldown | wait, note FloodWait | all Telegram calls | two loops | requests are spaced |
| Telegram session, realtime monitor | client, listener, handler | connect, listen, register again | attach, searches in other loops | loops take the client from each other | a connected client has a handler for every source |
| Telegram bot `adapters/telegram/bot/` | polling task, offset, picks | poll, handle, deliver a pick | delivery | offset saved before handling | no update is lost |
| 115 drive `adapters/pan115*.py` | cookie, folder cache | transfer, offline task, share status | delivery | errors in several shapes | acceptance recognised |
| RSS and sites `sources/rss/` | settings, cache | due, fetch, persist | attach | read, await, write | each source refreshed on time |
| Haisou `sources/haisou/` | counters, caches | acquire slot, search, validate | searches | threads, pages, a retry | budget kept |
| Subscriptions `subscription/crud/`, `library/` | `subscriptions` rows | create, update, delete, complete | searches, Emby | snapshot older than the row | completed once, not lost |
| Database `src/app/db_core.py` | connection per thread | transactions, retries | everything | nested blocks share a transaction | atomic transactions |
| Log buffer `src/app/db_logs.py` | buffer, counters | add, flush, prune | everything | any thread, locked database | a log is written once or dropped |
| Matching, episodes, duplicates | none | decisions on texts | attach, delivery | many rules, each written alone | they agree on what is missing, and together lose no episode |
| Settings, auth, backup, metrics, catalogue, UI | single rows | read, write | routes | little | - |

## 2. Modules

| Module | What it models |
|---|---|
| `JobTable` | the table of jobs and its statements, as operators on the whole table |
| `JobQueue` | schedulers, worker, executions, crashes |
| `JobLifecycle` | abstract specification: what becomes of a row of the table |
| `SearchAll` | the search of all subscriptions, the search semaphore |
| `EpisodeRules` | episode sets, what a text claims to carry, when a show is complete |
| `CandidateRules` | which links are wanted, in which order, what is a duplicate |
| `Decisions` | one step that judges a case by those rules |
| `SearchFlow` | the search of one subscription with its rows; uses the rules at every step |
| `Delivery` | delivery of rows, retries, sweep |
| `ResourceLife` | abstract specification: what becomes of rows and links that are delivered |
| `DialogSearch` | the task pools of Telegram searches, permits, locks |
| `TelegramHistory` | what a search of one dialog reads; index, watermark, cursor, caches |
| `TelegramSession` | the shared client, the listener, sign-in |
| `TelegramBot` | polling, magnet searches and picks |
| `Sources` | RSS, Torznab and site sources: search, health, refresh |
| `Haisou` | the budget of paid searches |
| `Subscriptions` | rows of a show under users, syncs and searches |
| `MCJobQueue`, `MCJobs`, `MCSyncJobs`, `MCDelivery`, `MCDialogSearch`, `MCSearch`, `MCDecisions`, `MCSources`, `MCTelegram` | instances for TLC |
| `JobQueueProofs`, `JobQueueSafetyProofs`, `JobQueueOwnershipProofs` | theorems about the job queue |
| `DeliveryProofs`, `SearchProofs`, `DialogSearchProofs` | theorems about `Delivery`, `SearchAll`, `DialogSearch` |
| `SourcesProofs` | theorems about the rules (`Decisions`), `Sources` and `Haisou` |
| `SubscriptionsProofs` | theorems about `Subscriptions` and `SearchFlow` |

`SearchFlow` and `Decisions` extend `CandidateRules`, which extends
`EpisodeRules`: the rules that the search follows are the ones that are judged
by themselves. `MCJobs`, `MCSyncJobs`, `MCSources` and `MCTelegram` put
components that do not share state side by side: a variable `focus`, chosen in
the first state, says which of them runs, and the others rest. Their states add
up and do not multiply. Where components share state, what one does is an
action of the other: the sweep and the timeout of searches in `Delivery`, the
realtime monitor in `SearchFlow`, the searches' pressure in `SearchAll`, the
sync of a new row in `Subscriptions`.

### JobQueue

| In the model | In the code |
|---|---|
| `jobs`, `lastId` | `background_jobs` and its AUTOINCREMENT ids; `age` is the time since the newest stamp |
| `worker` | where `JobWorker._run` is; `dead` when its first statement raised |
| `exec` | `_execute` coroutines: job, thread, heartbeat alive, awaited by `_run` |
| `ReuseOrCreateJob`, `ScheduleForcedSearchAll` | `_reuse_or_create_job`, `_schedule_forced_search_all` |
| `RunBegins`, `Poll` | `_run`: the requeue first, then requeue (every 60 s), claim, claim of a second plain job, await |
| `Heartbeat`, `HeartbeatDies`, `ThreadEnds`, `ExecutionEnds` | `_heartbeat_loop`, `_dispatch_blocking`, the rest of `_execute` |
| `ProcessEnds`, `StartProcess` | crash, shutdown, restart |

The schedulers and the worker run on the main loop and have no await between
reading and writing, so each is one action. A statement raises only where
`FaultPoints` allows it (`database is locked` after all retries), at most
`MaxFaults` times.

### Delivery

`rows` is the table, `call` what each caller does inside `deliver_resource`,
`todo` what it has yet to deliver. Callers have a role (a search's gather, a
message's loop, a route or the bot, a retry pass) and an event loop. As loops run
in different threads, each transaction is an action: `Load` (the row is read
before the lock), `Enter` (lock, status as read, skip), `CheckDuplicate`,
`MarkDuplicate`, `TransferEnds`, `Record`. `SearchTimesOut` is the 120 s timeout
of the job around it, `ProcessEnds` a crash. `ListStuckPending` and
`RetryStuckPending` are the two transactions of the sweep, for one subscription;
`Searched` are the subscriptions that are still searched. `forwarded` counts what
the remote has accepted. `ResourceLife` sees of this the statuses, the acceptances
and the links in doubt (`Doubted`: those of `unsure`, and of rows that two calls
held).

Abstractions: False and a timeout are a temporary failure; `late_accepted` is an
acceptance whose answer is lost; the kind of `last_error` follows from the
status (a raising statement says "database is locked", which is temporary); rows
are not deleted; the retry limit (12) is above the number of rows due; a
fallback candidate's own mark (`delivery_failed_retryable`) is treated as the
search's `failed`; the two are due alike.

### DialogSearch

Coroutines of one loop search dialogs with a pool of tasks each. `sem`, `value`
and `queue` are the asyncio semaphore (exact: a counter and a FIFO queue of
waiters), `locks` the dictionary of source locks, `task` each task's stage. The
gate's pressure changes `desired` at any time. Other loops appear only as
take-overs of the globals (`OtherLoopSearches`, `OtherLoopLocks`), bounded by
`MaxTakeovers`.

Abstractions: the order of dialogs is arbitrary (ranking); a remote read ends
as hit or empty; cancellation is one step; the code between two awaits is split
where a woken task continues, which adds behaviours; who gets a lock that is let
go of is any waiter, in fair turn; a fast search refills its pool when a task ends,
not also after half a second without one. `search_semaphore`, the same algorithm
with other limits, is in `SearchAll`. The prewarm's permits are not modelled.

### SearchAll

`listed` is a row's status, whether episodes are missing and how old its last
check is; `left` the list, cut into waves; `attempt` the state of each search,
`noted` the global list of ids to be marked, `side` the tasks that ask TMDB and
Emby beside the waves. `permit` is the semaphore: its free permits and its
limit. Holders of a semaphore that was replaced are `strays`: their permits do
not come back to the new one. `WaveBreaks` is an exception outside the try of
`_search_one`: the run ends, its list of ids stays behind. Each run has a loop of
its own, hence a new semaphore. A run of the schedule takes the subscriptions in
the order of `SearchedBefore`, a forced one as the table lists them, the newest
first. The 45 s cache of results is left out.

### EpisodeRules, CandidateRules

A text is what the regular expressions find in it: for each notation the marks
`<<season, first, last>>`, the seasons that are named, the counts of phrases such
as "all 12 episodes", three kinds of pack words. A link has a title and a context,
with lines that carry years and the title in full or in part. The rules are
operators on these: which notation wins, how a named season moves numbers, what a
pack means for a show whose seasons are known, identity, quality rules, the four
judgements of completion, the order of candidates, three kinds of duplicates, the
guard before a delivery. `Reading` is a link as most of these rules see it, with
its episodes and those that the subscription lacks. `Decisions` judges one case
per behaviour and keeps every answer. Left out: an exception inside a rule, the
memo of the rows that duplicates are looked up in, a range without an end.

### SearchFlow

`status` is the row of each link (rows are unique by subscription and url),
`view` the subscription as the search enriched it when it began, `created` the
rows the Telegram stages hand on, `sending` the deliveries under way. Actions
are the stretches between awaits: `Begin`, `Enriched` (with the sweep of rows
that hang in pending), `FastStage`, `FullStage`, `Ed2kStage`, `Deliver`,
`DeliverCreated` per row, `SearchFallback`, `AttachFirstFromGroup`,
`DeliverCandidate`, `Finish`. A stage folds the rules over the candidates in the
code's order, each against the rows the one before left. Beside it run the
realtime monitor (`AttachLive`), retries, the ageing of rows, and the time limit
that cuts the search at any of its awaits. What a delivery does inside is
`Delivery`; here it has an outcome. A message of the monitor is saved and delivered
in one action.

### Subscriptions

`entry` is the row: status, episodes in the library, episodes that exist. A sync
works on copies of rows (`sync[p].copy`), with a snapshot that may be a stale one
after a failure, and awaits TMDB row by row before its one transaction. `judge`
is a search that reads one row and judges it against the library. Both end rows
and notify afterwards; `JudgeBegin` takes the read of the row, TMDB's answer and the
guarded UPDATE together. The library only gains episodes; the name, keywords and
rules of a row are left out.

### TelegramHistory

One source; its messages come one by one. `index` has for each message the titles
of its context. A search (fast, full, incremental) asks the index, the server,
then, if it is not a fast one and has found nothing, the newest messages.
`watermark` and `cursor` say from where it reads; writes to the index may fail.
`SearchHistoryEnds` passes from the fast search of a flow to the full one
(`_search_telegram_first`), always when the fast one has found nothing;
`SearchIsCut` ends a stage by its time limit, or the flow. `Wanted` are the titles
that flows look for again and again. Beside it: `PrewarmDialogIndex`, the realtime
listener's write in `MessagePosted`, and the caches' expiry. Extraction of links
is a set of outcomes per message. Searches of the source come one at a time: the
code's lock covers the server and the newest messages, and the look at the index
before it is put with them. Rows of the index are dropped after 28 days and above
a limit per source, which is left out. That the cursor passes messages whose
extraction failed is in the model (`SafeMaxMessageId`) as it is in the code.

### TelegramSession

`client` and `clientLoop` are the class attributes, `connected` the clients that
are connected, known or not. Three callers of `client()`: the monitor's pass and
the login routes on the loop of the application, a search on that of its job.
The lock around the connection is replaced when another loop asks for it, so
that two callers of different loops are inside at once: an action each for
looking, connecting, failing. Telethon is external: a connection succeeds, fails
or is lost.

### TelegramBot

`poll` is the task with its own offset and its batch; `flowOffset` is stored
before each update is handled; an exception begins the round again with the old
offset. `update[u].fate` says what became of an update. Magnet choices are kept
under tokens in memory and in the database, at most `MaxPicks`, and are loaded
again after a restart. Wording, previews and lists are left out.

### Sources, Haisou

`Sources`: `stats` and `failures`/`cooling` are the two records of health,
`cache` the stored answers (an empty one also stands for a failure), `hunt` a
search in waves of equal priority, `refresh` the timed refresh, which reads the
setting again, and writes all of it back. `Haisou`: each page of a search takes
a call out of the budget under the thread lock; an error is retried from the
first page. Failures are not timed, and of the parts of a source's priority only
the one for bad health is kept.

## 3. Runs

Twelve runs; each property of a passing run has a mutant of the code that
violates it.

| Run | Shows | Bounds |
|---|---|---|
| `jobqueue` | `TypeOK`, `ExecutingOwnsRow`, `OnlyLatestActive`, `SameKeyExclusive`, `LifecycleKept` (refinement); `SearchPermitsKept`, `MarkedWasAttempted`, `AllEachIsSearched` | 3 rows, 4 keys, 2 executions, 1 crash, startup fault; 3 subscriptions, 2 permits, 1 broken run, 1 act of the user |
| `sync_jobs` | `TgExclusive`, `NoDoubleExecution`, `EveryJobSettles`; `ToldByWhoEndsIt`, `CompleteShowsEnd` | 2 rows, 5 keys, 2 executions, 2 crashes, 1 fault at any point of a running worker; 2 rows of a show, a job's sync and that of a creation, a judging search, 2 episodes, 1 failure of Emby or TMDB, 1 request |
| `delivery` | `DeliveryTypeOK`, `ForwardedOnce`, `DeliveredWasForwarded`, `DeliveredIsFinal`, `LifeKept` (refinement) | 2 rows of one link, 2 searches and a user on 2 loops, 1 crash, 1 fault |
| `delivery_retry` | `PendingSettles`, `FailureIsRetried` | 2 rows of two subscriptions, one of them no longer searched, a search and retries, 1 crash, 1 fault |
| `delivery_twice` | violates `NotForwardedTwice` | 1 row, 2 requests, 1 loop, nothing fails |
| `delivery_finals` | violates `FinalIsRetried` | 1 row, no known error |
| `dialogs` | `TypeOK`, `PermitsKept`, `SourceSerialized`, `AllDialogsOrNone` | a fast and a full search, 2 dialogs, 2 permits, 1 lock kept |
| `dialogs_return` | `SearchesReturn` | a fast and a full search over both dialogs, 1 permit, 1 take-over |
| `dialogs_primed` | violates `EveryDialogSearched` | 2 full searches, 2 permits |
| `search` | `NoOfferLost`, `HandedOnSettled`, `SearchEnds`, `PendingSwept` | 3 episodes, 4 links of four kinds, 2 views of the library, 1 cut |
| `sources` | `CompletionConsistent`, `AcceptedIsNeeded`, `SkipLosesNoEpisode`, `GuardFollowsLibrary`, `SeasonReading`; `SourcesComeBack`, `RefreshKeepsEdits`; `BudgetKept`; `BotSettlesUpdates` | some 64,000 cases; 2 sources, 1 fault, 1 edit; 2 threads, 3 calls, 2 pages, 1 new window; 3 updates, 2 candidates, 1 pick kept, 1 exception, 1 stop |
| `telegram` | `IndexHasWanted`; `SessionListensAgain` | 3 messages of which 2 are read and 2 answered, 2 titles of which 1 is wanted, 1 fault, 1 incremental search; 1 source, 2 attempts to connect, 1 fault, 1 search |

Why these bounds are enough. Two rows of one key and a third row are what it
takes to have an orphan, its successor and a rival; the worker never awaits more
than two executions, and the second slot is where an execution goes on that
nobody awaits. Ages count in ticks: three thresholds in the right order (180 s
< 360 s <= 1800 s; 2, 3, 4) are all that the guards compare. Two rows of one
link and three callers on two loops give every pairing of callers at a lock: the
same row, the same link, the same loop or not. Backoff windows grow in the code;
one tick for each keeps rows due sooner than in reality, which adds behaviours.
Two searches, two dialogs and two permits let permits and locks be waited for at
the same time (the code's largest limit is 3), and one lock kept (256 in the
code) makes eviction happen.

Three subscriptions and two permits give a wave that is cut, a search that waits
and one that is left for the next wave. Four links (two shares of overlapping
episodes, an ed2k file, a share of the user's own site) bring duplicates by key
and by covered episodes, a covered link and a blocked fallback; the duplicate by a
similar title occurs in the cases of `sources` only. The cases of `sources` are
every shape of a show (one or two seasons, known or counted, no, some or all
episodes, with and without a failed snapshot, and shows of which TMDB lists
nothing) against every notation and pack word, and films and ruled shows against
every way a title can be wrong; ranges are believed up to three episodes (120 in
the code), so that one beyond it occurs. Two syncs and a judge with copies of one
row are every order of the three writers that may hold an old copy. Of three
messages two are read at a time, so that one is beyond the window, and the one
with the wanted title is between two others: the watermark may pass it, the
prewarm's highest row too. The other title is searched or not, as it likes, so
that its full searches cannot be relied on to read the window for the wanted one.
One fault each puts a failure at any step of the others' work; two failures that
overlap are only tried where the table above says so.

`CHECK_DEADLOCK FALSE` is said where the system may come to rest: a show that is
complete and no longer searched (`search`, `sync_jobs`), a case that is
judged and updates that are all handled (`sources`).

What the bounds matter for. With two failing statements `NoDoubleExecution`
does not hold: the heartbeat of one of two gathered coroutines dies, the other
raises while it writes its verdict, and `_run` polls and requeues the row of the
first while its thread still works. One such failure is harmless, which is
proved (section 4). `EveryJobSettles` leaves out
the worker's first requeue: if it raises, the worker is dead until the process
is restarted (a hazard of its own). `ForwardedOnce` names the cases in which a
link does go out twice: two calls that held the same row, two loops that held
the same link, an acceptance that never reached the table. `NoOfferLost` counts
an offer as kept when the very link has a row that failed: such a row is left to
the retries. `PendingSettles` is about the subscriptions of `Searched`.
`GuardFollowsLibrary` says "the library has it" in two ways where TMDB lists
nothing: then one owned episode is enough for the code to stop every link with
episodes, and episodes beyond a known list count for nothing. `IndexHasWanted`
is about messages whose link stands in the text and which the scan or the
server still reaches: links behind buttons are not kept in the index.
`BotSettlesUpdates`
allows an update that a restart or a change of the token gives up after its
offset was stored: the code loses it.

### Findings

- `delivery_twice`: `deliver_resource` reads the row before it waits for the
  link's lock and decides by what it read. Two requests for one row forward it
  twice, on one event loop and with nothing failing.
- `delivery_finals`: a comment promises a few retries of final failures;
  `_retry_due` never lets one through.
- `dialogs_primed`: a full (or fast) search that begins while all permits are
  out creates no task and returns no results at once.

Four more things were read and have no run of their own. The cursor of
incremental scans is set to the newest message that was read safely, also when
an older one failed (`history/recent.py:155`), although
`tests/test_rss_torznab.py:726` is named
`test_telegram_recent_cursor_stays_before_failed_message`: that test fails only
the newest. The window of the Haisou budget is called rolling
(`haisou/budget.py:12`) and is fixed. `flow.py:87` drops the rows that the fast
stage created when the full one runs too; the sweep of a later search is what
`PendingSwept` relies on for them. And a series of which TMDB lists no episodes
is still searched, as the comment at `search/service.py:89` wants it, but once
the library has one episode of it every numbered link is refused
(`library/match.py:151`).

### Fairness

- JobQueue: the container restarts the process, the loop runs ready coroutines,
  a pass requeues when the last one is 60 s old, threads end (their awaits have
  timeouts), the clock goes on. Nobody has to schedule and nothing has to fail.
- SearchAll: the monitor starts runs, the loop goes on with what is ready, time
  passes. Pressure, Emby, TMDB and users owe nothing.
- Delivery: strong fairness of a call in progress (locks are handed over in
  order; a caller cannot be overtaken for ever), weak fairness of the retry
  pass (every 300 s), of the sweep of the subscriptions of `Searched` and of the
  clock. A search comes to the sweep only if its subscription is active, not to be
  hidden and lacks something (`search/service.py:23-53`). Nothing is owed to one
  that is paused, hidden, completed or has caught up: its stuck rows stay.
- DialogSearch: weak fairness of tasks, of the searches and of their budgets
  (the clock), strong fairness of taking a lock. The timeout around a search is
  not relied on, since manual searches have none.
- SearchFlow: weak fairness of the search's own steps, its start among them, and
  of the clock that ages a row. The retries owe nothing.
- Subscriptions: strong fairness of the sync of all rows (a job every ten
  minutes, which another pass may keep out for a while but not for ever), weak
  fairness of passes that have begun. Creations and searches need not come.
- TelegramHistory: a wanted title is searched again and again, beginning with the
  fast stage, as the search of all does while episodes are missing
  (`search/all.py:146-160`); one that has found nothing goes on to the full stage
  (`flow.py:19-60`). A search in progress goes on or is cut; strong fairness of the
  steps by which a flow of the title asks the server and reads the newest messages
  says that it is not cut at the same await for ever. Weak fairness of the
  watermark's ten minutes and of the caches' times. Nobody owes searches of other
  titles, searches by hand (which begin with the full stage), incremental ones,
  the listener, the prewarm, or an answer of the server.
- TelegramSession: weak fairness of the callers' steps, of the end of a listener
  whose client was disconnected, and of the caches' times.
- TelegramBot: the monitor's `ensure_polling` (each 60 s) and the task itself.
- Sources: the search is started again and again; strong fairness of the end of
  a cooldown, of old statistics and of stored answers (new failures begin them
  anew, but only as answers to a search).

## 4. Proofs

Every invariant that a run checks, and every action property but `NoOfferLost`,
is also proved by TLAPS, for every value of the constants. Nothing is assumed
but the named assumptions of the modules (each is evaluated by TLC in the runs),
and for three theorems of the job queue which statements do not fail.

| Module | Assumption | Says |
|---|---|---|
| `JobTable`, `JobQueue` | `TableAssumption`, `QueueAssumption` | thresholds in order, at least two ticks; fault points from the list |
| `Delivery` | `DeliveryAssumption` | each row has a link and a subscription, each caller a role; backoffs of at least one tick |
| `SearchAll` | `SearchAllAssumption` | finitely many ids, a capacity above one, as in the code |
| `DialogSearch` | `DialogSearchAssumption` | finitely many searches and dialogs, limits above zero |
| `TelegramHistory` | `HistoryAssumption` | wanted titles are titles, bounds are numbers (no theorem uses it yet) |
| `SearchFlow` | `SearchFlowAssumption` | the groups of candidates are a sequence of sets of links |
| `Subscriptions` | `SubscriptionsAssumption` | finitely many rows, numbers as ids |
| `Sources`, `Haisou` | `SourcesAssumption`, `HaisouAssumption` | bounds are numbers |
| `EpisodeRules` | `MaxRangeSpanAssumption` | the longest range that is believed is a number |
| `Decisions` | `DecisionsAssumption` | cases have numbers where the code has: counts, and seasons above zero (`episode/explicit.py` believes 1 to 99) |

### Job queue

- `JobQueueProofs`: `TypeCorrect`. `TypeOK` is inductive: it says that ids are
  allocated without gaps and that an execution belongs to a row that exists,
  which every later proof uses.
- `JobQueueSafetyProofs`: `TelegramSearchesExclusive`, for any faults.
  `TgExclusive` is not inductive: nothing in it says why a new search may be
  claimed. The strengthening `AwaitedAlone` says that a search is awaited as
  long as it is executed, that no other coroutine is awaited with it, and that
  the worker awaits nothing while it polls.
  `WorkIsNeverDuplicated`, if superseding never fails: `OnlyLatestActive`
  is inductive with the type invariant, as a row is only created after the
  newest of its key was found inactive or was failed. It covers every other
  fault point.
- `JobQueueOwnershipProofs`: `Owned` says that the row of every execution whose
  heart beats is running and fresh (its age is at most one tick), so that no
  scheduler and no requeue takes it. Where no heartbeat dies (whatever else
  raises), follow `ExecutionsOwnTheirRows` and `QueueImplementsLifecycle`: initial
  states map to initial states and every step is a step of `JobLifecycle` or a
  stutter; with `OnlyLatestActive`, `SameWorkExclusive`.
  `OneFaultRunsNoRowTwice` is `NoDoubleExecution` for any single fault: it costs
  one heartbeat or leaves one coroutine unawaited, never both, and `_run` does not
  poll while it awaits the one without a heartbeat (`OneFault`, `AwaitedAlone`).

### Delivery

Two facts carry the proofs. `FinalInv`: calls on one row at once are noted in
`contended`, and a row with one call is what that call has read of it
(`OpenRowsAreOpen`), so its verdict overwrites no other: `DeliveredStaysFinal`.
`OnceInv`: two holders of one link's locks (of two loops) leave it unsure; a link
that is clear and was accepted is in the table or with a call about to record it
(`AcceptanceIsKnown`); what is being sent and is clear was not accepted yet. From
these, `DeliveredMeansAccepted` and `LinksAreForwardedOnce`. With one more
invariant, that callers only hold rows of the table (`RowsExist`), every step is
shown to be a step of `ResourceLife` or a stutter: `DeliveryImplementsLife`.

### Searches

- `SearchProofs`: `PermitInv` adds to `SearchPermitsKept` that the holders of
  replaced semaphores are searches that still run, and that a run begins with no
  search in progress, so that its new semaphore has no holders. `NotesInv` says
  that the list names each subscription once, that those left were neither
  attempted nor noted, and that what is noted was attempted in this run:
  `PermitsAreKept`, `MarksAreOfTheRun`.
- `DialogSearchProofs`: `DialogInv` says what each task holds and waits for
  (`DialogTypes`), that a line has each of its waiting tasks once (`LineInv`),
  that a lock has at most one holder (`LockInv`, `LocksExclude`), and that a number
  which is not in use as a semaphore has no permits (`FreeIsZero`). It is inductive under cancellation,
  where several tasks give permits back and as many waiters are woken at once:
  `DialogTypeCorrect`, `PermitsAreNeverLost`, `DialogsAreSerialized`. `PoolInv`
  (while a dialog is left and one is done, a task is in the pool) gives
  `NoDialogIsForgotten`.
- `SubscriptionsProofs`, second half: `SettledInv` follows what a search hands on
  through its stages; `HandedOnSettled` alone says nothing before the last of
  them. `SearchSettlesWhatItHandsOn`.

### Rules, sources, subscriptions

- `SourcesProofs`: for every case, shows and texts of any size: the verdict that
  is kept is the judgement of its case (`VerdictInv`), and lemmas about
  `EpisodeRules` and `CandidateRules` say what the judgement is.
  `CompletionIsOneQuestion`, `AcceptedLinksAreNeeded`, `DeliveriesFollowTheLibrary`,
  `SkippedLinksBringNothing`, `OneSeasonIsRead`. Then `RefreshLosesNoEdit` (the
  copy that is written back is not older than the last edit the user was told is
  saved) and `WindowsStayInBudget` (the counter bounds what was sent).
- `SubscriptionsProofs`, first half: `OnlyTheEnderTells`, by counting for each row
  who has its completion to tell: no step adds one without ending the row. It
  needs little of an invariant (`ToldInv`, the types), as the UPDATE of the row
  is guarded by its status.

### Only model-checked

- Liveness, which is out of the prover's reach: `EveryJobSettles`, `PendingSettles`,
  `FailureIsRetried`, `SearchesReturn`, `AllEachIsSearched`, `SearchEnds`,
  `PendingSwept`, `CompleteShowsEnd`, `SourcesComeBack`, `IndexHasWanted`,
  `SessionListensAgain`, `BotSettlesUpdates`. The models of the Telegram history,
  session and bot have liveness properties only, so no theorem is about them yet.
- `NoOfferLost`: a stage folds the rules over its candidates one by one; what
  the fold has covered at its end is an induction over the list, for which no
  prover is available here.
- `NoDoubleExecution` with more than one fault does not hold (section 3).

## 5. Not modelled, and why

- Wording: the regular expressions, the layout of messages, the ranking of
  magnets and histories, feeds and pages. The models begin with what an
  expression finds.
- The log buffer, metrics, settings, backup, authentication and the catalogue:
  single reads and writes on request, of which no other component's correctness
  depends. The one lost update that matters, of the list of sources, is in
  `Sources`.
- The 115 adapter's inside, the commands of the bot, the steps of a QR login,
  the manual search: sequential calls of a service that is external here.
- The 45 s cache of recent results, the list cache of subscriptions, the budget
  of Haisou validations, the spacing of the request gate, pruning and
  maintenance of the database.
- Telethon, httpx, SQLite and asyncio are external: modelled as far as the code
  relies on them. Memory growth (for instance `_delivery_locks`, never emptied)
  is not a property here.
- The transaction that nested `db()` blocks of one thread share: every model
  step that stands for a transaction is one block in the code.

## 6. Plan

Done: everything in section 2, and theorems for all invariants of the runs. What
is left:

1. Safety of the Telegram models, stated, checked and proved: for the history,
   that what a scan has read and written stays in the index and that marks only
   move forward with it; for the session, that a listener belongs to a client
   that some loop has connected; for the bot, that no update or pick is handled
   twice but where a round begins again with an old offset.
2. A finer account of faults in the job queue: which pairs of faults break
   `NoDoubleExecution`, as an assumption that replaces `MaxFaults <= 1`.
3. Hazards without a property: the first requeue of the worker, the LIMIT of the
   retry list, the cursor of recent scans.
