------------------------------ MODULE JobQueue ------------------------------
(***************************************************************************)
(* The background job queue of one process: the schedulers                 *)
(* (subscription/search/tasks.py) that insert rows, and the JobWorker      *)
(* (job_worker.py) that claims them and executes each one in a thread.     *)
(*                                                                         *)
(* Everything that touches the table runs on the main event loop: routes,  *)
(* the monitor, the worker coroutine and the heartbeat tasks.  A stretch   *)
(* of code between two awaits is therefore one action, and the code of a   *)
(* job runs concurrently with all of them in its thread.                   *)
(***************************************************************************)
EXTENDS JobTable

CONSTANTS
    Slots,          \* bound on the coroutines _execute alive at once
    MaxCrashes,     \* bound on the times the process ends
    FaultPoints,    \* the database calls that may raise (database is locked)
    MaxFaults       \* bound on the calls that raise

ASSUME QueueAssumption ==
    /\ MaxCrashes \in Nat
    /\ MaxFaults \in Nat
    /\ FaultPoints \subseteq {"startup", "heartbeat", "mark_done",
                              "mark_failed", "sidecar", "supersede"}

VARIABLES
    jobs,       \* the table background_jobs
    lastId,     \* the id of the newest row
    worker,     \* where the coroutine JobWorker._run is
    exec,       \* the coroutines JobWorker._execute, with thread and heartbeat
    crashes,    \* how often the process has ended
    faults      \* how many database calls have raised

vars == <<jobs, lastId, worker, exec, crashes, faults>>

\* "down": no process.  "dead": _run ended with the exception of its first
\* statement; nothing restarts it while the process lives.
WorkerState == {"down", "starting", "polling", "awaiting", "dead"}

\* `awaited': _run waits for this coroutine, alone or in gather.
\* `hb': the heartbeat task of this coroutine is alive.
ThreadState == {"none", "running", "returned", "raised"}
Execution ==
    [job : 0..MaxJobs, thread : ThreadState, hb : BOOLEAN, awaited : BOOLEAN]

NoExecution ==
    [job |-> 0, thread |-> "none", hb |-> FALSE, awaited |-> FALSE]
StartedExecution(j) ==
    [job |-> j, thread |-> "running", hb |-> TRUE, awaited |-> TRUE]

NoLongerAwaited(e) ==
    [job |-> e.job, thread |-> e.thread, hb |-> e.hb, awaited |-> FALSE]

Init ==
    /\ jobs = [j \in JobId |-> AbsentRow]
    /\ lastId = 0
    /\ worker = "down"
    /\ exec = [s \in Slots |-> NoExecution]
    /\ crashes = 0
    /\ faults = 0

MayFail(point) == point \in FaultPoints /\ faults < MaxFaults
Fail == faults' = faults + 1

----------------------------------------------------------------------------
(* Schedulers: each runs without an await, from a route or the monitor *)

\* Mutant: the id of the newest row is used again.
CreateOverNewest(rows, k, force) ==
    /\ lastId < MaxJobs
    /\ lastId' = lastId
    /\ jobs' = CreateJob(rows, lastId + 1, k, force)

CreateNewest(rows, k, force) ==
    /\ lastId < MaxJobs
    /\ lastId' = lastId + 1
    /\ jobs' = CreateJob(rows, lastId + 1, k, force)

\* Mutant: only a running row counts as active.
NothingRunning(k) ==
    \/ NoJob(jobs, k)
    \/ \E j \in JobId : IsLatest(jobs, k, j) /\ jobs[j].status # "running"

NothingActive(k) ==
    \/ NoJob(jobs, k)
    \/ \E j \in JobId : IsLatest(jobs, k, j) /\ ~Active(jobs[j])

LatestActive(k, j) == IsLatest(jobs, k, j) /\ Active(jobs[j])

\* Mutant: the stale row is not failed.
CreateBeside(j, k, force) ==
    /\ CreateNewest(jobs, k, force)
    /\ UNCHANGED faults

\* An exception of mark_job_failed is swallowed: the new row is created while
\* the stale one stays as it was.
SupersedeAndCreate(j, k, force) ==
    \/ /\ CreateNewest(MarkJobFailed(jobs, j), k, force)
       /\ UNCHANGED faults
    \/ /\ MayFail("supersede")
       /\ CreateNewest(jobs, k, force)
       /\ Fail

ReuseOrCreateJob(k, force) ==
    /\ worker # "down"
    /\ \/ /\ \E j \in JobId : LatestActive(k, j) /\ ~JobIsStale(jobs[j])
          /\ UNCHANGED <<jobs, lastId, faults>>
       \/ \E j \in JobId : /\ LatestActive(k, j) /\ JobIsStale(jobs[j])
                           /\ SupersedeAndCreate(j, k, force)
       \/ /\ NothingActive(k)
          /\ CreateNewest(jobs, k, force)
          /\ UNCHANGED faults
    /\ UNCHANGED <<worker, exec, crashes>>

\* Mutant: a running search is superseded too.
SupersedesActive(row) == ~row.force

SupersedesQueued(row) == ~row.force /\ row.status = "queued"

\* A forced job that is active is reused however old it is; a running job
\* that is not forced keeps running beside the new forced row.
ScheduleForcedSearchAll ==
    /\ worker # "down"
    /\ \/ /\ \E j \in JobId : LatestActive("search_all", j) /\ jobs[j].force
          /\ UNCHANGED <<jobs, lastId, faults>>
       \/ \E j \in JobId :
            /\ LatestActive("search_all", j)
            /\ SupersedesQueued(jobs[j])
            /\ SupersedeAndCreate(j, "search_all", TRUE)
       \/ /\ \/ NothingActive("search_all")
             \/ \E j \in JobId : /\ LatestActive("search_all", j)
                                 /\ ~jobs[j].force
                                 /\ jobs[j].status = "running"
          /\ CreateNewest(jobs, "search_all", TRUE)
          /\ UNCHANGED faults
    /\ UNCHANGED <<worker, exec, crashes>>

----------------------------------------------------------------------------
(* JobWorker._run *)

StartProcess ==
    /\ worker = "down"
    /\ worker' = "starting"
    /\ UNCHANGED <<jobs, lastId, exec, crashes, faults>>

\* _run begins with a requeue outside its try.
RunBegins ==
    /\ worker = "starting"
    /\ \/ /\ jobs' = RequeueStaleRunningJobs(jobs)
          /\ worker' = "polling"
          /\ UNCHANGED faults
       \/ /\ MayFail("startup")
          /\ worker' = "dead"
          /\ Fail
          /\ UNCHANGED jobs
    /\ UNCHANGED <<lastId, exec, crashes>>

\* A pass requeues first when 60 s have gone by since the last time.
PassRows(requeue) ==
    IF requeue THEN RequeueStaleRunningJobs(jobs) ELSE jobs

PollFindsNothing(requeue) ==
    /\ worker = "polling"
    /\ NoneQueued(PassRows(requeue), Key)
    /\ jobs' = PassRows(requeue)
    /\ UNCHANGED <<lastId, worker, exec, crashes, faults>>

\* Mutant: the worker does not await the job before it polls again.
PollClaimsOneNoAwait(requeue) ==
    /\ worker = "polling"
    /\ \E s \in Slots, j \in JobId :
         /\ exec[s] = NoExecution
         /\ IsOldestQueued(PassRows(requeue), Key, j)
         /\ jobs' = ClaimJob(PassRows(requeue), j)
         /\ exec' = [exec EXCEPT ![s] = StartedExecution(j)]
    /\ UNCHANGED <<lastId, worker, crashes, faults>>

\* The job claimed is a Telegram search, or no other job can run beside it.
PollClaimsOne(requeue) ==
    /\ worker = "polling"
    /\ \E s \in Slots, j \in JobId :
         LET claimed == ClaimJob(PassRows(requeue), j) IN
         /\ exec[s] = NoExecution
         /\ IsOldestQueued(PassRows(requeue), Key, j)
         /\ \/ claimed[j].key \in TgKeys
            \/ NoneQueued(claimed, NonTgKeys)
         /\ jobs' = claimed
         /\ exec' = [exec EXCEPT ![s] = StartedExecution(j)]
    /\ worker' = "awaiting"
    /\ UNCHANGED <<lastId, crashes, faults>>

\* A job that needs no Telegram takes a second such job along.
PollClaimsTwo(requeue) ==
    /\ worker = "polling"
    /\ \E s, t \in Slots, j, i \in JobId :
         LET claimed == ClaimJob(PassRows(requeue), j) IN
         /\ s # t /\ exec[s] = NoExecution /\ exec[t] = NoExecution
         /\ IsOldestQueued(PassRows(requeue), Key, j)
         /\ claimed[j].key \notin TgKeys
         /\ IsOldestQueued(claimed, NonTgKeys, i)
         /\ jobs' = ClaimJob(claimed, i)
         /\ exec' = [exec EXCEPT ![s] = StartedExecution(j),
                                 ![t] = StartedExecution(i)]
    /\ worker' = "awaiting"
    /\ UNCHANGED <<lastId, crashes, faults>>

\* The second claim raises: the first job is running and nobody executes it.
PollLosesClaim(requeue) ==
    /\ worker = "polling"
    /\ MayFail("sidecar")
    /\ \E j \in JobId :
         /\ IsOldestQueued(PassRows(requeue), Key, j)
         /\ PassRows(requeue)[j].key \notin TgKeys
         /\ jobs' = ClaimJob(PassRows(requeue), j)
    /\ Fail
    /\ UNCHANGED <<lastId, worker, exec, crashes>>

Poll(requeue) ==
    \/ PollFindsNothing(requeue)
    \/ PollClaimsOne(requeue)
    \/ PollClaimsTwo(requeue)
    \/ PollLosesClaim(requeue)

----------------------------------------------------------------------------
(* JobWorker._execute and its heartbeat *)

Heartbeat(s) ==
    /\ exec[s].hb
    /\ jobs' = TouchJobHeartbeat(jobs, exec[s].job)
    /\ UNCHANGED <<lastId, worker, exec, crashes, faults>>

\* The statement raises; the task ends with the exception.
HeartbeatDies(s) ==
    /\ exec[s].hb
    /\ MayFail("heartbeat")
    /\ exec' = [exec EXCEPT ![s].hb = FALSE]
    /\ Fail
    /\ UNCHANGED <<jobs, lastId, worker, crashes>>

\* The thread ends, with a result or with an exception (a search that takes
\* longer than 120 s, for one).
ThreadEnds(s) ==
    /\ exec[s].thread = "running"
    /\ \E result \in {"returned", "raised"} :
         exec' = [exec EXCEPT ![s].thread = result]
    /\ UNCHANGED <<jobs, lastId, worker, crashes, faults>>

\* What _execute writes, and how many calls raised on the way: mark_job_done
\* is inside the try, so its exception leads to mark_job_failed.
MarkOutcomes(thread) ==
    LET raisesDone == "mark_done" \in FaultPoints
        raisesFailed == "mark_failed" \in FaultPoints
    IN  {o \in [write : {"done", "failed", "nothing"}, cost : 0..2] :
           \/ thread = "returned" /\ o = [write |-> "done", cost |-> 0]
           \/ /\ thread = "returned" /\ raisesDone
              /\ o = [write |-> "failed", cost |-> 1]
           \/ /\ thread = "returned" /\ raisesDone /\ raisesFailed
              /\ o = [write |-> "nothing", cost |-> 2]
           \/ thread = "raised" /\ o = [write |-> "failed", cost |-> 0]
           \/ /\ thread = "raised" /\ raisesFailed
              /\ o = [write |-> "nothing", cost |-> 1]}

Written(write, j) ==
    CASE write = "done" -> MarkJobDone(jobs, j)
      [] write = "failed" -> MarkJobFailed(jobs, j)
      [] OTHER -> jobs

\* The coroutine ends.  It raises when nothing could be written, and when the
\* heartbeat task it awaits had died.  The exception of one of two gathered
\* coroutines resumes _run while the other one goes on.
ExecutionEnds(s) ==
    /\ exec[s].thread \in {"returned", "raised"}
    /\ \E o \in MarkOutcomes(exec[s].thread) :
         LET raises == o.write = "nothing" \/ ~exec[s].hb
             others == {t \in Slots : t # s /\ exec[t].awaited}
         IN  /\ faults + o.cost <= MaxFaults
             /\ faults' = faults + o.cost
             /\ jobs' = Written(o.write, exec[s].job)
             /\ exec' = [t \in Slots |->
                           IF t = s THEN NoExecution
                           ELSE IF raises /\ exec[s].awaited
                                THEN NoLongerAwaited(exec[t])
                                ELSE exec[t]]
             /\ worker' = IF exec[s].awaited /\ (raises \/ others = {})
                          THEN "polling" ELSE worker
    /\ UNCHANGED <<lastId, crashes>>

----------------------------------------------------------------------------
(* The process and the clock *)

\* A crash, or a shutdown: _run and the heartbeats are cancelled, the rows of
\* the jobs being executed are left as they are, and threads end with the
\* process.
ProcessEnds ==
    /\ worker # "down"
    /\ crashes < MaxCrashes
    /\ crashes' = crashes + 1
    /\ worker' = "down"
    /\ exec' = [s \in Slots |-> NoExecution]
    /\ UNCHANGED <<jobs, lastId, faults>>

\* A live heartbeat touches its row several times per tick.
HeartbeatsKeepUp ==
    \A s \in Slots : exec[s].hb /\ jobs[exec[s].job].status = "running"
                       => jobs[exec[s].job].age = 0

Tick ==
    /\ HeartbeatsKeepUp
    /\ jobs' = AgeRows(jobs)
    /\ UNCHANGED <<lastId, worker, exec, crashes, faults>>

Schedule ==
    \/ \E k \in Key : ReuseOrCreateJob(k, FALSE)
    \/ ScheduleForcedSearchAll

Next ==
    \/ Schedule
    \/ StartProcess
    \/ RunBegins
    \/ \E requeue \in BOOLEAN : Poll(requeue)
    \/ \E s \in Slots : Heartbeat(s)
    \/ \E s \in Slots : HeartbeatDies(s)
    \/ \E s \in Slots : ThreadEnds(s)
    \/ \E s \in Slots : ExecutionEnds(s)
    \/ ProcessEnds
    \/ Tick

Spec == Init /\ [][Next]_vars

(***************************************************************************)
(* Nobody has to schedule anything and the process need not end.  A        *)
(* process that ended is started again, the event loop runs every          *)
(* coroutine that is ready, a pass requeues whenever the last requeue is   *)
(* more than 60 s old, threads end (every await in them has a timeout) and *)
(* the clock goes on.                                                      *)
(***************************************************************************)
Fairness ==
    /\ WF_vars(StartProcess)
    /\ WF_vars(RunBegins)
    /\ WF_vars(Poll(TRUE))
    /\ \A s \in Slots : /\ WF_vars(Heartbeat(s))
                        /\ WF_vars(ThreadEnds(s))
                        /\ WF_vars(ExecutionEnds(s))
    /\ WF_vars(Tick)

FairSpec == Spec /\ Fairness
----------------------------------------------------------------------------
(* Properties *)

TypeOK ==
    /\ lastId \in 0..MaxJobs
    /\ TableOK(jobs, lastId)
    /\ worker \in WorkerState
    /\ exec \in [Slots -> Execution]
    /\ \A s \in Slots : exec[s].job = 0 <=> exec[s] = NoExecution
    /\ \A s \in Slots : exec[s].job <= lastId
    /\ crashes \in 0..MaxCrashes
    /\ faults \in 0..MaxFaults

Executing(s) == exec[s].job # 0
KeyOf(s) == jobs[exec[s].job].key

\* "TG search kinds stay exclusive" (job_worker.py): no two Telegram searches
\* are ever executed at once, whichever calls raise.
TgExclusive ==
    \A s, t \in Slots :
        /\ s # t /\ Executing(s) /\ Executing(t)
        => ~(KeyOf(s) \in TgKeys /\ KeyOf(t) \in TgKeys)

\* No row is executed by two threads at once: requeue never takes a row from
\* a thread that is still at work (requeue_stale_running_jobs only guesses
\* that the worker died).
NoDoubleExecution ==
    \A s, t \in Slots :
        s # t /\ Executing(s) /\ Executing(t) => exec[s].job # exec[t].job

\* Two rows for the same work are never executed at once: no second pass of
\* retries, no second search of a subscription, next to one that is running.
SameKeyExclusive ==
    \A s, t \in Slots :
        s # t /\ Executing(s) /\ Executing(t) => KeyOf(s) # KeyOf(t)

\* A row that is being executed stays running until its own coroutine writes
\* the verdict: no scheduler declares it stale, no worker requeues it.
ExecutingOwnsRow ==
    \A s \in Slots : Executing(s) => jobs[exec[s].job].status = "running"

\* Work for one key is queued or running at most once, the newest row being
\* the one; the only older row that may still be active is a search of
\* everything that was running when a forced one was asked for.
OnlyLatestActive ==
    \A j \in JobId :
        Active(jobs[j]) /\ (jobs[j].force \/ jobs[j].key # "search_all")
            => IsLatest(jobs, jobs[j].key, j)

\* The queue keeps the promises of JobLifecycle; a verdict above all is final.
Lifecycle ==
    INSTANCE JobLifecycle
        WITH JobIds <- JobId, state <- [j \in JobId |-> jobs[j].status]
LifecycleKept == Lifecycle!Spec

\* Every scheduled job gets its verdict, through crashes, dead heartbeats and
\* writes that fail: an orphaned row is requeued and executed again.
JobsSettle ==
    \A j \in JobId : Active(jobs[j]) ~> Terminal(jobs[j])
=============================================================================
