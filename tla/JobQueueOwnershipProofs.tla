------------------------ MODULE JobQueueOwnershipProofs ------------------------
(***************************************************************************)
(* Who owns a row of the job queue: what holds as long as no heartbeat     *)
(* dies, whatever other database calls raise, and what one failing call    *)
(* of any kind leaves true; rows, executions and crashes are unbounded.    *)
(***************************************************************************)
EXTENDS JobQueueSafetyProofs

\* A running row whose heartbeat is younger than every threshold.
Fresh(row) == row.status = "running" /\ row.age <= 1

\* An executed row has one owner, whose heartbeat keeps it fresh while it lives.
Owned ==
    /\ \A s \in Slots : Executing(s) /\ exec[s].hb => Fresh(jobs[exec[s].job])
    /\ NoDoubleExecution

AllAlive == \A s \in Slots : Executing(s) => exec[s].hb

----------------------------------------------------------------------------
(* What the statements do to a fresh row *)

\* A row that was just stamped running is fresh.
LEMMA StampedFresh ==
    ASSUME NEW row PROVE Fresh(Stamped(row, "running"))
BY DEF Fresh, Stamped

\* No statement on other rows, and no requeue, makes a fresh row anything else.
LEMMA StatementsKeepFresh ==
    ASSUME NEW rows \in [JobId -> Row], NEW i \in JobId, Fresh(rows[i])
    PROVE  /\ Fresh(RequeueStaleRunningJobs(rows)[i])
           /\ \A j \in JobId : Fresh(ClaimJob(rows, j)[i])
           /\ \A j \in JobId : Fresh(TouchJobHeartbeat(rows, j)[i])
           /\ \A j \in JobId \ {i} : /\ Fresh(MarkJobDone(rows, j)[i])
                                     /\ Fresh(MarkJobFailed(rows, j)[i])
           /\ rows[i].age = 0 => Fresh(AgeRows(rows)[i])
<1>0. rows[i] \in Row /\ rows[i].age \in 0..RequeueAge
  BY DEF Row
<1>1. RequeueStaleRunningJobs(rows)[i] = rows[i]
  BY <1>0, TableAssumption DEF RequeueStaleRunningJobs, Fresh
<1>2. \A j \in JobId : ClaimJob(rows, j)[i] \in {rows[i], Stamped(rows[i], "running")}
  BY DEF ClaimJob
<1>3. \A j \in JobId :
        TouchJobHeartbeat(rows, j)[i] \in {rows[i], Stamped(rows[i], "running")}
  BY DEF TouchJobHeartbeat
<1>4. \A j \in JobId \ {i} : /\ MarkJobDone(rows, j)[i] = rows[i]
                             /\ MarkJobFailed(rows, j)[i] = rows[i]
  BY DEF MarkJobDone, MarkJobFailed
<1>5. ASSUME rows[i].age = 0
      PROVE  Fresh(AgeRows(rows)[i])
  <2>1. AgeRows(rows)[i] \in {rows[i], [rows[i] EXCEPT !.age = rows[i].age + 1]}
    BY DEF AgeRows
  <2>2. [rows[i] EXCEPT !.age = rows[i].age + 1].status = "running"
    BY <1>0 DEF Row, Fresh
  <2>3. [rows[i] EXCEPT !.age = rows[i].age + 1].age <= 1
    <3>1. rows[i] \in [key : Key, force : BOOLEAN, status : Status, age : 0..RequeueAge]
      BY <1>0 DEF Row
    <3>2. QED
      BY <1>5, <3>1
  <2>4. QED
    BY <1>5, <2>1, <2>2, <2>3 DEF Fresh
<1>6. QED
  BY <1>1, <1>2, <1>3, <1>4, <1>5, StampedFresh

\* Fresh rows are not stale.
LEMMA FreshIsNotStale ==
    ASSUME NEW row, Fresh(row), row.age \in Nat PROVE ~JobIsStale(row)
BY TableAssumption DEF Fresh, JobIsStale

\* A row that was just claimed is fresh.
LEMMA ClaimedIsFresh ==
    ASSUME NEW rows \in [JobId -> Row], NEW j \in JobId
    PROVE  Fresh(ClaimJob(rows, j)[j])
BY StampedFresh DEF ClaimJob

----------------------------------------------------------------------------
(* Steps *)

\* What is executed has an id that was handed out.
LEMMA ExecutedIsAllocated ==
    ASSUME TypeOK, NEW s \in Slots, Executing(s)
    PROVE  exec[s].job \in JobId /\ exec[s].job <= lastId
BY TableAssumption DEF TypeOK, Executing, Execution, JobId

\* When no coroutine starts or ends.
LEMMA OwnedStays ==
    ASSUME TypeOK, Owned,
           \A s \in Slots : /\ exec'[s].job = exec[s].job
                            /\ exec'[s].hb => exec[s].hb,
           \A i \in JobId : i <= lastId /\ Fresh(jobs[i]) => Fresh(jobs'[i])
    PROVE  Owned'
BY ExecutedIsAllocated DEF Owned, NoDoubleExecution, Executing

\* A row that is given up was not fresh, so that nobody executes it.
LEMMA SupersedeKeepsOwned ==
    ASSUME TypeOK, Owned,
           NEW j \in JobId, NEW k, NEW force, LatestActive(k, j), ~Fresh(jobs[j]),
           CreateNewest(MarkJobFailed(jobs, j), k, force), UNCHANGED exec
    PROVE  Owned'
<1>1. CreateNewest(MarkJobFailed(jobs, j), k, force)
  OBVIOUS
<1>2. jobs[j].status # "absent" /\ lastId \in Nat /\ TableOK(jobs, lastId)
  BY TableAssumption DEF LatestActive, Active, TypeOK
<1>3. TableOK(MarkJobFailed(jobs, j), lastId)
  BY <1>2, MarkJobFailedOK
<1>4. ASSUME NEW i \in JobId, i <= lastId, Fresh(jobs[i])
      PROVE  Fresh(jobs'[i])
  <2>1. i # j /\ i # lastId + 1
    BY <1>2, <1>4 DEF JobId
  <2>2. jobs'[i] = MarkJobFailed(jobs, j)[i]
    BY <1>1, <1>3, <2>1, AppendedIsLatest
  <2>3. QED
    BY <1>2, <1>4, <2>1, <2>2, StatementsKeepFresh DEF TableOK
<1>5. QED
  BY <1>4, OwnedStays

\* A new row is executed by nobody.
LEMMA CreateKeepsOwned ==
    ASSUME TypeOK, Owned, NEW k, NEW force, CreateNewest(jobs, k, force),
           UNCHANGED exec
    PROVE  Owned'
<1>1. TableOK(jobs, lastId) /\ lastId \in Nat
  BY TableAssumption DEF TypeOK
<1>2. \A i \in JobId : i <= lastId => jobs'[i] = jobs[i]
  BY <1>1, AppendedIsLatest DEF JobId
<1>3. QED
  BY <1>2, OwnedStays

\* Schedulers leave executed rows to their owners.
LEMMA ScheduleKeepsOwned ==
    ASSUME TypeOK, Owned, Schedule
    PROVE  Owned'
<1>1. UNCHANGED exec
  BY DEF Schedule, ReuseOrCreateJob, ScheduleForcedSearchAll
<1>2. CASE UNCHANGED jobs
  BY <1>1, <1>2, OwnedStays
<1>3. CASE \E k \in Key, force \in BOOLEAN : CreateNewest(jobs, k, force)
  BY <1>1, <1>3, CreateKeepsOwned
<1>4. CASE \E k \in Key, force \in BOOLEAN, j \in JobId :
              /\ LatestActive(k, j)
              /\ JobIsStale(jobs[j]) \/ SupersedesQueued(jobs[j])
              /\ SupersedeAndCreate(j, k, force)
  <2>1. PICK k \in Key, force \in BOOLEAN, j \in JobId :
          /\ LatestActive(k, j)
          /\ JobIsStale(jobs[j]) \/ SupersedesQueued(jobs[j])
          /\ SupersedeAndCreate(j, k, force)
    BY <1>4
  <2>2. jobs[j].age \in Nat
    BY TableAssumption DEF TypeOK, TableOK, Row
  <2>3. ~Fresh(jobs[j])
    BY <2>1, <2>2, FreshIsNotStale DEF Fresh, SupersedesQueued
  <2>4. QED
    BY <1>1, <2>1, <2>3, SupersedeKeepsOwned, CreateKeepsOwned DEF SupersedeAndCreate
<1>5. QED
  BY <1>2, <1>3, <1>4
  DEF Schedule, ReuseOrCreateJob, ScheduleForcedSearchAll, Key, TgKeys

\* A slot takes a queued row: nobody executes that row, for executed rows run.
LEMMA StartKeepsOwned ==
    ASSUME NEW e \in [Slots -> Execution], NEW rows \in [JobId -> Row],
           NEW s \in Slots, NEW j \in JobId, rows[j].status = "queued",
           \A t \in Slots : e[t].job # 0 =>
               e[t].job \in JobId /\ e[t].hb /\ Fresh(rows[e[t].job]),
           \A t, u \in Slots :
               t # u /\ e[t].job # 0 /\ e[u].job # 0 => e[t].job # e[u].job,
           NEW f, f = [e EXCEPT ![s] = StartedExecution(j)]
    PROVE  /\ \A t \in Slots : f[t].job # 0 =>
                f[t].job \in JobId /\ f[t].hb /\ Fresh(ClaimJob(rows, j)[f[t].job])
           /\ \A t, u \in Slots :
                t # u /\ f[t].job # 0 /\ f[u].job # 0 => f[t].job # f[u].job
<1>1. /\ f[s] = StartedExecution(j)
      /\ \A t \in Slots \ {s} : f[t] = e[t]
  OBVIOUS
<1>2. StartedExecution(j).job = j /\ StartedExecution(j).hb
  BY DEF StartedExecution
<1>3. \A t \in Slots : e[t].job # 0 => e[t].job # j
  BY DEF Fresh
<1>4. QED
  BY <1>1, <1>2, <1>3, StatementsKeepFresh, ClaimedIsFresh

\* The worker claims what is queued, which nobody executes.
LEMMA PollKeepsOwned ==
    ASSUME TypeOK, Owned, AllAlive, NEW requeue \in BOOLEAN, Poll(requeue)
    PROVE  Owned' /\ AllAlive'
<1> DEFINE rows == PassRows(requeue)
<1>1. /\ TableOK(rows, lastId) /\ lastId \in Nat /\ rows \in [JobId -> Row]
      /\ TableOK(jobs, lastId) /\ jobs \in [JobId -> Row]
      /\ exec \in [Slots -> Execution]
  BY PassRowsOK, TableAssumption DEF TypeOK, TableOK
<1>2. \A i \in JobId : Fresh(jobs[i]) => Fresh(rows[i])
  BY <1>1, StatementsKeepFresh DEF PassRows
<1>3. \A t \in Slots : exec[t].job # 0 =>
          exec[t].job \in JobId /\ exec[t].hb /\ Fresh(rows[exec[t].job])
  BY <1>2, ExecutedIsAllocated DEF Owned, AllAlive, Executing
<1>4. \A t, u \in Slots :
          t # u /\ exec[t].job # 0 /\ exec[u].job # 0 => exec[t].job # exec[u].job
  BY DEF Owned, NoDoubleExecution, Executing
<1> HIDE DEF rows
<1>5. SUFFICES
        /\ \A t \in Slots : exec'[t].job # 0 =>
             exec'[t].job \in JobId /\ exec'[t].hb /\ Fresh(jobs'[exec'[t].job])
        /\ \A t, u \in Slots :
             t # u /\ exec'[t].job # 0 /\ exec'[u].job # 0
             => exec'[t].job # exec'[u].job
  BY DEF Owned, AllAlive, NoDoubleExecution, Executing
<1>6. CASE PollFindsNothing(requeue)
  BY <1>3, <1>4, <1>6 DEF PollFindsNothing, rows
<1>7. CASE PollClaimsOne(requeue)
  <2>1. PICK s \in Slots, j \in JobId :
          /\ IsOldestQueued(rows, Key, j)
          /\ jobs' = ClaimJob(rows, j)
          /\ exec' = [exec EXCEPT ![s] = StartedExecution(j)]
    BY <1>7 DEF PollClaimsOne, rows
  <2>2. rows[j].status = "queued"
    BY <2>1 DEF IsOldestQueued
  <2>3. QED
    BY <1>1, <1>3, <1>4, <2>1, <2>2, StartKeepsOwned
<1>8. CASE PollClaimsTwo(requeue)
  <2>1. PICK s \in Slots, t \in Slots, j \in JobId, i \in JobId :
          /\ IsOldestQueued(rows, Key, j)
          /\ IsOldestQueued(ClaimJob(rows, j), NonTgKeys, i)
          /\ jobs' = ClaimJob(ClaimJob(rows, j), i)
          /\ exec' = [exec EXCEPT ![s] = StartedExecution(j),
                                  ![t] = StartedExecution(i)]
    BY <1>8 DEF PollClaimsTwo, rows
  <2>2. rows[j].status = "queued" /\ ClaimJob(rows, j)[i].status = "queued"
    BY <2>1 DEF IsOldestQueued
  <2> DEFINE first == [exec EXCEPT ![s] = StartedExecution(j)]
  <2>3. first \in [Slots -> Execution] /\ ClaimJob(rows, j) \in [JobId -> Row]
    <3>1. TableOK(ClaimJob(rows, j), lastId)
      BY <1>1, <2>1, ClaimKeeps
    <3>2. QED
      BY <1>1, <3>1, ExecutionTypes DEF TableOK
  <2> HIDE DEF first
  <2>4. /\ \A u \in Slots : first[u].job # 0 =>
             first[u].job \in JobId /\ first[u].hb
               /\ Fresh(ClaimJob(rows, j)[first[u].job])
        /\ \A u, v \in Slots :
             u # v /\ first[u].job # 0 /\ first[v].job # 0
             => first[u].job # first[v].job
    <3>1. first = [exec EXCEPT ![s] = StartedExecution(j)]
      BY DEF first
    <3>2. QED
      BY <1>1, <1>3, <1>4, <2>2, <3>1, StartKeepsOwned
  <2>5. exec' = [first EXCEPT ![t] = StartedExecution(i)]
    BY <2>1 DEF first
  <2>6. QED
    BY <2>1, <2>2, <2>3, <2>4, <2>5, StartKeepsOwned
<1>9. CASE PollLosesClaim(requeue)
  <2>1. PICK j \in JobId : rows[j].status = "queued" /\ jobs' = ClaimJob(rows, j)
    BY <1>9 DEF PollLosesClaim, IsOldestQueued, rows
  <2>2. UNCHANGED exec
    BY <1>9 DEF PollLosesClaim
  <2>3. QED
    BY <1>1, <1>3, <1>4, <2>1, <2>2, StatementsKeepFresh
<1>10. QED
  BY <1>6, <1>7, <1>8, <1>9 DEF Poll

\* Who ends writes its own row only.
LEMMA ExecutionEndKeepsOwned ==
    ASSUME TypeOK, Owned, NEW s \in Slots, ExecutionEnds(s)
    PROVE  Owned'
<1>1. PICK o \in MarkOutcomes(exec[s].thread) :
        jobs' = Written(o.write, exec[s].job)
  BY DEF ExecutionEnds
<1>2. jobs' \in {MarkJobDone(jobs, exec[s].job), MarkJobFailed(jobs, exec[s].job), jobs}
  BY <1>1, MarkOutcomeTypes, WrittenCases
<1>3. Executing(s) /\ exec[s].job \in JobId /\ jobs \in [JobId -> Row]
  BY EndsForOthers, ExecutedIsAllocated DEF TypeOK, TableOK
<1>4. /\ exec'[s].job = 0
      /\ \A t \in Slots \ {s} : exec'[t].job = exec[t].job /\ exec'[t].hb = exec[t].hb
  BY EndsForOthers DEF NoExecution, NoLongerAwaited
<1>5. ASSUME NEW t \in Slots \ {s}, Executing(t), exec[t].hb
      PROVE  Fresh(jobs'[exec[t].job])
  <2>1. /\ exec[t].job \in JobId /\ exec[t].job # exec[s].job
        /\ Fresh(jobs[exec[t].job])
    BY <1>3, <1>5, ExecutedIsAllocated DEF Owned, NoDoubleExecution
  <2>2. QED
    BY <1>2, <1>3, <2>1, StatementsKeepFresh
<1>6. QED
  BY <1>4, <1>5 DEF Owned, NoDoubleExecution, Executing

\* Executed rows stay fresh, if all heartbeats are alive whenever the worker polls.
LEMMA OwnedNext ==
    ASSUME TypeOK, Owned, worker = "polling" => AllAlive, [Next]_vars
    PROVE  Owned'
<1>0. jobs \in [JobId -> Row]
  BY DEF TypeOK, TableOK
<1>1. CASE Schedule
  BY <1>1, ScheduleKeepsOwned
<1>2. CASE StartProcess \/ UNCHANGED vars
  BY <1>2, OwnedStays DEF StartProcess, vars
<1>3. CASE RunBegins
  BY <1>0, <1>3, StatementsKeepFresh, OwnedStays DEF RunBegins
<1>4. ASSUME NEW requeue \in BOOLEAN, Poll(requeue)
      PROVE  Owned'
  <2>1. worker = "polling"
    BY <1>4 DEF Poll, PollFindsNothing, PollClaimsOne, PollClaimsTwo, PollLosesClaim
  <2>2. QED
    BY <1>4, <2>1, PollKeepsOwned
<1>5. ASSUME NEW s \in Slots, Heartbeat(s)
      PROVE  Owned'
  <2>1. exec[s].job \in JobId
    BY <1>5, ExecutedIsAllocated DEF Heartbeat, TypeOK, NoExecution, Executing
  <2>2. QED
    BY <1>0, <1>5, <2>1, StatementsKeepFresh, OwnedStays DEF Heartbeat
<1>6. ASSUME NEW s \in Slots, HeartbeatDies(s)
      PROVE  Owned'
  <2>1. exec[s] \in Execution /\ exec \in [Slots -> Execution]
    BY DEF TypeOK
  <2> DEFINE e == [exec[s] EXCEPT !.hb = FALSE]
  <2>2. e.job = exec[s].job /\ ~e.hb
    BY <2>1 DEF Execution
  <2>3. exec' = [exec EXCEPT ![s] = e] /\ UNCHANGED jobs
    BY <1>6 DEF HeartbeatDies
  <2> HIDE DEF e
  <2>4. \A t \in Slots : exec'[t].job = exec[t].job /\ (exec'[t].hb => exec[t].hb)
    BY <2>1, <2>2, <2>3
  <2>5. QED
    BY <2>3, <2>4, OwnedStays
<1>7. ASSUME NEW s \in Slots, ThreadEnds(s)
      PROVE  Owned'
  <2>1. exec[s] \in Execution /\ exec \in [Slots -> Execution]
    BY DEF TypeOK
  <2>2. PICK result \in ThreadState : exec' = [exec EXCEPT ![s].thread = result]
    BY <1>7 DEF ThreadEnds, ThreadState
  <2> DEFINE e == [exec[s] EXCEPT !.thread = result]
  <2>3. e.job = exec[s].job /\ e.hb = exec[s].hb
    BY <2>1 DEF Execution
  <2>4. exec' = [exec EXCEPT ![s] = e] /\ UNCHANGED jobs
    BY <1>7, <2>2 DEF ThreadEnds
  <2> HIDE DEF e
  <2>5. \A t \in Slots : exec'[t].job = exec[t].job /\ exec'[t].hb = exec[t].hb
    BY <2>1, <2>3, <2>4
  <2>6. QED
    BY <2>4, <2>5, OwnedStays
<1>8. ASSUME NEW s \in Slots, ExecutionEnds(s)
      PROVE  Owned'
  BY <1>8, ExecutionEndKeepsOwned
<1>9. CASE ProcessEnds
  BY <1>9 DEF ProcessEnds, Owned, NoDoubleExecution, Executing, NoExecution
<1>10. CASE Tick
  <2>1. ASSUME NEW s \in Slots, Executing(s), exec[s].hb
        PROVE  Fresh(jobs'[exec[s].job])
    <3>1. exec[s].job \in JobId /\ Fresh(jobs[exec[s].job])
      BY <2>1, ExecutedIsAllocated DEF Owned
    <3>2. jobs[exec[s].job].age = 0
      BY <1>10, <2>1, <3>1 DEF Tick, HeartbeatsKeepUp, Fresh
    <3>3. QED
      BY <1>0, <1>10, <3>1, <3>2, StatementsKeepFresh DEF Tick
  <2>2. QED
    BY <1>10, <2>1 DEF Tick, Owned, NoDoubleExecution, Executing
<1>11. QED
  BY <1>1, <1>2, <1>3, <1>4, <1>5, <1>6, <1>7, <1>8, <1>9, <1>10 DEF Next

----------------------------------------------------------------------------
(* No heartbeat dies *)

\* They are, if no heartbeat dies.
LEMMA AliveNext ==
    ASSUME "heartbeat" \notin FaultPoints, TypeOK, Owned, AllAlive, [Next]_vars
    PROVE  AllAlive'
<1>1. CASE UNCHANGED exec
  BY <1>1 DEF AllAlive, Executing
<1>2. ASSUME NEW requeue \in BOOLEAN, Poll(requeue)
      PROVE  AllAlive'
  BY <1>2, PollKeepsOwned
<1>3. ASSUME NEW s \in Slots, ThreadEnds(s)
      PROVE  AllAlive'
  <2>1. exec[s] \in Execution /\ exec \in [Slots -> Execution]
    BY DEF TypeOK
  <2>2. PICK result \in ThreadState : exec' = [exec EXCEPT ![s].thread = result]
    BY <1>3 DEF ThreadEnds, ThreadState
  <2> DEFINE e == [exec[s] EXCEPT !.thread = result]
  <2>3. e.job = exec[s].job /\ e.hb = exec[s].hb
    BY <2>1 DEF Execution
  <2>4. exec' = [exec EXCEPT ![s] = e]
    BY <2>2
  <2> HIDE DEF e
  <2>5. QED
    BY <2>1, <2>3, <2>4 DEF AllAlive, Executing
<1>4. ASSUME NEW s \in Slots, ExecutionEnds(s)
      PROVE  AllAlive'
  <2>1. /\ exec'[s].job = 0
        /\ \A t \in Slots \ {s} : exec'[t].job = exec[t].job /\ exec'[t].hb = exec[t].hb
    BY <1>4, EndsForOthers DEF NoExecution, NoLongerAwaited
  <2>2. QED
    BY <2>1 DEF AllAlive, Executing
<1>5. CASE ProcessEnds
  BY <1>5 DEF ProcessEnds, AllAlive, Executing, NoExecution
<1>6. CASE Schedule \/ StartProcess \/ RunBegins \/ Tick \/ \E s \in Slots : Heartbeat(s)
  BY <1>1, <1>6 DEF Schedule, ReuseOrCreateJob, ScheduleForcedSearchAll, StartProcess,
                    RunBegins, Tick, Heartbeat
<1>7. ASSUME NEW s \in Slots, HeartbeatDies(s)
      PROVE  FALSE
  BY <1>7 DEF HeartbeatDies, MayFail
<1>8. QED
  BY <1>1, <1>2, <1>3, <1>4, <1>5, <1>6, <1>7 DEF Next, vars

\* Executed rows are fresh and have a heartbeat.
LEMMA AlwaysOwned ==
    ASSUME "heartbeat" \notin FaultPoints PROVE Spec => [](Owned /\ AllAlive)
<1>1. Init => Owned /\ AllAlive
  BY DEF Init, Owned, AllAlive, NoDoubleExecution, Executing, NoExecution
<1>2. TypeOK /\ (Owned /\ AllAlive) /\ [Next]_vars => (Owned /\ AllAlive)'
  BY OwnedNext, AliveNext
<1>3. QED
  BY <1>1, <1>2, TypeCorrect, PTL DEF Spec

\* As long as no heartbeat dies, and whatever other calls raise, a row that is
\* being executed stays running until its own coroutine writes the verdict, and
\* no second coroutine executes it.
THEOREM ExecutionsOwnTheirRows ==
    ASSUME "heartbeat" \notin FaultPoints
    PROVE  Spec => [](ExecutingOwnsRow /\ NoDoubleExecution)
<1>1. Owned /\ AllAlive => ExecutingOwnsRow /\ NoDoubleExecution
  BY DEF Owned, AllAlive, ExecutingOwnsRow, Fresh
<1>2. QED
  BY <1>1, AlwaysOwned, PTL

\* Two rows for the same work are never executed at once, as long as no heartbeat
\* dies and no scheduler fails to write that it gives a row up.
THEOREM SameWorkExclusive ==
    ASSUME "heartbeat" \notin FaultPoints, "supersede" \notin FaultPoints
    PROVE  Spec => []SameKeyExclusive
<1>1. TypeOK /\ Owned /\ AllAlive /\ TgExclusive /\ OnlyLatestActive => SameKeyExclusive
  <2> SUFFICES ASSUME TypeOK, Owned, AllAlive, TgExclusive, OnlyLatestActive,
                      NEW s \in Slots, NEW t \in Slots,
                      s # t, Executing(s), Executing(t), KeyOf(s) = KeyOf(t)
               PROVE  FALSE
    BY DEF SameKeyExclusive
  <2>1. /\ exec[s].job \in JobId /\ exec[t].job \in JobId
        /\ exec[s].job # exec[t].job
        /\ Active(jobs[exec[s].job]) /\ Active(jobs[exec[t].job])
    BY ExecutedIsAllocated DEF Owned, AllAlive, NoDoubleExecution, Fresh, Active
  <2>2. KeyOf(s) # "search_all"
    BY DEF TgExclusive, TgKeys
  <2>3. /\ IsLatest(jobs, KeyOf(s), exec[s].job)
        /\ IsLatest(jobs, KeyOf(s), exec[t].job)
    BY <2>1, <2>2 DEF OnlyLatestActive, KeyOf
  <2>4. QED
    BY <2>1, <2>3, LatestIsOne
<1>2. QED
  BY <1>1, TypeCorrect, AlwaysOwned, TelegramSearchesExclusive,
     WorkIsNeverDuplicated, PTL

----------------------------------------------------------------------------
(* One call raises, of any kind *)

\* Until a call raises, all hearts beat and _run waits for all coroutines; the one
\* that raises stops one heart, or leaves one coroutine unawaited, never both.
OneFault ==
    /\ \A s \in Slots : Executing(s) /\ ~(exec[s].hb /\ exec[s].awaited) => faults >= 1
    /\ \A s \in Slots : Executing(s) => exec[s].hb \/ exec[s].awaited
    /\ \A s, t \in Slots : s # t /\ Executing(s) /\ Executing(t) => exec[s].hb \/ exec[t].hb

\* Who starts has a heartbeat and is awaited.
LEMMA StartsAwaited ==
    ASSUME TypeOK, NEW requeue \in BOOLEAN, Poll(requeue), NEW s \in Slots, Executing(s)'
    PROVE  \/ Executing(s) /\ exec'[s] = exec[s]
           \/ exec'[s].hb /\ exec'[s].awaited
<1>1. exec \in [Slots -> Execution]
  BY DEF TypeOK
<1>2. exec'[s] = exec[s] \/ \E j \in JobId : exec'[s] = StartedExecution(j)
  BY <1>1 DEF Poll, PollFindsNothing, PollClaimsOne, PollClaimsTwo, PollLosesClaim
<1>3. \A j : StartedExecution(j).hb /\ StartedExecution(j).awaited
  BY DEF StartedExecution
<1>4. exec'[s] = exec[s] => Executing(s)
  BY DEF Executing
<1>5. QED
  BY <1>2, <1>3, <1>4

\* One fault kills a heartbeat or makes _run leave a coroutine behind, not both.
LEMMA OneFaultNext ==
    ASSUME MaxFaults <= 1, TypeOK, AwaitedAlone, Owned, OneFault, [Next]_vars
    PROVE  OneFault'
<1>0. faults \in Nat /\ MaxFaults \in Nat /\ exec \in [Slots -> Execution]
  BY QueueAssumption DEF TypeOK
<1>1. ASSUME UNCHANGED exec, faults' >= faults, faults' \in Nat
      PROVE  OneFault'
  <2>1. faults >= 1 => faults' >= 1
    BY <1>0, <1>1
  <2>2. QED
    BY <1>1, <2>1 DEF OneFault, Executing
<1>2. ASSUME NEW requeue \in BOOLEAN, Poll(requeue)
      PROVE  OneFault'
  <2>1. worker = "polling" /\ faults' \in {faults, faults + 1}
    BY <1>2 DEF Poll, PollFindsNothing, PollClaimsOne, PollClaimsTwo, PollLosesClaim, Fail
  <2>2. \A s \in Slots : Executing(s) => exec[s].hb /\ ~exec[s].awaited
    BY <2>1 DEF OneFault, AwaitedAlone
  <2>3. \A s \in Slots : Executing(s)' => \/ Executing(s) /\ exec'[s] = exec[s]
                                          \/ exec'[s].hb /\ exec'[s].awaited
    BY <1>2, StartsAwaited
  <2>4. QED
    BY <1>0, <2>1, <2>2, <2>3 DEF OneFault
<1>3. ASSUME NEW s \in Slots, HeartbeatDies(s)
      PROVE  OneFault'
  <2>1. faults = 0 /\ faults' = 1
    BY <1>0, <1>3 DEF HeartbeatDies, MayFail, Fail
  <2>2. \A t \in Slots : Executing(t) => exec[t].hb /\ exec[t].awaited
    BY <2>1 DEF OneFault
  <2> DEFINE e == [exec[s] EXCEPT !.hb = FALSE]
  <2>3. e.job = exec[s].job /\ ~e.hb /\ e.awaited = exec[s].awaited
    BY <1>0 DEF Execution
  <2>4. exec' = [exec EXCEPT ![s] = e]
    BY <1>3 DEF HeartbeatDies
  <2> HIDE DEF e
  <2>5. /\ exec'[s].job = exec[s].job /\ exec'[s].awaited = exec[s].awaited
        /\ \A t \in Slots \ {s} : exec'[t] = exec[t]
    BY <1>0, <2>3, <2>4
  <2>6. QED
    BY <2>1, <2>2, <2>5 DEF OneFault, Executing
<1>4. ASSUME NEW s \in Slots, ThreadEnds(s)
      PROVE  OneFault'
  <2>1. PICK result \in ThreadState : exec' = [exec EXCEPT ![s].thread = result]
    BY <1>4 DEF ThreadEnds, ThreadState
  <2> DEFINE e == [exec[s] EXCEPT !.thread = result]
  <2>2. e.job = exec[s].job /\ e.hb = exec[s].hb /\ e.awaited = exec[s].awaited
    BY <1>0 DEF Execution
  <2>3. exec' = [exec EXCEPT ![s] = e] /\ UNCHANGED faults
    BY <1>4, <2>1 DEF ThreadEnds
  <2> HIDE DEF e
  <2>4. QED
    BY <1>0, <2>2, <2>3 DEF OneFault, Executing
<1>5. ASSUME NEW s \in Slots, ExecutionEnds(s)
      PROVE  OneFault'
  <2>1. PICK o \in MarkOutcomes(exec[s].thread) :
          /\ faults + o.cost <= MaxFaults /\ faults' = faults + o.cost
          /\ \A t \in Slots \ {s} :
               \/ exec'[t] = exec[t]
               \/ /\ o.write = "nothing" \/ ~exec[s].hb
                  /\ exec'[t] = NoLongerAwaited(exec[t])
    BY <1>5 DEF ExecutionEnds
  <2>2. o.cost \in Nat /\ (o.write = "nothing" => o.cost >= 1)
    BY DEF MarkOutcomes
  <2>3. Executing(s) /\ ~Executing(s)'
    BY <1>5, EndsForOthers DEF Executing, NoExecution
  <2>4. ASSUME NEW t \in Slots \ {s}, Executing(t), exec'[t] # exec[t]
        PROVE  faults' >= 1 /\ exec[t].hb
    <3>1. CASE o.write = "nothing"
      BY <1>0, <2>1, <2>2, <2>4, <3>1 DEF OneFault
    <3>2. CASE ~exec[s].hb
      BY <1>0, <2>1, <2>2, <2>3, <2>4, <3>2 DEF OneFault
    <3>3. QED
      BY <2>1, <2>4, <3>1, <3>2
  <2>5. \A t \in Slots \ {s} : exec'[t].job = exec[t].job /\ exec'[t].hb = exec[t].hb
    BY <1>5, EndsForOthers DEF NoLongerAwaited
  <2>6. faults' >= faults
    BY <1>0, <2>1, <2>2
  <2>7. ASSUME NEW t \in Slots, Executing(t)'
        PROVE  /\ t # s /\ Executing(t)
               /\ ~(exec'[t].hb /\ exec'[t].awaited) => faults' >= 1
               /\ exec'[t].hb \/ exec'[t].awaited
    <3>1. t # s /\ Executing(t)
      BY <2>3, <2>5, <2>7 DEF Executing
    <3>2. QED
      BY <1>0, <2>1, <2>2, <2>4, <2>5, <2>6, <3>1 DEF OneFault
  <2>8. QED
    BY <2>5, <2>7 DEF OneFault
<1>6. CASE ProcessEnds
  BY <1>6 DEF ProcessEnds, OneFault, Executing, NoExecution
<1>7. CASE Schedule \/ RunBegins
  <2>1. UNCHANGED exec
    BY <1>7 DEF Schedule, ReuseOrCreateJob, ScheduleForcedSearchAll, RunBegins
  <2>2. faults' \in {faults, faults + 1}
    BY <1>7 DEF Schedule, ReuseOrCreateJob, ScheduleForcedSearchAll, SupersedeAndCreate,
                RunBegins, Fail
  <2>3. QED
    BY <1>0, <1>1, <2>1, <2>2
<1>8. CASE StartProcess \/ Tick \/ (\E s \in Slots : Heartbeat(s)) \/ UNCHANGED vars
  BY <1>0, <1>1, <1>8 DEF StartProcess, Tick, Heartbeat, vars
<1>9. QED
  BY <1>2, <1>3, <1>4, <1>5, <1>6, <1>7, <1>8 DEF Next

\* Whichever call raises, if one does: no row is executed by two threads at once.
\* A second failure would do: a heartbeat dies, then the other coroutine raises,
\* and _run polls while the thread without a heartbeat is still at work.
THEOREM OneFaultRunsNoRowTwice ==
    ASSUME MaxFaults <= 1
    PROVE  Spec => []NoDoubleExecution
<1>1. Init => Owned /\ OneFault /\ AwaitedAlone
  BY DEF Init, Owned, OneFault, AwaitedAlone, NoDoubleExecution, Executing, NoExecution
<1>2. AwaitedAlone /\ OneFault => (worker = "polling" => AllAlive)
  BY DEF AwaitedAlone, OneFault, AllAlive
<1>3. TypeOK /\ AwaitedAlone /\ Owned /\ OneFault /\ [Next]_vars => Owned' /\ OneFault'
  BY <1>2, OwnedNext, OneFaultNext
<1>4. Owned => NoDoubleExecution
  BY DEF Owned
<1>5. QED
  BY <1>1, <1>3, <1>4, TypeCorrect, AwaitedAloneNext, PTL DEF Spec

----------------------------------------------------------------------------
(* The queue implements JobLifecycle *)

Moved(rows, new) ==
    \A j \in JobId : \/ new[j].status = rows[j].status
                     \/ <<rows[j].status, new[j].status>> \in Lifecycle!Moves

\* Schedulers move rows along the moves of JobLifecycle.
LEMMA ScheduleMoves ==
    ASSUME TypeOK, Schedule PROVE Moved(jobs, jobs')
<1>1. lastId \in Nat /\ TableOK(jobs, lastId) /\ jobs \in [JobId -> Row]
  BY TableAssumption DEF TypeOK, TableOK
<1>2. ASSUME NEW rows, TableOK(rows, lastId), NEW k, NEW force,
             CreateNewest(rows, k, force), Moved(jobs, rows)
      PROVE  Moved(jobs, jobs')
  <2>1. /\ lastId + 1 \in JobId /\ jobs'[lastId + 1].status = "queued"
        /\ \A j \in JobId \ {lastId + 1} : jobs'[j] = rows[j]
    BY <1>1, <1>2, TableAssumption DEF CreateNewest, CreateJob, TableOK, JobId, TypeOK
  <2>2. jobs[lastId + 1].status = "absent"
    BY <1>1, <2>1 DEF TableOK
  <2>3. QED
    BY <1>2, <2>1, <2>2 DEF Moved, Lifecycle!Moves
<1>3. Moved(jobs, jobs)
  BY DEF Moved
<1>4. ASSUME NEW k, NEW force, CreateNewest(jobs, k, force)
      PROVE  Moved(jobs, jobs')
  BY <1>1, <1>2, <1>3, <1>4
<1>5. ASSUME NEW k, NEW force, NEW j \in JobId,
             LatestActive(k, j), SupersedeAndCreate(j, k, force)
      PROVE  Moved(jobs, jobs')
  <2>1. jobs[j].status \in {"queued", "running"}
    BY <1>5 DEF LatestActive, Active
  <2>2. \A i \in JobId : MarkJobFailed(jobs, j)[i].status
                           = IF i = j THEN "failed" ELSE jobs[i].status
    BY <1>1 DEF MarkJobFailed, Stamped
  <2>3. Moved(jobs, MarkJobFailed(jobs, j))
    BY <2>1, <2>2 DEF Moved, Lifecycle!Moves
  <2>4. TableOK(MarkJobFailed(jobs, j), lastId)
    BY <1>1, <2>1, MarkJobFailedOK
  <2>5. QED
    BY <1>2, <1>4, <1>5, <2>3, <2>4 DEF SupersedeAndCreate
<1>6. QED
  BY <1>3, <1>4, <1>5
  DEF Schedule, ReuseOrCreateJob, ScheduleForcedSearchAll

\* So does the worker when it requeues and claims.
LEMMA PollMoves ==
    ASSUME TypeOK, NEW requeue \in BOOLEAN, Poll(requeue)
    PROVE  Moved(jobs, jobs')
<1> DEFINE rows == PassRows(requeue)
<1>1. lastId \in Nat /\ TableOK(rows, lastId) /\ jobs \in [JobId -> Row]
  BY PassRowsOK, TableAssumption DEF TypeOK, TableOK
<1>2. \A j \in JobId : \/ rows[j].status = jobs[j].status
                       \/ rows[j].status = "queued" /\ jobs[j].status = "running"
  BY DEF PassRows, RequeueStaleRunningJobs, Stamped
<1> HIDE DEF rows
<1>3. ASSUME NEW new \in [JobId -> Row], NEW j \in JobId, new[j].status = "queued"
      PROVE  \A i \in JobId : ClaimJob(new, j)[i].status
                               = IF i = j THEN "running" ELSE new[i].status
  BY <1>3 DEF ClaimJob, Stamped
<1>4. CASE jobs' = rows
  BY <1>2, <1>4 DEF Moved, Lifecycle!Moves
<1>5. CASE \E j \in JobId : IsOldestQueued(rows, Key, j) /\ jobs' = ClaimJob(rows, j)
  BY <1>1, <1>2, <1>3, <1>5 DEF TableOK, IsOldestQueued, Moved, Lifecycle!Moves
<1>6. CASE \E j, i \in JobId : /\ IsOldestQueued(rows, Key, j)
                              /\ IsOldestQueued(ClaimJob(rows, j), NonTgKeys, i)
                              /\ jobs' = ClaimJob(ClaimJob(rows, j), i)
  <2>1. PICK j \in JobId, i \in JobId :
          /\ IsOldestQueued(rows, Key, j)
          /\ IsOldestQueued(ClaimJob(rows, j), NonTgKeys, i)
          /\ jobs' = ClaimJob(ClaimJob(rows, j), i)
    BY <1>6
  <2>2. rows[j].status = "queued" /\ ClaimJob(rows, j)[i].status = "queued"
    BY <2>1 DEF IsOldestQueued
  <2>3. ClaimJob(rows, j) \in [JobId -> Row] /\ rows \in [JobId -> Row]
    BY <1>1, <2>1, ClaimKeeps DEF TableOK
  <2>4. i # j /\ rows[i].status = "queued"
    BY <1>3, <2>2, <2>3
  <2>5. \A u \in JobId : jobs'[u].status
                          = IF u \in {i, j} THEN "running" ELSE rows[u].status
    BY <1>3, <2>1, <2>2, <2>3
  <2>6. QED
    BY <1>2, <2>2, <2>4, <2>5 DEF Moved, Lifecycle!Moves
<1>7. QED
  BY <1>4, <1>5, <1>6
  DEF Poll, PollFindsNothing, PollClaimsOne, PollClaimsTwo, PollLosesClaim, rows

\* So does every step.
LEMMA StepMoves ==
    ASSUME TypeOK, Owned, AllAlive, [Next]_vars PROVE Moved(jobs, jobs')
<1>0. jobs \in [JobId -> Row]
  BY DEF TypeOK, TableOK
<1>1. CASE jobs' = jobs
  BY <1>1 DEF Moved
<1>2. CASE jobs' = RequeueStaleRunningJobs(jobs)
  BY <1>2 DEF Moved, RequeueStaleRunningJobs, Stamped, Lifecycle!Moves
<1>3. ASSUME NEW s \in Slots, Heartbeat(s)
      PROVE  Moved(jobs, jobs')
  <2>1. jobs' = TouchJobHeartbeat(jobs, exec[s].job) /\ exec[s].job \in JobId
    BY <1>3, ExecutedIsAllocated DEF Heartbeat, TypeOK, NoExecution, Executing
  <2>2. QED
    BY <1>0, <2>1 DEF Moved, TouchJobHeartbeat, Stamped
<1>4. ASSUME NEW s \in Slots, ExecutionEnds(s)
      PROVE  Moved(jobs, jobs')
  <2>1. PICK o \in MarkOutcomes(exec[s].thread) :
          jobs' = Written(o.write, exec[s].job)
    BY <1>4 DEF ExecutionEnds
  <2>2. jobs' \in {MarkJobDone(jobs, exec[s].job), MarkJobFailed(jobs, exec[s].job), jobs}
    BY <2>1, MarkOutcomeTypes, WrittenCases
  <2>3. exec[s].job \in JobId /\ jobs[exec[s].job].status = "running"
    BY <1>4, EndsForOthers, ExecutedIsAllocated DEF Owned, AllAlive, Fresh
  <2>4. QED
    BY <1>0, <2>2, <2>3
    DEF Moved, MarkJobDone, MarkJobFailed, Stamped, Lifecycle!Moves
<1>5. CASE Tick
  <2>1. ASSUME NEW j \in JobId
        PROVE  jobs'[j].status = jobs[j].status
    <3>1. jobs[j] \in Row
      BY <1>0
    <3>2. jobs'[j] \in {jobs[j], [jobs[j] EXCEPT !.age = jobs[j].age + 1]}
      BY <1>5 DEF Tick, AgeRows
    <3>3. QED
      BY <3>1, <3>2 DEF Row
  <2>2. QED
    BY <2>1 DEF Moved
<1>6. QED
  BY <1>1, <1>2, <1>3, <1>4, <1>5, ScheduleMoves, PollMoves
  DEF Next, StartProcess, RunBegins, HeartbeatDies, ThreadEnds, ProcessEnds, vars

\* The queue keeps the promises of JobLifecycle: ids are handed out in order,
\* rows move along its moves only, and a verdict is final. That needs the
\* heartbeats alone: any other call may raise.
THEOREM QueueImplementsLifecycle ==
    ASSUME "heartbeat" \notin FaultPoints
    PROVE  Spec => LifecycleKept
<1> DEFINE st == [j \in JobId |-> jobs[j].status]
<1>1. Init => Lifecycle!Init
  BY DEF Init, Lifecycle!Init, AbsentRow
<1>2. TypeOK /\ TypeOK' /\ Owned /\ AllAlive /\ [Next]_vars => [Lifecycle!Next]_st
  <2> SUFFICES ASSUME TypeOK, TypeOK', Owned, AllAlive, [Next]_vars PROVE Lifecycle!Next
    OBVIOUS
  <2>1. /\ lastId \in Nat /\ lastId' \in Nat /\ lastId' <= lastId + 1
        /\ TableOK(jobs, lastId) /\ TableOK(jobs', lastId')
    <3>1. lastId' \in {lastId, lastId + 1}
      BY DEF Next, Schedule, ReuseOrCreateJob, ScheduleForcedSearchAll,
             SupersedeAndCreate, CreateNewest, StartProcess, RunBegins, Poll,
             PollFindsNothing, PollClaimsOne, PollClaimsTwo, PollLosesClaim,
             Heartbeat, HeartbeatDies, ThreadEnds, ExecutionEnds, ProcessEnds,
             Tick, vars
    <3>2. QED
      BY <3>1, TableAssumption DEF TypeOK
  <2>2. st' \in [JobId -> Lifecycle!States]
    BY <2>1 DEF TableOK, Row, Status, Lifecycle!States
  <2>3. \A j \in JobId :
          st'[j] # st[j] => <<st[j], st'[j]>> \in Lifecycle!Moves
    BY StepMoves DEF Moved
  <2>4. \A j \in JobId :
          st'[j] # "absent" => \A i \in JobId : i < j => st[i] # "absent"
    BY <2>1 DEF TableOK, JobId
  <2>5. QED
    BY <2>2, <2>3, <2>4 DEF Lifecycle!Next
<1>3. QED
  BY <1>1, <1>2, TypeCorrect, AlwaysOwned, PTL
  DEF Spec, LifecycleKept, Lifecycle!Spec
=============================================================================
