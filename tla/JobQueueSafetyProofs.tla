------------------------- MODULE JobQueueSafetyProofs -------------------------
(***************************************************************************)
(* The safety properties of the job queue, for any number of rows,         *)
(* executions and crashes: mutual exclusion whichever calls raise, and the *)
(* ownership and lifecycle of rows when none of the calls they depend on   *)
(* raises.                                                                 *)
(***************************************************************************)
EXTENDS JobQueueProofs

----------------------------------------------------------------------------
(* What no statement does to an allocated row *)

\* Identity is immutable, and only a new row becomes active.
Keeps(rows, new) ==
    \A j \in JobId :
        rows[j].status # "absent" =>
            /\ new[j].key = rows[j].key
            /\ new[j].force = rows[j].force
            /\ Active(new[j]) => Active(rows[j])

\* A verdict, or any stamp of an active row, keeps keys and brings no row back.
LEMMA StampKeeps ==
    ASSUME NEW rows \in [JobId -> Row], NEW j \in JobId, NEW status,
           status \in {"done", "failed"} \/ Active(rows[j])
    PROVE  Keeps(rows, [rows EXCEPT ![j] = Stamped(@, status)])
BY DEF Keeps, Stamped, Active

\* So do the statements of the worker.
LEMMA StatementsKeep ==
    ASSUME NEW rows \in [JobId -> Row], NEW j \in JobId
    PROVE  /\ Active(rows[j]) => Keeps(rows, ClaimJob(rows, j))
           /\ Keeps(rows, MarkJobDone(rows, j))
           /\ Keeps(rows, MarkJobFailed(rows, j))
           /\ Keeps(rows, TouchJobHeartbeat(rows, j))
<1>1. Active(rows[j]) => Keeps(rows, ClaimJob(rows, j))
  BY StampKeeps DEF ClaimJob
<1>2. Keeps(rows, MarkJobDone(rows, j)) /\ Keeps(rows, MarkJobFailed(rows, j))
  BY StampKeeps DEF MarkJobDone, MarkJobFailed
<1>3. CASE rows[j].status = "running"
  <2>1. Active(rows[j])
    BY <1>3 DEF Active
  <2>2. Keeps(rows, TouchJobHeartbeat(rows, j))
    BY <1>3, <2>1, StampKeeps DEF TouchJobHeartbeat
  <2>3. QED
    BY <1>1, <1>2, <2>2
<1>4. CASE rows[j].status # "running"
  <2>1. Keeps(rows, TouchJobHeartbeat(rows, j))
    BY <1>4 DEF TouchJobHeartbeat, Keeps
  <2>2. QED
    BY <1>1, <1>2, <2>1
<1>5. QED
  BY <1>3, <1>4

\* What an execution may write at its end.
LEMMA WrittenCases ==
    ASSUME NEW write \in {"done", "failed", "nothing"}, NEW j
    PROVE  \/ write = "done" /\ Written(write, j) = MarkJobDone(jobs, j)
           \/ write = "failed" /\ Written(write, j) = MarkJobFailed(jobs, j)
           \/ write = "nothing" /\ Written(write, j) = jobs
<1>1. CASE write = "done"
  BY <1>1 DEF Written
<1>2. CASE write = "failed"
  BY <1>2 DEF Written
<1>3. CASE write = "nothing"
  BY <1>3 DEF Written
<1>4. QED
  BY <1>1, <1>2, <1>3

\* A requeue keeps keys and brings no row back.
LEMMA RequeueKeeps ==
    ASSUME NEW rows \in [JobId -> Row]
    PROVE  Keeps(rows, RequeueStaleRunningJobs(rows))
BY DEF Keeps, RequeueStaleRunningJobs, Stamped, Active

\* So does the part of a poll before the claim.
LEMMA PassKeeps ==
    ASSUME TypeOK, NEW requeue \in BOOLEAN
    PROVE  Keeps(jobs, PassRows(requeue))
BY RequeueKeeps DEF PassRows, TypeOK, TableOK, Keeps

\* So does the time that passes.
LEMMA AgeKeeps ==
    ASSUME NEW rows \in [JobId -> Row]
    PROVE  Keeps(rows, AgeRows(rows))
<1> SUFFICES ASSUME NEW j \in JobId
             PROVE  /\ AgeRows(rows)[j].key = rows[j].key
                    /\ AgeRows(rows)[j].force = rows[j].force
                    /\ AgeRows(rows)[j].status = rows[j].status
  BY DEF Keeps, Active
<1>1. rows[j] \in Row
  OBVIOUS
<1>2. AgeRows(rows)[j] \in {rows[j], [rows[j] EXCEPT !.age = rows[j].age + 1]}
  BY DEF AgeRows
<1>3. QED
  BY <1>1, <1>2 DEF Row

\* So do two such changes one after the other.
LEMMA KeepsChain ==
    ASSUME NEW n \in Nat, NEW rows, NEW mid, NEW new,
           TableOK(rows, n), TableOK(mid, n),
           Keeps(rows, mid), Keeps(mid, new)
    PROVE  Keeps(rows, new)
BY DEF Keeps, TableOK

----------------------------------------------------------------------------
(* What a step does to the rows *)

\* So does a new row.
LEMMA CreateKeeps ==
    ASSUME NEW n \in 0..MaxJobs, NEW rows, TableOK(rows, n), n < MaxJobs,
           NEW k, NEW force
    PROVE  Keeps(rows, CreateJob(rows, n + 1, k, force))
<1>1. \A j \in JobId : rows[j].status # "absent" => j # n + 1
  BY TableAssumption DEF TableOK, JobId
<1>2. \A j \in JobId :
        j # n + 1 => CreateJob(rows, n + 1, k, force)[j] = rows[j]
  BY DEF CreateJob, TableOK
<1>3. QED
  BY <1>1, <1>2 DEF Keeps

\* So does a scheduler that gives an old row up and creates one.
LEMMA SupersedeKeeps ==
    ASSUME TypeOK, NEW j \in JobId, NEW k, NEW force,
           LatestActive(k, j), SupersedeAndCreate(j, k, force)
    PROVE  Keeps(jobs, jobs')
<1>1. TableOK(jobs, lastId) /\ lastId \in Nat /\ lastId \in 0..MaxJobs
  BY TableAssumption DEF TypeOK
<1>2. jobs[j].status # "absent"
  BY DEF LatestActive, Active
<1>3. TableOK(MarkJobFailed(jobs, j), lastId)
  BY <1>1, <1>2, MarkJobFailedOK
<1>4. Keeps(jobs, MarkJobFailed(jobs, j))
  BY <1>1, StatementsKeep DEF TableOK
<1>5. CASE CreateNewest(jobs, k, force)
  BY <1>1, <1>5, CreateKeeps DEF CreateNewest
<1>6. CASE CreateNewest(MarkJobFailed(jobs, j), k, force)
  <2>1. Keeps(MarkJobFailed(jobs, j), jobs')
    BY <1>1, <1>3, <1>6, CreateKeeps DEF CreateNewest
  <2>2. QED
    BY <1>1, <1>3, <1>4, <2>1, KeepsChain
<1>7. QED
  BY <1>5, <1>6 DEF SupersedeAndCreate

\* So does nothing at all.
LEMMA KeepsSame == ASSUME NEW rows PROVE Keeps(rows, rows)
BY DEF Keeps

\* So does a claim.
LEMMA ClaimKeeps ==
    ASSUME NEW n \in Nat, NEW rows, TableOK(rows, n), NEW keys,
           NEW j \in JobId, IsOldestQueued(rows, keys, j)
    PROVE  Keeps(rows, ClaimJob(rows, j)) /\ TableOK(ClaimJob(rows, j), n)
<1>1. Active(rows[j]) /\ rows[j].status # "absent"
  BY DEF IsOldestQueued, Active
<1>2. QED
  BY <1>1, StatementsKeep, ClaimJobOK DEF TableOK

\* So does a poll of the worker.
LEMMA PollKeeps ==
    ASSUME TypeOK, NEW requeue \in BOOLEAN, Poll(requeue)
    PROVE  Keeps(jobs, jobs')
<1> DEFINE rows == PassRows(requeue)
<1>1. lastId \in Nat /\ TableOK(jobs, lastId) /\ TableOK(rows, lastId)
  BY PassRowsOK, TableAssumption DEF TypeOK
<1>2. Keeps(jobs, rows)
  BY PassKeeps
<1> HIDE DEF rows
<1>3. CASE jobs' = rows
  BY <1>2, <1>3
<1>4. CASE \E j \in JobId : IsOldestQueued(rows, Key, j) /\ jobs' = ClaimJob(rows, j)
  <2>1. PICK j \in JobId : /\ IsOldestQueued(rows, Key, j)
                          /\ jobs' = ClaimJob(rows, j)
    BY <1>4
  <2>2. Keeps(rows, jobs')
    BY <1>1, <2>1, ClaimKeeps
  <2>3. QED
    BY <1>1, <1>2, <2>1, <2>2, ClaimKeeps, KeepsChain
<1>5. CASE \E j, i \in JobId : /\ IsOldestQueued(rows, Key, j)
                              /\ IsOldestQueued(ClaimJob(rows, j), NonTgKeys, i)
                              /\ jobs' = ClaimJob(ClaimJob(rows, j), i)
  <2>1. PICK j \in JobId, i \in JobId :
          /\ IsOldestQueued(rows, Key, j)
          /\ IsOldestQueued(ClaimJob(rows, j), NonTgKeys, i)
          /\ jobs' = ClaimJob(ClaimJob(rows, j), i)
    BY <1>5
  <2>2. Keeps(rows, ClaimJob(rows, j)) /\ TableOK(ClaimJob(rows, j), lastId)
    BY <1>1, <2>1, ClaimKeeps
  <2>3. Keeps(ClaimJob(rows, j), jobs')
    BY <1>1, <2>1, <2>2, ClaimKeeps
  <2>4. Keeps(jobs, ClaimJob(rows, j))
    BY <1>1, <1>2, <2>2, KeepsChain
  <2>5. QED
    BY <1>1, <2>2, <2>3, <2>4, KeepsChain
<1>6. QED
  BY <1>3, <1>4, <1>5
  DEF Poll, PollFindsNothing, PollClaimsOne, PollClaimsTwo, PollLosesClaim, rows

\* So does every step.
LEMMA StepKeeps == TypeOK /\ [Next]_vars => Keeps(jobs, jobs') /\ lastId <= lastId'
<1> SUFFICES ASSUME TypeOK, [Next]_vars PROVE Keeps(jobs, jobs') /\ lastId <= lastId'
  OBVIOUS
<1>0. /\ lastId \in Nat /\ lastId \in 0..MaxJobs
      /\ TableOK(jobs, lastId) /\ jobs \in [JobId -> Row]
  BY TableAssumption DEF TypeOK, TableOK
<1>1. CASE Schedule
  <2>1. lastId' \in {lastId, lastId + 1}
    BY <1>1 DEF Schedule, ReuseOrCreateJob, ScheduleForcedSearchAll,
                SupersedeAndCreate, CreateNewest
  <2>2. CASE jobs' = jobs
    BY <1>0, <2>1, <2>2, KeepsSame
  <2>3. CASE \E k \in Key, force \in BOOLEAN : CreateNewest(jobs, k, force)
    BY <1>0, <2>1, <2>3, CreateKeeps DEF CreateNewest
  <2>4. CASE \E j \in JobId, k \in Key, force \in BOOLEAN :
               LatestActive(k, j) /\ SupersedeAndCreate(j, k, force)
    BY <1>0, <2>1, <2>4, SupersedeKeeps
  <2>5. QED
    BY <1>1, <2>2, <2>3, <2>4
    DEF Schedule, ReuseOrCreateJob, ScheduleForcedSearchAll, Key, TgKeys
<1>2. CASE StartProcess \/ ProcessEnds \/ UNCHANGED vars
  BY <1>0, <1>2, KeepsSame DEF StartProcess, ProcessEnds, vars
<1>3. CASE RunBegins
  BY <1>0, <1>3, KeepsSame, RequeueKeeps DEF RunBegins
<1>4. ASSUME NEW requeue \in BOOLEAN, Poll(requeue)
      PROVE  Keeps(jobs, jobs') /\ lastId <= lastId'
  BY <1>0, <1>4, PollKeeps
  DEF Poll, PollFindsNothing, PollClaimsOne, PollClaimsTwo, PollLosesClaim
<1>5. ASSUME NEW s \in Slots, Heartbeat(s)
      PROVE  Keeps(jobs, jobs') /\ lastId <= lastId'
  <2>1. exec[s].job \in JobId
    BY <1>5, TableAssumption DEF Heartbeat, TypeOK, NoExecution, Execution, JobId
  <2>2. QED
    BY <1>0, <1>5, <2>1, StatementsKeep DEF Heartbeat
<1>6. ASSUME NEW s \in Slots, HeartbeatDies(s) \/ ThreadEnds(s)
      PROVE  Keeps(jobs, jobs') /\ lastId <= lastId'
  BY <1>0, <1>6, KeepsSame DEF HeartbeatDies, ThreadEnds
<1>7. ASSUME NEW s \in Slots, ExecutionEnds(s)
      PROVE  Keeps(jobs, jobs') /\ lastId <= lastId'
  <2>1. exec[s].job \in JobId
    BY <1>7, TableAssumption DEF ExecutionEnds, TypeOK, NoExecution, Execution, JobId
  <2>2. PICK o \in MarkOutcomes(exec[s].thread) :
          jobs' = Written(o.write, exec[s].job)
    BY <1>7 DEF ExecutionEnds
  <2>3. Keeps(jobs, jobs')
    BY <1>0, <2>1, <2>2, MarkOutcomeTypes, WrittenCases, KeepsSame, StatementsKeep
  <2>4. QED
    BY <1>0, <1>7, <2>3 DEF ExecutionEnds
<1>8. CASE Tick
  BY <1>0, <1>8, AgeKeeps DEF Tick
<1>9. QED
  BY <1>1, <1>2, <1>3, <1>4, <1>5, <1>6, <1>7, <1>8 DEF Next

----------------------------------------------------------------------------
(* Telegram searches exclude each other *)

\* A Telegram search is awaited until it ends, and awaited alone: _run waits
\* for a second coroutine only when neither is a Telegram search, and it
\* polls only when it awaits none.
AwaitedAlone ==
    /\ \A s \in Slots : exec[s].awaited => worker = "awaiting"
    /\ \A s \in Slots :
         Executing(s) /\ KeyOf(s) \in TgKeys => exec[s].awaited
    /\ \A s, t \in Slots :
         s # t /\ exec[s].awaited /\ exec[t].awaited => KeyOf(s) \notin TgKeys

\* An execution stays an execution of the same key.
LEMMA KeysStay ==
    ASSUME TypeOK, [Next]_vars, NEW s \in Slots, Executing(s)
    PROVE  /\ exec[s].job \in JobId
           /\ jobs[exec[s].job].status # "absent"
           /\ jobs'[exec[s].job].key = KeyOf(s)
<1>1. exec[s].job \in JobId /\ exec[s].job <= lastId
  BY TableAssumption DEF TypeOK, Executing, Execution, JobId
<1>2. jobs[exec[s].job].status # "absent"
  BY <1>1, TableAssumption DEF TypeOK, TableOK, JobId
<1>3. QED
  BY <1>1, <1>2, StepKeeps DEF Keeps, KeyOf

\* What is awaited is executed.
LEMMA AwaitedIsExecuting ==
    ASSUME TypeOK, NEW s \in Slots, exec[s].awaited PROVE Executing(s)
BY DEF TypeOK, Executing, NoExecution

\* When no coroutine starts, ends or stops being awaited.
LEMMA AwaitedAloneStays ==
    ASSUME TypeOK, AwaitedAlone, [Next]_vars,
           \A s \in Slots : /\ exec'[s].job = exec[s].job
                            /\ exec'[s].awaited = exec[s].awaited,
           worker = "awaiting" => worker' = "awaiting"
    PROVE  AwaitedAlone'
<1>1. \A s \in Slots : Executing(s) => jobs'[exec[s].job].key = KeyOf(s)
  BY KeysStay
<1>2. \A s \in Slots : exec[s].awaited => Executing(s)
  BY AwaitedIsExecuting
<1>3. QED
  BY <1>1, <1>2 DEF AwaitedAlone, Executing, KeyOf

\* The end of a heartbeat or a thread changes neither job nor awaiting.
LEMMA ExecutionKept ==
    ASSUME TypeOK, NEW s \in Slots, NEW t \in Slots,
           HeartbeatDies(s) \/ ThreadEnds(s)
    PROVE  /\ exec'[t].job = exec[t].job
           /\ exec'[t].awaited = exec[t].awaited
<1>1. exec[s] \in Execution /\ exec \in [Slots -> Execution]
  BY DEF TypeOK
<1>2. CASE HeartbeatDies(s)
  <2> DEFINE e == [exec[s] EXCEPT !.hb = FALSE]
  <2>1. e.job = exec[s].job /\ e.awaited = exec[s].awaited
    BY <1>1 DEF Execution
  <2>2. exec' = [exec EXCEPT ![s] = e]
    BY <1>2 DEF HeartbeatDies
  <2> HIDE DEF e
  <2>3. QED
    BY <1>1, <2>1, <2>2
<1>3. CASE ThreadEnds(s)
  <2>1. PICK result \in ThreadState : exec' = [exec EXCEPT ![s].thread = result]
    BY <1>3 DEF ThreadEnds, ThreadState
  <2> DEFINE e == [exec[s] EXCEPT !.thread = result]
  <2>2. e.job = exec[s].job /\ e.awaited = exec[s].awaited
    BY <1>1 DEF Execution
  <2>3. exec' = [exec EXCEPT ![s] = e]
    BY <2>1
  <2> HIDE DEF e
  <2>4. QED
    BY <1>1, <2>2, <2>3
<1>4. QED
  BY <1>2, <1>3

\* The parts of ExecutionEnds that the other coroutines see.
LEMMA EndsForOthers ==
    ASSUME TypeOK, NEW s \in Slots, ExecutionEnds(s)
    PROVE  /\ Executing(s)
           /\ exec'[s] = NoExecution
           /\ \A t \in Slots \ {s} : exec'[t] \in {exec[t], NoLongerAwaited(exec[t])}
           /\ \/ ~exec[s].awaited /\ UNCHANGED worker /\ \A t \in Slots \ {s} : exec'[t] = exec[t]
              \/ exec[s].awaited /\ \A t \in Slots \ {s} : exec'[t] = NoLongerAwaited(exec[t])
              \/ /\ exec[s].awaited /\ \A t \in Slots \ {s} : exec'[t] = exec[t]
                 /\ (\E t \in Slots \ {s} : exec[t].awaited) => UNCHANGED worker
<1>1. Executing(s)
  BY DEF ExecutionEnds, TypeOK, NoExecution, Executing
<1>2. PICK raises \in BOOLEAN, others \in SUBSET Slots :
        /\ others = {t \in Slots : t # s /\ exec[t].awaited}
        /\ exec' = [t \in Slots |->
                       IF t = s THEN NoExecution
                       ELSE IF raises /\ exec[s].awaited
                            THEN NoLongerAwaited(exec[t])
                            ELSE exec[t]]
        /\ worker' = IF exec[s].awaited /\ (raises \/ others = {})
                     THEN "polling" ELSE worker
  <2>1. PICK o \in MarkOutcomes(exec[s].thread) :
          LET raises == o.write = "nothing" \/ ~exec[s].hb
              others == {t \in Slots : t # s /\ exec[t].awaited}
          IN /\ exec' = [t \in Slots |->
                       IF t = s THEN NoExecution
                       ELSE IF raises /\ exec[s].awaited
                            THEN NoLongerAwaited(exec[t])
                            ELSE exec[t]]
             /\ worker' = IF exec[s].awaited /\ (raises \/ others = {})
                     THEN "polling" ELSE worker
    BY DEF ExecutionEnds
  <2>2. QED
    BY <2>1
<1>3. exec[s].awaited \in BOOLEAN
  BY DEF TypeOK, Execution
<1>4. CASE ~exec[s].awaited
  BY <1>1, <1>2, <1>4
<1>5. CASE exec[s].awaited /\ raises
  BY <1>1, <1>2, <1>5
<1>6. CASE exec[s].awaited /\ ~raises
  BY <1>1, <1>2, <1>6
<1>7. QED
  BY <1>3, <1>4, <1>5, <1>6

\* A coroutine that is no longer awaited goes on with its job.
LEMMA UnawaitedFields ==
    ASSUME NEW e
    PROVE  NoLongerAwaited(e).job = e.job /\ ~NoLongerAwaited(e).awaited
BY DEF NoLongerAwaited

\* An execution that ends leaves a search awaited alone.
LEMMA AwaitedAloneEnds ==
    ASSUME TypeOK, AwaitedAlone, [Next]_vars, NEW s \in Slots, ExecutionEnds(s)
    PROVE  AwaitedAlone'
<1>1. \A t \in Slots : Executing(t) => jobs'[exec[t].job].key = KeyOf(t)
  BY KeysStay
<1>2. \A t \in Slots : exec[t].awaited => Executing(t)
  BY AwaitedIsExecuting
<1>3. /\ exec'[s].job = 0 /\ ~exec'[s].awaited
      /\ \A t \in Slots \ {s} : exec'[t].job = exec[t].job
      /\ \A t \in Slots \ {s} : exec'[t].awaited => exec[t].awaited
  BY EndsForOthers, UnawaitedFields DEF NoExecution
<1>4. \A t \in Slots \ {s} : exec'[t].awaited => UNCHANGED worker
  BY EndsForOthers, UnawaitedFields
<1>5. ASSUME NEW t \in Slots \ {s}, Executing(t), KeyOf(t) \in TgKeys
      PROVE  exec'[t].awaited
  <2>1. exec[t].awaited
    BY <1>5 DEF AwaitedAlone
  <2>2. ~exec[s].awaited
    BY <1>5, <2>1 DEF AwaitedAlone
  <2>3. QED
    BY <2>1, <2>2, EndsForOthers
<1>6. QED
  BY <1>1, <1>2, <1>3, <1>4, <1>5 DEF AwaitedAlone, Executing, KeyOf

\* The worker polls when it awaits nothing, and claims a search alone.
LEMMA AwaitedAlonePolls ==
    ASSUME TypeOK, AwaitedAlone, [Next]_vars,
           NEW requeue \in BOOLEAN, Poll(requeue)
    PROVE  AwaitedAlone'
<1> DEFINE rows == PassRows(requeue)
<1>0. \A t \in Slots : Executing(t) => jobs'[exec[t].job].key = KeyOf(t)
  BY KeysStay
<1>1. /\ TableOK(rows, lastId) /\ lastId \in Nat
      /\ exec \in [Slots -> Execution]
  BY PassRowsOK, TableAssumption DEF TypeOK
<1>2. \A t \in Slots : ~exec[t].awaited /\ (Executing(t) => KeyOf(t) \notin TgKeys)
  BY DEF AwaitedAlone, Poll, PollFindsNothing, PollClaimsOne, PollClaimsTwo,
         PollLosesClaim
<1>3. NonTgKeys \cap TgKeys = {}
  BY TableAssumption DEF NonTgKeys, TgKeys
<1>4. \A j \in JobId : StartedExecution(j).job = j /\ StartedExecution(j).awaited
  BY DEF StartedExecution
<1> HIDE DEF rows
<1>5. CASE UNCHANGED <<exec, worker>>
  BY <1>0, <1>2, <1>5, AwaitedAloneStays
<1>6. CASE PollClaimsOne(requeue)
  <2>1. PICK s \in Slots, j \in JobId :
          exec' = [exec EXCEPT ![s] = StartedExecution(j)]
    BY <1>6 DEF PollClaimsOne
  <2>2. worker' = "awaiting"
    BY <1>6 DEF PollClaimsOne
  <2>3. exec'[s] = StartedExecution(j) /\ \A t \in Slots \ {s} : exec'[t] = exec[t]
    BY <1>1, <2>1
  <2>4. QED
    BY <1>0, <1>2, <1>4, <2>2, <2>3 DEF AwaitedAlone, Executing, KeyOf
<1>7. CASE PollClaimsTwo(requeue)
  <2>1. PICK s \in Slots, t \in Slots, j \in JobId, i \in JobId :
          /\ s # t
          /\ IsOldestQueued(rows, Key, j)
          /\ ClaimJob(rows, j)[j].key \notin TgKeys
          /\ IsOldestQueued(ClaimJob(rows, j), NonTgKeys, i)
          /\ jobs' = ClaimJob(ClaimJob(rows, j), i)
          /\ exec' = [exec EXCEPT ![s] = StartedExecution(j),
                                  ![t] = StartedExecution(i)]
    BY <1>7 DEF PollClaimsTwo, rows
  <2>2. worker' = "awaiting"
    BY <1>7 DEF PollClaimsTwo
  <2>3. /\ TableOK(ClaimJob(rows, j), lastId)
        /\ Keeps(ClaimJob(rows, j), jobs')
    BY <1>1, <2>1, ClaimKeeps
  <2>4. ClaimJob(rows, j)[j].status # "absent" /\ ClaimJob(rows, j)[i].status # "absent"
    <3>1. rows[j].status # "absent" /\ j <= lastId
      BY <1>1, <2>1, QueuedIsAllocated
    <3>2. QED
      BY <1>1, <2>1, <2>3, <3>1, QueuedIsAllocated DEF TableOK, JobId
  <2>5. ClaimJob(rows, j)[i].key \in NonTgKeys
    BY <2>1 DEF IsOldestQueued
  <2>6. jobs'[j].key \notin TgKeys /\ jobs'[i].key \notin TgKeys
    BY <1>3, <2>1, <2>3, <2>4, <2>5 DEF Keeps
  <2>7. /\ exec'[s] = StartedExecution(j) /\ exec'[t] = StartedExecution(i)
        /\ \A u \in Slots \ {s, t} : exec'[u] = exec[u]
    BY <1>1, <2>1
  <2>8. QED
    BY <1>0, <1>2, <1>4, <2>2, <2>6, <2>7 DEF AwaitedAlone, Executing, KeyOf
<1>8. QED
  BY <1>5, <1>6, <1>7 DEF Poll, PollFindsNothing, PollLosesClaim

\* Every step keeps a search awaited alone.
LEMMA AwaitedAloneNext == TypeOK /\ AwaitedAlone /\ [Next]_vars => AwaitedAlone'
<1> SUFFICES ASSUME TypeOK, AwaitedAlone, [Next]_vars PROVE AwaitedAlone'
  OBVIOUS
<1>1. CASE UNCHANGED <<exec, worker>>
  BY <1>1, AwaitedAloneStays
<1>2. CASE StartProcess \/ RunBegins
  BY <1>2, AwaitedAloneStays DEF StartProcess, RunBegins
<1>3. ASSUME NEW requeue \in BOOLEAN, Poll(requeue)
      PROVE  AwaitedAlone'
  BY <1>3, AwaitedAlonePolls
<1>4. ASSUME NEW s \in Slots, HeartbeatDies(s) \/ ThreadEnds(s)
      PROVE  AwaitedAlone'
  <2>1. UNCHANGED worker
    BY <1>4 DEF HeartbeatDies, ThreadEnds
  <2>2. QED
    BY <1>4, <2>1, ExecutionKept, AwaitedAloneStays
<1>5. ASSUME NEW s \in Slots, ExecutionEnds(s)
      PROVE  AwaitedAlone'
  BY <1>5, AwaitedAloneEnds
<1>6. CASE ProcessEnds
  BY <1>6 DEF ProcessEnds, AwaitedAlone, Executing, NoExecution
<1>7. QED
  BY <1>1, <1>2, <1>3, <1>4, <1>5, <1>6
  DEF Next, Schedule, ReuseOrCreateJob, ScheduleForcedSearchAll, Heartbeat,
      Tick, vars

\* However many rows, executions, crashes and failing calls there are, no two
\* Telegram searches are executed at once.
THEOREM TelegramSearchesExclusive == Spec => []TgExclusive
<1>1. Init => AwaitedAlone
  BY DEF Init, AwaitedAlone, Executing, NoExecution
<1>2. AwaitedAlone => TgExclusive
  BY DEF AwaitedAlone, TgExclusive
<1>3. QED
  BY <1>1, <1>2, TypeCorrect, AwaitedAloneNext, PTL DEF Spec

----------------------------------------------------------------------------
(* Work for one key is queued or running once *)

\* A row that was just created is the newest of its key.
LEMMA AppendedIsLatest ==
    ASSUME TypeOK, NEW rows, TableOK(rows, lastId), NEW k, NEW force,
           CreateNewest(rows, k, force)
    PROVE  /\ lastId + 1 \in JobId
           /\ jobs'[lastId + 1].key = k
           /\ \A j \in JobId \ {lastId + 1} : jobs'[j] = rows[j]
           /\ IsLatest(jobs', k, lastId + 1)
<1>1. lastId + 1 \in JobId /\ lastId \in Nat
  BY TableAssumption DEF TypeOK, CreateNewest, JobId
<1>2. /\ jobs'[lastId + 1].key = k
      /\ jobs'[lastId + 1].status = "queued"
      /\ \A j \in JobId \ {lastId + 1} : jobs'[j] = rows[j]
  BY <1>1 DEF CreateNewest, CreateJob, TableOK
<1>3. \A i \in JobId : i > lastId + 1 => jobs'[i].status = "absent"
  BY <1>1, <1>2 DEF TableOK, JobId
<1>4. QED
  BY <1>1, <1>2, <1>3 DEF IsLatest

\* A step that appends nothing and keeps the rows keeps their order too.
LEMMA LatestStays ==
    ASSUME TypeOK, TypeOK', [Next]_vars, lastId' = lastId,
           NEW j \in JobId, Active(jobs'[j]), IsLatest(jobs, jobs[j].key, j)
    PROVE  IsLatest(jobs', jobs'[j].key, j)
<1>1. \A i \in JobId : jobs'[i].status = "absent" <=> jobs[i].status = "absent"
  BY DEF TypeOK, TableOK
<1>2. \A i \in JobId : jobs[i].status # "absent" => jobs'[i].key = jobs[i].key
  BY StepKeeps DEF Keeps
<1>3. QED
  BY <1>1, <1>2 DEF IsLatest, Active

\* A key has one newest row.
LEMMA LatestIsOne ==
    ASSUME NEW rows, NEW k, NEW i \in JobId, NEW j \in JobId,
           IsLatest(rows, k, i), IsLatest(rows, k, j)
    PROVE  i = j
BY DEF IsLatest, JobId

\* A row that OnlyLatestActive speaks of.
Sole(row) == Active(row) /\ (row.force \/ row.key # "search_all")

\* A scheduler appends a row for k to a table where no such row has key k.
LEMMA AppendKeepsSole ==
    ASSUME TypeOK, TypeOK', OnlyLatestActive,
           NEW rows, TableOK(rows, lastId), Keeps(jobs, rows),
           NEW k, NEW force, CreateNewest(rows, k, force),
           \A j \in JobId : Sole(rows[j]) => rows[j].key # k
    PROVE  OnlyLatestActive'
<1> SUFFICES ASSUME NEW j \in JobId, Sole(jobs'[j])
             PROVE  IsLatest(jobs', jobs'[j].key, j)
  BY DEF OnlyLatestActive, Sole
<1>1. CASE j = lastId + 1
  BY <1>1, AppendedIsLatest
<1>2. CASE j # lastId + 1
  <2>1. jobs'[j] = rows[j] /\ rows[j].key # k
    BY <1>2, AppendedIsLatest
  <2>2. /\ \A i \in JobId : rows[i].status = "absent" <=> jobs[i].status = "absent"
        /\ \A i \in JobId : jobs[i].status # "absent" =>
             /\ rows[i].key = jobs[i].key
             /\ Sole(rows[i]) => Sole(jobs[i])
    BY DEF TypeOK, TableOK, Keeps, Sole
  <2>3. jobs[j].status # "absent" /\ rows[j].status # "absent"
    BY <2>1, <2>2 DEF Sole, Active
  <2>4. IsLatest(jobs, rows[j].key, j)
    BY <2>1, <2>2, <2>3 DEF OnlyLatestActive, Sole
  <2>5. ASSUME NEW i \in JobId, i > j, jobs'[i].key = jobs'[j].key
        PROVE  jobs'[i].status = "absent"
    <3>1. jobs'[i] = rows[i]
      BY <2>1, <2>5, AppendedIsLatest
    <3>2. QED
      BY <2>1, <2>2, <2>4, <2>5, <3>1 DEF IsLatest
  <2>6. QED
    BY <2>1, <2>3, <2>5 DEF IsLatest
<1>3. QED
  BY <1>1, <1>2

\* Who gives the newest row up may create another.
LEMMA SupersedeKeepsSole ==
    ASSUME TypeOK, TypeOK', OnlyLatestActive, "supersede" \notin FaultPoints,
           NEW i \in JobId, NEW k, NEW force,
           LatestActive(k, i), SupersedeAndCreate(i, k, force)
    PROVE  OnlyLatestActive'
<1>1. CreateNewest(MarkJobFailed(jobs, i), k, force)
  BY DEF SupersedeAndCreate, MayFail
<1>2. jobs[i].status # "absent" /\ lastId \in Nat /\ TableOK(jobs, lastId)
  BY TableAssumption DEF LatestActive, Active, TypeOK
<1>3. TableOK(MarkJobFailed(jobs, i), lastId) /\ Keeps(jobs, MarkJobFailed(jobs, i))
  BY <1>2, MarkJobFailedOK, StatementsKeep DEF TableOK
<1>4. ASSUME NEW j \in JobId, Sole(MarkJobFailed(jobs, i)[j])
      PROVE  MarkJobFailed(jobs, i)[j].key # k
  <2>1. j # i
    BY <1>2, <1>4 DEF MarkJobFailed, Stamped, Sole, Active, TableOK
  <2>2. MarkJobFailed(jobs, i)[j] = jobs[j]
    BY <1>2, <2>1 DEF MarkJobFailed, TableOK
  <2>3. IsLatest(jobs, jobs[j].key, j)
    BY <1>4, <2>2 DEF OnlyLatestActive, Sole
  <2>4. QED
    BY <2>1, <2>2, <2>3, LatestIsOne DEF LatestActive
<1>5. QED
  BY <1>1, <1>3, <1>4, AppendKeepsSole

\* So may who found nothing active.
LEMMA CreateKeepsSole ==
    ASSUME TypeOK, TypeOK', OnlyLatestActive,
           NEW k, NEW force, CreateNewest(jobs, k, force),
           \/ NothingActive(k)
           \/ \E i \in JobId : IsLatest(jobs, k, i) /\ ~Sole(jobs[i])
    PROVE  OnlyLatestActive'
<1>1. ASSUME NEW j \in JobId, Sole(jobs[j]), jobs[j].key = k
      PROVE  FALSE
  <2>1. IsLatest(jobs, k, j)
    BY <1>1 DEF OnlyLatestActive, Sole
  <2>2. ~NoJob(jobs, k)
    BY <1>1 DEF NoJob, Sole, Active
  <2>3. QED
    BY <1>1, <2>1, <2>2, LatestIsOne DEF NothingActive, Sole
<1>2. TableOK(jobs, lastId)
  BY DEF TypeOK
<1>3. QED
  BY <1>1, <1>2, KeepsSame, AppendKeepsSole

\* Every step keeps the newest row of a key the only active one.
LEMMA OnlyLatestActiveNext ==
    ASSUME "supersede" \notin FaultPoints,
           TypeOK, TypeOK', OnlyLatestActive, [Next]_vars
    PROVE  OnlyLatestActive'
<1>1. CASE lastId' = lastId
  <2> SUFFICES ASSUME NEW j \in JobId, Sole(jobs'[j])
               PROVE  IsLatest(jobs', jobs'[j].key, j)
    BY DEF OnlyLatestActive, Sole
  <2>1. jobs[j].status # "absent"
    BY <1>1 DEF TypeOK, TableOK, Sole, Active
  <2>2. Sole(jobs[j])
    BY <2>1, StepKeeps DEF Keeps, Sole
  <2>3. QED
    BY <1>1, <2>2, LatestStays DEF OnlyLatestActive, Sole
<1>2. CASE lastId' # lastId
  <2>1. Schedule
    BY <1>2 DEF Next, StartProcess, RunBegins, Poll, PollFindsNothing,
                PollClaimsOne, PollClaimsTwo, PollLosesClaim, Heartbeat,
                HeartbeatDies, ThreadEnds, ExecutionEnds, ProcessEnds, Tick, vars
  <2>2. ASSUME NEW k \in Key, ReuseOrCreateJob(k, FALSE)
        PROVE  OnlyLatestActive'
    BY <1>2, <2>2, SupersedeKeepsSole, CreateKeepsSole DEF ReuseOrCreateJob
  <2>3. ASSUME ScheduleForcedSearchAll
        PROVE  OnlyLatestActive'
    <3>1. CASE \E j \in JobId : /\ LatestActive("search_all", j)
                                /\ SupersedeAndCreate(j, "search_all", TRUE)
      BY <3>1, SupersedeKeepsSole
    <3>2. CASE NothingActive("search_all") /\ CreateNewest(jobs, "search_all", TRUE)
      BY <3>2, CreateKeepsSole
    <3>3. CASE /\ \E j \in JobId : /\ LatestActive("search_all", j)
                                   /\ ~jobs[j].force
               /\ CreateNewest(jobs, "search_all", TRUE)
      <4>1. PICK j \in JobId : LatestActive("search_all", j) /\ ~jobs[j].force
        BY <3>3
      <4>2. IsLatest(jobs, "search_all", j) /\ ~Sole(jobs[j])
        BY <4>1 DEF LatestActive, IsLatest, Sole
      <4>3. QED
        BY <3>3, <4>2, CreateKeepsSole
    <3>4. QED
      BY <1>2, <2>3, <3>1, <3>2, <3>3 DEF ScheduleForcedSearchAll, LatestActive
  <2>4. QED
    BY <2>1, <2>2, <2>3 DEF Schedule
<1>3. QED
  BY <1>1, <1>2

\* As long as no scheduler fails to write that it gives a row up, work for a
\* key is queued or running at most once, whatever else raises or crashes.
THEOREM WorkIsNeverDuplicated ==
    ASSUME "supersede" \notin FaultPoints
    PROVE  Spec => []OnlyLatestActive
<1>1. Init => OnlyLatestActive
  BY DEF Init, OnlyLatestActive, Active, AbsentRow
<1>2. TypeOK /\ TypeOK' /\ OnlyLatestActive /\ [Next]_vars => OnlyLatestActive'
  BY OnlyLatestActiveNext
<1>3. QED
  BY <1>1, <1>2, TypeCorrect, PTL DEF Spec
=============================================================================
