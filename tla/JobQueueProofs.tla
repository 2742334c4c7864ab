--------------------------- MODULE JobQueueProofs ---------------------------
(***************************************************************************)
(* Theorems about the job queue, for any number of rows, executions,       *)
(* crashes and failing calls.                                              *)
(***************************************************************************)
EXTENDS JobQueue, TLAPS

----------------------------------------------------------------------------
(* The statements keep the table well formed *)

\* A row that does not exist yet is a row.
LEMMA AbsentRowType == AbsentRow \in Row
BY TableAssumption DEF AbsentRow, Row, Key, TgKeys, Status

\* A statement that rewrites allocated rows keeps the table well formed.
LEMMA RewriteOK ==
    ASSUME NEW rows, NEW n \in Nat, TableOK(rows, n),
           NEW new \in [JobId -> Row],
           \A j \in JobId : new[j].status = "absent" <=> rows[j].status = "absent"
    PROVE  TableOK(new, n)
BY DEF TableOK

\* Creating a row takes the next id.
LEMMA CreateJobOK ==
    ASSUME NEW rows, NEW n \in 0..MaxJobs, TableOK(rows, n), n < MaxJobs,
           NEW k \in Key, NEW force \in BOOLEAN
    PROVE  TableOK(CreateJob(rows, n + 1, k, force), n + 1)
<1> DEFINE row == [key |-> k, force |-> force, status |-> "queued", age |-> 0]
<1>1. row \in Row
  BY TableAssumption DEF Row, Status
<1>2. n + 1 \in JobId
  BY TableAssumption DEF JobId
<1>3. CreateJob(rows, n + 1, k, force) = [rows EXCEPT ![n + 1] = row]
  BY DEF CreateJob
<1>4. CreateJob(rows, n + 1, k, force) \in [JobId -> Row]
  BY <1>1, <1>2, <1>3 DEF TableOK
<1>5. ASSUME NEW j \in JobId
      PROVE  CreateJob(rows, n + 1, k, force)[j].status = "absent" <=> j > n + 1
  <2>1. CASE j = n + 1
    <3>1. CreateJob(rows, n + 1, k, force)[j] = row
      BY <2>1, <1>3 DEF TableOK
    <3>2. ~(j > n + 1)
      BY <2>1
    <3>3. QED
      BY <3>1, <3>2
  <2>2. CASE j # n + 1
    <3>1. CreateJob(rows, n + 1, k, force)[j] = rows[j]
      BY <2>2, <1>3 DEF TableOK
    <3>2. j > n + 1 <=> j > n
      BY <2>2 DEF JobId
    <3>3. QED
      BY <3>1, <3>2 DEF TableOK
  <2>3. QED
    BY <2>1, <2>2
<1>6. QED
  BY <1>4, <1>5 DEF TableOK

\* A row that was stamped is a row.
LEMMA StampedType ==
    ASSUME NEW row \in Row, NEW status \in Status
    PROVE  Stamped(row, status) \in Row
BY TableAssumption DEF Row, Stamped

\* A table in which one row is rewritten, and neither made nor deleted, is a table.
LEMMA WriteRowOK ==
    ASSUME NEW rows, NEW n \in Nat, TableOK(rows, n), NEW j \in JobId,
           NEW row \in Row, rows[j].status = "absent" <=> row.status = "absent"
    PROVE  TableOK([rows EXCEPT ![j] = row], n)
<1>1. [rows EXCEPT ![j] = row] \in [JobId -> Row]
  BY DEF TableOK
<1>2. \A i \in JobId : [rows EXCEPT ![j] = row][i] = IF i = j THEN row ELSE rows[i]
  BY DEF TableOK
<1>3. QED
  BY <1>1, <1>2 DEF TableOK

\* Stamping a row that exists is such a rewriting.
LEMMA WriteStatusOK ==
    ASSUME NEW rows, NEW n \in Nat, TableOK(rows, n),
           NEW j \in JobId, rows[j].status # "absent",
           NEW status \in Status \ {"absent"}
    PROVE  TableOK([rows EXCEPT ![j] = Stamped(@, status)], n)
<1>1. rows[j] \in Row
  BY DEF TableOK
<1>2. Stamped(rows[j], status) \in Row
  BY <1>1, StampedType
<1>3. Stamped(rows[j], status).status # "absent"
  BY DEF Stamped
<1>4. QED
  BY <1>2, <1>3, WriteRowOK

\* Claiming is.
LEMMA ClaimJobOK ==
    ASSUME NEW rows, NEW n \in Nat, TableOK(rows, n),
           NEW j \in JobId, rows[j].status # "absent"
    PROVE  TableOK(ClaimJob(rows, j), n)
BY WriteStatusOK DEF ClaimJob, Status

\* Marking it done is.
LEMMA MarkJobDoneOK ==
    ASSUME NEW rows, NEW n \in Nat, TableOK(rows, n),
           NEW j \in JobId, rows[j].status # "absent"
    PROVE  TableOK(MarkJobDone(rows, j), n)
BY WriteStatusOK DEF MarkJobDone, Status

\* Marking it failed is.
LEMMA MarkJobFailedOK ==
    ASSUME NEW rows, NEW n \in Nat, TableOK(rows, n),
           NEW j \in JobId, rows[j].status # "absent"
    PROVE  TableOK(MarkJobFailed(rows, j), n)
BY WriteStatusOK DEF MarkJobFailed, Status

\* Touching its heartbeat is.
LEMMA TouchJobHeartbeatOK ==
    ASSUME NEW rows, NEW n \in Nat, TableOK(rows, n), NEW j \in JobId
    PROVE  TableOK(TouchJobHeartbeat(rows, j), n)
BY WriteStatusOK DEF TouchJobHeartbeat, Status

\* Requeueing makes and deletes no rows.
LEMMA RequeueOK ==
    ASSUME NEW rows, NEW n \in Nat, TableOK(rows, n)
    PROVE  TableOK(RequeueStaleRunningJobs(rows), n)
<1>1. ASSUME NEW j \in JobId
      PROVE  /\ RequeueStaleRunningJobs(rows)[j] \in Row
             /\ RequeueStaleRunningJobs(rows)[j].status = "absent"
                  <=> rows[j].status = "absent"
  <2>1. rows[j] \in Row
    BY DEF TableOK
  <2>2. Stamped(rows[j], "queued") \in Row
    BY <2>1, StampedType DEF Status
  <2>3. Stamped(rows[j], "queued").status = "queued"
    BY DEF Stamped
  <2>4. QED
    BY <2>1, <2>2, <2>3 DEF RequeueStaleRunningJobs
<1>2. RequeueStaleRunningJobs(rows) \in [JobId -> Row]
  BY <1>1 DEF RequeueStaleRunningJobs
<1>3. QED
  BY <1>1, <1>2, RewriteOK

\* Nor does the time that passes.
LEMMA AgeRowsOK ==
    ASSUME NEW rows, NEW n \in Nat, TableOK(rows, n)
    PROVE  TableOK(AgeRows(rows), n)
<1>1. ASSUME NEW j \in JobId
      PROVE  /\ AgeRows(rows)[j] \in Row
             /\ AgeRows(rows)[j].status = rows[j].status
  <2>1. rows[j] \in Row
    BY DEF TableOK
  <2>2. CASE Active(rows[j]) /\ rows[j].age < RequeueAge
    <3>1. AgeRows(rows)[j] = [rows[j] EXCEPT !.age = rows[j].age + 1]
      BY <2>2 DEF AgeRows
    <3>2. rows[j].age + 1 \in 0..RequeueAge
      BY <2>1, <2>2, TableAssumption DEF Row
    <3>3. QED
      BY <2>1, <3>1, <3>2 DEF Row
  <2>3. CASE ~(Active(rows[j]) /\ rows[j].age < RequeueAge)
    BY <2>1, <2>3 DEF AgeRows
  <2>4. QED
    BY <2>2, <2>3
<1>2. AgeRows(rows) \in [JobId -> Row]
  BY <1>1 DEF AgeRows
<1>3. QED
  BY <1>1, <1>2, RewriteOK

\* Nor does the part of a poll before the claim.
LEMMA PassRowsOK ==
    ASSUME TypeOK, NEW requeue \in BOOLEAN
    PROVE  TableOK(PassRows(requeue), lastId)
BY RequeueOK, TableAssumption DEF TypeOK, PassRows

----------------------------------------------------------------------------
(* Type correctness *)

\* At first there are no rows and no executions.
LEMMA TypeInit == Init => TypeOK
<1> SUFFICES ASSUME Init PROVE TypeOK
  OBVIOUS
<1>1. lastId \in 0..MaxJobs
  BY TableAssumption DEF Init
<1>2. TableOK(jobs, lastId)
  BY AbsentRowType, TableAssumption DEF Init, TableOK, JobId, AbsentRow
<1>3. NoExecution \in Execution /\ NoExecution.job = 0
  BY TableAssumption DEF NoExecution, Execution, ThreadState
<1>4. QED
  BY <1>1, <1>2, <1>3, QueueAssumption DEF Init, TypeOK, WorkerState

\* What a scheduler leaves of the table and the counters.
ScheduledOK ==
    /\ lastId' \in 0..MaxJobs
    /\ lastId <= lastId'
    /\ TableOK(jobs', lastId')

\* A scheduler that creates a row keeps the types.
LEMMA CreateNewestOK ==
    ASSUME TypeOK, NEW rows, TableOK(rows, lastId),
           NEW k \in Key, NEW force \in BOOLEAN, CreateNewest(rows, k, force)
    PROVE  ScheduledOK
BY CreateJobOK, TableAssumption DEF TypeOK, CreateNewest, ScheduledOK

\* So does one that gives an old row up first.
LEMMA SupersedeOK ==
    ASSUME TypeOK, NEW j \in JobId, NEW k \in Key, NEW force \in BOOLEAN,
           LatestActive(k, j), SupersedeAndCreate(j, k, force)
    PROVE  ScheduledOK /\ faults' \in 0..MaxFaults
<1>1. jobs[j].status # "absent"
  BY DEF LatestActive, Active
<1>2. TableOK(MarkJobFailed(jobs, j), lastId) /\ TableOK(jobs, lastId)
  BY <1>1, MarkJobFailedOK DEF TypeOK
<1>3. ScheduledOK
  BY <1>2, CreateNewestOK DEF SupersedeAndCreate
<1>4. faults' \in 0..MaxFaults
  BY QueueAssumption DEF SupersedeAndCreate, MayFail, Fail, TypeOK
<1>5. QED
  BY <1>3, <1>4

\* So do all schedulers.
LEMMA ScheduleType == TypeOK /\ Schedule => TypeOK'
<1> SUFFICES ASSUME TypeOK, Schedule PROVE TypeOK'
  OBVIOUS
<1>1. /\ ScheduledOK /\ faults' \in 0..MaxFaults
      /\ UNCHANGED <<worker, exec, crashes>>
  <2>1. ASSUME NEW k \in Key, ReuseOrCreateJob(k, FALSE)
        PROVE  /\ ScheduledOK /\ faults' \in 0..MaxFaults
               /\ UNCHANGED <<worker, exec, crashes>>
    <3>1. CASE UNCHANGED <<jobs, lastId, faults>>
      BY <2>1, <3>1 DEF ScheduledOK, TypeOK, ReuseOrCreateJob
    <3>2. CASE \E j \in JobId : LatestActive(k, j) /\ SupersedeAndCreate(j, k, FALSE)
      BY <2>1, <3>2, SupersedeOK DEF ReuseOrCreateJob
    <3>3. CASE CreateNewest(jobs, k, FALSE) /\ UNCHANGED faults
      BY <2>1, <3>3, CreateNewestOK DEF ReuseOrCreateJob, TypeOK
    <3>4. QED
      BY <2>1, <3>1, <3>2, <3>3 DEF ReuseOrCreateJob
  <2>2. ASSUME ScheduleForcedSearchAll
        PROVE  /\ ScheduledOK /\ faults' \in 0..MaxFaults
               /\ UNCHANGED <<worker, exec, crashes>>
    <3>1. CASE UNCHANGED <<jobs, lastId, faults>>
      BY <2>2, <3>1 DEF ScheduledOK, TypeOK, ScheduleForcedSearchAll
    <3> "search_all" \in Key
      BY DEF Key, TgKeys
    <3>2. CASE \E j \in JobId : /\ LatestActive("search_all", j)
                                /\ SupersedeAndCreate(j, "search_all", TRUE)
      BY <2>2, <3>2, SupersedeOK DEF ScheduleForcedSearchAll
    <3>3. CASE CreateNewest(jobs, "search_all", TRUE) /\ UNCHANGED faults
      BY <2>2, <3>3, CreateNewestOK DEF ScheduleForcedSearchAll, TypeOK
    <3>4. QED
      BY <2>2, <3>1, <3>2, <3>3 DEF ScheduleForcedSearchAll
  <2>3. QED
    BY <2>1, <2>2 DEF Schedule
<1>2. \A s \in Slots : exec'[s].job <= lastId'
  BY <1>1, TableAssumption DEF TypeOK, ScheduledOK, Execution
<1>3. QED
  BY <1>1, <1>2 DEF TypeOK, ScheduledOK

\* No execution and one that has just started are executions.
LEMMA ExecutionTypes ==
    /\ NoExecution \in Execution /\ NoExecution.job = 0
    /\ \A j \in JobId : /\ StartedExecution(j) \in Execution
                        /\ StartedExecution(j).job = j
                        /\ StartedExecution(j).job # 0
BY TableAssumption
DEF NoExecution, StartedExecution, Execution, ThreadState, JobId

\* What is queued has an id that was handed out.
LEMMA QueuedIsAllocated ==
    ASSUME NEW rows, NEW n \in Nat, TableOK(rows, n),
           NEW keys, NEW j \in JobId, IsOldestQueued(rows, keys, j)
    PROVE  rows[j].status # "absent" /\ j <= n
BY DEF TableOK, IsOldestQueued, JobId

\* The part of TypeOK about the executions.
ExecOK(e, n) ==
    /\ e \in [Slots -> Execution]
    /\ \A s \in Slots : e[s].job = 0 <=> e[s] = NoExecution
    /\ \A s \in Slots : e[s].job <= n

\* An execution may start for any id that was handed out.
LEMMA StartExecutionOK ==
    ASSUME NEW e, NEW n \in Nat, ExecOK(e, n),
           NEW s \in Slots, NEW j \in JobId, j <= n
    PROVE  ExecOK([e EXCEPT ![s] = StartedExecution(j)], n)
BY ExecutionTypes DEF ExecOK

\* An execution may change while it keeps its job.
LEMMA RewriteExecutionOK ==
    ASSUME NEW n \in Nat, ExecOK(exec, n), NEW s \in Slots,
           exec[s] # NoExecution, NEW e \in Execution, e.job = exec[s].job
    PROVE  ExecOK([exec EXCEPT ![s] = e], n)
BY ExecutionTypes DEF ExecOK

\* The worker keeps the types.
LEMMA PollType ==
    ASSUME TypeOK, NEW requeue \in BOOLEAN, Poll(requeue)
    PROVE  TypeOK'
<1> DEFINE rows == PassRows(requeue)
<1>1. lastId \in Nat /\ TableOK(rows, lastId) /\ ExecOK(exec, lastId)
  BY PassRowsOK, TableAssumption DEF TypeOK, ExecOK
<1> SUFFICES /\ TableOK(jobs', lastId) /\ ExecOK(exec', lastId)
             /\ faults' \in 0..MaxFaults /\ worker' \in WorkerState
             /\ UNCHANGED <<lastId, crashes>>
  BY DEF TypeOK, ExecOK
<1> HIDE DEF rows
<1>2. CASE PollFindsNothing(requeue)
  BY <1>1, <1>2 DEF PollFindsNothing, TypeOK, rows
<1>3. CASE PollClaimsOne(requeue)
  <2>1. PICK s \in Slots, j \in JobId :
          /\ IsOldestQueued(rows, Key, j)
          /\ jobs' = ClaimJob(rows, j)
          /\ exec' = [exec EXCEPT ![s] = StartedExecution(j)]
    BY <1>3 DEF PollClaimsOne, rows
  <2>2. rows[j].status # "absent" /\ j <= lastId
    BY <1>1, <2>1, QueuedIsAllocated
  <2>3. TableOK(jobs', lastId)
    BY <1>1, <2>1, <2>2, ClaimJobOK
  <2>4. ExecOK(exec', lastId)
    BY <1>1, <2>1, <2>2, StartExecutionOK
  <2>5. QED
    BY <1>3, <2>3, <2>4 DEF PollClaimsOne, TypeOK, WorkerState
<1>4. CASE PollClaimsTwo(requeue)
  <2>1. PICK s \in Slots, t \in Slots, j \in JobId, i \in JobId :
          /\ IsOldestQueued(rows, Key, j)
          /\ IsOldestQueued(ClaimJob(rows, j), NonTgKeys, i)
          /\ jobs' = ClaimJob(ClaimJob(rows, j), i)
          /\ exec' = [exec EXCEPT ![s] = StartedExecution(j),
                                  ![t] = StartedExecution(i)]
    BY <1>4 DEF PollClaimsTwo, rows
  <2>2. rows[j].status # "absent" /\ j <= lastId
    BY <1>1, <2>1, QueuedIsAllocated
  <2>3. TableOK(ClaimJob(rows, j), lastId)
    BY <1>1, <2>2, ClaimJobOK
  <2>4. ClaimJob(rows, j)[i].status # "absent" /\ i <= lastId
    BY <1>1, <2>1, <2>3, QueuedIsAllocated
  <2>5. TableOK(jobs', lastId)
    BY <1>1, <2>1, <2>3, <2>4, ClaimJobOK
  <2>6. ExecOK([exec EXCEPT ![s] = StartedExecution(j)], lastId)
    BY <1>1, <2>2, StartExecutionOK
  <2>7. ExecOK(exec', lastId)
    BY <1>1, <2>1, <2>4, <2>6, StartExecutionOK
  <2>8. QED
    BY <1>4, <2>5, <2>7 DEF PollClaimsTwo, TypeOK, WorkerState
<1>5. CASE PollLosesClaim(requeue)
  <2>1. PICK j \in JobId : /\ IsOldestQueued(rows, Key, j)
                          /\ jobs' = ClaimJob(rows, j)
    BY <1>5 DEF PollLosesClaim, rows
  <2>2. rows[j].status # "absent"
    BY <1>1, <2>1, QueuedIsAllocated
  <2>3. TableOK(jobs', lastId)
    BY <1>1, <2>1, <2>2, ClaimJobOK
  <2>4. faults' \in 0..MaxFaults
    BY <1>5, QueueAssumption DEF PollLosesClaim, MayFail, Fail, TypeOK
  <2>5. QED
    BY <1>1, <1>5, <2>3, <2>4 DEF PollLosesClaim, TypeOK
<1>6. QED
  BY <1>2, <1>3, <1>4, <1>5 DEF Poll

\* What an execution writes at its end, and the faults it costs.
LEMMA MarkOutcomeTypes ==
    ASSUME NEW thread, NEW o \in MarkOutcomes(thread)
    PROVE  o.write \in {"done", "failed", "nothing"} /\ o.cost \in 0..2
BY DEF MarkOutcomes

\* An execution that ends keeps the types.
LEMMA ExecutionEndsType ==
    ASSUME TypeOK, NEW s \in Slots, ExecutionEnds(s)
    PROVE  TypeOK'
<1>1. PICK o \in MarkOutcomes(exec[s].thread) :
        /\ faults + o.cost <= MaxFaults
        /\ faults' = faults + o.cost
        /\ jobs' = Written(o.write, exec[s].job)
        /\ exec' = [t \in Slots |->
                      IF t = s THEN NoExecution
                      ELSE IF (o.write = "nothing" \/ ~exec[s].hb) /\ exec[s].awaited
                           THEN NoLongerAwaited(exec[t])
                           ELSE exec[t]]
        /\ worker' \in {"polling", worker}
  BY DEF ExecutionEnds
<1>2. o.write \in {"done", "failed", "nothing"} /\ o.cost \in 0..2
  BY MarkOutcomeTypes
<1>3. exec[s].job \in JobId /\ exec[s].job <= lastId
  BY TableAssumption DEF ExecutionEnds, TypeOK, NoExecution, Execution, JobId
<1>4. lastId \in Nat /\ jobs[exec[s].job].status # "absent"
  BY <1>3, TableAssumption DEF TypeOK, TableOK, JobId
<1>5. TableOK(jobs', lastId)
  BY <1>1, <1>2, <1>3, <1>4, MarkJobDoneOK, MarkJobFailedOK DEF Written, TypeOK
<1>6. ExecOK(exec', lastId)
  <2>1. \A t \in Slots : exec'[t] \in {NoExecution, NoLongerAwaited(exec[t]), exec[t]}
    BY <1>1
  <2>2. ASSUME NEW t \in Slots
        PROVE  /\ exec'[t] \in Execution
               /\ exec'[t].job = 0 <=> exec'[t] = NoExecution
               /\ exec'[t].job <= lastId
    <3>1. /\ exec[t] \in Execution
          /\ exec[t].job = 0 <=> exec[t] = NoExecution
          /\ exec[t].job <= lastId
      BY DEF TypeOK
    <3>2. /\ NoLongerAwaited(exec[t]) \in Execution
          /\ NoLongerAwaited(exec[t]).job = exec[t].job
      BY <3>1 DEF NoLongerAwaited, Execution
    <3>3. exec[t] = NoExecution => NoLongerAwaited(exec[t]) = NoExecution
      BY <3>1 DEF NoLongerAwaited, NoExecution, Execution
    <3>4. QED
      BY <1>4, <2>1, <3>1, <3>2, <3>3, ExecutionTypes
  <2>3. exec' = [t \in Slots |-> exec'[t]]
    BY <1>1
  <2>4. QED
    BY <2>2, <2>3 DEF ExecOK
<1>7. faults' \in 0..MaxFaults
  BY <1>1, <1>2, QueueAssumption DEF TypeOK
<1>8. QED
  BY <1>1, <1>5, <1>6, <1>7 DEF TypeOK, ExecOK, ExecutionEnds, WorkerState

\* So does every step.
LEMMA TypeNext == TypeOK /\ [Next]_vars => TypeOK'
<1> SUFFICES ASSUME TypeOK, [Next]_vars PROVE TypeOK'
  OBVIOUS
<1>1. CASE Schedule
  BY <1>1, ScheduleType
<1>2. CASE StartProcess
  BY <1>2 DEF StartProcess, TypeOK, WorkerState
<1>3. CASE RunBegins
  <2>1. TableOK(jobs', lastId)
    BY <1>3, RequeueOK, TableAssumption DEF RunBegins, TypeOK
  <2>2. QED
    BY <1>3, <2>1, QueueAssumption DEF RunBegins, TypeOK, WorkerState, MayFail, Fail
<1>4. CASE \E requeue \in BOOLEAN : Poll(requeue)
  BY <1>4, PollType
<1>5. ASSUME NEW s \in Slots, Heartbeat(s)
      PROVE  TypeOK'
  <2>1. exec[s].job \in JobId
    BY <1>5, TableAssumption DEF Heartbeat, TypeOK, NoExecution, Execution, JobId
  <2>2. TableOK(jobs', lastId)
    BY <1>5, <2>1, TouchJobHeartbeatOK, TableAssumption DEF Heartbeat, TypeOK
  <2>3. QED
    BY <1>5, <2>2 DEF Heartbeat, TypeOK
<1>6. ASSUME NEW s \in Slots, HeartbeatDies(s)
      PROVE  TypeOK'
  <2>1. ExecOK(exec', lastId)
    <3> DEFINE e == [exec[s] EXCEPT !.hb = FALSE]
    <3>1. exec[s] \in Execution /\ exec[s] # NoExecution
      BY <1>6 DEF HeartbeatDies, TypeOK, NoExecution
    <3>2. e \in Execution /\ e.job = exec[s].job
      BY <3>1 DEF Execution
    <3> HIDE DEF e
    <3>3. exec' = [exec EXCEPT ![s] = e]
      BY <1>6 DEF HeartbeatDies, e
    <3>4. QED
      BY <3>1, <3>2, <3>3, RewriteExecutionOK DEF TypeOK, ExecOK
  <2>2. faults' \in 0..MaxFaults
    BY <1>6, QueueAssumption DEF HeartbeatDies, MayFail, Fail, TypeOK
  <2>3. QED
    BY <1>6, <2>1, <2>2 DEF HeartbeatDies, TypeOK, ExecOK
<1>7. ASSUME NEW s \in Slots, ThreadEnds(s)
      PROVE  TypeOK'
  <2>1. ExecOK(exec', lastId)
    <3>1. PICK result \in ThreadState :
            exec' = [exec EXCEPT ![s].thread = result]
      BY <1>7 DEF ThreadEnds, ThreadState
    <3> DEFINE e == [exec[s] EXCEPT !.thread = result]
    <3>2. exec[s] \in Execution /\ exec[s] # NoExecution
      BY <1>7 DEF ThreadEnds, TypeOK, NoExecution
    <3>3. e \in Execution /\ e.job = exec[s].job
      BY <3>2 DEF Execution
    <3> HIDE DEF e
    <3>4. exec' = [exec EXCEPT ![s] = e]
      BY <3>1 DEF e
    <3>5. QED
      BY <3>2, <3>3, <3>4, RewriteExecutionOK DEF TypeOK, ExecOK
  <2>2. QED
    BY <1>7, <2>1 DEF ThreadEnds, TypeOK, ExecOK
<1>8. ASSUME NEW s \in Slots, ExecutionEnds(s)
      PROVE  TypeOK'
  BY <1>8, ExecutionEndsType
<1>9. CASE ProcessEnds
  <2>1. ExecOK(exec', lastId)
    BY <1>9, ExecutionTypes DEF ProcessEnds, ExecOK, TypeOK
  <2>2. QED
    BY <1>9, <2>1, QueueAssumption DEF ProcessEnds, TypeOK, ExecOK, WorkerState
<1>10. CASE Tick
  <2>1. TableOK(jobs', lastId)
    BY <1>10, AgeRowsOK, TableAssumption DEF Tick, TypeOK
  <2>2. QED
    BY <1>10, <2>1 DEF Tick, TypeOK
<1>11. CASE UNCHANGED vars
  BY <1>11 DEF vars, TypeOK
<1>12. QED
  BY <1>1, <1>2, <1>3, <1>4, <1>5, <1>6, <1>7, <1>8, <1>9, <1>10, <1>11 DEF Next

\* The table, the executions and the counters keep their types: ids are
\* allocated without gaps and an execution refers to an allocated row.
THEOREM TypeCorrect == Spec => []TypeOK
BY TypeInit, TypeNext, PTL DEF Spec

=============================================================================
