------------------------------ MODULE JobTable ------------------------------
(***************************************************************************)
(* The background_jobs table (services/jobs.py): its rows and, as          *)
(* operators on the whole table, the statements the program runs on it.    *)
(* Each operator is one db() transaction.                                  *)
(*                                                                         *)
(* A row keeps the columns that some guard reads.  `key' stands for the    *)
(* pair (kind, target_id), `force' for payload.force, and `age' for the    *)
(* time since the newest of the row's stamps (heartbeat_at, started_at,    *)
(* updated_at): every statement that writes a row sets it to now.          *)
(* payload, result, error and worker_id are only displayed.                *)
(***************************************************************************)
EXTENDS Naturals

CONSTANTS
    SearchKeys,     \* the jobs (subscription_search, id), one per subscription
    MaxJobs,        \* bound on the rows ever created
    StaleRunning,   \* 180 s in ticks: a running row is stale for a scheduler
    StaleQueued,    \* 360 s in ticks: a queued row is stale for a scheduler
    RequeueAge      \* 1800 s in ticks: a running row is requeued by a worker

(***************************************************************************)
(* A heartbeat comes every 15 s, so many times within one tick, and every  *)
(* threshold is at least two ticks.                                        *)
(***************************************************************************)
ASSUME TableAssumption ==
    /\ SearchKeys \cap {"search_all", "emby_sync", "retry_failed"} = {}
    /\ MaxJobs \in Nat
    /\ StaleRunning \in Nat /\ StaleQueued \in Nat /\ RequeueAge \in Nat
    /\ 2 <= StaleRunning
    /\ StaleRunning < StaleQueued
    /\ StaleQueued <= RequeueAge

JobId == 1..MaxJobs

\* Kinds without a target have one key each.
TgKeys == SearchKeys \cup {"search_all"}
NonTgKeys == {"emby_sync", "retry_failed"}
Key == TgKeys \cup NonTgKeys

Status == {"absent", "queued", "running", "done", "failed"}
Row == [key : Key, force : BOOLEAN, status : Status, age : 0..RequeueAge]

\* An id that is not allocated yet.
AbsentRow ==
    [key |-> "search_all", force |-> FALSE, status |-> "absent", age |-> 0]

\* A table whose ids 1..n are allocated.
TableOK(rows, n) ==
    /\ rows \in [JobId -> Row]
    /\ \A j \in JobId : rows[j].status = "absent" <=> j > n

Active(row) == row.status \in {"queued", "running"}
Terminal(row) == row.status \in {"done", "failed"}

----------------------------------------------------------------------------
(* Queries *)

\* SELECT ... WHERE kind = ? [AND target_id = ?] ORDER BY id DESC LIMIT 1
IsLatest(rows, k, j) ==
    /\ rows[j].status # "absent"
    /\ rows[j].key = k
    /\ \A i \in JobId : (i > j /\ rows[i].key = k) => rows[i].status = "absent"

NoJob(rows, k) ==
    \A i \in JobId : rows[i].key = k => rows[i].status = "absent"

\* SELECT ... WHERE status = 'queued' AND kind IN (...) ORDER BY id ASC LIMIT 1
IsOldestQueued(rows, keys, j) ==
    /\ rows[j].status = "queued"
    /\ rows[j].key \in keys
    /\ \A i \in JobId :
         i < j => ~(rows[i].status = "queued" /\ rows[i].key \in keys)

NoneQueued(rows, keys) ==
    \A i \in JobId : ~(rows[i].status = "queued" /\ rows[i].key \in keys)

\* Mutant: a running row is stale whatever its heartbeat says.
JobIsStaleNoHeartbeat(row) ==
    \/ row.status = "running"
    \/ row.status = "queued" /\ row.age >= StaleQueued

\* tasks._job_is_stale: how a scheduler judges the row it found.
JobIsStale(row) ==
    \/ row.status = "running" /\ row.age >= StaleRunning
    \/ row.status = "queued" /\ row.age >= StaleQueued

----------------------------------------------------------------------------
(* Statements *)

\* A row after a statement that sets its status, and its stamps to now.
Stamped(row, status) ==
    [key |-> row.key, force |-> row.force, status |-> status, age |-> 0]

CreateJob(rows, j, k, force) ==
    [rows EXCEPT ![j] =
        [key |-> k, force |-> force, status |-> "queued", age |-> 0]]

\* UPDATE ... SET status = 'running' ... WHERE id = ? AND status = 'queued'
ClaimJob(rows, j) ==
    [rows EXCEPT ![j] = Stamped(@, "running")]

\* The row may be in any status: the statement has no guard but the id.
MarkJobDone(rows, j) ==
    [rows EXCEPT ![j] = Stamped(@, "done")]

MarkJobFailed(rows, j) ==
    [rows EXCEPT ![j] = Stamped(@, "failed")]

\* UPDATE ... SET heartbeat_at = now WHERE id = ? AND status = 'running'
TouchJobHeartbeat(rows, j) ==
    IF rows[j].status = "running"
    THEN [rows EXCEPT ![j] = Stamped(@, "running")]
    ELSE rows

\* Mutant: every running row is requeued, without a look at its heartbeat.
RequeueAllRunningJobs(rows) ==
    [j \in JobId |->
        IF rows[j].status = "running"
        THEN Stamped(rows[j], "queued")
        ELSE rows[j]]

\* Mutant: orphaned rows are left alone.
RequeueNothing(rows) == rows

RequeueStaleRunningJobs(rows) ==
    [j \in JobId |->
        IF rows[j].status = "running" /\ rows[j].age >= RequeueAge
        THEN Stamped(rows[j], "queued")
        ELSE rows[j]]

\* One tick of the clock; only the stamps of active rows are ever compared.
AgeRows(rows) ==
    [j \in JobId |->
        IF Active(rows[j]) /\ rows[j].age < RequeueAge
        THEN [rows[j] EXCEPT !.age = @ + 1]
        ELSE rows[j]]
=============================================================================
