---------------------------- MODULE JobLifecycle ----------------------------
(***************************************************************************)
(* What the job queue promises about each row of background_jobs, however  *)
(* it is scheduled, claimed, requeued or interrupted: ids are handed out   *)
(* in order, a row only moves along Moves, and a verdict (done or failed)  *)
(* is final.                                                               *)
(***************************************************************************)
EXTENDS Naturals

CONSTANT JobIds     \* 1..n: the rows that can exist

VARIABLE state      \* the status of each row

States == {"absent", "queued", "running", "done", "failed"}

Moves ==
    {<<"absent", "queued">>,    \* scheduled
     <<"queued", "running">>,   \* claimed
     <<"queued", "failed">>,    \* superseded before it ran
     <<"running", "queued">>,   \* requeued: its worker died
     <<"running", "failed">>,   \* executed, or given up as stale
     <<"running", "done">>}     \* executed

Init == state = [j \in JobIds |-> "absent"]

\* One step may move several rows: a requeue touches every stale row, and a
\* scheduler supersedes one row and creates another.
Next ==
    /\ state' \in [JobIds -> States]
    /\ \A j \in JobIds :
         state'[j] # state[j] => <<state[j], state'[j]>> \in Moves
    /\ \A j \in JobIds :
         state'[j] # "absent" => \A i \in JobIds : i < j => state[i] # "absent"

Spec == Init /\ [][Next]_state
=============================================================================
