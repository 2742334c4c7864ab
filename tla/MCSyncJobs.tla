----------------------------- MODULE MCSyncJobs -----------------------------
(* The job table while reads and writes of the database fail, and the rows of a *)
(* show that its sync jobs compare with the library, one at a time: the first   *)
(* state picks which, the other rests in its initial state.                     *)
EXTENDS MCJobQueue, Subscriptions

VARIABLE focus

MCInit == focus \in {"jobs", "rows"} /\ Init /\ SubscriptionsInit

RunJobs == focus = "jobs" /\ Next /\ UNCHANGED <<focus, subsVars>>
RunRows == focus = "rows" /\ SubscriptionsNext /\ UNCHANGED <<focus, vars>>

MCNext == RunJobs \/ RunRows

\* The fairness of each component, while it is the one that runs.
MCFairness ==
    /\ WF_vars(focus = "jobs" /\ StartProcess)
    /\ WF_vars(focus = "jobs" /\ RunBegins)
    /\ WF_vars(focus = "jobs" /\ Poll(TRUE))
    /\ \A s \in Slots : /\ WF_vars(focus = "jobs" /\ Heartbeat(s))
                        /\ WF_vars(focus = "jobs" /\ ThreadEnds(s))
                        /\ WF_vars(focus = "jobs" /\ ExecutionEnds(s))
    /\ WF_vars(focus = "jobs" /\ Tick)
    /\ \A p \in Pass \ {"create"} : SF_subsVars(focus = "rows" /\ SyncSubscriptionList(p, TRUE))
    /\ \A p \in Pass : WF_subsVars(focus = "rows" /\ SyncStep(p))
    /\ WF_subsVars(focus = "rows" /\ JudgeStep)

MCSpec == MCInit /\ [][MCNext]_<<focus, vars, subsVars>> /\ MCFairness
--------------------------------------------------------------------------------
\* JobQueue: no job stays queued, or running, for good.
EveryJobSettles == focus = "jobs" => JobsSettle

\* Subscriptions: a show that the library has whole does not stay subscribed.
CompleteShowsEnd == focus = "rows" => CompleteShowEnds
================================================================================
