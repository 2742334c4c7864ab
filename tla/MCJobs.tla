-------------------------------- MODULE MCJobs --------------------------------
(* The job table with its worker, and the job that searches all subscriptions,   *)
(* one at a time: the first state picks which, the other rests in its initial    *)
(* state. JobQueue shows that no two searches of all run at once.                *)
EXTENDS MCJobQueue, SearchAll

VARIABLE focus

MCInit == focus \in {"jobs", "search_all"} /\ Init /\ SearchAllInit

RunJobs == focus = "jobs" /\ Next /\ UNCHANGED <<focus, allVars>>
RunAll  == focus = "search_all" /\ SearchAllNext /\ UNCHANGED <<focus, vars>>

MCNext == RunJobs \/ RunAll

\* The fairness of the search of all, while it runs. What is asked of the job
\* table here needs none.
MCFairness ==
    /\ WF_allVars(focus = "search_all" /\ SearchAllActiveSubscriptions(FALSE))
    /\ WF_allVars(focus = "search_all" /\ RunStep)
    /\ \A s \in Subs : WF_allVars(focus = "search_all" /\ TimePasses(s))

MCSpec == MCInit /\ [][MCNext]_<<focus, vars, allVars>> /\ MCFairness
--------------------------------------------------------------------------------
\* Each subscription that stays active is searched again and again, by one run
\* of a search of all or another.
AllEachIsSearched == focus = "search_all" => EachIsSearched
================================================================================
