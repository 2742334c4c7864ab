------------------------------ MODULE MCTelegram ------------------------------
(* The history of a source and the shared client, one at a time: the first state   *)
(* picks the one that runs, the other rests in its initial state.                 *)
EXTENDS TelegramHistory, TelegramSession

\* Three messages of a chat: a text about another title, a link in the text, and a
\* link behind a text that names nothing.
Chat == <<[titles |-> {"b"}, link |-> "none"], [titles |-> {"a"}, link |-> "direct"],
          [titles |-> {}, link |-> "behind"]>>

VARIABLE focus

MCInit ==
    /\ focus \in {"history", "session"}
    /\ HistoryInit /\ SessionInit

RunHistory == focus = "history" /\ HistoryNext /\ UNCHANGED <<focus, sessionVars>>
RunSession == focus = "session" /\ SessionNext /\ UNCHANGED <<focus, historyVars>>

MCNext == RunHistory \/ RunSession

\* The fairness of each component, while it is the one that runs.
MCFairness ==
    /\ \A t \in Wanted :
         /\ SF_historyVars(focus = "history" /\ StartSearch(t, "fast"))
         /\ SF_historyVars(focus = "history" /\ StageStep(t, "fast", SearchDialogQuery))
         /\ SF_historyVars(focus = "history" /\ StageStep(t, "full", SearchDialogQuery))
         /\ SF_historyVars(focus = "history" /\ StageStep(t, "full", ReadRecentMessages))
    /\ WF_historyVars(focus = "history" /\ HistorySearchStep)
    /\ WF_historyVars(focus = "history" /\ WatermarkExpires)
    /\ WF_historyVars(focus = "history" /\ CachesExpire)
    /\ WF_sessionVars(focus = "session" /\ MonitorStep)
    /\ WF_sessionVars(focus = "session" /\ SearchStep)
    /\ WF_sessionVars(focus = "session" /\ LoginStep)
    /\ WF_sessionVars(focus = "session" /\ InitCooldownExpires)
    /\ WF_sessionVars(focus = "session" /\ ListenerStops)
    /\ \A s \in Source : WF_sessionVars(focus = "session" /\ DialogCachesExpire(s))

mcVars == <<focus, historyVars, sessionVars>>

MCSpec == MCInit /\ [][MCNext]_mcVars /\ MCFairness
-------------------------------------------------------------------------------
(* The properties of the components, each for the runs of its own *)

\* TelegramHistory: a wanted title in reach of its searches is found in the index.
IndexHasWanted == focus = "history" => WantedGetsIndexed

\* TelegramSession: the monitor listens again to every source.
SessionListensAgain == focus = "session" => ListeningIsRestored
===============================================================================
