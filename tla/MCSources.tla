------------------------------ MODULE MCSources ------------------------------
(* The rules over their cases, the user's sources, the paid one, and the bot by    *)
(* which magnets are searched, one at a time: the first state picks which, the     *)
(* others rest in their initial state.                                            *)
EXTENDS MCDecisions, Sources, Haisou, TelegramBot

\* One source that the user prefers, and another.
Preference == [s \in SourceId |-> IF s = "x" THEN 2 ELSE 1]

\* A search or a subscription, a search, and a button of the first search or a
\* cancellation.
Script == <<{"subscribe", "search"}, {"search"}, {"pick", "cancel"}>>

VARIABLE focus

\* The case that waits while another component runs.
AnyCase == CHOOSE c \in Case : TRUE

MCInit ==
    /\ focus \in {"rules", "sources", "haisou", "bot"}
    /\ IF focus = "rules" THEN DecisionsInit ELSE question = AnyCase /\ verdict = NoVerdict
    /\ SourcesInit /\ HaisouInit /\ BotInit

RunRules   == focus = "rules"   /\ DecisionsNext /\ UNCHANGED <<focus, sourcesVars, haisouVars, botVars>>
RunSources == focus = "sources" /\ SourcesNext   /\ UNCHANGED <<focus, caseVars, haisouVars, botVars>>
RunHaisou  == focus = "haisou"  /\ HaisouNext    /\ UNCHANGED <<focus, caseVars, sourcesVars, botVars>>
RunBot     == focus = "bot"     /\ BotNext       /\ UNCHANGED <<focus, caseVars, sourcesVars, haisouVars>>

MCNext == RunRules \/ RunSources \/ RunHaisou \/ RunBot

\* The fairness of each component, while it is the one that runs.
MCFairness ==
    /\ WF_sourcesVars(focus = "sources" /\ StartHunt)
    /\ WF_sourcesVars(focus = "sources" /\ HuntStep)
    /\ \A s \in SourceId :
         /\ SF_sourcesVars(focus = "sources" /\ StatsGrowOld(s))
         /\ SF_sourcesVars(focus = "sources" /\ SourceOnCooldownEnds(s))
         /\ SF_sourcesVars(focus = "sources" /\ CachedResultsExpire(s))
    /\ WF_botVars(focus = "bot" /\ EnsurePolling)
    /\ WF_botVars(focus = "bot" /\ PollStep)

mcVars == <<focus, caseVars, sourcesVars, haisouVars, botVars>>

MCSpec == MCInit /\ [][MCNext]_mcVars /\ MCFairness
--------------------------------------------------------------------------------
\* Sources: a source that answers again is asked again.
SourcesComeBack == focus = "sources" => SourceComesBack

\* TelegramBot: an update is handled, or given up by a stop.
BotSettlesUpdates == focus = "bot" => EveryUpdateSettled
================================================================================
