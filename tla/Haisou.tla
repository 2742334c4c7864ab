------------------------------- MODULE Haisou -------------------------------
(***************************************************************************)
(* The paid search API: each page of an answer costs a call, and the calls of a *)
(* window are counted. Searches of several threads share the count and the      *)
(* cache; an error is retried once, from the first page.                        *)
(***************************************************************************)
EXTENDS Integers, FiniteSets

CONSTANTS Searcher,        \* threads that search
          PaidQuery,
          MaxPerWindow,    \* MAX_SEARCH_PER_WINDOW
          MaxPages,        \* MAX_SEARCH_PAGES
          MaxWindows       \* bound: windows that end

ASSUME HaisouAssumption == MaxPerWindow \in Nat /\ MaxPages \in Nat \ {0} /\ MaxWindows \in Nat

VARIABLES calls,       \* _SEARCH_CALLS
          paidCache,   \* [query -> none | complete | cut]
          paid,        \* [searcher -> [at, query, attempt, page, cut]]
          sent,        \* requests since the window began
          windows

haisouVars == <<calls, paidCache, paid, sent, windows>>

NotSearching == [at |-> "idle", query |-> "", attempt |-> 0, page |-> 0, cut |-> FALSE]

\* An hour after its first call the window begins anew.
RollWindow ==
    /\ windows < MaxWindows /\ windows' = windows + 1
    /\ calls' = 0 /\ sent' = 0
    /\ UNCHANGED <<paidCache, paid>>

\* A stored answer, or nothing while the budget is used up.
SearchHaisou(p, q) ==
    /\ paid[p].at = "idle" /\ paidCache[q] = "none" /\ calls < MaxPerWindow
    /\ paid' = [paid EXCEPT ![p] = [NotSearching EXCEPT !.at = "slot", !.query = q, !.attempt = 1, !.page = 1]]
    /\ UNCHANGED <<calls, paidCache, sent, windows>>

\* Mutant: off by one.
HasOneSlotMore == calls <= MaxPerWindow

HasSlot == calls < MaxPerWindow

\* The slot is taken and the page asked for; without a slot what there is ends
\* the search.
AcquireHaisouSearchSlot(p) ==
    /\ paid[p].at = "slot"
    /\ IF HasSlot
       THEN /\ calls' = calls + 1 /\ sent' = sent + 1
            /\ paid' = [paid EXCEPT ![p].at = "page"]
       ELSE /\ paid' = [paid EXCEPT ![p] = [@ EXCEPT !.at = "store", !.cut = TRUE]]
            /\ UNCHANGED <<calls, sent>>
    /\ UNCHANGED <<paidCache, windows>>

\* A page that is not full is the last one.
SearchHaisouPage(p) ==
    /\ paid[p].at = "page"
    /\ \E full \in BOOLEAN :
         paid' = [paid EXCEPT ![p] = IF full /\ @.page < MaxPages
                                     THEN [@ EXCEPT !.at = "slot", !.page = @ + 1]
                                     ELSE [@ EXCEPT !.at = "store"]]
    /\ UNCHANGED <<calls, paidCache, sent, windows>>

\* An error that may pass, or no answer in time, is tried once more with the pages
\* asked again; else the search ends, and nothing is stored.
HaisouApiError(p) ==
    /\ paid[p].at = "page"
    /\ \E retryable \in BOOLEAN :
         paid' = [paid EXCEPT ![p] = IF retryable /\ @.attempt = 1
                                     THEN [@ EXCEPT !.at = "slot", !.page = 1, !.attempt = 2]
                                     ELSE NotSearching]
    /\ UNCHANGED <<calls, paidCache, sent, windows>>

\* What was cut short by the budget is stored like a complete answer.
SetCachedHaisouSearch(p) ==
    /\ paid[p].at = "store"
    /\ paidCache' = [paidCache EXCEPT ![paid[p].query] = IF paid[p].cut THEN "cut" ELSE "complete"]
    /\ paid' = [paid EXCEPT ![p] = NotSearching]
    /\ UNCHANGED <<calls, sent, windows>>

PaidCacheExpires(q) ==
    /\ paidCache[q] # "none" /\ paidCache' = [paidCache EXCEPT ![q] = "none"]
    /\ UNCHANGED <<calls, paid, sent, windows>>
-----------------------------------------------------------------------------
HaisouInit ==
    /\ calls = 0 /\ sent = 0 /\ windows = 0
    /\ paidCache = [q \in PaidQuery |-> "none"]
    /\ paid = [p \in Searcher |-> NotSearching]

HaisouNext ==
    \/ RollWindow
    \/ \E q \in PaidQuery : PaidCacheExpires(q)
    \/ \E p \in Searcher :
         \/ \E q \in PaidQuery : SearchHaisou(p, q)
         \/ AcquireHaisouSearchSlot(p) \/ SearchHaisouPage(p) \/ HaisouApiError(p) \/ SetCachedHaisouSearch(p)

HaisouSpec == HaisouInit /\ [][HaisouNext]_haisouVars

-----------------------------------------------------------------------------
(* Properties *)

\* However many searches pass the first look at the budget together, and whatever
\* they ask for again, a window never pays for more pages than it allows.
BudgetKept == sent <= MaxPerWindow
=============================================================================
