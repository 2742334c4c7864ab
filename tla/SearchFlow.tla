----------------------------- MODULE SearchFlow -----------------------------
(***************************************************************************)
(* One subscription and the searches for it: a fast Telegram search, a full  *)
(* one, the ed2k files, then the user's own sources until one delivers.      *)
(* Between the steps of a search, which are its awaits, the realtime monitor *)
(* attaches links of its own, old rows are retried, and the                  *)
(* search may be cut off by its time limit.                                  *)
(*                                                                         *)
(* A row is kept per link: (subscription, url) is unique.                    *)
(***************************************************************************)
EXTENDS CandidateRules, SequencesExt, TLC

CONSTANTS Name,            \* links that the sources can return
          LinkOf,          \* [Name -> link]
          Telegram,        \* names that Telegram can return
          Groups,          \* sequence of the sets the user's sources can return, by priority
          Live,            \* names that the realtime monitor can bring
          View,            \* what the library and TMDB can say of the subscription,
          SubOf,           \* [View -> the subscription that this makes]
          MaxTimeouts      \* bound: searches that are cut off

ASSUME SearchFlowAssumption ==
    /\ Telegram \subseteq Name /\ Live \subseteq Name
    /\ Groups \in Seq(SUBSET Name)
    /\ MaxTimeouts \in Nat

VARIABLES active,          \* the status column is "active"
          status,          \* [Name -> status of its row, or "none"]
          pc,              \* where the search is
          view,            \* the subscription as this search enriched it
          created,         \* names whose rows the current stage hands on for delivery
          summary,         \* what the last Telegram stage counted
          sending,         \* names whose delivery is under way
          failures,        \* a delivery of the Telegram rows did not succeed
          groups,          \* matched links of the groups that are left
          tried,           \* names attempted by the fallback
          results,         \* what the last Telegram search returned
          timeouts

vars == <<active, status, pc, view, created, summary, sending, failures, groups, tried, results, timeouts>>

NoSummary == [raw |-> 0, dup |-> 0, failed |-> 0, new |-> 0, index |-> FALSE]

\* "hung" is a pending row older than ten minutes; "failed" stands for the
\* failures that may be retried.
Statuses == {"none", "pending", "hung", "delivered", "failed", "skipped"}

(* The judgements of CandidateRules on the links, for each view of the           *)
(* subscription, tabulated: joined with the empty function, a table is evaluated *)
(* once.                                                                         *)

Table(F(_, _)) == [p \in View \X Name |-> F(p[1], p[2])] @@ <<>>

AsRow(n) == [link |-> LinkOf[n], status |-> "pending"]
Decision == LET D(v, n) == DecideResourceCandidate(SubOf[v], LinkOf[n]) IN Table(D)
SortKey == LET D(v, n) == FallbackCandidateSortKey(SubOf[v], LinkOf[n]) IN Table(D)
Savable == LET D(v, n) == InsertedRows(SubOf[v], LinkOf[n], {}) # {} IN Table(D)
Duplicates ==
    LET D(v, n) == {m \in Name : ResourceAlreadyExists(SubOf[v], LinkOf[n], {AsRow(m)})} IN Table(D)
Blockers ==
    LET D(v, n) == {m \in Name : FallbackBlockedByPrimary(SubOf[v], LinkOf[n], {AsRow(m)})} IN Table(D)
Promised == LET D(v, n) == CoveredEpisodes(SubOf[v], {AsRow(n)}) IN Table(D)

ShouldHide == [v \in View |-> SubscriptionShouldHide(SubOf[v])] @@ <<>>
NeedsResourceSearch == [v \in View |-> SubscriptionNeedsResourceSearch(SubOf[v])] @@ <<>>
MissingEpisodes == [v \in View |-> MissingEpisodeKeys(SubOf[v])] @@ <<>>

EffectiveStatuses == {st \in Statuses \ {"none"} : ResourceStatusIsEffective(st)}

Effective(st) == {n \in Name : st[n] \in EffectiveStatuses}

\* Mutant: rows whose delivery failed count as well.
ExistsInAnyStatus(v, n, st) == {m \in Name : st[m] # "none"} \cap Duplicates[v, n] # {}

Exists(v, n, st) == Effective(st) \cap Duplicates[v, n] # {}
Blocked(v, n, st) == Effective(st) \cap Blockers[v, n] # {}
Inserted(v, n, st) == Savable[v, n] /\ ~Exists(v, n, st) /\ st[n] = "none"

-----------------------------------------------------------------------------
(* Attaching Telegram results, in one transaction *)

\* Files of ed2k are kept for their own pass.
TelegramMatches(v, found) == {n \in found : LinkOf[n].kind # "ed2k" /\ Decision[v, n].accepted}

\* The orders in which the candidates among what was found are tried; titles,
\* messages and urls break the ties, in an order of their own.
CandidateOrders ==
    [p \in View \X SUBSET Telegram |->
        {s \in SetToSeqs(TelegramMatches(p[1], p[2])) :
            \A i, j \in DOMAIN s : i < j => ~KeyBefore(SortKey[p[1], s[j]], SortKey[p[1], s[i]])}] @@ <<>>

Coverage(v, n) == Decision[v, n].coverage

MissingAlreadyCovered(v, n, covered) == Coverage(v, n) # {} /\ Coverage(v, n) \subseteq covered

\* The outcome for one candidate: a link whose episodes earlier ones brought is
\* passed over; after a link without a known episode the rest is.
SaveTelegramResult(v, acc, n) ==
    IF acc.stop \/ (acc.covered # {} /\ MissingAlreadyCovered(v, n, acc.covered)) THEN acc
    ELSE IF Exists(v, n, acc.status) THEN [acc EXCEPT !.dup = @ + 1]
    ELSE IF ~Inserted(v, n, acc.status) THEN [acc EXCEPT !.failed = @ + 1]
    ELSE [acc EXCEPT !.status[n] = "pending", !.new = @ \cup {n}, !.covered = @ \cup Coverage(v, n),
                     !.stop = acc.covered \cup Coverage(v, n) = {}]

Attached(v, order) ==
    FoldLeft(LAMBDA acc, n : SaveTelegramResult(v, acc, n),
             [status |-> status, new |-> {}, dup |-> 0, failed |-> 0, covered |-> {}, stop |-> FALSE], order)

AttachTelegramResults(found) ==
    /\ results' = found
    /\ \E order \in CandidateOrders[view, found] :
        LET out == Attached(view, order)
        IN  /\ status' = [n \in Name |-> IF n \in out.new THEN "pending" ELSE status[n]]
            /\ created' = out.new
            /\ summary' = [raw |-> Cardinality(TelegramMatches(view, found)), dup |-> out.dup, failed |-> out.failed,
                           new |-> Cardinality(out.new), index |-> \E n \in found : LinkOf[n].source = "index"]

-----------------------------------------------------------------------------
(* What the counts of a stage decide *)

HasMissingEpisodes(v) == MissingEpisodes[v] # {}

SkipFullAfterFast(sum, v) ==
    \/ sum.new > 0
    \/ /\ sum.failed = 0
       /\ \/ sum.raw > 0 /\ sum.dup >= sum.raw
          \/ sum.dup > 0 /\ sum.new = 0
       /\ ~(sum.index /\ HasMissingEpisodes(v))

NeedsFullRetry(sum, v) ==
    IF sum.index /\ sum.new = 0 THEN ~SkipFullAfterFast(sum, v) ELSE sum.failed > 0

SkipFallback(sum, v) ==
    /\ sum.new + sum.dup > 0
    /\ \/ sum.new > 0
       \/ sum.failed = 0 /\ ~HasMissingEpisodes(v)

-----------------------------------------------------------------------------
Init ==
    /\ active = TRUE
    /\ status \in [Name -> {"none"}]
    /\ pc = "idle"
    /\ view \in View
    /\ created = {} /\ summary = NoSummary /\ sending = {} /\ failures = FALSE
    /\ groups = <<>> /\ tried = {} /\ results = {} /\ timeouts = 0

\* A search starts for a subscription that is active at this moment; the lock of
\* the subscription admits one at a time.
Begin ==
    /\ pc = "idle" /\ active
    /\ pc' = "enrich"
    /\ UNCHANGED <<active, status, view, created, summary, sending, failures, groups, tried, results, timeouts>>

\* Mutant: rows that hang are left alone.
EnrichedWithoutSweep(incremental) ==
    /\ pc = "enrich"
    /\ view' \in View
    /\ active' = (active /\ ~ShouldHide[view'])
    /\ pc' = IF ShouldHide[view'] \/ ~NeedsResourceSearch[view'] THEN "finish"
             ELSE IF incremental THEN "full" ELSE "fast"
    /\ UNCHANGED <<status, created, summary, sending, failures, groups, tried, results, timeouts>>

\* The library and TMDB have answered. A complete show stops being searched; one
\* that lacks nothing is left; else rows that hang in "pending" are given up.
Enriched(incremental) ==
    /\ pc = "enrich"
    /\ view' \in View
    /\ IF ShouldHide[view']
       THEN active' = FALSE /\ pc' = "finish" /\ UNCHANGED status
       ELSE /\ UNCHANGED active
            /\ IF ~NeedsResourceSearch[view'] THEN pc' = "finish" /\ UNCHANGED status
               ELSE /\ pc' = IF incremental THEN "full" ELSE "fast"
                    /\ status' = [n \in Name |-> IF status[n] = "hung" THEN "failed" ELSE status[n]]
    /\ UNCHANGED <<created, summary, sending, failures, groups, tried, results, timeouts>>

\* What a Telegram search returns; a search that times out or fails returns nothing.
FastStage ==
    /\ pc = "fast"
    /\ \E found \in SUBSET Telegram : AttachTelegramResults(found)
    /\ pc' = IF created' # {} THEN (IF HasMissingEpisodes(view) THEN "full" ELSE "deliver")
             ELSE IF \/ SkipFullAfterFast(summary', view)
                     \/ summary'.raw > 0 /\ ~NeedsFullRetry(summary', view)
                  THEN "deliver" ELSE "full"
    /\ UNCHANGED <<active, view, sending, failures, groups, tried, timeouts>>

\* The full search answers with its own rows: those of the fast one are not
\* handed on.
FullStage ==
    /\ pc = "full"
    /\ \E found \in SUBSET Telegram : AttachTelegramResults(found)
    /\ pc' = "ed2k"
    /\ UNCHANGED <<active, view, sending, failures, groups, tried, timeouts>>

\* The files worth saving beside the rows that count.
Ed2kFiles ==
    [p \in View \X SUBSET Name |->
        {n \in Telegram :
            /\ SubOf[p[1]].type = "tv"
            /\ Ed2kWanted(SubOf[p[1]], LinkOf[n], UNION {Promised[p[1], m] : m \in p[2]})}] @@ <<>>

Ed2kStage ==
    /\ pc = "ed2k"
    /\ \E found \in SUBSET Telegram :
         LET wanted == found \cap Ed2kFiles[view, Effective(status)]
             known == {n \in wanted : \E m \in Effective(status) : LinkOf[m].key = LinkOf[n].key}
             new == {n \in wanted \ known : status[n] = "none"}
         IN  /\ status' = [n \in Name |-> IF n \in new THEN "pending" ELSE status[n]]
             /\ created' = created \cup new
             /\ summary' = IF new = {} THEN summary
                           ELSE [summary EXCEPT !.new = @ + Cardinality(new), !.dup = @ + Cardinality(known),
                                                !.raw = @ + Cardinality(new \cup known)]
    /\ pc' = "deliver"
    /\ results' = {}
    /\ UNCHANGED <<active, view, sending, failures, groups, tried, timeouts>>

\* All rows of the Telegram stages are delivered at once. Without one, known
\* resources alone keep the sources from being searched.
Deliver ==
    /\ pc = "deliver"
    /\ sending' = created
    /\ pc' = IF created # {} THEN "delivering"
             ELSE IF SkipFallback(summary, view) THEN "finish" ELSE "fallback"
    /\ summary' = NoSummary
    /\ UNCHANGED <<active, status, view, created, failures, groups, tried, results, timeouts>>

\* The outcomes of a delivery as the search sees them. A delivery that answers
\* no, or raises, with the row still pending leaves the verdict to the caller.
DeliveryOutcomes == {"delivered", "failed", "skipped", "pending"}

\* Mutant: a row that is still pending is left to the next search.
DeliverCreatedUnmarked(n) ==
    /\ pc = "delivering" /\ n \in sending
    /\ \E outcome \in DeliveryOutcomes :
         /\ status' = [status EXCEPT ![n] = outcome]
         /\ failures' = (failures \/ outcome # "delivered")
    /\ sending' = sending \ {n}
    /\ UNCHANGED <<active, pc, view, created, summary, groups, tried, results, timeouts>>

\* Mutant: a delivery that leaves its row pending is begun again.
DeliverCreatedAgain(n) ==
    /\ pc = "delivering" /\ n \in sending
    /\ \E outcome \in DeliveryOutcomes :
         /\ status' = [status EXCEPT ![n] = IF outcome = "pending" THEN "failed" ELSE outcome]
         /\ failures' = (failures \/ outcome # "delivered")
         /\ sending' = IF outcome = "pending" THEN sending ELSE sending \ {n}
    /\ UNCHANGED <<active, pc, view, created, summary, groups, tried, results, timeouts>>

DeliverCreated(n) ==
    /\ pc = "delivering" /\ n \in sending
    /\ \E outcome \in DeliveryOutcomes :
         /\ status' = [status EXCEPT ![n] = IF outcome = "pending" THEN "failed" ELSE outcome]
         /\ failures' = (failures \/ outcome # "delivered")
    /\ sending' = sending \ {n}
    /\ UNCHANGED <<active, pc, view, created, summary, groups, tried, results, timeouts>>

AllDelivered ==
    /\ pc = "delivering" /\ sending = {}
    /\ pc' = IF failures THEN "fallback" ELSE "finish"
    /\ UNCHANGED <<active, status, view, created, summary, sending, failures, groups, tried, results, timeouts>>

\* The sources answer by priority; a timeout or an error ends the search.
SearchFallback ==
    /\ pc = "fallback"
    /\ \E found \in {<<>>} \cup {[i \in DOMAIN Groups |-> s[i]] : s \in [DOMAIN Groups -> SUBSET UNION Range(Groups)]} :
         /\ \A i \in DOMAIN found : found[i] \subseteq Groups[i]
         /\ groups' = [i \in DOMAIN found |-> {n \in found[i] : Decision[view, n].accepted}]
    /\ pc' = "attach"
    /\ UNCHANGED <<active, status, view, created, summary, sending, failures, tried, results, timeouts>>

\* Candidates of a group that can be attached now.
Attachable(n) ==
    n \notin tried /\ ~Blocked(view, n, status) /\ Inserted(view, n, status)

\* The first candidate of the group is attached and its delivery begins; a
\* group without one is left for the next.
AttachFirstFromGroup ==
    /\ pc = "attach"
    /\ IF groups = <<>> THEN pc' = "finish" /\ UNCHANGED <<status, sending, tried, groups>>
       ELSE LET open == {n \in Head(groups) : Attachable(n)}
            IN  IF open = {} THEN groups' = Tail(groups) /\ UNCHANGED <<status, sending, tried, pc>>
                ELSE /\ \E n \in open :
                          /\ \A m \in open : ~KeyBefore(SortKey[view, m], SortKey[view, n])
                          /\ status' = [status EXCEPT ![n] = "pending"]
                          /\ sending' = {n}
                          /\ tried' = tried \cup {n}
                     /\ pc' = "candidate"
                     /\ UNCHANGED groups
    /\ UNCHANGED <<active, view, created, summary, failures, results, timeouts>>

\* A candidate that is not delivered makes room for the next one.
DeliverCandidate ==
    /\ pc = "candidate"
    /\ \E n \in sending, outcome \in DeliveryOutcomes :
         /\ status' = [status EXCEPT ![n] = IF outcome = "pending" THEN "failed" ELSE outcome]
         /\ pc' = IF outcome = "delivered" THEN "finish" ELSE "attach"
    /\ sending' = {}
    /\ UNCHANGED <<active, view, created, summary, failures, groups, tried, results, timeouts>>

Finish ==
    /\ pc \in {"finish", "cut"}
    /\ pc' = "idle"
    /\ created' = {} /\ summary' = NoSummary /\ failures' = FALSE /\ groups' = <<>> /\ tried' = {} /\ results' = {}
    /\ UNCHANGED <<active, status, view, sending, timeouts>>

\* The time limit of a search cancels it where it waits, its deliveries too.
TimeOut ==
    /\ pc \in {"enrich", "fast", "full", "ed2k", "delivering", "fallback", "candidate"}
    /\ timeouts < MaxTimeouts
    /\ timeouts' = timeouts + 1
    /\ pc' = "cut" /\ sending' = {}
    /\ UNCHANGED <<active, status, view, created, summary, failures, groups, tried, results>>

-----------------------------------------------------------------------------
(* Everyone else *)

OwnSource == [n \in Name |-> ResultIsFallbackSource(LinkOf[n])] @@ <<>>

\* One message: of the links of the user's own sources at most one is taken, and
\* none below the priority of the first that matched.
AttachLiveResult(v, acc, n) ==
    LET link == LinkOf[n]
        own == OwnSource[n]
        taken == ~Blocked(v, n, acc.status) /\ Inserted(v, n, acc.status)
    IN  IF \/ own /\ acc.ownTaken
           \/ own /\ acc.ownSeen /\ link.priority < acc.ownPriority
           \/ ~Decision[v, n].accepted
        THEN acc
        ELSE [acc EXCEPT !.status[n] = IF taken THEN "pending" ELSE @,
                         !.new = IF taken THEN @ \cup {n} ELSE @,
                         !.ownTaken = @ \/ (own /\ taken),
                         !.ownSeen = @ \/ own,
                         !.ownPriority = IF own /\ ~acc.ownSeen THEN link.priority ELSE @]

LiveOrders ==
    [found \in SUBSET Live |->
        {s \in SetToSeqs(found) :
            \A i, j \in DOMAIN s : i < j => LinkOf[s[i]].priority >= LinkOf[s[j]].priority}] @@ <<>>

\* The realtime monitor saves what a message brings, then delivers row by row.
AttachLive ==
    /\ active
    /\ \E found \in SUBSET Live, v \in View, outcome \in DeliveryOutcomes \ {"pending"} :
         \E order \in LiveOrders[found] :
            LET out == FoldLeft(LAMBDA acc, n : AttachLiveResult(v, acc, n),
                                [status |-> status, new |-> {}, ownTaken |-> FALSE, ownSeen |-> FALSE,
                                 ownPriority |-> 0], order)
            IN  /\ ~ShouldHide[v]
                /\ out.new # {}
                /\ status' = [n \in Name |-> IF n \in out.new THEN outcome ELSE status[n]]
    /\ UNCHANGED <<active, pc, view, created, summary, sending, failures, groups, tried, results, timeouts>>

\* Ten minutes pass for a row that nobody is delivering.
GrowOld(n) ==
    /\ status[n] = "pending" /\ n \notin sending
    /\ status' = [status EXCEPT ![n] = "hung"]
    /\ UNCHANGED <<active, pc, view, created, summary, sending, failures, groups, tried, results, timeouts>>

\* A failed row is delivered by the retry of the monitor or of the user.
Retry(n) ==
    /\ status[n] = "failed"
    /\ status' = [status EXCEPT ![n] = "delivered"]
    /\ UNCHANGED <<active, pc, view, created, summary, sending, failures, groups, tried, results, timeouts>>

SearchStep ==
    \/ Begin
    \/ \E incremental \in BOOLEAN : Enriched(incremental)
    \/ FastStage \/ FullStage \/ Ed2kStage \/ Deliver
    \/ \E n \in Name : DeliverCreated(n)
    \/ AllDelivered \/ SearchFallback \/ AttachFirstFromGroup \/ DeliverCandidate \/ Finish

Others ==
    \/ TimeOut
    \/ AttachLive
    \/ \E n \in Name : GrowOld(n) \/ Retry(n)

Next == SearchStep \/ Others

\* The event loop runs a search on whenever what it waits for has answered, and
\* searches are started again and again; nobody owes the other steps.
Fairness == WF_vars(SearchStep) /\ \A n \in Name : WF_vars(GrowOld(n))

Spec == Init /\ [][Next]_vars /\ Fairness

-----------------------------------------------------------------------------
(* Properties *)

Searching == pc # "idle"

\* When the full Telegram stage has saved what it found, each missing episode
\* that an accepted link offered is promised: some row that still counts has it,
\* or the very link was saved before and failed. Sorting, the passing over of
\* covered links and the three kinds of duplicates together lose none.
NoOfferLost ==
    [][pc = "full" /\ pc' = "ed2k" =>
         \A n \in TelegramMatches(view, results') : \A k \in Coverage(view, n) :
            \/ status'[n] # "none"
            \/ \E m \in Effective(status') : k \in Decision[view, m].episodes]_vars

\* A search that ends by itself has settled every row it handed on for delivery,
\* whatever the deliveries answered and whoever touched the rows meanwhile.
HandedOnSettled == pc = "finish" => \A n \in created \cup tried : status[n] \notin {"pending", "hung"}

\* Every search comes to its end, whatever its deliveries answer.
SearchEnds == Searching ~> ~Searching

\* No row hangs in "pending" for good while its subscription is searched: a later
\* search gives it up, and the retries take it from there.
PendingSwept ==
    \A n \in Name : status[n] \in {"pending", "hung"} ~>
        status[n] \notin {"pending", "hung"} \/ ~active \/ ~NeedsResourceSearch[view]
=============================================================================
