--------------------------- MODULE TelegramHistory ---------------------------
(***************************************************************************)
(* The history of one Telegram source, as a search reads it: the local index  *)
(* of messages, the server's search, and the scan of the newest messages, with *)
(* a watermark for the searches that scan all and a cursor for those that read *)
(* only what is new. Beside the search, which holds the source's lock, the      *)
(* prewarm of the index and the realtime listener write to the index.           *)
(*                                                                         *)
(* A message names titles and may carry a link in its text, or behind a button  *)
(* or a page; a link is the id of its message. The queries of a search stand    *)
(* for one title.                                                               *)
(***************************************************************************)
EXTENDS Integers, FiniteSets, Sequences, SequencesExt

CONSTANTS Title,         \* what is searched for
          Wanted,        \* titles of subscriptions that are searched again and again
          Message,       \* sequence of [titles, link]; its place is the id
          Around,        \* messages on each side that are read with one
          ScanLimit,     \* fallback_scan_limit
          QueryLimit,    \* messages that a server's answer brings
          DeepBudget,    \* messages of an answer that are extracted with their surroundings
          MaxScanFaults, \* bound: failed writes of the database, reads of Telegram without an answer
          MaxSearches    \* bound: searches with the cursor

ASSUME HistoryAssumption ==
    /\ Wanted \subseteq Title
    /\ {Around, ScanLimit, QueryLimit, DeepBudget, MaxScanFaults, MaxSearches} \subseteq Nat

VARIABLES posted,        \* number of messages in the source
          index,         \* [id -> titles of its context], or NotIndexed
          watermark,     \* [id, fresh]: top of the last window that was read
          cursor,        \* telegram_scan_cursors
          extract,       \* [id -> links that the last extraction found], or NotExtracted
          answers,       \* [title -> links that the server's search brought], for 3 minutes
          negative,      \* titles that the index is known not to have
          search,        \* the search that holds the source
          scanFaults,
          searches

historyVars == <<posted, index, watermark, cursor, extract, answers, negative, search, scanFaults, searches>>

Id == DOMAIN Message
NotIndexed == {"not indexed"}
NotExtracted == {0}
AnyTitle == "any"
Idle == [at |-> "idle", title |-> "", mode |-> "", seen |-> {}, urls |-> {}, hits |-> {}, found |-> {},
         read |-> <<>>]

Posted == 1 .. posted
Direct(m) == Message[m].link = "direct"
LinkHint(m) == Message[m].link # "none"
Names(m, t) == t \in Message[m].titles

NewestFirst(set) == SetToSortSeq(set, LAMBDA a, b : a > b)
Newest(set, n) == {m \in set : Cardinality({k \in set : k > m}) < n}

-----------------------------------------------------------------------------
(* The index *)

\* A link takes the title of the message before it in the list, unless that has a
\* link too. Lists of Telegram begin with the newest.
MessageContext(list, i) ==
    Message[list[i]].titles
    \cup IF Direct(list[i]) /\ i > 1 /\ ~Direct(list[i - 1]) THEN Message[list[i - 1]].titles ELSE {}

IndexRows(list) ==
    [m \in Id |-> IF m \in Range(list) THEN MessageContext(list, CHOOSE i \in DOMAIN list : list[i] = m)
                  ELSE index[m]]

MaxIndexedMessageId ==
    LET known == {m \in Id : index[m] # NotIndexed}
    IN  IF known = {} THEN 0 ELSE CHOOSE m \in known : \A k \in known : k <= m

\* Writes the rows; a locked database loses them.
IndexTelegramMessages(list) ==
    \/ index' = IndexRows(list) /\ UNCHANGED scanFaults
    \/ /\ list # <<>> /\ scanFaults < MaxScanFaults
       /\ scanFaults' = scanFaults + 1
       /\ UNCHANGED index

SearchTelegramMessageIndex(t) == IF t \in negative THEN {} ELSE {m \in Id : Direct(m) /\ t \in index[m]}

-----------------------------------------------------------------------------
(* The links of a message *)

\* Neighbours whose links belong to the message: shares that match themselves,
\* the link below a title, and a button next to it.
ShouldMergeSibling(m, n, t) ==
    LET apart == IF m > n THEN m - n ELSE n - m
    IN  \/ Direct(n) /\ Names(n, t)
        \/ Names(m, t) /\ apart = 1 /\ Direct(n) /\ Message[n].titles = {}
        \/ Names(m, t) /\ apart <= 2 /\ Message[n].link = "behind" /\ (Message[n].titles = {} \/ Names(n, t))

\* If the neighbours cannot be read, the message is taken alone.
RelatedMessages(m, t) == {{m}, {m} \cup {n \in Posted \ {m} : n - m \in -8 .. 8 /\ ShouldMergeSibling(m, n, t)}}

\* Links in the texts keep pages and buttons from being asked, and these may
\* not answer.
LinkContexts(related) ==
    LET direct == {n \in related : Direct(n)}
    IN  IF direct # {} THEN {direct} ELSE SUBSET {n \in related : LinkHint(n)}

\* A link without a title of its own has those of the messages around it.
FilterByTitle(links, near, t) ==
    {n \in links : t = AnyTitle \/ Names(n, t) \/ (Message[n].titles = {} /\ \E m \in near : Names(m, t))}

\* Of a stored extraction, everything is returned if nothing matches.
FilterCachedResults(links, near, t) ==
    LET kept == FilterByTitle(links, near, t) IN IF kept = {} THEN links ELSE kept

\* The extractions there may be: [links, cache]. The cache is asked by message
\* alone, although the title decides which neighbours were merged.
LinksFromMessage(m, t) ==
    IF extract[m] # NotExtracted
    THEN {[links |-> FilterCachedResults(extract[m], {m}, t), cache |-> extract[m]]}
    ELSE {[links |-> FilterByTitle(all, related, t), cache |-> all] :
             all \in UNION {LinkContexts(r) : r \in RelatedMessages(m, t)}, related \in RelatedMessages(m, t)}

\* Body only: what the text itself holds.
BodyOnlyExtract(m, t) == IF Direct(m) THEN FilterByTitle({m}, {m}, t) ELSE {}

\* A message is skipped once one of its extractions succeeded in this search.
PipelineIsSeen(m, seen) == m \in seen
PipelineMarkSeen(m, links, seen) == IF links = {} THEN seen ELSE seen \cup {m}

-----------------------------------------------------------------------------
(* A search *)

\* A fast search looks at one message after the other: its own link, else those of
\* the messages around it, else its button. A time limit stores nothing.
FastLinksFromMessage(m, t) ==
    LET around == {n \in Posted : n - m \in -3 .. 3 /\ Direct(n)}
        all == IF Direct(m) THEN {{m}}
               ELSE IF around # {} THEN {around, {}} ELSE {{n \in {m} : LinkHint(n)}, {}}
    IN  IF extract[m] # NotExtracted
        THEN {[links |-> FilterCachedResults(extract[m], {m}, t), cache |-> extract[m]]}
        ELSE {[links |-> FilterCachedResults(a, {m}, t), cache |-> a] : a \in all}
             \cup {[links |-> {}, cache |-> NotExtracted]}

\* Of an answer of the server, the messages beyond the budget are only read.
AnswerLinks(list, i, t) ==
    LET m == list[i]
    IN  IF search.mode = "fast" THEN FastLinksFromMessage(m, t)
        ELSE IF LinkHint(m) /\ (i <= DeepBudget \/ ~Direct(m)) THEN LinksFromMessage(m, t)
        ELSE {[links |-> BodyOnlyExtract(m, t), cache |-> extract[m]]}

\* The outcomes for an answer, message by message: [seen, cache, found]. A fast
\* search stops at the first message that brings links, any search at its time limit.
Extracted(list, t) ==
    LET Step(outs, i) ==
          UNION {IF PipelineIsSeen(list[i], o.seen) \/ (search.mode = "fast" /\ o.found # {}) THEN {o}
                 ELSE {[seen |-> PipelineMarkSeen(list[i], e.links, o.seen),
                        cache |-> [o.cache EXCEPT ![list[i]] = e.cache],
                        found |-> o.found \cup e.links] : e \in AnswerLinks(list, i, t)} : o \in outs}
    IN  UNION {FoldLeft(Step, {[seen |-> search.seen, cache |-> extract, found |-> {}]}, [i \in 1 .. n |-> i]) :
                 n \in 0 .. Len(list)}

-----------------------------------------------------------------------------
(* A search *)

\* What the flow has returned before is left out.
RememberResults(found) == found \ search.urls

StartSearch(t, mode) ==
    /\ search.at = "idle"
    /\ mode = "incremental" => searches < MaxSearches
    /\ searches' = IF mode = "incremental" THEN searches + 1 ELSE searches
    /\ search' = [Idle EXCEPT !.at = "index", !.title = t, !.mode = mode]
    /\ UNCHANGED <<posted, index, watermark, cursor, extract, answers, negative, scanFaults>>

\* One hit ends a fast search; the full one goes on to the server, and the
\* incremental one to the newest messages.
SearchIndexedTelegramMessages ==
    /\ search.at = "index"
    /\ LET hits == SearchTelegramMessageIndex(search.title)
       IN  /\ negative' = IF hits = {} THEN negative \cup {search.title} ELSE negative
           /\ IF search.mode = "fast" /\ hits # {}
              THEN \E hit \in hits : search' = [search EXCEPT !.at = "done", !.hits = {hit}]
              ELSE search' = [search EXCEPT !.at = IF search.mode = "incremental" THEN "recent" ELSE "server",
                                            !.hits = hits]
    /\ UNCHANGED <<posted, index, watermark, cursor, extract, answers, scanFaults, searches>>

AfterServer(found) == IF found # {} \/ search.mode = "fast" THEN "done" ELSE "recent"

\* A full search takes what the same query has brought lately.
CachedAnswer ==
    /\ search.at = "server" /\ search.mode = "full" /\ answers[search.title] # {}
    /\ search' = [search EXCEPT !.at = "done", !.found = answers[search.title]]
    /\ UNCHANGED <<posted, index, watermark, cursor, extract, answers, negative, scanFaults, searches>>

\* The server finds the newest messages that name the title, or does not answer.
SearchMessages(t) == {<<>>, NewestFirst(Newest({m \in Posted : Names(m, t)}, QueryLimit))}

SearchDialogQuery ==
    /\ search.at = "server"
    /\ search.mode = "full" => answers[search.title] = {}
    /\ \E list \in SearchMessages(search.title) :
         /\ IndexTelegramMessages(list)
         /\ \E out \in Extracted(list, search.title) :
              /\ extract' = out.cache
              /\ answers' = IF search.mode = "full" THEN [answers EXCEPT ![search.title] = out.found] ELSE answers
              /\ search' = [search EXCEPT !.seen = out.seen, !.found = out.found, !.at = AfterServer(out.found)]
    /\ UNCHANGED <<posted, watermark, cursor, negative, searches>>

\* Mutant: the watermark does not expire.
RecentWatermarkForever == watermark.id

RecentWatermark == IF watermark.fresh THEN watermark.id ELSE 0

\* The newest messages, down to the watermark or the cursor; the watermark rises
\* before the index is written.
ReadRecentMessages ==
    /\ search.at = "recent"
    /\ LET floor == IF search.mode = "incremental" THEN cursor ELSE RecentWatermark
           list == NewestFirst({m \in Newest(Posted, ScanLimit) : m > floor})
       IN  \/ /\ IndexTelegramMessages(list)
              /\ watermark' = IF search.mode # "incremental" /\ list # <<>>
                              THEN [id |-> Head(list), fresh |-> TRUE] ELSE watermark
              /\ search' = [search EXCEPT !.at = "extract", !.read = list]
           \/ /\ scanFaults < MaxScanFaults /\ scanFaults' = scanFaults + 1
              /\ search' = [search EXCEPT !.at = "done"]
              /\ UNCHANGED <<index, watermark>>
    /\ UNCHANGED <<posted, cursor, extract, answers, negative, searches>>

RecentWindow(list, i) == {list[j] : j \in {k \in DOMAIN list : k # i /\ k >= i - Around /\ k <= i + Around}}

\* The message itself, or the first one around it that shows a link; 0: none.
RecentLinkAnchor(list, i) ==
    LET shown == {j \in DOMAIN list : j >= i - Around /\ j <= i + Around /\ LinkHint(list[j])}
    IN  IF LinkHint(list[i]) THEN list[i]
        ELSE IF shown = {} THEN 0 ELSE list[CHOOSE j \in shown : \A k \in shown : j <= k]

\* A window is extracted with its texts, which are not stored. With a link among
\* them the neighbours are not read again.
WindowLinks(list, i, anchor, t) ==
    LET near   == {list[i], anchor} \cup RecentWindow(list, i)
        direct == {n \in near : Direct(n)}
    IN  {FilterByTitle(all, near, t) :
           all \in IF direct # {} THEN {direct} ELSE UNION {LinkContexts(r) : r \in RelatedMessages(anchor, t)}}

\* The outcomes of one window: [safe, seen, found]. Without a link to look for the
\* message is safe; else once its window brought some.
Window(list, i, wanted, t, acc) ==
    LET anchor == RecentLinkAnchor(list, i)
    IN  IF ~wanted \/ anchor = 0 THEN {[acc EXCEPT !.safe = @ \cup {list[i]}]}
        ELSE IF PipelineIsSeen(anchor, acc.seen) THEN {acc}
        ELSE {[safe  |-> IF links = {} THEN acc.safe ELSE acc.safe \cup {list[i]},
               seen  |-> PipelineMarkSeen(anchor, links, acc.seen),
               found |-> acc.found \cup links] : links \in WindowLinks(list, i, anchor, t)}

\* The windows of the first n messages. First those that name the title; without
\* a hit and with time left, all windows, whatever they name, up to a limit.
TitleWindows(list, t, n) ==
    LET Matched(i) == \E m \in {list[i]} \cup RecentWindow(list, i) : Names(m, t)
        Step(outs, i) == UNION {Window(list, i, Matched(i), t, o) : o \in outs}
    IN  FoldLeft(Step, {[safe |-> {}, seen |-> search.seen, found |-> {}]}, [i \in 1 .. n |-> i])

LinkWindows(list, start, n) ==
    LET Step(outs, i) == UNION {Window(list, i, TRUE, AnyTitle, o) : o \in outs}
    IN  FoldLeft(Step, {start}, [i \in 1 .. n |-> i])

\* From the newest message on, the cursor is set to each that is safe, until one
\* is not.
SafeMaxMessageId(list, safe) ==
    LET run == {i \in DOMAIN list : list[i] > cursor /\ \A j \in 1 .. i : list[j] \in safe}
    IN  IF run = {} THEN cursor ELSE list[CHOOSE i \in run : \A j \in run : j <= i]

ExtractRecentMessageLinks ==
    /\ search.at = "extract"
    /\ \E n \in 0 .. Len(search.read), k \in 0 .. Len(search.read) :
       \E first \in TitleWindows(search.read, search.title, n) :
       \E out \in IF first.found = {} /\ n = Len(search.read) THEN LinkWindows(search.read, first, k) ELSE {first} :
         /\ search' = [search EXCEPT !.at = "done", !.seen = out.seen, !.found = out.found, !.read = <<>>]
         /\ cursor' = IF search.mode = "incremental" THEN SafeMaxMessageId(search.read, out.safe) ELSE cursor
    /\ UNCHANGED <<posted, index, watermark, extract, answers, negative, scanFaults, searches>>

\* The answer to a read comes too late: for the stage, which ends with nothing after
\* its budget or time limit (6 s if it is the fast one, else 75), or for the 120 s
\* around the flow, which is given up.
SearchIsCut ==
    /\ search.at \in {"server", "recent", "extract"}
    /\ search' \in {Idle, [search EXCEPT !.at = "done", !.read = <<>>]}
    /\ UNCHANGED <<posted, index, watermark, cursor, extract, answers, negative, scanFaults, searches>>

\* A fast search that has found nothing is followed by the full one of the same
\* flow. Of one that has found something the rows decide, which are not here: the
\* flow ends, or the full search begins anew (a row was made and episodes are
\* still missing), or it leaves out what is known and, after a hit of the index,
\* goes to the server at once.
SearchHistoryEnds ==
    /\ search.at = "done"
    /\ LET returned == RememberResults(search.hits \cup search.found)
           full == [Idle EXCEPT !.at = "index", !.title = search.title, !.mode = "full"]
           rest == [full EXCEPT !.at = IF search.hits = {} THEN "index" ELSE "server",
                                !.seen = search.seen \cup returned, !.urls = returned]
       IN  search' \in IF search.mode # "fast" THEN {Idle}
                       ELSE IF returned = {} THEN {rest} ELSE {Idle, full, rest}
    /\ UNCHANGED <<posted, index, watermark, cursor, extract, answers, negative, scanFaults, searches>>

-----------------------------------------------------------------------------
(* Others *)

\* A source that has rows is asked for less, and only what is above its highest
\* row is written.
PrewarmDialogIndex ==
    /\ LET known == MaxIndexedMessageId
           list  == NewestFirst({m \in Newest(Posted, ScanLimit) : m > known})
       IN  list # <<>> /\ IndexTelegramMessages(list)
    /\ UNCHANGED <<posted, watermark, cursor, extract, answers, negative, search, searches>>

\* A message appears; the realtime listener writes it if it is on.
MessagePosted ==
    /\ posted < Len(Message)
    /\ posted' = posted + 1
    /\ index' \in {index, [index EXCEPT ![posted + 1] = MessageContext(<<posted + 1>>, 1)]}
    /\ UNCHANGED <<watermark, cursor, extract, answers, negative, search, scanFaults, searches>>

\* The watermark lasts 10 minutes, the negative answer 2, an extraction 15.
WatermarkExpires ==
    /\ watermark.fresh
    /\ watermark' = [watermark EXCEPT !.fresh = FALSE]
    /\ UNCHANGED <<posted, index, cursor, extract, answers, negative, search, scanFaults, searches>>

CachesExpire ==
    /\ negative' = {}
    /\ extract' = [m \in Id |-> NotExtracted]
    /\ answers' = [t \in Title |-> {}]
    /\ UNCHANGED <<posted, index, watermark, cursor, search, scanFaults, searches>>

-----------------------------------------------------------------------------
HistoryInit ==
    /\ posted = 0
    /\ index = [m \in Id |-> NotIndexed]
    /\ watermark = [id |-> 0, fresh |-> FALSE]
    /\ cursor = 0
    /\ extract = [m \in Id |-> NotExtracted]
    /\ answers = [t \in Title |-> {}]
    /\ negative = {}
    /\ search = Idle
    /\ scanFaults = 0 /\ searches = 0

HistorySearchStep ==
    \/ SearchIndexedTelegramMessages \/ CachedAnswer \/ SearchDialogQuery
    \/ ReadRecentMessages \/ ExtractRecentMessageLinks \/ SearchHistoryEnds \/ SearchIsCut

HistoryNext ==
    \/ \E t \in Title, mode \in {"fast", "full", "incremental"} : StartSearch(t, mode)
    \/ HistorySearchStep
    \/ PrewarmDialogIndex \/ MessagePosted \/ WatermarkExpires \/ CachesExpire

\* A stage of a flow for the title takes the step.
StageStep(t, mode, step) == search.title = t /\ search.mode = mode /\ step

\* A wanted title is searched again and again, each time from the fast stage on; a
\* search goes on or is cut; marks and caches grow old. A search of the title is
\* not cut at the same await for ever. Nobody owes the rest: searches by hand or
\* with the cursor, the prewarm, the listener, an answer of the server.
HistoryFairness ==
    /\ \A t \in Wanted :
         /\ SF_historyVars(StartSearch(t, "fast"))
         /\ SF_historyVars(StageStep(t, "fast", SearchDialogQuery))
         /\ SF_historyVars(StageStep(t, "full", SearchDialogQuery))
         /\ SF_historyVars(StageStep(t, "full", ReadRecentMessages))
    /\ WF_historyVars(HistorySearchStep)
    /\ WF_historyVars(WatermarkExpires)
    /\ WF_historyVars(CachesExpire)

HistorySpec == HistoryInit /\ [][HistoryNext]_historyVars /\ HistoryFairness

-----------------------------------------------------------------------------
(* Properties *)

\* A message that a search of the title can reach: its link stands in its text, and
\* it is in the window of the recent scan and among those that the server answers
\* with.
InReach(m, t) ==
    /\ m \in Newest(Id, ScanLimit) \cap Newest({k \in Id : Names(k, t)}, QueryLimit)
    /\ Direct(m) /\ Names(m, t)

\* Whatever write to the index fails, also after the watermark was raised above what
\* is lost, and whatever the server, the stored answers and the remembered misses
\* hide: once the source is quiet, a wanted title with a link in reach is in the
\* end always found in the index, where fast searches look first.
WantedGetsIndexed ==
    <>[](posted = Len(Message)) =>
        \A t \in Wanted :
            (\E m \in Id : InReach(m, t)) => <>[](SearchTelegramMessageIndex(t) # {})
=============================================================================
