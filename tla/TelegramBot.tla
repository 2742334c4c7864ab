---------------------------- MODULE TelegramBot ----------------------------
(***************************************************************************)
(* The bot's polling task. Updates are fetched from an offset, the offset is    *)
(* stored before each update is handled, and an exception ends the round with   *)
(* the old offset, so that the batch is fetched again. A button of a magnet     *)
(* search names a stored list of candidates; picking one delivers it, or the    *)
(* next that can be delivered.                                                  *)
(***************************************************************************)
EXTENDS Integers, FiniteSets

CONSTANTS MaxUpdates,      \* bound: updates users send
          UpdateKind,      \* [id -> what the update may ask for]
          Candidates,      \* results of a search
          MaxPicks,        \* TG_BOT_MAGNET_PICK_MAX_ITEMS
          MaxBotFaults,    \* bound: exceptions out of a handler or of the store
          MaxBotStops      \* bound: restarts and changes of the token

VARIABLES update,      \* [id -> [kind, of, fate]]: the updates sent so far
          confirmed,   \* the server has forgotten the updates before this one
          flowOffset,  \* the stored offset
          poll,        \* the polling task: where it is, its offset, its batch
          botToken,    \* the configured token
          picks,       \* _pending_magnet_picks: tokens, a search's update id each
          flowPicks,   \* the stored copy
          oldPicks,    \* tokens past their time
          magnetCache, \* _magnet_search_cache, of one title
          magnetFlow,  \* its stored copy
          followed,    \* the title has an active subscription
          pickRows,    \* candidates saved as resources of it
          botFaults, botStops

mailVars == <<update, confirmed, flowOffset>>
pickVars == <<picks, flowPicks, oldPicks, magnetCache, magnetFlow, followed, pickRows>>
botVars == <<mailVars, poll, botToken, pickVars, botFaults, botStops>>

NoPoll == [at |-> "none", token |-> "", offset |-> 0, next |-> 0, last |-> 0, cand |-> 0]
Sent == DOMAIN update
Current == update[poll.next - 1]
PollingOn == poll.at \notin {"none", "died"}

\* A stored copy follows the memory, unless the write fails.
Stored(memory, copy) == {memory, copy}

\* What an empty memory is filled with.
LoadPendingMagnetResults == IF picks = {} THEN flowPicks ELSE picks

\* Old tokens go, and the oldest beyond the limit.
PrunePendingMagnetResults(held) ==
    LET fresh == held \ oldPicks
    IN  {t \in fresh : Cardinality({o \in fresh : o > t}) < MaxPicks}

\* Every look at the picks loads and prunes them, and stores them if any went.
LookAtPicks ==
    LET held == LoadPendingMagnetResults IN
    /\ picks' = PrunePendingMagnetResults(held)
    /\ flowPicks' \in (IF picks' # held THEN Stored(picks', flowPicks) ELSE {flowPicks})

\* The handler returns: the next update of the batch, or the next round.
HandlerReturns ==
    /\ update' = [update EXCEPT ![poll.next - 1].fate = "handled"]
    /\ poll' = IF poll.next > poll.last
               THEN [poll EXCEPT !.at = "fetch", !.offset = poll.next]
               ELSE [poll EXCEPT !.at = "save"]

\* What the stored offset has passed is not fetched by the task that follows.
Abandon == [u \in Sent |-> IF u < flowOffset /\ update[u].fate = "new"
                           THEN [update[u] EXCEPT !.fate = "dropped"] ELSE update[u]]
-----------------------------------------------------------------------------
\* A user writes, or presses a button that an earlier search left.
UserSends(kind, of) ==
    /\ Cardinality(Sent) < MaxUpdates /\ kind \in UpdateKind[Cardinality(Sent) + 1]
    /\ kind = "pick" => of \in Sent /\ update[of].kind = "search" /\ update[of].fate = "handled"
    /\ kind # "pick" => of = 0
    /\ update' = [u \in 1..(Cardinality(Sent) + 1) |->
                    IF u \in Sent THEN update[u] ELSE [kind |-> kind, of |-> of, fate |-> "new"]]
    /\ UNCHANGED <<confirmed, flowOffset, poll, botToken, pickVars, botFaults, botStops>>

UserSetsToken(token) ==
    /\ botStops < MaxBotStops /\ token # botToken
    /\ botToken' = token /\ botStops' = botStops + 1
    /\ UNCHANGED <<mailVars, poll, pickVars, botFaults>>

\* Mutant: a task that has ended by an exception is taken for a running one.
EnsureFirstPolling ==
    /\ botToken # "none"
    /\ poll.at = "none" \/ poll.token # botToken
    /\ update' = IF PollingOn THEN Abandon ELSE update
    /\ poll' = [NoPoll EXCEPT !.at = "begin", !.token = botToken]
    /\ UNCHANGED <<confirmed, flowOffset, botToken, pickVars, botFaults, botStops>>

\* A pass of the monitor: a task with another token is cancelled wherever it is, one
\* that has ended is replaced. Without a token a running task goes on.
EnsurePolling ==
    /\ botToken # "none"
    /\ ~PollingOn \/ poll.token # botToken
    /\ update' = IF PollingOn THEN Abandon ELSE update
    /\ poll' = [NoPoll EXCEPT !.at = "begin", !.token = botToken]
    /\ UNCHANGED <<confirmed, flowOffset, botToken, pickVars, botFaults, botStops>>

\* The stored offset is read once, outside of the try.
PollUpdates ==
    /\ poll.at = "begin"
    /\ \/ /\ poll' = [poll EXCEPT !.at = "fetch", !.offset = flowOffset]
          /\ UNCHANGED botFaults
       \/ /\ botFaults < MaxBotFaults /\ botFaults' = botFaults + 1
          /\ poll' = [poll EXCEPT !.at = "died"]
    /\ UNCHANGED <<mailVars, botToken, pickVars, botStops>>

\* The server forgets what is before the offset it is asked from.
PollOnce ==
    LET later == {u \in Sent : u >= poll.offset /\ u >= confirmed} IN
    /\ poll.at = "fetch" /\ later # {}
    /\ confirmed' = IF poll.offset > confirmed THEN poll.offset ELSE confirmed
    /\ poll' = [poll EXCEPT !.at = "save", !.last = Cardinality(Sent),
                            !.next = CHOOSE u \in later : \A o \in later : u <= o]
    /\ UNCHANGED <<update, flowOffset, botToken, pickVars, botFaults, botStops>>

SaveOffset ==
    /\ poll.at = "save"
    /\ flowOffset' = poll.next + 1
    /\ poll' = [poll EXCEPT !.at = "handle", !.next = @ + 1]
    /\ UNCHANGED <<update, confirmed, botToken, pickVars, botFaults, botStops>>

\* An exception, of the store or of a handler (one of its own excepts sends a
\* message that fails too): the round is begun again with the offset it had.
RetryPoll ==
    /\ poll.at \in {"save", "handle", "reply", "choose", "deliver"}
    /\ botFaults < MaxBotFaults /\ botFaults' = botFaults + 1
    /\ poll' = [poll EXCEPT !.at = "fetch"]
    /\ UNCHANGED <<mailVars, botToken, pickVars, botStops>>

\* Commands, and buttons that need no search: the subscription is made, or deleted
\* with its resources.
HandleUpdate ==
    /\ poll.at = "handle" /\ Current.kind \in {"subscribe", "cancel"}
    /\ followed' = (Current.kind = "subscribe")
    /\ pickRows' = IF followed' THEN pickRows ELSE {}
    /\ HandlerReturns
    /\ UNCHANGED <<confirmed, flowOffset, botToken, picks, flowPicks, oldPicks,
                   magnetCache, magnetFlow, botFaults, botStops>>

\* A stored answer, an empty one too, is served; else the sources are asked, and what
\* they gave before the time was up is stored. A failed search stores nothing.
SearchMagnetsForTmdb ==
    LET known == IF magnetCache = "none" THEN magnetFlow ELSE magnetCache IN
    /\ poll.at = "handle" /\ Current.kind = "search"
    /\ \/ /\ known = "none"
          /\ \E answer \in {"found", "empty"} :
               /\ magnetCache' = answer
               /\ magnetFlow' \in Stored(answer, magnetFlow)
               /\ poll' = [poll EXCEPT !.at = "reply"]
          /\ UNCHANGED update
       \/ /\ known # "none" /\ magnetCache' = known
          /\ poll' = [poll EXCEPT !.at = "reply"]
          /\ UNCHANGED <<update, magnetFlow>>
       \/ /\ known = "none" /\ HandlerReturns
          /\ UNCHANGED <<magnetCache, magnetFlow>>
    /\ UNCHANGED <<confirmed, flowOffset, botToken, picks, flowPicks, oldPicks, followed,
                   pickRows, botFaults, botStops>>

\* Results are kept under a new token before the message with the buttons is sent.
StorePendingMagnetResults ==
    /\ poll.at = "reply"
    /\ IF magnetCache = "found"
       THEN LET t == poll.next - 1 IN
            /\ picks' = PrunePendingMagnetResults(LoadPendingMagnetResults) \cup {t}
            /\ flowPicks' \in Stored(picks', flowPicks)
            /\ oldPicks' = oldPicks \ {t}
       ELSE UNCHANGED <<picks, flowPicks, oldPicks>>
    /\ HandlerReturns
    /\ UNCHANGED <<confirmed, flowOffset, botToken, magnetCache, magnetFlow, followed,
                   pickRows, botFaults, botStops>>

\* A button whose candidates are gone is answered; else they are tried from the one
\* that was pressed.
HandleMagnetPick ==
    /\ poll.at = "handle" /\ Current.kind = "pick"
    /\ LookAtPicks
    /\ \E index \in 1..Candidates :
         IF Current.of \in picks'
         THEN /\ poll' = [poll EXCEPT !.at = "choose", !.cand = index]
              /\ UNCHANGED update
         ELSE HandlerReturns
    /\ UNCHANGED <<confirmed, flowOffset, botToken, oldPicks, magnetCache, magnetFlow,
                   followed, pickRows, botFaults, botStops>>

\* The candidate becomes a resource of the title's subscription; a row that is there
\* already ends the handler. Without a subscription, or once the token is gone, it is
\* delivered by its url.
SaveMagnetPickAsResource ==
    LET row == <<Current.of, poll.cand>> IN
    /\ poll.at = "choose"
    /\ LookAtPicks
    /\ IF followed /\ Current.of \in picks' /\ row \in pickRows
       THEN HandlerReturns /\ UNCHANGED pickRows
       ELSE /\ pickRows' = IF followed /\ Current.of \in picks' THEN pickRows \cup {row} ELSE pickRows
            /\ poll' = [poll EXCEPT !.at = "deliver"]
            /\ UNCHANGED update
    /\ UNCHANGED <<confirmed, flowOffset, botToken, oldPicks, magnetCache, magnetFlow,
                   followed, botFaults, botStops>>

\* A delivery that fails passes to the next candidate.
DeliverMagnetChoices ==
    /\ poll.at = "deliver"
    /\ \E ok \in BOOLEAN :
         IF ok \/ poll.cand = Candidates
         THEN HandlerReturns
         ELSE /\ poll' = [poll EXCEPT !.at = "choose", !.cand = @ + 1]
              /\ UNCHANGED update
    /\ UNCHANGED <<confirmed, flowOffset, botToken, pickVars, botFaults, botStops>>

\* Thirty minutes after its search a token is old; the cached answer lives forty.
PickGrowsOld(t) ==
    /\ t \in (picks \cup flowPicks) \ oldPicks
    /\ oldPicks' = oldPicks \cup {t}
    /\ UNCHANGED <<mailVars, poll, botToken, picks, flowPicks, magnetCache, magnetFlow,
                   followed, pickRows, botFaults, botStops>>

MagnetCacheExpires ==
    /\ <<magnetCache, magnetFlow>> # <<"none", "none">>
    /\ magnetCache' = "none" /\ magnetFlow' = "none"
    /\ UNCHANGED <<mailVars, poll, botToken, picks, flowPicks, oldPicks, followed,
                   pickRows, botFaults, botStops>>

\* The process stops, or is killed, and starts: the memory is gone.
BotRestarts ==
    /\ botStops < MaxBotStops /\ botStops' = botStops + 1
    /\ poll' = NoPoll /\ update' = Abandon
    /\ picks' = {} /\ magnetCache' = "none"
    /\ UNCHANGED <<confirmed, flowOffset, botToken, flowPicks, oldPicks, magnetFlow,
                   followed, pickRows, botFaults>>
-----------------------------------------------------------------------------
BotInit ==
    /\ update = <<>> /\ confirmed = 0 /\ flowOffset = 0
    /\ poll = NoPoll /\ botToken = "t1"
    /\ picks = {} /\ flowPicks = {} /\ oldPicks = {}
    /\ magnetCache = "none" /\ magnetFlow = "none"
    /\ followed = FALSE /\ pickRows = {}
    /\ botFaults = 0 /\ botStops = 0

PollStep ==
    \/ PollUpdates \/ PollOnce \/ SaveOffset \/ RetryPoll
    \/ HandleUpdate \/ SearchMagnetsForTmdb \/ StorePendingMagnetResults
    \/ HandleMagnetPick \/ SaveMagnetPickAsResource \/ DeliverMagnetChoices

BotNext ==
    \/ \E kind \in UNION {UpdateKind[u] : u \in 1..MaxUpdates}, of \in 0..MaxUpdates : UserSends(kind, of)
    \/ \E token \in {"none", "t1", "t2"} : UserSetsToken(token)
    \/ EnsurePolling \/ PollStep
    \/ \E t \in 1..MaxUpdates : PickGrowsOld(t)
    \/ MagnetCacheExpires \/ BotRestarts

\* The monitor passes again and again, and the event loop runs the task.
BotFairness == WF_botVars(EnsurePolling) /\ WF_botVars(PollStep)

BotSpec == BotInit /\ [][BotNext]_botVars /\ BotFairness
-----------------------------------------------------------------------------
(* Properties *)

\* While a token is set, every update that was sent is handled at last, or was given
\* up by a stop after its offset was stored: an exception, or the end of the task,
\* loses none.
EveryUpdateSettled == []<>(botToken = "none" \/ \A u \in Sent : update[u].fate # "new")
=============================================================================
