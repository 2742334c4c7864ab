------------------------------ MODULE Delivery ------------------------------
(***************************************************************************)
(* The delivery of resources (services/subscription/delivery and the code  *)
(* that calls it): rows of the table resources are sent to the 115 drive   *)
(* or to a Telegram bot, failures are classified and retried.              *)
(*                                                                         *)
(* Callers run in event loops of different threads: the main loop serves   *)
(* the routes, the bot and the realtime monitor, and every background job  *)
(* has a loop of its own.  Code between two awaits is atomic for callers   *)
(* of the same loop only, so every database transaction is an action.      *)
(*                                                                         *)
(* A row keeps its status, its retry_count up to the last backoff window,  *)
(* and `age', the time since updated_at (since created_at while it is      *)
(* pending: every statement that touches it changes the status).  The kind *)
(* of the error in last_error follows from the status.                     *)
(***************************************************************************)
EXTENDS Naturals

CONSTANTS
    Resource,       \* rows of the table resources
    NoResource,
    Link,           \* dedupe keys (resource_dedupe_key of a row's url)
    LinkOf,         \* the link of a row
    Subscription,
    SubOf,          \* the subscription of a row
    Searched,       \* subscriptions that stay active and go on to lack something
    Caller,         \* coroutines that call deliver_resource
    LoopOf,         \* the event loop of a caller
    Role,           \* who the caller is
    Target,         \* the rows a caller may be asked to deliver
    Verdicts,       \* how a transfer may end
    Backoff,        \* retry_count |-> ticks until the row is due again
    RetryCap,       \* the last index of Backoff
    PendingAge,     \* 10 minutes in ticks
    MaxAge,         \* bound on ages; no threshold is greater
    MaxCrashes,     \* bound on the times the process ends
    MaxFaults       \* bound on the transactions that raise

\* A transfer returns True or raises an error of one of three kinds.  False
\* and a timeout after 300 s count as temporary; a timeout may come when the
\* remote has accepted already.
Verdict == {"accepted", "temporary", "invalid", "final", "late_accepted"}

\* "search": one coroutine per row created, in gather; "attach": the rows
\* found in one message, one after the other; "direct": a route or the bot;
\* "retry": retry_failed_resources.
Roles == {"search", "attach", "direct", "retry"}

ASSUME DeliveryAssumption ==
    /\ NoResource \notin Resource
    /\ LinkOf \in [Resource -> Link]
    /\ SubOf \in [Resource -> Subscription]
    /\ Searched \subseteq Subscription
    /\ Role \in [Caller -> Roles]
    /\ Target \in [Caller -> SUBSET Resource]
    /\ Verdicts \subseteq Verdict
    /\ RetryCap \in Nat /\ MaxAge \in Nat /\ PendingAge \in 1..MaxAge
    /\ Backoff \in [0..RetryCap -> 1..MaxAge]
    /\ MaxCrashes \in Nat /\ MaxFaults \in Nat

VARIABLES
    rows,       \* the table resources
    call,       \* what each caller does in deliver_resource
    todo,       \* the ids it still has to deliver
    stuck,      \* ids that searches have listed as stuck in pending
    forwarded,  \* how often the remote has accepted each link, at most 2
    contended,  \* history: rows that two calls have held at once
    unsure,     \* history: links whose table row may not tell what was sent
    crashes,    \* how often the process has ended
    faults      \* how many transactions have raised

deliveryVars == <<rows, call, todo, stuck, forwarded, contended, unsure, crashes, faults>>

Status == {"absent", "pending", "skipped", "delivered", "failed",
           "link_invalid", "delivery_failed_retryable", "delivery_failed_final"}
Row == [status : Status, retries : 0..RetryCap, age : 0..MaxAge]

\* "waiting" for the delivery lock; every stage after it holds the lock.
DeliveryStage == {"idle", "waiting", "checking", "marking", "sending", "recording"}
Call == [stage : DeliveryStage, res : Resource \cup {NoResource}, seen : Status,
         verdict : Verdict \cup {"none"}]

NoRow == [status |-> "absent", retries |-> 0, age |-> 0]
NoCall == [stage |-> "idle", res |-> NoResource, seen |-> "absent",
           verdict |-> "none"]

DeliveryInit ==
    /\ rows = [r \in Resource |-> NoRow]
    /\ call = [c \in Caller |-> NoCall]
    /\ todo = [c \in Caller |-> {}]
    /\ stuck = {}
    /\ forwarded = [l \in Link |-> 0]
    /\ contended = {}
    /\ unsure = {}
    /\ crashes = 0
    /\ faults = 0

Busy(c) == call[c].stage # "idle"
HoldsLock(c) == call[c].stage \notin {"idle", "waiting"}
LinkHeld(c) == LinkOf[call[c].res]

At(c, stage) == call' = [call EXCEPT ![c].stage = stage]
CallReturns(c) == call' = [call EXCEPT ![c] = NoCall]

----------------------------------------------------------------------------
(* Statements on the table *)

Written(r, status) ==
    [rows EXCEPT ![r] = [status |-> status, retries |-> @.retries, age |-> 0]]

\* The statement has no guard but the id.
MarkResourceDuplicateDelivered(r) == Written(r, "delivered")

\* Mutant: the statement has no guard on the status.
SkipsWhateverItIs(r) == Written(r, "skipped")

\* UPDATE ... SET status = 'skipped' WHERE id = ? AND status != 'delivered'
MarkUnneededResourceSkipped(r) ==
    IF rows[r].status = "delivered" THEN rows ELSE Written(r, "skipped")

\* Mutant: a passing error is stored by its kind.
FailedAsItsKind(verdict) ==
    CASE verdict = "invalid" -> "link_invalid"
      [] verdict = "final" -> "delivery_failed_final"
      [] OTHER -> "temporary"

\* delivery_failed_status: an empty message counts as temporary.
FailedStatus(verdict) ==
    CASE verdict = "invalid" -> "link_invalid"
      [] verdict = "final" -> "delivery_failed_final"
      [] OTHER -> "delivery_failed_retryable"

\* The statement has no guard but the id.
UpdateResourceDeliveryStatus(r, verdict) ==
    [rows EXCEPT ![r] =
        IF verdict = "accepted"
        THEN [status |-> "delivered", retries |-> 0, age |-> 0]
        ELSE [status |-> FailedStatus(verdict), age |-> 0,
              retries |-> IF @.retries < RetryCap THEN @.retries + 1 ELSE RetryCap]]

MarkResourceFailedIfPending(r) ==
    IF rows[r].status = "pending" THEN Written(r, "failed") ELSE rows

\* Mutant: the rows found stuck are failed whatever they have become.
FailListed(ids) ==
    [r \in Resource |->
        IF r \in ids
        THEN [status |-> "failed", retries |-> rows[r].retries, age |-> 0]
        ELSE rows[r]]

\* The second half of _retry_stuck_pending_resources.
FailStuck(ids) ==
    [r \in Resource |->
        IF r \in ids /\ rows[r].status = "pending"
        THEN [status |-> "failed", retries |-> rows[r].retries, age |-> 0]
        ELSE rows[r]]

\* Mutant: a row that counts as effective for duplicates is no proof of delivery.
AnyEffectiveRow(r) ==
    \E i \in Resource \ {r} :
        /\ rows[i].status \in {"delivered", "pending"}
        /\ LinkOf[i] = LinkOf[r]

ExistingEffectiveDelivery(r) ==
    \E i \in Resource \ {r} :
        rows[i].status = "delivered" /\ LinkOf[i] = LinkOf[r]

\* Mutant: rows that a sweep or a search has failed are not listed.
DueUnlessSwept(r) ==
    /\ rows[r].status = "delivery_failed_retryable"
    /\ rows[r].age >= Backoff[rows[r].retries]

\* select_retryable_failed_resources: invalid links are not listed, final
\* errors are never due.
Due(r) ==
    /\ rows[r].status \in {"failed", "delivery_failed_retryable"}
    /\ rows[r].age >= Backoff[rows[r].retries]

----------------------------------------------------------------------------
(* Callers *)

\* A search or a message yields new rows, which the caller then delivers.  A
\* search of a series that goes on to its full stage forgets what its fast
\* stage has attached (_search_telegram_first).
AttachResources(c, new) ==
    /\ ~Busy(c) /\ todo[c] = {} /\ Role[c] \in {"search", "attach"}
    /\ \A r \in new : rows[r].status = "absent"
    /\ rows' = [r \in Resource |->
                  IF r \in new
                  THEN [status |-> "pending", retries |-> 0, age |-> 0]
                  ELSE rows[r]]
    /\ \/ todo' = [todo EXCEPT ![c] = new]
       \/ Role[c] = "search" /\ UNCHANGED todo
    /\ UNCHANGED <<call, stuck, forwarded, contended, unsure, crashes, faults>>

\* A user asks for any row, whatever its status.
RequestDelivery(c, r) ==
    /\ ~Busy(c) /\ todo[c] = {} /\ Role[c] = "direct"
    /\ rows[r].status # "absent"
    /\ todo' = [todo EXCEPT ![c] = {r}]
    /\ UNCHANGED <<rows, call, stuck, forwarded, contended, unsure, crashes, faults>>

\* The selection is made once; the rows may change before their turn comes.
SelectRetryable(c) ==
    /\ ~Busy(c) /\ todo[c] = {} /\ Role[c] = "retry"
    /\ todo' = [todo EXCEPT ![c] = {r \in Resource : Due(r)}]
    /\ UNCHANGED <<rows, call, stuck, forwarded, contended, unsure, crashes, faults>>

----------------------------------------------------------------------------
(* deliver_resource *)

\* The row is read before the lock is taken.
Load(c, r) ==
    /\ ~Busy(c) /\ r \in todo[c]
    /\ todo' = [todo EXCEPT ![c] = @ \ {r}]
    /\ call' = [call EXCEPT ![c] =
                  [stage |-> "waiting", res |-> r, seen |-> rows[r].status,
                   verdict |-> "none"]]
    /\ contended' = IF \E d \in Caller \ {c} : call[d].res = r
                    THEN contended \cup {r} ELSE contended
    /\ UNCHANGED <<rows, stuck, forwarded, unsure, crashes, faults>>

\* Mutant: one lock per row.
LockPerRow(c) ==
    \A d \in Caller \ {c} :
        ~(HoldsLock(d) /\ LoopOf[d] = LoopOf[c] /\ call[d].res = call[c].res)

\* _delivery_lock: one lock per event loop and link.
LockFree(c) ==
    \A d \in Caller \ {c} :
        ~(HoldsLock(d) /\ LoopOf[d] = LoopOf[c] /\ LinkHeld(d) = LinkHeld(c))

\* What was seen before the lock decides; whether the subscription still
\* needs the row is read now.
Enter(c) ==
    /\ call[c].stage = "waiting"
    /\ LockFree(c)
    /\ unsure' = IF \E d \in Caller : /\ HoldsLock(d) /\ LoopOf[d] # LoopOf[c]
                                      /\ LinkHeld(d) = LinkHeld(c)
                 THEN unsure \cup {LinkHeld(c)} ELSE unsure
    /\ \/ /\ call[c].seen = "delivered"
          /\ CallReturns(c)
          /\ UNCHANGED rows
       \/ /\ call[c].seen # "delivered"
          /\ rows' = MarkUnneededResourceSkipped(call[c].res)
          /\ CallReturns(c)
       \/ /\ call[c].seen # "delivered"
          /\ At(c, "checking")
          /\ UNCHANGED rows
    /\ UNCHANGED <<todo, stuck, forwarded, contended, crashes, faults>>

CheckDuplicate(c) ==
    /\ call[c].stage = "checking"
    /\ At(c, IF ExistingEffectiveDelivery(call[c].res) THEN "marking" ELSE "sending")
    /\ UNCHANGED <<rows, todo, stuck, forwarded, contended, unsure, crashes, faults>>

MarkDuplicate(c) ==
    /\ call[c].stage = "marking"
    /\ rows' = MarkResourceDuplicateDelivered(call[c].res)
    /\ CallReturns(c)
    /\ UNCHANGED <<todo, stuck, forwarded, contended, unsure, crashes, faults>>

Forward(l) == [forwarded EXCEPT ![l] = IF @ < 2 THEN @ + 1 ELSE 2]

\* The transfer ends, within 300 s.
TransferEnds(c) ==
    /\ call[c].stage = "sending"
    /\ \E v \in Verdicts :
         /\ call' = [call EXCEPT ![c].stage = "recording", ![c].verdict = v]
         /\ forwarded' = IF v \in {"accepted", "late_accepted"}
                         THEN Forward(LinkHeld(c)) ELSE forwarded
         /\ unsure' = IF v = "late_accepted"
                      THEN unsure \cup {LinkHeld(c)} ELSE unsure
    /\ UNCHANGED <<rows, todo, stuck, contended, crashes, faults>>

Record(c) ==
    /\ call[c].stage = "recording"
    /\ rows' = UpdateResourceDeliveryStatus(call[c].res, call[c].verdict)
    /\ CallReturns(c)
    /\ UNCHANGED <<todo, stuck, forwarded, contended, unsure, crashes, faults>>

\* The statement raises (database is locked): a search marks the row, any
\* other caller ends with the exception and what it still had to deliver.
RecordRaises(c) ==
    /\ call[c].stage = "recording"
    /\ faults < MaxFaults
    /\ faults' = faults + 1
    /\ rows' = IF Role[c] = "search"
               THEN MarkResourceFailedIfPending(call[c].res) ELSE rows
    /\ CallReturns(c)
    /\ todo' = [todo EXCEPT ![c] = {}]
    /\ unsure' = IF call[c].verdict = "accepted"
                 THEN unsure \cup {LinkHeld(c)} ELSE unsure
    /\ UNCHANGED <<stuck, forwarded, contended, crashes>>

----------------------------------------------------------------------------
(* Rows stuck in pending *)

\* Mutant: the comparison with the cutoff is the wrong way round.
YoungPending == {r \in Resource : rows[r].status = "pending" /\ rows[r].age < PendingAge}

StuckPending == {r \in Resource : rows[r].status = "pending" /\ rows[r].age >= PendingAge}

\* A search of a subscription that is active and lacks something lists those
\* of the subscription before anything else ...
ListStuckPending(s) ==
    LET mine == {r \in StuckPending : SubOf[r] = s}
    IN  /\ \A r \in stuck : SubOf[r] # s
        /\ mine # {}
        /\ stuck' = stuck \cup mine
        /\ UNCHANGED <<rows, call, todo, forwarded, contended, unsure, crashes, faults>>

\* ... and a transaction of its own fails them, for retries to find.
RetryStuckPending(s) ==
    LET mine == {r \in stuck : SubOf[r] = s}
    IN  /\ mine # {}
        /\ rows' = FailStuck(mine)
        /\ stuck' = stuck \ mine
        /\ UNCHANGED <<call, todo, forwarded, contended, unsure, crashes, faults>>

----------------------------------------------------------------------------
(* The process and the clock *)

\* The calls of the callers cs are lost; a transfer in flight may have been
\* accepted or not.
CutOff(cs) ==
    LET flying == {LinkHeld(c) : c \in {d \in cs : call[d].stage = "sending"}}
        unrecorded == {LinkHeld(c) : c \in {d \in cs :
                         /\ call[d].stage = "recording"
                         /\ call[d].verdict = "accepted"}}
    IN  /\ \E accepted \in SUBSET flying :
             /\ forwarded' = [l \in Link |-> IF l \in accepted
                                             THEN Forward(l)[l] ELSE forwarded[l]]
             /\ unsure' = unsure \cup accepted \cup unrecorded
        /\ call' = [c \in Caller |-> IF c \in cs THEN NoCall ELSE call[c]]
        /\ todo' = [c \in Caller |-> IF c \in cs THEN {} ELSE todo[c]]

\* The 120 s around a search end before the 300 s of a transfer; only what
\* awaits something can be cancelled.
SearchTimesOut(c) ==
    /\ Role[c] = "search"
    /\ Busy(c) \/ todo[c] # {}
    /\ call[c].stage \in {"idle", "waiting", "sending"}
    /\ CutOff({c})
    /\ UNCHANGED <<rows, stuck, contended, crashes, faults>>

ProcessEnds ==
    /\ crashes < MaxCrashes
    /\ crashes' = crashes + 1
    /\ CutOff(Caller)
    /\ stuck' = {}
    /\ UNCHANGED <<rows, contended, faults>>

Tick ==
    /\ rows' = [r \in Resource |->
                  IF rows[r].age < MaxAge /\ rows[r].status \in
                       {"pending", "failed", "delivery_failed_retryable"}
                  THEN [rows[r] EXCEPT !.age = @ + 1] ELSE rows[r]]
    /\ UNCHANGED <<call, todo, stuck, forwarded, contended, unsure, crashes, faults>>

\* The rows a caller can find or be asked for in one go.
Batches(c) ==
    IF Role[c] = "search" THEN {{r} : r \in Target[c]}
                          ELSE SUBSET Target[c] \ {{}}

Deliver(c) ==
    \/ \E r \in todo[c] : Load(c, r)
    \/ Enter(c)
    \/ CheckDuplicate(c)
    \/ MarkDuplicate(c)
    \/ TransferEnds(c)
    \/ Record(c)

DeliveryNext ==
    \/ \E c \in Caller : \E new \in Batches(c) : AttachResources(c, new)
    \/ \E c \in Caller : \E r \in Target[c] : RequestDelivery(c, r)
    \/ \E c \in Caller : SelectRetryable(c)
    \/ \E c \in Caller : Deliver(c)
    \/ \E c \in Caller : RecordRaises(c)
    \/ \E c \in Caller : SearchTimesOut(c)
    \/ \E s \in Subscription : ListStuckPending(s) \/ RetryStuckPending(s)
    \/ ProcessEnds
    \/ Tick

DeliverySpec == DeliveryInit /\ [][DeliveryNext]_deliveryVars

(***************************************************************************)
(* A call in progress goes on (every await in it has a timeout, and locks  *)
(* are handed over in order), the monitor schedules a retry pass every     *)
(* 300 s, and the clock goes on.  Only the subscriptions of Searched are   *)
(* sure to be searched again: search_subscription returns before the sweep *)
(* for one that is paused, hidden, completed or lacks nothing.  A sweep    *)
(* that has listed its rows goes on.  Nobody has to find or request        *)
(* anything.                                                               *)
(***************************************************************************)
DeliveryFairness ==
    /\ \A c \in Caller : SF_deliveryVars(Deliver(c))
    /\ \A c \in Caller : WF_deliveryVars(SelectRetryable(c))
    /\ \A s \in Searched : WF_deliveryVars(ListStuckPending(s))
    /\ \A s \in Subscription : WF_deliveryVars(RetryStuckPending(s))
    /\ WF_deliveryVars(Tick)

DeliveryFairSpec == DeliverySpec /\ DeliveryFairness
----------------------------------------------------------------------------
(* Properties *)

\* A row's status is one that the duplicates, the retries and the sweep know (a
\* row with any other one is listed by none of them again), and a call is about
\* a row as long as it runs (deliver_resource, delivery_failed_status).
DeliveryTypeOK ==
    /\ rows \in [Resource -> Row]
    /\ call \in [Caller -> Call]
    /\ \A c \in Caller : Busy(c) <=> call[c].res # NoResource
    /\ todo \in [Caller -> SUBSET Resource]
    /\ stuck \subseteq Resource
    /\ forwarded \in [Link -> 0..2]
    /\ contended \subseteq Resource
    /\ unsure \subseteq Link
    /\ crashes \in 0..MaxCrashes /\ faults \in 0..MaxFaults

\* "资源链接已投递过，跳过重复推送" (delivery/service.py): the remote accepts a
\* link twice only when two calls held the same row at once, two loops held
\* the link at once, or an acceptance never reached the table (a timeout of
\* the transfer or of the search around it, a crash, a failed write).
ForwardedOnce ==
    \A l \in Link :
        forwarded[l] > 1 =>
            l \in unsure \/ \E r \in contended : LinkOf[r] = l

\* A row says delivered only when the remote has accepted its link.
DeliveredWasForwarded ==
    \A r \in Resource :
        rows[r].status = "delivered" => forwarded[LinkOf[r]] > 0

\* A delivered row stays delivered: no late failure, sweep of stuck rows or
\* skip takes the verdict back, unless two calls held the row at once.
DeliveredIsFinal ==
    [][\A r \in Resource :
         rows[r].status = "delivered" /\ r \notin contended
            => rows'[r].status = "delivered"]_rows

\* Links whose rows may not tell what became of them.
Doubted == unsure \cup {LinkOf[r] : r \in contended}

Life == INSTANCE ResourceLife
            WITH status <- [r \in Resource |-> rows[r].status],
                 accepted <- forwarded, doubted <- Doubted

\* The deliveries implement ResourceLife: rows move along its moves (only a new
\* row is pending, only a pending one is given up, no delivered one skipped),
\* and a link that is not in doubt is accepted once, before its rows say so.
LifeKept == Life!Spec

\* No row of a subscription that stays active and goes on to lack something stays
\* pending for ever, whatever became of its caller: what was dropped, cut off or
\* lost in a crash is found by a later search (_retry_stuck_pending_resources).
\* Rows of other subscriptions are owed nothing, and may stay pending.
PendingSettles ==
    \A r \in Resource :
        SubOf[r] \in Searched =>
            (rows[r].status = "pending" ~> rows[r].status # "pending")

\* A row that failed for a passing reason is delivered again or settled.
FailureIsRetried ==
    \A r \in Resource :
        rows[r].status \in {"failed", "delivery_failed_retryable"}
            ~> \/ rows[r].status \notin {"failed", "delivery_failed_retryable"}
               \/ \E c \in Caller : call[c].res = r

\* "Allow a few manual retries on finals, but not endless auto spam."
\* (delivery/retry.py): a final failure is retried up to three times.
FinalIsRetried ==
    \A r \in Resource :
        rows[r].status = "delivery_failed_final" /\ rows[r].retries < 3
            ~> \/ rows[r].status # "delivery_failed_final"
               \/ \E c \in Caller : call[c].res = r

\* No link is pushed twice, as tests/test_delivery.py asks
\* (test_duplicate_delivery_link_is_not_forwarded_twice).
NotForwardedTwice == \A l \in Link : forwarded[l] <= 1
=============================================================================
