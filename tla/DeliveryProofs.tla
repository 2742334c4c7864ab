--------------------------- MODULE DeliveryProofs ---------------------------
(***************************************************************************)
(* The delivery of resources, for any number of rows, links, callers, event *)
(* loops, crashes and failed writes.                                       *)
(*                                                                         *)
(* Two facts carry the proofs: calls that do not share a row know its      *)
(* status, and calls that do not share the lock of a link know whether the *)
(* remote has it.                                                          *)
(***************************************************************************)
EXTENDS Delivery, TLAPS

\* Calls on one row at once are contended.
SharersContend ==
    \A c, d \in Caller :
        c # d /\ Busy(c) /\ call[c].res = call[d].res => call[c].res \in contended

\* Who holds the lock has not seen the row delivered.
HoldersHaveWork == \A c \in Caller : HoldsLock(c) => call[c].seen # "delivered"

\* A row that was not delivered when its only call read it is not delivered.
OpenRowsAreOpen ==
    \A c \in Caller :
        Busy(c) /\ call[c].seen # "delivered" /\ call[c].res \notin contended
            => rows[call[c].res].status # "delivered"

FinalInv == SharersContend /\ HoldersHaveWork /\ OpenRowsAreOpen

\* A call that is about to write "delivered" knows that the remote accepted.
WritersWereForwarded ==
    \A c \in Caller :
        \/ call[c].stage = "marking"
        \/ call[c].stage = "recording" /\ call[c].verdict = "accepted"
        => forwarded[LinkHeld(c)] > 0

\* Holders of one link's locks (those of two event loops) leave it unsure.
LinkSharersUnsure ==
    \A c, d \in Caller :
        c # d /\ HoldsLock(c) /\ HoldsLock(d) /\ LinkHeld(c) = LinkHeld(d)
            => LinkHeld(c) \in unsure

\* The table or a call can be trusted with the link.
Clear(l) == l \notin unsure /\ \A r \in contended : LinkOf[r] # l

\* A row or a call tells that the remote has accepted the link.
Recorded(l) == \E r \in Resource : LinkOf[r] = l /\ rows[r].status = "delivered"
BeingRecorded(l) ==
    \E c \in Caller :
        call[c].stage = "recording" /\ call[c].verdict = "accepted" /\ LinkHeld(c) = l

AcceptanceIsKnown ==
    \A l \in Link :
        Clear(l) /\ forwarded[l] > 0 => Recorded(l) \/ BeingRecorded(l)

\* What is being sent has not been accepted before.
SendingIsNew ==
    \A c \in Caller :
        call[c].stage = "sending" /\ Clear(LinkHeld(c)) => forwarded[LinkHeld(c)] = 0

OnceInv == LinkSharersUnsure /\ AcceptanceIsKnown /\ SendingIsNew

DeliveryInv ==
    DeliveryTypeOK /\ FinalInv /\ DeliveredWasForwarded /\ WritersWereForwarded
    /\ OnceInv /\ ForwardedOnce

----------------------------------------------------------------------------
(* Types *)

CallsOK ==
    /\ call \in [Caller -> Call]
    /\ \A c \in Caller : Busy(c) <=> call[c].res # NoResource

\* The bounds of retry counts and ages are numbers, and zero is within them.
LEMMA BackoffFacts ==
    RetryCap \in Nat /\ MaxAge \in Nat /\ 0 \in 0..RetryCap /\ 0 \in 0..MaxAge
BY DeliveryAssumption

\* A row of fields in range is a row.
LEMMA RowType ==
    ASSUME NEW status \in Status, NEW retries \in 0..RetryCap, NEW age \in 0..MaxAge
    PROVE  [status |-> status, retries |-> retries, age |-> age] \in Row
BY DEF Row

\* A holder of the lock, or of a place in the queue for it, has a row.
LEMMA BusyHasRow ==
    ASSUME DeliveryTypeOK, NEW c \in Caller, call[c].stage # "idle"
    PROVE  call[c].res \in Resource /\ LinkHeld(c) \in Link
BY DeliveryAssumption DEF DeliveryTypeOK, Busy, Call, LinkHeld

\* Writing a status keeps the table well typed.
LEMMA WrittenType ==
    ASSUME rows \in [Resource -> Row], NEW r \in Resource, NEW status \in Status
    PROVE  Written(r, status) \in [Resource -> Row]
BY BackoffFacts DEF Written, Row

\* So does every statement of deliver_resource.
LEMMA StatementsType ==
    ASSUME rows \in [Resource -> Row], NEW r \in Resource,
           NEW verdict \in Verdict \cup {"none"}
    PROVE  /\ MarkResourceDuplicateDelivered(r) \in [Resource -> Row]
           /\ MarkUnneededResourceSkipped(r) \in [Resource -> Row]
           /\ MarkResourceFailedIfPending(r) \in [Resource -> Row]
           /\ UpdateResourceDeliveryStatus(r, verdict) \in [Resource -> Row]
<1>1. /\ MarkResourceDuplicateDelivered(r) \in [Resource -> Row]
      /\ MarkUnneededResourceSkipped(r) \in [Resource -> Row]
      /\ MarkResourceFailedIfPending(r) \in [Resource -> Row]
  BY WrittenType DEF MarkResourceDuplicateDelivered, MarkUnneededResourceSkipped,
                     MarkResourceFailedIfPending, Status
<1>2. FailedStatus(verdict) \in Status
  BY DEF FailedStatus, Status
<1>3. rows[r].retries \in 0..RetryCap
  BY DEF Row
<1>4. rows[r].retries < RetryCap => rows[r].retries + 1 \in 0..RetryCap
  BY <1>3, BackoffFacts
<1>5. UpdateResourceDeliveryStatus(r, verdict) \in [Resource -> Row]
  BY <1>2, <1>3, <1>4, BackoffFacts DEF UpdateResourceDeliveryStatus, Row, Status
<1>6. QED
  BY <1>1, <1>5

\* A call may become any other that has a row exactly while it is under way.
LEMMA CallStepOK ==
    ASSUME CallsOK, NEW c \in Caller, NEW new \in Call,
           new.stage # "idle" <=> new.res # NoResource,
           call' = [call EXCEPT ![c] = new]
    PROVE  CallsOK'
BY DEF CallsOK, Busy

\* The two fields of a call that the end of a transfer sets, as one new call.
LEMMA VerdictStep ==
    ASSUME NEW c \in Caller, call \in [Caller -> Call], NEW v,
           call' = [call EXCEPT ![c].stage = "recording", ![c].verdict = v]
    PROVE  call' = [call EXCEPT ![c] = [call[c] EXCEPT !.stage = "recording", !.verdict = v]]
OBVIOUS

\* No call is a call, idle and without a row.
LEMMA NoCallType ==
    NoCall \in Call /\ NoCall.stage = "idle" /\ NoCall.res = NoResource
BY DEF NoCall, Call, DeliveryStage, Status

\* A call that returns keeps the calls well typed.
LEMMA CallReturnsOK ==
    ASSUME CallsOK, NEW c \in Caller, CallReturns(c)
    PROVE  CallsOK'
BY CallStepOK, NoCallType DEF CallReturns

\* So does one that goes on to its next stage.
LEMMA AtOK ==
    ASSUME CallsOK, NEW c \in Caller, Busy(c),
           NEW stage \in DeliveryStage \ {"idle"}, At(c, stage)
    PROVE  CallsOK'
<1>1. call[c] \in Call
  BY DEF CallsOK
<1>2. [call[c] EXCEPT !.stage = stage] \in Call
  BY <1>1 DEF Call
<1>3. call' = [call EXCEPT ![c] = [call[c] EXCEPT !.stage = stage]]
  BY DEF At
<1>4. QED
  BY <1>1, <1>2, <1>3, CallStepOK DEF CallsOK, Busy, Call

\* One more acceptance is counted for the link alone, up to two.
LEMMA ForwardType ==
    ASSUME forwarded \in [Link -> 0..2], NEW l \in Link
    PROVE  /\ Forward(l) \in [Link -> 0..2]
           /\ Forward(l)[l] \in {1, 2}
           /\ forwarded[l] = 0 => Forward(l)[l] = 1
           /\ \A m \in Link \ {l} : Forward(l)[m] = forwarded[m]
BY DEF Forward

\* The calls that are cut off are gone; what they forwarded is unsure.
LEMMA CutOffEffect ==
    ASSUME DeliveryTypeOK, NEW cs \in SUBSET Caller, CutOff(cs)
    PROVE  /\ CallsOK'
           /\ forwarded' \in [Link -> 0..2] /\ unsure' \subseteq Link
           /\ todo' \in [Caller -> SUBSET Resource]
           /\ \A c \in cs : call'[c] = NoCall
           /\ \A c \in Caller \ cs : call'[c] = call[c]
           /\ unsure \subseteq unsure'
           /\ \A l \in Link : /\ forwarded'[l] >= forwarded[l]
                              /\ l \notin unsure' => forwarded'[l] = forwarded[l]
           /\ \A c \in cs : /\ call[c].stage = "recording" /\ call[c].verdict = "accepted"
                            => LinkHeld(c) \in unsure'
<1> DEFINE flying == {LinkHeld(c) : c \in {d \in cs : call[d].stage = "sending"}}
           unrecorded == {LinkHeld(c) : c \in {d \in cs :
                            /\ call[d].stage = "recording"
                            /\ call[d].verdict = "accepted"}}
<1>1. PICK accepted \in SUBSET flying :
        /\ forwarded' = [l \in Link |-> IF l \in accepted
                                        THEN Forward(l)[l] ELSE forwarded[l]]
        /\ unsure' = unsure \cup accepted \cup unrecorded
  BY DEF CutOff
<1>2. /\ call' = [c \in Caller |-> IF c \in cs THEN NoCall ELSE call[c]]
      /\ todo' = [c \in Caller |-> IF c \in cs THEN {} ELSE todo[c]]
  BY DEF CutOff
<1>3. flying \subseteq Link /\ unrecorded \subseteq Link
  BY BusyHasRow
<1>4. CallsOK'
  BY <1>2, NoCallType DEF CallsOK, DeliveryTypeOK, Busy
<1>5. \A l \in Link : forwarded[l] \in 0..2 /\ Forward(l)[l] \in {1, 2}
                      /\ Forward(l)[l] >= forwarded[l]
  BY DEF Forward, DeliveryTypeOK
<1>6. /\ forwarded' \in [Link -> 0..2]
      /\ \A l \in Link : /\ forwarded'[l] >= forwarded[l]
                         /\ l \notin unsure' => forwarded'[l] = forwarded[l]
  BY <1>1, <1>5
<1>7. unsure' \subseteq Link
  BY <1>1, <1>3 DEF DeliveryTypeOK
<1>8. todo' \in [Caller -> SUBSET Resource]
  BY <1>2 DEF DeliveryTypeOK
<1>9. \A c \in cs : call[c].stage = "recording" /\ call[c].verdict = "accepted"
                      => LinkHeld(c) \in unsure'
  BY <1>1
<1>10. unsure \subseteq unsure'
  BY <1>1
<1>11. QED
  BY <1>2, <1>4, <1>6, <1>7, <1>8, <1>9, <1>10

\* The statements on many rows keep the table well typed.
LEMMA TableRewrites ==
    ASSUME DeliveryTypeOK
    PROVE  /\ \A ids : FailStuck(ids) \in [Resource -> Row]
           /\ Tick => rows' \in [Resource -> Row]
           /\ \A c, new : AttachResources(c, new) => rows' \in [Resource -> Row]
<1>1. \A r \in Resource : rows[r] \in Row
  BY DEF DeliveryTypeOK
<1>2. \A ids : FailStuck(ids) \in [Resource -> Row]
  BY <1>1, BackoffFacts DEF FailStuck, Row, Status
<1>3. ASSUME Tick PROVE rows' \in [Resource -> Row]
  <2>1. ASSUME NEW r \in Resource, rows[r].age < MaxAge
        PROVE  [rows[r] EXCEPT !.age = @ + 1] \in Row
    <3>1. rows[r].age + 1 \in 0..MaxAge
      BY <1>1, <2>1, BackoffFacts DEF Row
    <3>2. QED
      BY <1>1, <3>1 DEF Row
  <2>2. QED
    BY <1>1, <1>3, <2>1 DEF Tick
<1>4. ASSUME NEW c, NEW new, AttachResources(c, new)
      PROVE  rows' \in [Resource -> Row]
  BY <1>1, <1>4, BackoffFacts DEF AttachResources, Row, Status
<1>5. QED
  BY <1>2, <1>3, <1>4

\* A call that is under way always has a row, and retry counts, ages and the
\* counters keep their bounds, for any number of callers, crashes and faults.
THEOREM DeliveryTypeCorrect == DeliverySpec => []DeliveryTypeOK
<1>1. DeliveryInit => DeliveryTypeOK
  BY DeliveryAssumption, NoCallType, BackoffFacts
  DEF DeliveryInit, DeliveryTypeOK, NoRow, Row, Status, Busy
<1>2. DeliveryTypeOK /\ [DeliveryNext]_deliveryVars => DeliveryTypeOK'
  <2> SUFFICES ASSUME DeliveryTypeOK, [DeliveryNext]_deliveryVars
               PROVE  DeliveryTypeOK'
    OBVIOUS
  <2>0. /\ CallsOK
        /\ CallsOK' /\ rows' \in [Resource -> Row]
             /\ todo' \in [Caller -> SUBSET Resource] /\ stuck' \subseteq Resource
             /\ forwarded' \in [Link -> 0..2] /\ contended' \subseteq Resource
             /\ unsure' \subseteq Link /\ crashes' \in 0..MaxCrashes
             /\ faults' \in 0..MaxFaults
           => DeliveryTypeOK'
    BY DEF DeliveryTypeOK, CallsOK
  <2> USE DEF DeliveryTypeOK
  <2>1. ASSUME NEW c \in Caller, NEW new \in Batches(c), AttachResources(c, new)
        PROVE  DeliveryTypeOK'
    <3>1. new \subseteq Resource
      BY DeliveryAssumption DEF Batches
    <3>2. QED
      BY <2>0, <2>1, <3>1, TableRewrites DEF AttachResources, CallsOK, Busy
  <2>2. ASSUME NEW c \in Caller, NEW r \in Target[c], RequestDelivery(c, r)
        PROVE  DeliveryTypeOK'
    BY <2>0, <2>2, DeliveryAssumption DEF RequestDelivery, CallsOK, Busy
  <2>3. ASSUME NEW c \in Caller, SelectRetryable(c)
        PROVE  DeliveryTypeOK'
    BY <2>0, <2>3 DEF SelectRetryable, CallsOK, Busy
  <2>4. ASSUME NEW c \in Caller, NEW r \in todo[c], Load(c, r)
        PROVE  DeliveryTypeOK'
    <3> DEFINE new == [stage |-> "waiting", res |-> r, seen |-> rows[r].status,
                       verdict |-> "none"]
    <3>1. r \in Resource
      OBVIOUS
    <3>2. rows[r].status \in Status
      BY <3>1 DEF Row
    <3>3. new \in Call /\ new.stage # "idle" /\ new.res # NoResource
      BY <3>1, <3>2, DeliveryAssumption DEF Call, DeliveryStage
    <3>4. CallsOK'
      <4>1. call' = [call EXCEPT ![c] = new]
        BY <2>4 DEF Load
      <4>2. QED
        BY <2>0, <3>3, <4>1, CallStepOK
    <3>5. QED
      BY <2>0, <2>4, <3>1, <3>4 DEF Load
  <2>5. ASSUME NEW c \in Caller, Enter(c)
        PROVE  DeliveryTypeOK'
    <3>1. call[c].res \in Resource /\ LinkHeld(c) \in Link /\ Busy(c)
      BY <2>5, BusyHasRow DEF Enter, Busy
    <3>2. CallsOK'
      BY <2>0, <2>5, <3>1, CallReturnsOK, AtOK DEF Enter, DeliveryStage
    <3>3. rows' \in [Resource -> Row]
      BY <2>5, <3>1, StatementsType DEF Enter
    <3>4. QED
      BY <2>0, <2>5, <3>1, <3>2, <3>3 DEF Enter
  <2>6. ASSUME NEW c \in Caller, CheckDuplicate(c)
        PROVE  DeliveryTypeOK'
    <3>1. CallsOK'
      BY <2>0, <2>6, AtOK DEF CheckDuplicate, DeliveryStage, Busy
    <3>2. QED
      BY <2>0, <2>6, <3>1 DEF CheckDuplicate
  <2>7. ASSUME NEW c \in Caller, MarkDuplicate(c)
        PROVE  DeliveryTypeOK'
    <3>1. CallsOK'
      BY <2>0, <2>7, CallReturnsOK DEF MarkDuplicate
    <3>2. rows' \in [Resource -> Row]
      BY <2>7, BusyHasRow, StatementsType DEF MarkDuplicate
    <3>3. QED
      BY <2>0, <2>7, <3>1, <3>2 DEF MarkDuplicate
  <2>8. ASSUME NEW c \in Caller, TransferEnds(c)
        PROVE  DeliveryTypeOK'
    <3>1. PICK v \in Verdicts :
            /\ call' = [call EXCEPT ![c].stage = "recording", ![c].verdict = v]
            /\ forwarded' = IF v \in {"accepted", "late_accepted"}
                            THEN Forward(LinkHeld(c)) ELSE forwarded
            /\ unsure' = IF v = "late_accepted"
                         THEN unsure \cup {LinkHeld(c)} ELSE unsure
      BY <2>8 DEF TransferEnds
    <3>2. call[c].res \in Resource /\ LinkHeld(c) \in Link
      BY <2>8, BusyHasRow DEF TransferEnds
    <3>3. CallsOK'
      <4> DEFINE new == [call[c] EXCEPT !.stage = "recording", !.verdict = v]
      <4>1. new \in Call /\ new.stage # "idle" /\ new.res # NoResource
        <5>1. call[c] \in Call /\ call[c].res # NoResource
          BY <2>0, <3>2, DeliveryAssumption DEF CallsOK
        <5>2. v \in Verdict
          BY DeliveryAssumption
        <5>3. QED
          BY <5>1, <5>2 DEF Call, DeliveryStage
      <4>2. call \in [Caller -> Call]
        BY <2>0 DEF CallsOK
      <4>3. call' = [call EXCEPT ![c].stage = "recording", ![c].verdict = v]
        BY <3>1
      <4>4. call' = [call EXCEPT ![c] = new]
        BY <4>2, <4>3, VerdictStep
      <4>5. QED
        BY <2>0, <4>1, <4>4, CallStepOK
    <3>4. forwarded' \in [Link -> 0..2] /\ unsure' \subseteq Link
      BY <3>1, <3>2, ForwardType
    <3>5. QED
      BY <2>0, <2>8, <3>3, <3>4 DEF TransferEnds
  <2>9. ASSUME NEW c \in Caller, Record(c)
        PROVE  DeliveryTypeOK'
    <3>1. CallsOK'
      BY <2>0, <2>9, CallReturnsOK DEF Record
    <3>2. rows' \in [Resource -> Row]
      <4>1. call[c].verdict \in Verdict \cup {"none"}
        BY DEF Call
      <4>2. QED
        BY <2>9, <4>1, BusyHasRow, StatementsType DEF Record
    <3>3. QED
      BY <2>0, <2>9, <3>1, <3>2 DEF Record
  <2>10. ASSUME NEW c \in Caller, RecordRaises(c)
        PROVE  DeliveryTypeOK'
    <3>1. CallsOK'
      BY <2>0, <2>10, CallReturnsOK DEF RecordRaises
    <3>2. call[c].res \in Resource /\ LinkHeld(c) \in Link
      BY <2>10, BusyHasRow DEF RecordRaises
    <3>3. rows' \in [Resource -> Row]
      <4>1. "none" \in Verdict \cup {"none"}
        OBVIOUS
      <4>2. MarkResourceFailedIfPending(call[c].res) \in [Resource -> Row]
        BY <3>2, <4>1, StatementsType
      <4>3. QED
        BY <2>10, <4>2 DEF RecordRaises
    <3>4. faults' \in 0..MaxFaults
      BY <2>10, DeliveryAssumption DEF RecordRaises
    <3>5. QED
      BY <2>0, <2>10, <3>1, <3>2, <3>3, <3>4 DEF RecordRaises
  <2>11. ASSUME NEW c \in Caller, SearchTimesOut(c)
        PROVE  DeliveryTypeOK'
    <3>1. CutOff({c})
      BY <2>11 DEF SearchTimesOut
    <3>2. QED
      BY <2>0, <2>11, <3>1, CutOffEffect DEF SearchTimesOut
  <2>12. ASSUME NEW s \in Subscription, ListStuckPending(s)
         PROVE  DeliveryTypeOK'
    BY <2>0, <2>12 DEF ListStuckPending, StuckPending, CallsOK, Busy
  <2>13. ASSUME NEW s \in Subscription, RetryStuckPending(s)
         PROVE  DeliveryTypeOK'
    BY <2>0, <2>13, TableRewrites DEF RetryStuckPending, CallsOK, Busy
  <2>14. CASE ProcessEnds
    <3>1. CutOff(Caller)
      BY <2>14 DEF ProcessEnds
    <3>2. crashes' \in 0..MaxCrashes
      BY <2>14, DeliveryAssumption DEF ProcessEnds
    <3>3. QED
      BY <2>0, <2>14, <3>1, <3>2, CutOffEffect DEF ProcessEnds
  <2>15. CASE Tick
    BY <2>0, <2>15, TableRewrites DEF Tick, CallsOK, Busy
  <2>16. CASE UNCHANGED deliveryVars
    BY <2>0, <2>16 DEF deliveryVars, CallsOK, Busy
  <2>17. QED
    BY <2>1, <2>2, <2>3, <2>4, <2>5, <2>6, <2>7, <2>8, <2>9, <2>10, <2>11,
       <2>12, <2>13, <2>14, <2>15, <2>16 DEF DeliveryNext, Deliver
<1>3. QED
  BY <1>1, <1>2, PTL DEF DeliverySpec

----------------------------------------------------------------------------
(* What a step does to the rows and to the calls in progress *)

\* A verdict "delivered" stays while one call at a time holds the row, and
\* only a call that ends gives it.
DeliveredStays ==
    \A r \in Resource :
        rows[r].status = "delivered" /\ r \notin contended
            => rows'[r].status = "delivered"

Delivers(c) ==
    \/ call[c].stage = "marking"
    \/ call[c].stage = "recording" /\ call[c].verdict = "accepted"

DeliveredByCall ==
    \A r \in Resource :
        rows'[r].status = "delivered" /\ rows[r].status # "delivered"
            => \E c \in Caller : /\ call[c].res = r /\ Delivers(c)
                                 /\ call'[c] = NoCall

\* A call that goes on keeps its row and what it has seen of it.
CallsGoOn ==
    \A c \in Caller :
        \/ call'[c] = NoCall
        \/ call'[c] = call[c]
        \/ /\ Busy(c) /\ call'[c].stage # "idle"
           /\ call'[c].res = call[c].res
           /\ call'[c].seen = call[c].seen /\ call[c].seen # "delivered"

\* A step that leaves the table alone takes no verdict back and gives none.
LEMMA SameRowsEffect ==
    ASSUME UNCHANGED rows
    PROVE  DeliveredStays /\ DeliveredByCall
BY DEF DeliveredStays, DeliveredByCall

\* A step that leaves the calls alone lets them go on.
LEMMA SameCallsEffect ==
    ASSUME UNCHANGED call
    PROVE  CallsGoOn
BY DEF CallsGoOn

\* Who returns is idle, the other calls stay as they are.
LEMMA CallReturnsEffect ==
    ASSUME DeliveryTypeOK, NEW c \in Caller, CallReturns(c)
    PROVE  /\ call'[c] = NoCall
           /\ \A d \in Caller \ {c} : call'[d] = call[d]
           /\ CallsGoOn
BY DEF CallReturns, CallsGoOn, DeliveryTypeOK

\* Who goes on keeps its row and what it has seen.
LEMMA AtEffect ==
    ASSUME DeliveryTypeOK, NEW c \in Caller, NEW stage, stage # "idle",
           Busy(c), call[c].seen # "delivered", At(c, stage)
    PROVE  /\ call'[c] = [call[c] EXCEPT !.stage = stage]
           /\ call'[c].stage = stage /\ call'[c].res = call[c].res
           /\ call'[c].seen = call[c].seen /\ call'[c].verdict = call[c].verdict
           /\ \A d \in Caller \ {c} : call'[d] = call[d]
           /\ CallsGoOn
BY DEF At, CallsGoOn, DeliveryTypeOK, Call

\* A statement that rewrites one row, which was not delivered.
LEMMA OneRowEffect ==
    ASSUME DeliveryTypeOK, NEW r \in Resource,
           \A i \in Resource \ {r} : rows'[i].status = rows[i].status,
           rows[r].status = "delivered" => r \in contended \/ rows'[r].status = "delivered",
           rows'[r].status = "delivered" /\ rows[r].status # "delivered"
             => \E c \in Caller : /\ call[c].res = r /\ Delivers(c)
                                  /\ call'[c] = NoCall
    PROVE  DeliveredStays /\ DeliveredByCall
BY DEF DeliveredStays, DeliveredByCall

\* Each statement writes its row alone; which of them leave it delivered.
LEMMA StatementsEffect ==
    ASSUME DeliveryTypeOK, NEW r \in Resource, NEW verdict
    PROVE  /\ \A i \in Resource \ {r} :
                /\ MarkResourceDuplicateDelivered(r)[i] = rows[i]
                /\ MarkUnneededResourceSkipped(r)[i] = rows[i]
                /\ MarkResourceFailedIfPending(r)[i] = rows[i]
                /\ UpdateResourceDeliveryStatus(r, verdict)[i] = rows[i]
           /\ MarkResourceDuplicateDelivered(r)[r].status = "delivered"
           /\ MarkUnneededResourceSkipped(r)[r].status \in {"delivered", "skipped"}
           /\ MarkUnneededResourceSkipped(r)[r].status = "delivered"
                <=> rows[r].status = "delivered"
           /\ MarkResourceFailedIfPending(r)[r].status = "delivered"
                <=> rows[r].status = "delivered"
           /\ UpdateResourceDeliveryStatus(r, verdict)[r].status = "delivered"
                <=> verdict = "accepted"
<1>1. FailedStatus(verdict) # "delivered"
  BY DEF FailedStatus
<1>2. /\ UpdateResourceDeliveryStatus(r, verdict)[r].status = "delivered"
           <=> verdict = "accepted"
      /\ \A i \in Resource \ {r} : UpdateResourceDeliveryStatus(r, verdict)[i] = rows[i]
  BY <1>1 DEF UpdateResourceDeliveryStatus, DeliveryTypeOK
<1>3. QED
  BY <1>2 DEF MarkResourceDuplicateDelivered, MarkUnneededResourceSkipped,
              MarkResourceFailedIfPending, Written, DeliveryTypeOK

\* The statements on many rows: nothing becomes delivered, nothing delivered
\* is touched.
LEMMA SweepsEffect ==
    ASSUME DeliveryTypeOK,
           \/ \E c, new : AttachResources(c, new)
           \/ \E s : RetryStuckPending(s)
           \/ Tick
    PROVE  DeliveredStays /\ DeliveredByCall
<1>1. ASSUME NEW c, NEW new, AttachResources(c, new)
      PROVE  \A r \in Resource : rows'[r].status = "delivered" <=> rows[r].status = "delivered"
  BY <1>1 DEF AttachResources
<1>2. ASSUME NEW s, RetryStuckPending(s)
      PROVE  DeliveredStays /\ DeliveredByCall
  BY <1>2 DEF RetryStuckPending, FailStuck, DeliveredStays, DeliveredByCall
<1>3. CASE Tick
  <2>1. \A r \in Resource : rows'[r].status = rows[r].status
    BY <1>3 DEF Tick, DeliveryTypeOK, Row
  <2>2. QED
    BY <2>1 DEF DeliveredStays, DeliveredByCall
<1>4. QED
  BY <1>1, <1>2, <1>3 DEF DeliveredStays, DeliveredByCall

\* The facts above, of every step.
LEMMA StepEffect ==
    ASSUME DeliveryTypeOK, HoldersHaveWork, OpenRowsAreOpen,
           [DeliveryNext]_deliveryVars
    PROVE  /\ contended \subseteq contended' /\ unsure \subseteq unsure'
           /\ DeliveredStays /\ DeliveredByCall
           /\ CallsGoOn \/ \E c \in Caller : \E r \in todo[c] : Load(c, r)
<1>1. ASSUME NEW c \in Caller, NEW new \in Batches(c), AttachResources(c, new)
      PROVE  DeliveredStays /\ DeliveredByCall /\ CallsGoOn
             /\ UNCHANGED <<contended, unsure>>
  BY <1>1, SweepsEffect, SameCallsEffect DEF AttachResources
<1>2. ASSUME \/ \E c \in Caller : \E r \in Target[c] : RequestDelivery(c, r)
             \/ \E c \in Caller : SelectRetryable(c)
             \/ \E s \in Subscription : ListStuckPending(s)
             \/ UNCHANGED deliveryVars
      PROVE  UNCHANGED <<rows, call, contended, unsure>>
  BY <1>2 DEF RequestDelivery, SelectRetryable, ListStuckPending, deliveryVars
<1>3. ASSUME NEW c \in Caller, NEW r \in todo[c], Load(c, r)
      PROVE  UNCHANGED <<rows, unsure>> /\ contended \subseteq contended'
  BY <1>3 DEF Load
<1>4. ASSUME NEW c \in Caller, Enter(c)
      PROVE  DeliveredStays /\ DeliveredByCall /\ CallsGoOn
             /\ contended' = contended /\ unsure \subseteq unsure'
  <2>1. call[c].res \in Resource /\ Busy(c)
    BY <1>4, BusyHasRow DEF Enter, Busy
  <2>2. CallsGoOn
    BY <1>4, <2>1, CallReturnsEffect, AtEffect DEF Enter
  <2>3. \/ UNCHANGED rows
        \/ rows' = MarkUnneededResourceSkipped(call[c].res)
    BY <1>4 DEF Enter
  <2>4. DeliveredStays /\ DeliveredByCall
    BY <2>1, <2>3, SameRowsEffect, OneRowEffect, StatementsEffect
  <2>5. QED
    BY <1>4, <2>2, <2>4 DEF Enter
<1>5. ASSUME NEW c \in Caller, CheckDuplicate(c)
      PROVE  UNCHANGED <<rows, contended, unsure>> /\ CallsGoOn
  <2>1. Busy(c) /\ HoldsLock(c)
    BY <1>5 DEF CheckDuplicate, Busy, HoldsLock
  <2>2. QED
    BY <1>5, <2>1, AtEffect DEF CheckDuplicate, HoldersHaveWork
<1>6. ASSUME NEW c \in Caller, MarkDuplicate(c)
      PROVE  DeliveredStays /\ DeliveredByCall /\ CallsGoOn
             /\ UNCHANGED <<contended, unsure>>
  <2>1. call[c].res \in Resource /\ Delivers(c)
    BY <1>6, BusyHasRow DEF MarkDuplicate, Delivers
  <2>2. call'[c] = NoCall /\ CallsGoOn
    BY <1>6, CallReturnsEffect DEF MarkDuplicate
  <2>3. rows' = MarkResourceDuplicateDelivered(call[c].res)
    BY <1>6 DEF MarkDuplicate
  <2>4. DeliveredStays /\ DeliveredByCall
    BY <2>1, <2>2, <2>3, OneRowEffect, StatementsEffect
  <2>5. QED
    BY <1>6, <2>2, <2>4 DEF MarkDuplicate
<1>7. ASSUME NEW c \in Caller, TransferEnds(c)
      PROVE  UNCHANGED <<rows, contended>> /\ unsure \subseteq unsure' /\ CallsGoOn
  <2>1. Busy(c) /\ call[c].seen # "delivered" /\ call[c] \in Call
    BY <1>7 DEF TransferEnds, Busy, HoldersHaveWork, HoldsLock, DeliveryTypeOK
  <2>2. CallsGoOn
    BY <1>7, <2>1 DEF TransferEnds, CallsGoOn, DeliveryTypeOK, Call
  <2>3. QED
    BY <1>7, <2>2 DEF TransferEnds
<1>8. ASSUME NEW c \in Caller, Record(c)
      PROVE  DeliveredStays /\ DeliveredByCall /\ CallsGoOn
             /\ UNCHANGED <<contended, unsure>>
  <2>1. call[c].res \in Resource /\ Busy(c) /\ HoldsLock(c)
    BY <1>8, BusyHasRow DEF Record, Busy, HoldsLock
  <2>2. call'[c] = NoCall /\ CallsGoOn
    BY <1>8, CallReturnsEffect DEF Record
  <2>3. rows' = UpdateResourceDeliveryStatus(call[c].res, call[c].verdict)
    BY <1>8 DEF Record
  <2>4. rows[call[c].res].status = "delivered" => call[c].res \in contended
    BY <2>1 DEF HoldersHaveWork, OpenRowsAreOpen
  <2>5. call[c].verdict = "accepted" => Delivers(c)
    BY <1>8 DEF Record, Delivers
  <2>6. DeliveredStays /\ DeliveredByCall
    BY <2>1, <2>2, <2>3, <2>4, <2>5, OneRowEffect, StatementsEffect
  <2>7. QED
    BY <1>8, <2>2, <2>6 DEF Record
<1>9. ASSUME NEW c \in Caller, RecordRaises(c)
      PROVE  DeliveredStays /\ DeliveredByCall /\ CallsGoOn
             /\ contended' = contended /\ unsure \subseteq unsure'
  <2>1. call[c].res \in Resource
    BY <1>9, BusyHasRow DEF RecordRaises
  <2>2. CallsGoOn
    BY <1>9, CallReturnsEffect DEF RecordRaises
  <2>3. UNCHANGED rows \/ rows' = MarkResourceFailedIfPending(call[c].res)
    BY <1>9 DEF RecordRaises
  <2>4. DeliveredStays /\ DeliveredByCall
    BY <2>1, <2>3, SameRowsEffect, OneRowEffect, StatementsEffect
  <2>5. QED
    BY <1>9, <2>2, <2>4 DEF RecordRaises
<1>10. ASSUME \/ \E c \in Caller : SearchTimesOut(c)
              \/ ProcessEnds
       PROVE  UNCHANGED <<rows, contended>> /\ unsure \subseteq unsure' /\ CallsGoOn
  <2>1. PICK cs \in SUBSET Caller : CutOff(cs)
    BY <1>10 DEF SearchTimesOut, ProcessEnds
  <2>2. CallsGoOn /\ unsure \subseteq unsure'
    BY <2>1, CutOffEffect DEF CallsGoOn
  <2>3. QED
    BY <1>10, <2>2 DEF SearchTimesOut, ProcessEnds
<1>11. ASSUME Tick \/ \E s \in Subscription : RetryStuckPending(s)
       PROVE  DeliveredStays /\ DeliveredByCall /\ CallsGoOn
              /\ UNCHANGED <<contended, unsure>>
  BY <1>11, SweepsEffect, SameCallsEffect DEF Tick, RetryStuckPending
<1>12. QED
  BY <1>1, <1>2, <1>3, <1>4, <1>5, <1>6, <1>7, <1>8, <1>9, <1>10, <1>11,
     SameRowsEffect, SameCallsEffect DEF DeliveryNext, Deliver

----------------------------------------------------------------------------
(* A delivered row stays delivered *)

\* Every step keeps what calls know of their rows.
LEMMA FinalInvStep ==
    ASSUME DeliveryTypeOK, FinalInv, [DeliveryNext]_deliveryVars
    PROVE  FinalInv'
<1> USE DEF FinalInv
<1>1. ASSUME NEW c \in Caller, NEW r \in todo[c], Load(c, r)
      PROVE  FinalInv'
  <2>1. /\ call'[c] = [stage |-> "waiting", res |-> r, seen |-> rows[r].status,
                       verdict |-> "none"]
        /\ \A d \in Caller \ {c} : call'[d] = call[d]
        /\ UNCHANGED rows
        /\ contended \subseteq contended'
        /\ \A d \in Caller \ {c} : call[d].res = r => r \in contended'
    BY <1>1 DEF Load, DeliveryTypeOK
  <2>2. SharersContend'
    <3> SUFFICES ASSUME NEW d \in Caller, NEW e \in Caller, d # e,
                        Busy(d)', call'[d].res = call'[e].res
                 PROVE  call'[d].res \in contended'
      BY DEF SharersContend
    <3>1. CASE d = c \/ e = c
      BY <2>1, <3>1
    <3>2. CASE d # c /\ e # c
      BY <2>1, <3>2 DEF SharersContend, Busy
    <3>3. QED
      BY <3>1, <3>2
  <2>3. HoldersHaveWork'
    BY <2>1 DEF HoldersHaveWork, HoldsLock
  <2>4. OpenRowsAreOpen'
    BY <2>1 DEF OpenRowsAreOpen, Busy
  <2>5. QED
    BY <2>2, <2>3, <2>4
<1>2. CASE CallsGoOn
  <2>1. contended \subseteq contended' /\ DeliveredByCall
    BY StepEffect
  <2>2. \A c \in Caller :
          Busy(c)' => /\ Busy(c)
                      /\ call'[c].res = call[c].res /\ call'[c].seen = call[c].seen
                      /\ call'[c] = call[c] \/ call[c].seen # "delivered"
    BY <1>2, NoCallType DEF CallsGoOn, Busy
  <2>3. SharersContend'
    <3> SUFFICES ASSUME NEW d \in Caller, NEW e \in Caller, d # e,
                        Busy(d)', call'[d].res = call'[e].res
                 PROVE  call'[d].res \in contended'
      BY DEF SharersContend
    <3>1. call'[e].res # NoResource
      BY <2>2 DEF DeliveryTypeOK
    <3>2. call'[e] # NoCall
      BY <3>1, NoCallType
    <3>3. call'[e].res = call[e].res
      BY <1>2, <3>2 DEF CallsGoOn
    <3>4. QED
      BY <2>1, <2>2, <3>3 DEF SharersContend
  <2>4. HoldersHaveWork'
    BY <2>2, NoCallType DEF HoldersHaveWork, HoldsLock, Busy
  <2>5. OpenRowsAreOpen'
    <3> SUFFICES ASSUME NEW d \in Caller, Busy(d)', call'[d].seen # "delivered",
                        call'[d].res \notin contended',
                        rows'[call'[d].res].status = "delivered"
                 PROVE  FALSE
      BY DEF OpenRowsAreOpen
    <3>1. /\ call[d].res \in Resource /\ call[d].res = call'[d].res
          /\ rows[call[d].res].status # "delivered"
      BY <2>1, <2>2, BusyHasRow DEF OpenRowsAreOpen, Busy
    <3>2. PICK e \in Caller : call[e].res = call[d].res /\ call'[e] = NoCall
      BY <2>1, <3>1 DEF DeliveredByCall
    <3>3. e # d
      BY <3>2, NoCallType DEF Busy
    <3>4. call[d].res \in contended
      BY <2>2, <3>2, <3>3 DEF SharersContend
    <3>5. QED
      BY <2>1, <3>1, <3>4
  <2>6. QED
    BY <2>3, <2>4, <2>5
<1>3. QED
  BY <1>1, <1>2, StepEffect

\* It holds at first, when nobody delivers.
LEMMA FinalInvInit == DeliveryInit => FinalInv
BY DEF DeliveryInit, FinalInv, SharersContend, HoldersHaveWork, OpenRowsAreOpen,
       Busy, HoldsLock, NoCall

\* What a row's only call has seen before the lock is still so when it writes.
THEOREM CallsKnowTheirRows == DeliverySpec => []FinalInv
<1>1. DeliveryTypeOK /\ FinalInv /\ [DeliveryNext]_deliveryVars => FinalInv'
  BY FinalInvStep
<1>2. QED
  BY <1>1, FinalInvInit, DeliveryTypeCorrect, PTL DEF DeliverySpec

\* No late failure, sweep of stuck rows or skip takes a verdict "delivered"
\* back while one call at a time holds the row, however often callers retry.
THEOREM DeliveredStaysFinal == DeliverySpec => DeliveredIsFinal
<1>1. DeliveryTypeOK /\ FinalInv /\ [DeliveryNext]_deliveryVars
        => [\A r \in Resource :
              rows[r].status = "delivered" /\ r \notin contended
                 => rows'[r].status = "delivered"]_rows
  BY StepEffect DEF FinalInv, DeliveredStays
<1>2. QED
  BY <1>1, CallsKnowTheirRows, DeliveryTypeCorrect, PTL DEF DeliverySpec, DeliveredIsFinal

----------------------------------------------------------------------------
(* A delivered row's link was accepted *)

\* No acceptance is ever forgotten by the remote.
LEMMA ForwardedGrows ==
    ASSUME DeliveryTypeOK, [DeliveryNext]_deliveryVars
    PROVE  \A l \in Link : forwarded[l] \in 0..2 /\ forwarded'[l] \in 0..2
                           /\ forwarded'[l] >= forwarded[l]
<1>1. \A l \in Link : forwarded[l] \in 0..2
  BY DEF DeliveryTypeOK
<1>2. ASSUME NEW c \in Caller, TransferEnds(c)
      PROVE  \A l \in Link : forwarded'[l] \in 0..2 /\ forwarded'[l] >= forwarded[l]
  <2>1. forwarded' \in {forwarded, Forward(LinkHeld(c))}
    BY <1>2 DEF TransferEnds
  <2>2. QED
    BY <1>1, <2>1 DEF Forward, DeliveryTypeOK
<1>3. ASSUME NEW cs \in SUBSET Caller, CutOff(cs)
      PROVE  \A l \in Link : forwarded'[l] \in 0..2 /\ forwarded'[l] >= forwarded[l]
  BY <1>3, CutOffEffect
<1>4. \/ \E c \in Caller : TransferEnds(c)
      \/ \E cs \in SUBSET Caller : CutOff(cs)
      \/ UNCHANGED forwarded
  BY DEF DeliveryNext, Deliver, AttachResources, RequestDelivery, SelectRetryable,
         Load, Enter, CheckDuplicate, MarkDuplicate, Record, RecordRaises,
         SearchTimesOut, ListStuckPending, RetryStuckPending, ProcessEnds, Tick,
         deliveryVars
<1>5. QED
  BY <1>1, <1>2, <1>3, <1>4

\* How a call comes to know that the remote has accepted.
LEMMA NewWriters ==
    ASSUME DeliveryTypeOK, [DeliveryNext]_deliveryVars,
           NEW c \in Caller, Delivers(c)'
    PROVE  \/ Delivers(c) /\ call'[c] = call[c]
           \/ /\ call'[c].res = call[c].res /\ call[c].stage = "checking"
              /\ CheckDuplicate(c) /\ ExistingEffectiveDelivery(call[c].res)
           \/ /\ call'[c].res = call[c].res /\ TransferEnds(c)
              /\ call'[c].verdict = "accepted" /\ forwarded' = Forward(LinkHeld(c))
<1>0. call[c] \in Call /\ call'[c].stage \notin {"idle", "waiting", "checking", "sending"}
  BY DEF Delivers, DeliveryTypeOK
<1>1. ASSUME NEW d \in Caller, \/ CallReturns(d)
                               \/ At(d, "checking")
                               \/ \E r \in todo[d] : Load(d, r)
      PROVE  call'[c] = call[c]
  BY <1>0, <1>1, NoCallType DEF CallReturns, At, Load, DeliveryTypeOK, Call
<1>2. ASSUME NEW d \in Caller, CheckDuplicate(d)
      PROVE  \/ call'[c] = call[c]
             \/ /\ d = c /\ call'[c].res = call[c].res /\ call[c].stage = "checking"
                /\ ExistingEffectiveDelivery(call[c].res)
  BY <1>0, <1>2 DEF CheckDuplicate, At, DeliveryTypeOK, Call
<1>3. ASSUME NEW d \in Caller, TransferEnds(d)
      PROVE  \/ call'[c] = call[c]
             \/ /\ d = c /\ call'[c].res = call[c].res
                /\ call'[c].verdict = "accepted" /\ forwarded' = Forward(LinkHeld(c))
  <2>1. PICK v \in Verdicts :
          /\ call' = [call EXCEPT ![d].stage = "recording", ![d].verdict = v]
          /\ forwarded' = IF v \in {"accepted", "late_accepted"}
                          THEN Forward(LinkHeld(d)) ELSE forwarded
    BY <1>3 DEF TransferEnds
  <2>2. CASE d # c
    BY <2>1, <2>2 DEF DeliveryTypeOK
  <2>3. CASE d = c
    <3>1. /\ call'[c].res = call[c].res /\ call'[c].verdict = v
          /\ call'[c].stage = "recording"
      BY <1>0, <2>1, <2>3 DEF DeliveryTypeOK, Call
    <3>2. v = "accepted"
      BY <3>1 DEF Delivers
    <3>3. QED
      BY <2>1, <2>3, <3>1, <3>2
  <2>4. QED
    BY <2>2, <2>3
<1>4. ASSUME NEW cs \in SUBSET Caller, CutOff(cs)
      PROVE  call'[c] = call[c]
  BY <1>0, <1>4, CutOffEffect, NoCallType
<1>5. call'[c] = call[c] => Delivers(c)
  BY DEF Delivers
<1>6. \/ UNCHANGED call
      \/ \E d \in Caller : \/ CallReturns(d) \/ At(d, "checking")
                           \/ \E r \in todo[d] : Load(d, r)
                           \/ CheckDuplicate(d) \/ TransferEnds(d)
      \/ \E cs \in SUBSET Caller : CutOff(cs)
  BY DEF DeliveryNext, Deliver, AttachResources, RequestDelivery, SelectRetryable,
         Enter, MarkDuplicate, Record, RecordRaises, SearchTimesOut,
         ListStuckPending, RetryStuckPending, ProcessEnds, Tick, deliveryVars
<1>7. QED
  BY <1>1, <1>2, <1>3, <1>4, <1>5, <1>6

\* Every step that makes a row, or a call, say delivered follows an acceptance.
LEMMA ForwardedInvStep ==
    ASSUME DeliveryTypeOK, FinalInv, DeliveredWasForwarded, WritersWereForwarded,
           [DeliveryNext]_deliveryVars
    PROVE  DeliveredWasForwarded' /\ WritersWereForwarded'
<1>1. ASSUME NEW r \in Resource, rows'[r].status = "delivered"
      PROVE  forwarded'[LinkOf[r]] > 0
  <2>1. LinkOf[r] \in Link
    BY DeliveryAssumption
  <2>2. forwarded[LinkOf[r]] > 0
    <3>1. CASE rows[r].status = "delivered"
      BY <3>1 DEF DeliveredWasForwarded
    <3>2. CASE rows[r].status # "delivered"
      <4>1. PICK c \in Caller : call[c].res = r /\ Delivers(c)
        BY <1>1, <3>2, StepEffect DEF FinalInv, DeliveredByCall
      <4>2. QED
        BY <4>1 DEF Delivers, WritersWereForwarded, LinkHeld
    <3>3. QED
      BY <3>1, <3>2
  <2>3. QED
    BY <2>1, <2>2, ForwardedGrows
<1>2. ASSUME NEW c \in Caller, Delivers(c)'
      PROVE  forwarded'[LinkHeld(c)'] > 0
  <2>1. LinkHeld(c) \in Link \/ call[c].stage = "idle"
    BY BusyHasRow
  <2>2. CASE Delivers(c) /\ call'[c] = call[c]
    <3>1. LinkHeld(c)' = LinkHeld(c) /\ forwarded[LinkHeld(c)] > 0
      BY <2>2 DEF LinkHeld, Delivers, WritersWereForwarded
    <3>2. QED
      BY <2>1, <2>2, <3>1, ForwardedGrows DEF Delivers
  <2>3. CASE /\ call'[c].res = call[c].res /\ call[c].stage = "checking"
             /\ ExistingEffectiveDelivery(call[c].res)
    <3>1. forwarded[LinkHeld(c)] > 0 /\ LinkHeld(c)' = LinkHeld(c)
      BY <2>3 DEF ExistingEffectiveDelivery, DeliveredWasForwarded, LinkHeld
    <3>2. QED
      BY <2>1, <2>3, <3>1, ForwardedGrows
  <2>4. CASE /\ call'[c].res = call[c].res /\ TransferEnds(c)
             /\ forwarded' = Forward(LinkHeld(c))
    <3>1. LinkHeld(c)' = LinkHeld(c) /\ LinkHeld(c) \in Link
      BY <2>1, <2>4 DEF LinkHeld, TransferEnds
    <3>2. QED
      BY <2>4, <3>1, ForwardType DEF DeliveryTypeOK
  <2>5. QED
    BY <1>2, <2>2, <2>3, <2>4, NewWriters
<1>3. QED
  BY <1>1, <1>2 DEF DeliveredWasForwarded, WritersWereForwarded, Delivers

\* At first nothing is delivered.
LEMMA ForwardedInvInit == DeliveryInit => DeliveredWasForwarded /\ WritersWereForwarded
BY DEF DeliveryInit, DeliveredWasForwarded, WritersWereForwarded, NoRow, NoCall

\* Rows and calls that say delivered have an acceptance behind them.
LEMMA WritersKnow == DeliverySpec => [](DeliveredWasForwarded /\ WritersWereForwarded)
<1>1. DeliveryTypeOK /\ FinalInv /\ DeliveredWasForwarded /\ WritersWereForwarded
        /\ [DeliveryNext]_deliveryVars
        => (DeliveredWasForwarded /\ WritersWereForwarded)'
  BY ForwardedInvStep
<1>2. QED
  BY <1>1, ForwardedInvInit, CallsKnowTheirRows, DeliveryTypeCorrect, PTL DEF DeliverySpec

\* A row says delivered only when the remote has accepted its link: for the
\* row itself, or for another one that the duplicate check has found.
THEOREM DeliveredMeansAccepted == DeliverySpec => []DeliveredWasForwarded
BY WritersKnow, PTL

----------------------------------------------------------------------------
(* No link is accepted twice, as long as it is clear *)

\* What the remote accepts, unless a call lost the answer, a call goes on to
\* record.
LEMMA WhoForwards ==
    ASSUME DeliveryTypeOK, [DeliveryNext]_deliveryVars, NEW l \in Link,
           l \notin unsure', forwarded'[l] # forwarded[l]
    PROVE  \E c \in Caller : /\ call[c].stage = "sending" /\ LinkHeld(c) = l
                             /\ forwarded' = Forward(l)
                             /\ call'[c].stage = "recording"
                             /\ call'[c].verdict = "accepted"
                             /\ call'[c].res = call[c].res
<1>1. ASSUME NEW cs \in SUBSET Caller, CutOff(cs) PROVE FALSE
  BY <1>1, CutOffEffect
<1>2. PICK c \in Caller : TransferEnds(c)
  BY <1>1 DEF DeliveryNext, Deliver, AttachResources, RequestDelivery, SelectRetryable,
         Load, Enter, CheckDuplicate, MarkDuplicate, Record, RecordRaises,
         SearchTimesOut, ListStuckPending, RetryStuckPending, ProcessEnds, Tick,
         deliveryVars
<1>3. PICK v \in Verdicts :
        /\ call' = [call EXCEPT ![c].stage = "recording", ![c].verdict = v]
        /\ forwarded' = IF v \in {"accepted", "late_accepted"}
                        THEN Forward(LinkHeld(c)) ELSE forwarded
        /\ unsure' = IF v = "late_accepted"
                     THEN unsure \cup {LinkHeld(c)} ELSE unsure
  BY <1>2 DEF TransferEnds
<1>4. forwarded' = Forward(LinkHeld(c)) /\ LinkHeld(c) = l
  BY <1>3 DEF Forward, DeliveryTypeOK
<1>5. v = "accepted"
  BY <1>3, <1>4
<1>6. /\ call'[c].stage = "recording" /\ call'[c].verdict = "accepted"
      /\ call'[c].res = call[c].res
  BY <1>3, <1>5 DEF DeliveryTypeOK, Call
<1>7. QED
  BY <1>2, <1>4, <1>6 DEF TransferEnds

\* How a call comes to hold a lock: it is let in while the others stay.
LEMMA NewHolders ==
    ASSUME DeliveryTypeOK, HoldersHaveWork, OpenRowsAreOpen,
           [DeliveryNext]_deliveryVars, NEW c \in Caller, HoldsLock(c)'
    PROVE  /\ call'[c].res = call[c].res
           /\ HoldsLock(c) \/ (Enter(c) /\ \A d \in Caller \ {c} : call'[d] = call[d])
<1>1. ASSUME NEW d \in Caller, NEW r \in todo[d], Load(d, r)
      PROVE  call'[c] = call[c]
  BY <1>1 DEF Load, HoldsLock, DeliveryTypeOK
<1>2. call'[c].res = call[c].res
  BY <1>1, StepEffect, NoCallType DEF CallsGoOn, HoldsLock
<1>3. CASE call'[c] = call[c]
  BY <1>2, <1>3 DEF HoldsLock
<1>4. CASE call'[c] # call[c]
  <2>1. ASSUME NEW cs \in SUBSET Caller, CutOff(cs) PROVE FALSE
    BY <1>4, <2>1, CutOffEffect, NoCallType DEF HoldsLock
  <2>2. ASSUME NEW d \in Caller, CallReturns(d) PROVE FALSE
    BY <1>4, <2>2, CallReturnsEffect, NoCallType DEF HoldsLock
  <2>3. ASSUME NEW d \in Caller, CheckDuplicate(d) \/ TransferEnds(d)
        PROVE  d = c /\ HoldsLock(c)
    BY <1>4, <2>3 DEF CheckDuplicate, TransferEnds, At, HoldsLock, DeliveryTypeOK
  <2>4. ASSUME NEW d \in Caller, Enter(d)
        PROVE  d = c /\ Enter(c) /\ \A e \in Caller \ {c} : call'[e] = call[e]
    BY <1>4, <2>2, <2>4 DEF Enter, At, DeliveryTypeOK
  <2>5. QED
    BY <1>1, <1>2, <1>4, <2>1, <2>2, <2>3, <2>4
    DEF DeliveryNext, Deliver, AttachResources, RequestDelivery, SelectRetryable,
        MarkDuplicate, Record, RecordRaises, SearchTimesOut, ListStuckPending,
        RetryStuckPending, ProcessEnds, Tick, deliveryVars
<1>5. QED
  BY <1>3, <1>4

\* Two calls hold the locks of one link only across loops, which is noted.
LEMMA LinkSharersStep ==
    ASSUME DeliveryTypeOK, FinalInv, LinkSharersUnsure, [DeliveryNext]_deliveryVars
    PROVE  LinkSharersUnsure'
<1> SUFFICES ASSUME NEW c \in Caller, NEW d \in Caller, c # d,
                    HoldsLock(c)', HoldsLock(d)', LinkHeld(c)' = LinkHeld(d)'
             PROVE  LinkHeld(c)' \in unsure'
  BY DEF LinkSharersUnsure
<1>1. LinkHeld(c)' = LinkHeld(c) /\ LinkHeld(d)' = LinkHeld(d)
  BY NewHolders DEF LinkHeld, FinalInv
<1>2. ASSUME NEW e \in Caller, NEW f \in Caller, e # f, Enter(e),
             HoldsLock(f), LinkHeld(e) = LinkHeld(f)
      PROVE  LinkHeld(e) \in unsure'
  BY <1>2 DEF Enter, LockFree
<1>3. CASE HoldsLock(c) /\ HoldsLock(d)
  BY <1>1, <1>3, StepEffect DEF LinkSharersUnsure, FinalInv
<1>4. CASE Enter(c) /\ HoldsLock(d)
  BY <1>1, <1>2, <1>4
<1>5. CASE Enter(d) /\ HoldsLock(c)
  BY <1>1, <1>2, <1>5
<1>6. CASE Enter(c) /\ Enter(d) /\ call'[d] = call[d]
  BY <1>6 DEF Enter, HoldsLock
<1>7. QED
  BY <1>3, <1>4, <1>5, <1>6, NewHolders DEF FinalInv

\* An acceptance that a call is about to record ends in the table, or leaves
\* the link unsure.
LEMMA RecordersEnd ==
    ASSUME DeliveryTypeOK, HoldersHaveWork, [DeliveryNext]_deliveryVars, NEW c \in Caller,
           call[c].stage = "recording", call[c].verdict = "accepted"
    PROVE  \/ call'[c] = call[c]
           \/ rows'[call[c].res].status = "delivered"
           \/ LinkHeld(c) \in unsure'
<1>1. ASSUME NEW d \in Caller,
             \/ \E r \in todo[d] : Load(d, r)
             \/ Enter(d) \/ CheckDuplicate(d) \/ MarkDuplicate(d) \/ TransferEnds(d)
      PROVE  call'[c] = call[c]
  BY <1>1 DEF Load, Busy, Enter, CheckDuplicate, MarkDuplicate, TransferEnds, At,
              CallReturns, DeliveryTypeOK
<1>2. ASSUME NEW d \in Caller, Record(d)
      PROVE  call'[c] = call[c] \/ rows'[call[c].res].status = "delivered"
  BY <1>2, BusyHasRow, CallReturnsEffect, StatementsEffect DEF Record
<1>3. ASSUME NEW d \in Caller, RecordRaises(d)
      PROVE  call'[c] = call[c] \/ LinkHeld(c) \in unsure'
  BY <1>3, CallReturnsEffect DEF RecordRaises
<1>4. ASSUME NEW cs \in SUBSET Caller, CutOff(cs)
      PROVE  call'[c] = call[c] \/ LinkHeld(c) \in unsure'
  BY <1>4, CutOffEffect
<1>5. \/ \E d \in Caller : Deliver(d) \/ RecordRaises(d)
      \/ \E cs \in SUBSET Caller : CutOff(cs)
      \/ UNCHANGED call
  BY DEF DeliveryNext, AttachResources, RequestDelivery, SelectRetryable,
         SearchTimesOut, ListStuckPending, RetryStuckPending, ProcessEnds, Tick,
         deliveryVars
<1>6. QED
  BY <1>1, <1>2, <1>3, <1>4, <1>5 DEF Deliver

\* Doubts about a link are never cleared up: one that is clear always was.
LEMMA ClearBefore ==
    ASSUME DeliveryTypeOK, FinalInv, [DeliveryNext]_deliveryVars,
           NEW l \in Link, Clear(l)'
    PROVE  Clear(l) /\ l \notin unsure'
BY StepEffect DEF Clear, FinalInv

\* An acceptance of a clear link stays with a call or with the table.
LEMMA AcceptanceStep ==
    ASSUME DeliveryTypeOK, FinalInv, AcceptanceIsKnown, [DeliveryNext]_deliveryVars
    PROVE  AcceptanceIsKnown'
<1> SUFFICES ASSUME NEW l \in Link, Clear(l)', forwarded'[l] > 0
             PROVE  Recorded(l)' \/ BeingRecorded(l)'
  BY DEF AcceptanceIsKnown
<1>1. Clear(l) /\ l \notin unsure'
  BY ClearBefore
<1>2. CASE forwarded'[l] # forwarded[l]
  <2>1. PICK c \in Caller : /\ LinkHeld(c) = l /\ call'[c].stage = "recording"
                            /\ call'[c].verdict = "accepted"
                            /\ call'[c].res = call[c].res
    BY <1>1, <1>2, WhoForwards
  <2>2. QED
    BY <2>1 DEF BeingRecorded, LinkHeld
<1>3. CASE forwarded'[l] = forwarded[l]
  <2>1. Recorded(l) \/ BeingRecorded(l)
    BY <1>1, <1>3 DEF AcceptanceIsKnown
  <2>2. CASE Recorded(l)
    BY <1>1, <2>2, StepEffect DEF Recorded, Clear, FinalInv, DeliveredStays
  <2>3. CASE BeingRecorded(l)
    <3>1. PICK c \in Caller : /\ call[c].stage = "recording"
                              /\ call[c].verdict = "accepted" /\ LinkHeld(c) = l
      BY <2>3 DEF BeingRecorded
    <3>2. CASE call'[c] = call[c]
      BY <3>1, <3>2 DEF BeingRecorded, LinkHeld
    <3>3. CASE rows'[call[c].res].status = "delivered"
      BY <3>1, <3>3, BusyHasRow DEF Recorded, LinkHeld
    <3>4. QED
      BY <1>1, <3>1, <3>2, <3>3, RecordersEnd DEF FinalInv
  <2>4. QED
    BY <2>1, <2>2, <2>3
<1>4. QED
  BY <1>2, <1>3

\* How a call comes to send.
LEMMA NewSenders ==
    ASSUME DeliveryTypeOK, [DeliveryNext]_deliveryVars,
           NEW c \in Caller, call'[c].stage = "sending"
    PROVE  \/ call'[c] = call[c]
           \/ /\ call[c].stage = "checking" /\ call'[c].res = call[c].res
              /\ ~ExistingEffectiveDelivery(call[c].res)
              /\ UNCHANGED forwarded
<1>1. ASSUME NEW d \in Caller, \/ \E r \in todo[d] : Load(d, r)
                               \/ TransferEnds(d) \/ At(d, "checking")
                               \/ CallReturns(d)
      PROVE  call'[c] = call[c]
  BY <1>1, NoCallType DEF Load, TransferEnds, At, CallReturns, DeliveryTypeOK, Call
<1>2. ASSUME NEW d \in Caller, CheckDuplicate(d)
      PROVE  \/ call'[c] = call[c]
             \/ /\ call[c].stage = "checking" /\ call'[c].res = call[c].res
                /\ ~ExistingEffectiveDelivery(call[c].res)
                /\ UNCHANGED forwarded
  BY <1>2 DEF CheckDuplicate, At, DeliveryTypeOK, Call
<1>3. ASSUME NEW cs \in SUBSET Caller, CutOff(cs)
      PROVE  call'[c] = call[c]
  BY <1>3, CutOffEffect, NoCallType
<1>4. QED
  BY <1>1, <1>2, <1>3
  DEF DeliveryNext, Deliver, AttachResources, RequestDelivery, SelectRetryable,
      Enter, MarkDuplicate, Record, RecordRaises, SearchTimesOut, ListStuckPending,
      RetryStuckPending, ProcessEnds, Tick, deliveryVars

\* Who sends a clear link has asked the table, or it was not accepted yet.
LEMMA SendingStep ==
    ASSUME DeliveryTypeOK, FinalInv, OnceInv, [DeliveryNext]_deliveryVars
    PROVE  SendingIsNew'
<1> SUFFICES ASSUME NEW c \in Caller, call'[c].stage = "sending", Clear(LinkHeld(c))',
                    forwarded'[LinkHeld(c)'] # 0
             PROVE  FALSE
  BY DEF SendingIsNew
<1> DEFINE l == LinkHeld(c)
<1>1. /\ call'[c].res = call[c].res /\ call[c].stage \in {"checking", "sending"}
      /\ HoldsLock(c) /\ Busy(c)
  BY NewSenders DEF HoldsLock, Busy
<1>2. l \in Link /\ l = LinkHeld(c)' /\ call[c].res \in Resource
  BY <1>1, BusyHasRow DEF Busy, LinkHeld
<1>3. Clear(l) /\ l \notin unsure' /\ l \notin unsure
  <2>1. Clear(l)'
    BY <1>2 DEF Clear
  <2>2. QED
    BY <1>2, <2>1, ClearBefore DEF Clear
<1>4. CASE call'[c] = call[c]
  <2>1. forwarded[l] = 0
    BY <1>3, <1>4 DEF OnceInv, SendingIsNew
  <2>2. PICK d \in Caller : /\ call[d].stage = "sending" /\ LinkHeld(d) = l
                            /\ call'[d].stage = "recording"
    BY <1>2, <1>3, <2>1, WhoForwards
  <2>3. d # c /\ HoldsLock(d)
    BY <2>2 DEF HoldsLock
  <2>4. QED
    BY <1>1, <1>3, <2>2, <2>3 DEF OnceInv, LinkSharersUnsure
<1>5. CASE /\ call[c].stage = "checking" /\ UNCHANGED forwarded
           /\ ~ExistingEffectiveDelivery(call[c].res)
  <2>1. forwarded[l] > 0
    BY <1>2, <1>5, ForwardedGrows
  <2>2. Recorded(l) \/ BeingRecorded(l)
    BY <1>2, <1>3, <2>1 DEF OnceInv, AcceptanceIsKnown
  <2>3. CASE Recorded(l)
    <3>1. PICK r \in Resource : LinkOf[r] = l /\ rows[r].status = "delivered"
      BY <2>3 DEF Recorded
    <3>2. r = call[c].res
      BY <1>5, <3>1 DEF ExistingEffectiveDelivery, LinkHeld
    <3>3. QED
      BY <1>1, <1>3, <3>1, <3>2 DEF FinalInv, HoldersHaveWork, OpenRowsAreOpen, Clear
  <2>4. CASE BeingRecorded(l)
    <3>1. PICK d \in Caller : call[d].stage = "recording" /\ LinkHeld(d) = l
      BY <2>4 DEF BeingRecorded
    <3>2. d # c /\ HoldsLock(d)
      BY <1>5, <3>1 DEF HoldsLock
    <3>3. QED
      BY <1>1, <1>3, <3>1, <3>2 DEF OnceInv, LinkSharersUnsure
  <2>5. QED
    BY <2>2, <2>3, <2>4
<1>6. QED
  BY <1>4, <1>5, NewSenders

\* No step forwards a clear link a second time.
LEMMA OnceStep ==
    ASSUME DeliveryTypeOK, FinalInv, OnceInv, ForwardedOnce,
           [DeliveryNext]_deliveryVars
    PROVE  ForwardedOnce'
<1> SUFFICES ASSUME NEW l \in Link, forwarded'[l] > 1, Clear(l)'
             PROVE  FALSE
  BY DEF ForwardedOnce, Clear, DeliveryTypeOK
<1>1. Clear(l) /\ l \notin unsure'
  BY ClearBefore
<1>2. ~(forwarded[l] > 1)
  BY <1>1 DEF ForwardedOnce, Clear
<1>3. PICK c \in Caller : /\ call[c].stage = "sending" /\ LinkHeld(c) = l
                          /\ forwarded' = Forward(l)
  BY <1>1, <1>2, WhoForwards
<1>4. forwarded[l] = 0
  BY <1>1, <1>3 DEF OnceInv, SendingIsNew
<1>5. forwarded'[l] = 1
  BY <1>3, <1>4, ForwardType DEF DeliveryTypeOK
<1>6. QED
  BY <1>5

\* At first nothing was forwarded.
LEMMA OnceInit == DeliveryInit => OnceInv /\ ForwardedOnce
BY DEF DeliveryInit, OnceInv, LinkSharersUnsure, AcceptanceIsKnown, SendingIsNew,
       ForwardedOnce, HoldsLock, NoCall

\* All invariants of this module, together.
LEMMA DeliveryInvHolds == DeliverySpec => []DeliveryInv
<1>1. DeliveryTypeOK /\ FinalInv /\ OnceInv /\ ForwardedOnce /\ [DeliveryNext]_deliveryVars
        => (OnceInv /\ ForwardedOnce)'
  BY LinkSharersStep, AcceptanceStep, SendingStep, OnceStep DEF OnceInv
<1>2. DeliverySpec => [](OnceInv /\ ForwardedOnce)
  BY <1>1, OnceInit, CallsKnowTheirRows, DeliveryTypeCorrect, PTL DEF DeliverySpec
<1>3. QED
  BY <1>2, DeliveryTypeCorrect, CallsKnowTheirRows, WritersKnow, PTL DEF DeliveryInv

\* However many callers, loops, retries, timeouts and crashes there are: the
\* remote accepts a link once, unless two calls held one of its rows at once,
\* two loops held its locks at once, or an acceptance never reached the table.
THEOREM LinksAreForwardedOnce == DeliverySpec => []ForwardedOnce
BY DeliveryInvHolds, PTL DEF DeliveryInv

----------------------------------------------------------------------------
(* Deliveries implement ResourceLife *)

\* What a caller holds, or has yet to deliver, is a row of the table.
RowsExist ==
    \A c \in Caller :
        /\ Busy(c) => rows[call[c].res].status # "absent"
        /\ \A r \in todo[c] : rows[r].status # "absent"

\* The statements move rows along the moves of ResourceLife.
Moved(new) ==
    \A r \in Resource :
        \/ new[r].status = rows[r].status
        \/ <<rows[r].status, new[r].status>> \in Life!Moves

\* The statements of a call, which have a row that exists.
LEMMA StatementsMove ==
    ASSUME DeliveryTypeOK, NEW r \in Resource, rows[r].status # "absent",
           NEW verdict \in Verdict \cup {"none"}
    PROVE  /\ Moved(rows)
           /\ Moved(MarkResourceDuplicateDelivered(r))
           /\ Moved(MarkUnneededResourceSkipped(r))
           /\ Moved(MarkResourceFailedIfPending(r))
           /\ Moved(UpdateResourceDeliveryStatus(r, verdict))
<1> USE DEF Life!Moves, Life!Present, Life!Outcomes
<1>1. rows[r].status \in Life!Present
  BY DEF DeliveryTypeOK, Row, Status
<1>2. Moved(rows)
  BY DEF Moved
<1>3. /\ Moved(MarkResourceDuplicateDelivered(r))
      /\ Moved(MarkUnneededResourceSkipped(r))
      /\ Moved(MarkResourceFailedIfPending(r))
  BY <1>1 DEF Moved, MarkResourceDuplicateDelivered, MarkUnneededResourceSkipped,
              MarkResourceFailedIfPending, Written, DeliveryTypeOK
<1>4. FailedStatus(verdict) \in Life!Outcomes
  BY DEF FailedStatus
<1>5. Moved(UpdateResourceDeliveryStatus(r, verdict))
  <2>1. UpdateResourceDeliveryStatus(r, verdict)[r].status \in Life!Outcomes
    BY <1>4 DEF UpdateResourceDeliveryStatus, DeliveryTypeOK
  <2>2. \A i \in Resource \ {r} : UpdateResourceDeliveryStatus(r, verdict)[i] = rows[i]
    BY StatementsEffect
  <2>3. QED
    BY <1>1, <2>1, <2>2 DEF Moved
<1>6. QED
  BY <1>2, <1>3, <1>5

\* Every step moves rows along the moves of ResourceLife.
LEMMA StepMoves ==
    ASSUME DeliveryTypeOK, RowsExist, [DeliveryNext]_deliveryVars
    PROVE  Moved(rows')
<1>1. CASE UNCHANGED rows
  BY <1>1 DEF Moved
<1>2. ASSUME NEW c, NEW new, AttachResources(c, new)
      PROVE  Moved(rows')
  BY <1>2 DEF AttachResources, Moved, Life!Moves
<1>3. ASSUME NEW c \in Caller,
             Enter(c) \/ MarkDuplicate(c) \/ Record(c) \/ RecordRaises(c)
      PROVE  Moved(rows')
  <2>1. Busy(c)
    BY <1>3 DEF Enter, MarkDuplicate, Record, RecordRaises, Busy
  <2>2. call[c].res \in Resource /\ rows[call[c].res].status # "absent"
    BY <2>1, BusyHasRow DEF Busy, RowsExist
  <2>3. call[c].verdict \in Verdict \cup {"none"}
    BY DEF DeliveryTypeOK, Call
  <2>4. rows' \in {rows, MarkUnneededResourceSkipped(call[c].res),
                   MarkResourceDuplicateDelivered(call[c].res),
                   MarkResourceFailedIfPending(call[c].res),
                   UpdateResourceDeliveryStatus(call[c].res, call[c].verdict)}
    BY <1>3 DEF Enter, MarkDuplicate, Record, RecordRaises
  <2>5. /\ Moved(rows)
        /\ Moved(MarkResourceDuplicateDelivered(call[c].res))
        /\ Moved(MarkUnneededResourceSkipped(call[c].res))
        /\ Moved(MarkResourceFailedIfPending(call[c].res))
        /\ Moved(UpdateResourceDeliveryStatus(call[c].res, call[c].verdict))
    BY <2>2, <2>3, StatementsMove
  <2>6. QED
    BY <2>4, <2>5
<1>4. ASSUME NEW s \in Subscription, RetryStuckPending(s)
      PROVE  Moved(rows')
  BY <1>4 DEF RetryStuckPending, FailStuck, Moved, Life!Moves
<1>5. CASE Tick
  <2>1. \A r \in Resource : rows'[r].status = rows[r].status
    BY <1>5 DEF Tick, DeliveryTypeOK, Row
  <2>2. QED
    BY <2>1 DEF Moved
<1>6. QED
  BY <1>1, <1>2, <1>3, <1>4, <1>5
  DEF DeliveryNext, Deliver, RequestDelivery, SelectRetryable, Load, CheckDuplicate,
      TransferEnds, SearchTimesOut, ListStuckPending, ProcessEnds, deliveryVars

\* Rows are never deleted, and callers take theirs from the table.
LEMMA RowsExistStep ==
    ASSUME DeliveryTypeOK, HoldersHaveWork, OpenRowsAreOpen, RowsExist,
           [DeliveryNext]_deliveryVars
    PROVE  RowsExist'
<1>1. \A r \in Resource : rows[r].status # "absent" => rows'[r].status # "absent"
  BY StepMoves DEF Moved, Life!Moves, Life!Outcomes
<1>2. ASSUME NEW c \in Caller, NEW r \in todo'[c]
      PROVE  rows'[r].status # "absent"
  <2>1. CASE r \in todo[c]
    BY <1>1, <2>1 DEF RowsExist, DeliveryTypeOK
  <2>2. ASSUME NEW d \in Caller, NEW new \in Batches(d), AttachResources(d, new)
        PROVE  r \in todo[c] \/ rows'[r].status = "pending"
    <3>1. new \subseteq Resource
      BY DeliveryAssumption DEF Batches
    <3>2. QED
      BY <1>2, <2>2, <3>1 DEF AttachResources, DeliveryTypeOK
  <2>3. ASSUME NEW d \in Caller, NEW q \in Target[d], RequestDelivery(d, q)
        PROVE  r \in todo[c] \/ rows'[r].status # "absent"
    BY <1>2, <2>3 DEF RequestDelivery, DeliveryTypeOK
  <2>4. ASSUME NEW d \in Caller, SelectRetryable(d)
        PROVE  r \in todo[c] \/ rows'[r].status # "absent"
    BY <1>2, <2>4 DEF SelectRetryable, Due, DeliveryTypeOK
  <2>5. ASSUME NEW d \in Caller,
               (\E q \in todo[d] : Load(d, q)) \/ RecordRaises(d)
        PROVE  r \in todo[c]
    BY <1>2, <2>5 DEF Load, RecordRaises, DeliveryTypeOK
  <2>6. ASSUME NEW cs \in SUBSET Caller, CutOff(cs)
        PROVE  r \in todo[c]
    BY <1>2, <2>6 DEF CutOff, DeliveryTypeOK
  <2>7. UNCHANGED todo => r \in todo[c]
    BY <1>2
  <2>8. QED
    BY <2>1, <2>2, <2>3, <2>4, <2>5, <2>6, <2>7
    DEF DeliveryNext, Deliver, Enter, CheckDuplicate, MarkDuplicate, TransferEnds,
        Record, SearchTimesOut, ListStuckPending, RetryStuckPending, ProcessEnds,
        Tick, deliveryVars
<1>3. ASSUME NEW c \in Caller, Busy(c)'
      PROVE  rows'[call'[c].res].status # "absent"
  <2>1. CASE Busy(c) /\ call'[c].res = call[c].res
    BY <1>1, <2>1, BusyHasRow DEF RowsExist, Busy
  <2>2. CASE CallsGoOn
    BY <1>3, <2>1, <2>2, NoCallType DEF CallsGoOn, Busy
  <2>3. ASSUME NEW d \in Caller, NEW r \in todo[d], Load(d, r)
        PROVE  rows'[call'[c].res].status # "absent"
    <3>1. rows[r].status # "absent" /\ UNCHANGED rows
      BY <2>3 DEF Load, RowsExist
    <3>2. \/ call'[c].res = r
          \/ call'[c] = call[c]
      BY <2>3 DEF Load, DeliveryTypeOK
    <3>3. QED
      BY <1>3, <2>1, <3>1, <3>2 DEF Busy
  <2>4. QED
    BY <2>2, <2>3, StepEffect
<1>4. QED
  BY <1>2, <1>3 DEF RowsExist

\* A link that is not in doubt is accepted once.
LEMMA AcceptedOnceStep ==
    ASSUME DeliveryInv, [DeliveryNext]_deliveryVars, NEW l \in Link,
           l \notin Doubted', forwarded'[l] # forwarded[l]
    PROVE  forwarded[l] = 0 /\ forwarded'[l] = 1
<1> USE DEF DeliveryInv
<1>1. Clear(l)'
  BY DEF Doubted, Clear
<1>2. Clear(l) /\ l \notin unsure'
  BY <1>1, ClearBefore
<1>3. PICK c \in Caller : /\ call[c].stage = "sending" /\ LinkHeld(c) = l
                          /\ forwarded' = Forward(l)
  BY <1>2, WhoForwards
<1>4. forwarded[l] = 0
  BY <1>2, <1>3 DEF OnceInv, SendingIsNew
<1>5. QED
  BY <1>3, <1>4, ForwardType DEF DeliveryTypeOK

\* Every step is a step of ResourceLife.
LEMMA DeliveryImplements ==
    ASSUME DeliveryInv, DeliveryTypeOK', RowsExist, [DeliveryNext]_deliveryVars
    PROVE  Life!Next
<1> USE DEF DeliveryInv
<1>1. \A r \in Resource : rows[r].status \in Status /\ rows'[r].status \in Status
  BY DEF DeliveryTypeOK, Row
<1>2. Life!RowsMove
  <2>1. ASSUME NEW r \in Resource, rows'[r].status = "delivered"
        PROVE  forwarded[LinkOf[r]] > 0
    <3>1. CASE rows[r].status = "delivered"
      BY <3>1 DEF DeliveredWasForwarded
    <3>2. CASE rows[r].status # "delivered"
      <4>1. PICK c \in Caller : call[c].res = r /\ Delivers(c)
        BY <2>1, <3>2, StepEffect DEF FinalInv, DeliveredByCall
      <4>2. QED
        BY <4>1 DEF Delivers, WritersWereForwarded, LinkHeld
    <3>3. QED
      BY <3>1, <3>2
  <2>2. ASSUME NEW r \in Resource, rows[r].status = "delivered", LinkOf[r] \notin Doubted
        PROVE  rows'[r].status = "delivered"
    BY <2>2, StepEffect DEF FinalInv, DeliveredStays, Doubted
  <2>3. QED
    BY <1>1, <2>1, <2>2, StepMoves
    DEF Life!RowsMove, Moved, Status, Life!States, Life!Present, Life!Outcomes
<1>3. Life!LinksAreAccepted
  <2>1. Doubted \subseteq Doubted'
    BY StepEffect DEF Doubted, FinalInv
  <2>2. QED
    BY <2>1, AcceptedOnceStep, ForwardedGrows DEF Life!LinksAreAccepted
<1>4. QED
  BY <1>2, <1>3 DEF Life!Next

\* Every step of a delivery, a retry, a sweep, a timeout or a crash is a step
\* of ResourceLife or changes nothing it knows of.
THEOREM DeliveryImplementsLife == DeliverySpec => LifeKept
<1>1. DeliveryInit => Life!Init
  BY DEF DeliveryInit, Life!Init, NoRow, Doubted
<1>2. DeliveryInit => RowsExist
  BY DEF DeliveryInit, RowsExist, Busy, NoCall
<1>3. DeliveryInv /\ RowsExist /\ [DeliveryNext]_deliveryVars => RowsExist'
  BY RowsExistStep DEF DeliveryInv, FinalInv
<1>4. DeliveryInv /\ DeliveryTypeOK' /\ RowsExist /\ [DeliveryNext]_deliveryVars
        => [Life!Next]_<<[r \in Resource |-> rows[r].status], forwarded, Doubted>>
  BY DeliveryImplements
<1>5. QED
  BY <1>1, <1>2, <1>3, <1>4, DeliveryInvHolds, DeliveryTypeCorrect, PTL
  DEF DeliverySpec, LifeKept, Life!Spec
=============================================================================
