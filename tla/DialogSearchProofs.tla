-------------------------- MODULE DialogSearchProofs --------------------------
(***************************************************************************)
(* The searches of Telegram dialogs, for any number of searches and        *)
(* dialogs, any capacity of the semaphore, any kinds and timeouts, any      *)
(* number of takeovers by other loops.                                     *)
(***************************************************************************)
EXTENDS DialogSearch, FiniteSetTheorems, TLAPS

----------------------------------------------------------------------------
(* Lines of tasks *)

Work == Search \X Dialog

\* Each member of W is in the line once, and nobody else is.
Lists(line, W) ==
    /\ \A j, k \in 1..Len(line) : line[j] = line[k] => j = k
    /\ \A j \in 1..Len(line) : line[j] \in W
    /\ \A w \in W : \E j \in 1..Len(line) : line[j] = w

\* Who is new in the line goes to its end.
LEMMA AppendLists ==
    ASSUME NEW line \in Seq(Work), NEW W \in SUBSET Work, Lists(line, W), NEW w \in Work, w \notin W
    PROVE  /\ Append(line, w) \in Seq(Work)
           /\ Lists(Append(line, w), W \cup {w})
<1> DEFINE longer == Append(line, w)
<1>1. /\ longer \in Seq(Work) /\ Len(longer) = Len(line) + 1 /\ Len(line) \in Nat
      /\ \A j \in 1..Len(line) : longer[j] = line[j]
      /\ longer[Len(line) + 1] = w
  OBVIOUS
<1> HIDE DEF longer
<1>2. \A j \in 1..Len(longer) : j \in 1..Len(line) \/ j = Len(line) + 1
  BY <1>1
<1>3. \A j \in 1..Len(line) : j \in 1..Len(longer)
  BY <1>1
<1>4. Len(line) + 1 \in 1..Len(longer)
  BY <1>1
<1>5. Lists(longer, W \cup {w})
  BY <1>1, <1>2, <1>3, <1>4 DEF Lists
<1>6. QED
  BY <1>1, <1>5 DEF longer

\* The first n of a line, and the others.
LEMMA SplitLists ==
    ASSUME NEW line \in Seq(Work), NEW W \in SUBSET Work, Lists(line, W), NEW n \in 0..Len(line)
    PROVE  LET woken == {line[j] : j \in 1..n}
               rest  == SubSeq(line, n + 1, Len(line))
           IN  /\ woken \subseteq W /\ IsFiniteSet(woken) /\ Cardinality(woken) = n
               /\ rest \in Seq(Work) /\ Lists(rest, W \ woken)
<1> DEFINE woken == {line[j] : j \in 1..n}
           rest  == SubSeq(line, n + 1, Len(line))
           first == [j \in 1..n |-> line[j]]
<1>1. n \in Nat /\ Len(line) \in Nat /\ n <= Len(line)
  OBVIOUS
<1>2. \A j \in 1..n : j \in 1..Len(line)
  BY <1>1
<1>3. woken \subseteq W
  BY <1>2 DEF Lists
<1>4. first \in Bijection(1..n, woken)
  <2>1. first \in [1..n -> woken]
    OBVIOUS
  <2>2. \A j, k \in 1..n : first[j] = first[k] => j = k
    BY <1>2 DEF Lists
  <2>3. \A w \in woken : \E j \in 1..n : first[j] = w
    OBVIOUS
  <2> HIDE DEF first, woken
  <2>4. QED
    BY <2>1, <2>2, <2>3 DEF Bijection, Injection, IsInjective, Surjection
<1>5. IsFiniteSet(woken) /\ Cardinality(woken) = n
  <2> HIDE DEF first, woken
  <2>1. ExistsBijection(1..n, woken)
    BY <1>4 DEF ExistsBijection
  <2>2. IsFiniteSet(1..n)
    BY <1>1, FS_Interval
  <2>3. IsFiniteSet(woken)
    BY <2>1, <2>2, FS_Bijection
  <2>4. Cardinality(woken) = n
    BY <1>1, <2>1, FS_CountingElements
  <2>5. QED
    BY <2>3, <2>4
<1>6. /\ rest \in Seq(Work) /\ Len(rest) = Len(line) - n
      /\ \A j \in 1..Len(rest) : rest[j] = line[n + j] /\ n + j \in 1..Len(line)
  <2> HIDE DEF woken, first
  <2>1. rest \in Seq(Work)
    BY <1>1
  <2>2. Len(rest) = Len(line) - n
    BY <1>1
  <2>3. \A j \in 1..(Len(line) - n) : rest[j] = line[n + j]
    BY <1>1
  <2>4. \A j \in 1..(Len(line) - n) : n + j \in 1..Len(line)
    BY <1>1
  <2> HIDE DEF rest
  <2>5. QED
    BY <2>1, <2>2, <2>3, <2>4
<1>7. Lists(rest, W \ woken)
  <2>1. ASSUME NEW j \in 1..Len(rest), NEW k \in 1..Len(rest), rest[j] = rest[k]
        PROVE  j = k
    <3>1. n + j = n + k
      BY <1>6, <2>1 DEF Lists
    <3>2. QED
      BY <1>1, <1>6, <3>1
  <2>2. ASSUME NEW j \in 1..Len(rest)
        PROVE  rest[j] \in W \ woken
    <3>1. rest[j] = line[n + j] /\ n + j \in 1..Len(line)
      BY <1>6
    <3>2. \A k \in 1..n : k \in 1..Len(line) /\ k # n + j
      BY <1>1, <1>6
    <3>3. QED
      BY <3>1, <3>2 DEF Lists
  <2>3. ASSUME NEW w \in W \ woken
        PROVE  \E j \in 1..Len(rest) : rest[j] = w
    <3>1. PICK k \in 1..Len(line) : line[k] = w
      BY DEF Lists
    <3>2. k \notin 1..n
      BY <3>1
    <3>3. k - n \in 1..Len(rest) /\ n + (k - n) = k
      BY <1>1, <1>6, <3>2
    <3>4. QED
      BY <1>6, <3>1, <3>3
  <2> HIDE DEF rest, woken
  <2>4. QED
    BY <2>1, <2>2, <2>3 DEF Lists
<1>8. QED
  BY <1>3, <1>5, <1>6, <1>7

\* What is left of a line when cancelled tasks leave it.
LEMMA FilterLists ==
    ASSUME NEW s \in Search, NEW new, queue[semOf[s]] \in Seq(Work),
           NEW W \in SUBSET Work, Lists(queue[semOf[s]], W),
           NEW line \in StillInLine(s, new)
    PROVE  /\ line \in Seq(Work)
           /\ Lists(line, {w \in W : w[1] = s => new[w[2]].stage # "todo"})
<1> DEFINE q == queue[semOf[s]]
           left == {j \in 1..Len(q) : q[j][1] = s => new[q[j][2]].stage # "todo"}
           size == Cardinality(left)
           still == {w \in W : w[1] = s => new[w[2]].stage # "todo"}
<1>1. PICK place \in [1..size -> left] :
          /\ \A j, k \in 1..size : j < k => place[j] < place[k]
          /\ line = [k \in 1..size |-> q[place[k]]]
  BY DEF StillInLine
<1>2. Len(q) \in Nat /\ \A j \in 1..Len(q) : q[j] \in W
  <2>1. q \in Seq(Work) /\ Lists(q, W)
    OBVIOUS
  <2> HIDE DEF q
  <2>2. Len(q) \in Nat
    BY <2>1
  <2>3. \A j \in 1..Len(q) : q[j] \in W
    BY <2>1 DEF Lists
  <2>4. QED
    BY <2>2, <2>3
<1>3. left \subseteq 1..Len(q)
  OBVIOUS
<1>4. \A j \in left : q[j] \in still
  BY <1>2
<1>5. \A j \in 1..Len(q) : q[j] \in still => j \in left
  OBVIOUS
<1>6. Lists(q, W)
  OBVIOUS
<1>7. still \subseteq W
  OBVIOUS
<1> HIDE DEF q, left, still
<1>8. IsFiniteSet(left) /\ size \in Nat
  <2>1. IsFiniteSet(1..Len(q))
    BY <1>2, FS_Interval
  <2>2. IsFiniteSet(left)
    BY <1>3, <2>1, FS_Subset
  <2>3. QED
    BY <2>2, FS_CardinalityType
<1> HIDE DEF size
<1>9. \A j, k \in 1..size : place[j] = place[k] => j = k
  <2> SUFFICES ASSUME NEW j \in 1..size, NEW k \in 1..size, place[j] = place[k], j # k
               PROVE  FALSE
    OBVIOUS
  <2>1. place[j] \in Nat /\ place[k] \in Nat
    <3>1. place[j] \in left /\ place[k] \in left
      OBVIOUS
    <3>2. place[j] \in 1..Len(q) /\ place[k] \in 1..Len(q)
      BY <1>3, <3>1
    <3>3. QED
      BY <1>2, <3>2
  <2>2. j < k \/ k < j
    BY <1>8
  <2>3. QED
    BY <1>1, <2>1, <2>2
<1>10. \A p \in left : \E k \in 1..size : place[k] = p
  <2>1. place \in Injection(1..size, left)
    BY <1>9 DEF Injection, IsInjective
  <2>2. Cardinality(1..size) = size
    BY <1>8, FS_Interval
  <2>3. place \in Surjection(1..size, left)
    BY <1>8, <2>1, <2>2, FS_Injection DEF size
  <2>4. QED
    BY <2>3 DEF Surjection
<1>11. line \in Seq(Work) /\ Len(line) = size
  <2>1. \A k \in 1..size : line[k] \in Work
    BY <1>1, <1>4, <1>7
  <2>2. QED
    BY <1>1, <1>8, <2>1
<1>12. Lists(line, still)
  <2>1. ASSUME NEW j \in 1..size, NEW k \in 1..size, line[j] = line[k]
        PROVE  j = k
    <3>1. place[j] \in 1..Len(q) /\ place[k] \in 1..Len(q) /\ q[place[j]] = q[place[k]]
      BY <1>1, <1>3, <2>1
    <3>2. place[j] = place[k]
      BY <1>6, <3>1 DEF Lists
    <3>3. QED
      BY <1>9, <3>2
  <2>2. \A k \in 1..size : line[k] \in still
    BY <1>1, <1>4
  <2>3. ASSUME NEW w \in still
        PROVE  \E k \in 1..size : line[k] = w
    <3>1. PICK j \in 1..Len(q) : q[j] = w
      BY <1>6, <1>7 DEF Lists
    <3>2. j \in left
      BY <1>5, <3>1
    <3>3. PICK k \in 1..size : place[k] = j
      BY <1>10, <3>2
    <3>4. QED
      BY <1>1, <3>1, <3>3
  <2>4. QED
    BY <1>11, <2>1, <2>2, <2>3 DEF Lists
<1>13. QED
  BY <1>11, <1>12 DEF still

----------------------------------------------------------------------------
(* The inductive invariant *)

Waiting(i) == {w \in Work : semOf[w[1]] = i /\ task[w[1]][w[2]].stage = "wait_permit"}

Used(i) == i = sem.id \/ \E s \in Search : semOf[s] = i

DialogTypes ==
    /\ desired \in 1..MaxPermits
    /\ sem \in [id : {0} \cup ObjectId, limit : 0..MaxPermits]
    /\ value \in [ObjectId -> Nat]
    /\ queue \in [ObjectId -> Seq(Work)]
    /\ semOf \in [Search -> {0} \cup ObjectId]
    /\ task \in [Search -> [Dialog -> Task]]
    /\ spent \in [Search -> BOOLEAN]
    /\ locks \in [Dialog -> {0} \cup ObjectId]
    /\ takeovers \in 0..MaxTakeovers

\* The line of a semaphore holds those that wait for it, once each.
LineInv == \A i \in ObjectId : Lists(queue[i], Waiting(i))

\* Only a search that runs has tasks.
BusyInv == \A s \in Search, d \in Dialog : task[s][d].stage # "todo" => semOf[s] # 0

LockInv ==
    \A s \in Search, d \in Dialog :
        task[s][d].lock # 0 <=> \/ HasLock(s, task[s][d])
                                \/ task[s][d].stage = "wait_lock"

\* A lock has one holder.
LocksExclude ==
    \A d \in Dialog, s, t \in Search :
        s # t /\ HasLock(s, task[s][d]) /\ HasLock(t, task[t][d])
            => task[s][d].lock # task[t][d].lock

FreeIsZero == \A i \in ObjectId : ~Used(i) => value[i] = 0

DialogInv ==
    /\ DialogTypes /\ LineInv /\ BusyInv
    /\ LockInv /\ LocksExclude
    /\ FreeIsZero /\ PermitsKept

\* Semaphores and locks are numbered from one; zero is none.
LEMMA Objects == ObjectId \subseteq Nat \ {0}
<1>1. Cardinality(Search) \in Nat
  BY DialogSearchAssumption, FS_CardinalityType
<1>2. QED
  BY <1>1 DEF ObjectId

\* There are finitely many tasks, so that the holders of a permit can be counted.
LEMMA WorkIsFinite ==
    /\ IsFiniteSet(Work) /\ IsFiniteSet(Dialog)
    /\ \A i : /\ IsFiniteSet(Holders(i)) /\ Cardinality(Holders(i)) \in Nat
              /\ IsFiniteSet(Holders(i)') /\ Cardinality(Holders(i)') \in Nat
<1>1. IsFiniteSet(Work)
  BY DialogSearchAssumption, FS_Product DEF Work
<1>2. \A i : Holders(i) \subseteq Work /\ Holders(i)' \subseteq Work
  BY DEF Holders, Work
<1>3. \A S : S \subseteq Work => IsFiniteSet(S) /\ Cardinality(S) \in Nat
  BY <1>1, FS_Subset, FS_CardinalityType
<1>4. QED
  BY <1>1, <1>2, <1>3, DialogSearchAssumption

----------------------------------------------------------------------------
(* Tasks that give permits back *)

\* What the tasks of a search may become in one step.
Settles(s, new) ==
    /\ new \in [Dialog -> Task]
    /\ \A d \in Dialog :
         \/ new[d] = task[s][d]
         \/ /\ new[d].stage \in {"todo", "empty", "hit"} /\ new[d].lock = 0
            /\ task[s][d].stage = "wait_permit" => new[d].stage = "todo"

\* The tasks in `woken' get the permits that are given back.
Settled(s, new, woken) ==
    LET i == semOf[s]
        freed == Cardinality(Freed(s, new))
    IN  /\ woken \subseteq Waiting(i)
        /\ \A d \in Dialog : <<s, d>> \in woken => new[d] = task[s][d]
        /\ IsFiniteSet(woken) /\ Cardinality(woken) \in 0..freed
        /\ task' = [t \in Search |-> [d \in Dialog |->
                      IF <<t, d>> \in woken THEN [stage |-> "granted", lock |-> task[t][d].lock]
                      ELSE IF t = s THEN new[d] ELSE task[t][d]]]
        /\ queue' \in [ObjectId -> Seq(Work)]
        /\ \A k \in ObjectId \ {i} : queue'[k] = queue[k]
        /\ Lists(queue'[i], {w \in Waiting(i) \ woken : w[1] = s => new[w[2]].stage # "todo"})
        /\ value' = Alive([value EXCEPT ![i] = @ + (freed - Cardinality(woken))], semOf', sem.id)

\* The tasks that give their permits back can be counted.
LEMMA FreedIsFinite ==
    ASSUME NEW s, NEW new
    PROVE  IsFiniteSet(Freed(s, new)) /\ Cardinality(Freed(s, new)) \in Nat
<1>1. Freed(s, new) \subseteq Dialog
  BY DEF Freed
<1>2. QED
  BY <1>1, WorkIsFinite, FS_Subset, FS_CardinalityType

\* What Settle does: permits come back, the first in line are woken for them.
LEMMA SettleIsSettled ==
    ASSUME DialogTypes, LineInv, NEW s \in Search, semOf[s] # 0, NEW new, Settles(s, new), Settle(s, new)
    PROVE  \E woken : Settled(s, new, woken)
<1> DEFINE i == semOf[s]
           freed == Cardinality(Freed(s, new))
           W == {w \in Waiting(i) : w[1] = s => new[w[2]].stage # "todo"}
<1>1. i \in ObjectId /\ queue[i] \in Seq(Work) /\ Lists(queue[i], Waiting(i)) /\ Waiting(i) \subseteq Work
  BY DEF DialogTypes, LineInv, Waiting
<1>2. freed \in Nat
  BY FreedIsFinite
<1>3. PICK line \in StillInLine(s, new) :
        LET n == Smaller(freed, Len(line))
            woken == {line[j] : j \in 1..n}
        IN  /\ task' = [t \in Search |-> [d \in Dialog |->
                          LET old == IF t = s THEN new[d] ELSE task[t][d]
                          IN  IF <<t, d>> \in woken
                              THEN [old EXCEPT !.stage = "granted"] ELSE old]]
            /\ queue' = [queue EXCEPT ![i] = SubSeq(line, n + 1, Len(line))]
            /\ value' = Alive([value EXCEPT ![i] = @ + (freed - n)], semOf', sem.id)
  BY DEF Settle
<1>4. line \in Seq(Work) /\ Lists(line, W)
  BY <1>1, FilterLists
<1> DEFINE n == Smaller(freed, Len(line))
           woken == {line[j] : j \in 1..n}
           rest == SubSeq(line, n + 1, Len(line))
<1>5. n \in 0..Len(line) /\ n \in 0..freed
  BY <1>2, <1>4 DEF Smaller
<1>6. /\ task' = [t \in Search |-> [d \in Dialog |->
                    LET old == IF t = s THEN new[d] ELSE task[t][d]
                    IN  IF <<t, d>> \in woken THEN [old EXCEPT !.stage = "granted"] ELSE old]]
      /\ queue' = [queue EXCEPT ![i] = rest]
      /\ value' = Alive([value EXCEPT ![i] = @ + (freed - n)], semOf', sem.id)
  BY <1>3
<1> HIDE DEF n
<1>7. W \in SUBSET Work
  BY <1>1
<1>8. /\ woken \subseteq W /\ IsFiniteSet(woken) /\ Cardinality(woken) = n
      /\ rest \in Seq(Work) /\ Lists(rest, W \ woken)
  <2> HIDE DEF W
  <2>1. QED
    BY <1>4, <1>5, <1>7, SplitLists
<1>9. W \ woken = {w \in Waiting(i) \ woken : w[1] = s => new[w[2]].stage # "todo"}
  OBVIOUS
<1>10. woken \subseteq Waiting(i)
  BY <1>8
<1>11. \A d \in Dialog : <<s, d>> \in woken => new[d] = task[s][d]
  <2> SUFFICES ASSUME NEW d \in Dialog, <<s, d>> \in woken
               PROVE  new[d] = task[s][d]
    OBVIOUS
  <2>1. <<s, d>> \in W
    BY <1>8
  <2>2. task[s][d].stage = "wait_permit" /\ new[d].stage # "todo"
    BY <2>1 DEF Waiting
  <2>3. QED
    BY <2>2 DEF Settles
<1> HIDE DEF W, woken, rest
<1>12. ASSUME NEW t \in Search, NEW d \in Dialog, <<t, d>> \in woken
       PROVE  LET old == IF t = s THEN new[d] ELSE task[t][d]
              IN  [old EXCEPT !.stage = "granted"] = [stage |-> "granted", lock |-> task[t][d].lock]
  <2>1. (IF t = s THEN new[d] ELSE task[t][d]) = task[t][d]
    BY <1>11, <1>12
  <2>2. task[t][d] \in Task
    BY DEF DialogTypes
  <2>3. [task[t][d] EXCEPT !.stage = "granted"] = [stage |-> "granted", lock |-> task[t][d].lock]
    BY <2>2 DEF Task
  <2>4. QED
    BY <2>1, <2>3
<1>13. task' = [t \in Search |-> [d \in Dialog |->
                  IF <<t, d>> \in woken THEN [stage |-> "granted", lock |-> task[t][d].lock]
                  ELSE IF t = s THEN new[d] ELSE task[t][d]]]
  BY <1>6, <1>12
<1>14. /\ queue' \in [ObjectId -> Seq(Work)]
       /\ \A k \in ObjectId \ {i} : queue'[k] = queue[k]
       /\ queue'[i] = rest
  BY <1>1, <1>6, <1>8 DEF DialogTypes
<1>15. QED
  BY <1>5, <1>6, <1>8, <1>9, <1>10, <1>11, <1>13, <1>14 DEF Settled

\* A search that goes on, or one that returns and lets go of its semaphore.
Leaves(s, new) ==
    /\ semOf' \in [Search -> {0} \cup ObjectId]
    /\ \A t \in Search \ {s} : semOf'[t] = semOf[t]
    /\ \/ semOf'[s] = semOf[s]
       \/ semOf'[s] = 0 /\ \A d \in Dialog : new[d] = Todo

\* What becomes of each task: one that was woken has a permit, others stay.
LEMMA SettledTasks ==
    ASSUME DialogInv, NEW s \in Search, semOf[s] # 0, NEW new, Settles(s, new),
           NEW woken, Settled(s, new, woken)
    PROVE  /\ task' \in [Search -> [Dialog -> Task]]
           /\ \A t \in Search, d \in Dialog :
                <<t, d>> \in woken
                    => /\ task[t][d].stage = "wait_permit" /\ semOf[t] = semOf[s]
                       /\ task'[t][d].stage = "granted" /\ task'[t][d].lock = task[t][d].lock
           /\ \A d \in Dialog : <<s, d>> \notin woken => task'[s][d] = new[d]
           /\ \A t \in Search \ {s}, d \in Dialog : <<t, d>> \notin woken => task'[t][d] = task[t][d]
<1>1. task \in [Search -> [Dialog -> Task]] /\ new \in [Dialog -> Task]
  BY DEF DialogInv, DialogTypes, Settles
<1>2. \A t \in Search, d \in Dialog :
        task'[t][d] = IF <<t, d>> \in woken THEN [stage |-> "granted", lock |-> task[t][d].lock]
                      ELSE IF t = s THEN new[d] ELSE task[t][d]
  BY DEF Settled
<1>3. \A t \in Search, d \in Dialog : [stage |-> "granted", lock |-> task[t][d].lock] \in Task
  BY <1>1 DEF Task, Stage
<1>4. task' \in [Search -> [Dialog -> Task]]
  <2>1. \A t \in Search, d \in Dialog : task'[t][d] \in Task
    BY <1>1, <1>2, <1>3
  <2>2. task' = [t \in Search |-> [d \in Dialog |->
                   IF <<t, d>> \in woken THEN [stage |-> "granted", lock |-> task[t][d].lock]
                   ELSE IF t = s THEN new[d] ELSE task[t][d]]]
    BY DEF Settled
  <2>3. QED
    BY <1>1, <1>3, <2>2
<1>5. \A t \in Search, d \in Dialog :
        <<t, d>> \in woken => task[t][d].stage = "wait_permit" /\ semOf[t] = semOf[s]
  BY DEF Settled, Waiting
<1>6. ASSUME NEW t \in Search, NEW d \in Dialog, <<t, d>> \in woken
      PROVE  task'[t][d].stage = "granted" /\ task'[t][d].lock = task[t][d].lock
  <2>1. task'[t][d] = [stage |-> "granted", lock |-> task[t][d].lock]
    BY <1>2, <1>6
  <2>2. QED
    BY <2>1
<1>7. \A d \in Dialog : <<s, d>> \notin woken => task'[s][d] = new[d]
  BY <1>2
<1>8. \A t \in Search \ {s}, d \in Dialog : <<t, d>> \notin woken => task'[t][d] = task[t][d]
  BY <1>2
<1>9. QED
  BY <1>4, <1>5, <1>6, <1>7, <1>8

\* The locks: a task that gets a permit keeps the lock it has.
LEMMA SettledLocks ==
    ASSUME DialogInv, NEW s \in Search, semOf[s] # 0, NEW new, Settles(s, new),
           NEW woken, Settled(s, new, woken)
    PROVE  LockInv' /\ LocksExclude'
<1>1. ASSUME NEW t \in Search, NEW d \in Dialog
      PROVE  /\ task'[t][d].lock # 0 <=> HasLock(t, task'[t][d]) \/ task'[t][d].stage = "wait_lock"
             /\ HasLock(t, task'[t][d]) => HasLock(t, task[t][d]) /\ task'[t][d].lock = task[t][d].lock
  <2>1. task[t][d].lock # 0 <=> HasLock(t, task[t][d]) \/ task[t][d].stage = "wait_lock"
    BY DEF DialogInv, LockInv
  <2>2. CASE <<t, d>> \in woken
    <3>1. /\ task[t][d].stage = "wait_permit" /\ task'[t][d].stage = "granted"
          /\ task'[t][d].lock = task[t][d].lock
      BY <2>2, SettledTasks
    <3>2. QED
      BY <2>1, <3>1 DEF HasLock
  <2>3. CASE <<t, d>> \notin woken /\ t # s
    <3>1. task'[t][d] = task[t][d]
      BY <2>3, SettledTasks
    <3>2. QED
      BY <2>1, <3>1 DEF HasLock
  <2>4. CASE <<t, d>> \notin woken /\ t = s
    <3>1. task'[s][d] = new[d]
      BY <2>4, SettledTasks
    <3>2. CASE new[d] = task[s][d]
      BY <2>1, <2>4, <3>1, <3>2
    <3>3. CASE new[d].stage \in {"todo", "empty", "hit"} /\ new[d].lock = 0
      BY <2>4, <3>1, <3>3 DEF HasLock
    <3>4. QED
      BY <3>2, <3>3 DEF Settles
  <2>5. QED
    BY <2>2, <2>3, <2>4
<1>2. LockInv'
  BY <1>1 DEF LockInv, HasLock
<1>3. LocksExclude'
  <2> SUFFICES ASSUME NEW d \in Dialog, NEW t \in Search, NEW u \in Search, t # u,
                      HasLock(t, task'[t][d]), HasLock(u, task'[u][d])
               PROVE  task'[t][d].lock # task'[u][d].lock
    BY DEF LocksExclude, HasLock
  <2>1. QED
    BY <1>1 DEF DialogInv, LocksExclude
<1>4. QED
  BY <1>2, <1>3

\* The lines: those that got a permit and those that were cancelled have left it.
LEMMA SettledLines ==
    ASSUME DialogInv, NEW s \in Search, semOf[s] # 0, NEW new, Settles(s, new),
           NEW woken, Settled(s, new, woken), Leaves(s, new)
    PROVE  LineInv' /\ BusyInv'
<1> DEFINE i == semOf[s]
<1>9. /\ \A t \in Search, d \in Dialog :
           <<t, d>> \in woken => task[t][d].stage = "wait_permit" /\ task'[t][d].stage = "granted"
      /\ \A d \in Dialog : <<s, d>> \notin woken => task'[s][d] = new[d]
      /\ \A t \in Search \ {s}, d \in Dialog : <<t, d>> \notin woken => task'[t][d] = task[t][d]
  BY SettledTasks
<1>0. i \in ObjectId /\ semOf \in [Search -> {0} \cup ObjectId] /\ 0 \notin ObjectId
  BY Objects DEF DialogInv, DialogTypes
<1>1. ASSUME NEW k \in ObjectId \ {i}
      PROVE  Waiting(k)' = Waiting(k)
  <2> SUFFICES ASSUME NEW w \in Work
               PROVE  w \in Waiting(k)' <=> w \in Waiting(k)
    BY DEF Waiting
  <2>1. w[1] \in Search /\ w[2] \in Dialog /\ w = <<w[1], w[2]>>
    BY DEF Work
  <2>2. CASE w[1] = s
    BY <1>0, <1>1, <2>1, <2>2 DEF Waiting, Leaves
  <2>3. CASE w[1] # s
    <3>1. semOf'[w[1]] = semOf[w[1]]
      BY <2>1, <2>3 DEF Leaves
    <3>2. CASE w \in woken
      BY <1>1, <3>1, <3>2 DEF Waiting, Settled
    <3>3. CASE w \notin woken
      <4>1. task'[w[1]][w[2]] = task[w[1]][w[2]]
        BY <2>1, <2>3, <3>3, <1>9
      <4>2. QED
        BY <3>1, <4>1 DEF Waiting
    <3>4. QED
      BY <3>2, <3>3
  <2>4. QED
    BY <2>2, <2>3
<1>2. ASSUME NEW k \in ObjectId, k = semOf[s]
      PROVE  Waiting(k)' = {w \in Waiting(k) \ woken : w[1] = s => new[w[2]].stage # "todo"}
  <2> DEFINE now(w) == semOf'[w[1]] = k /\ task'[w[1]][w[2]].stage = "wait_permit"
             still(w) == /\ w \in Waiting(k) /\ w \notin woken
                         /\ w[1] = s => new[w[2]].stage # "todo"
  <2>a. Waiting(k)' = {w \in Work : now(w)}
    BY DEF Waiting
  <2>b. {w \in Waiting(k) \ woken : w[1] = s => new[w[2]].stage # "todo"} = {w \in Work : still(w)}
    BY DEF Waiting
  <2> SUFFICES ASSUME NEW w \in Work
               PROVE  now(w) <=> still(w)
    BY <2>a, <2>b
  <2>1. w[1] \in Search /\ w[2] \in Dialog /\ w = <<w[1], w[2]>>
    BY DEF Work
  <2>2. CASE w \in woken
    <3>1. task'[w[1]][w[2]].stage = "granted"
      BY <2>1, <2>2, <1>9
    <3>2. QED
      BY <2>2, <3>1
  <2>3. CASE w \notin woken /\ w[1] # s
    <3>1. task'[w[1]][w[2]] = task[w[1]][w[2]] /\ semOf'[w[1]] = semOf[w[1]]
      BY <2>1, <2>3, <1>9 DEF Leaves
    <3>2. QED
      BY <1>2, <2>3, <3>1 DEF Waiting
  <2>4. CASE w \notin woken /\ w[1] = s
    <3>1. task'[s][w[2]] = new[w[2]]
      BY <2>1, <2>4, <1>9
    <3>2. CASE new[w[2]] = task[s][w[2]]
      <4>1. CASE semOf'[s] = semOf[s]
        BY <1>2, <2>4, <3>1, <3>2, <4>1 DEF Waiting
      <4>2. CASE semOf'[s] = 0 /\ new[w[2]] = Todo
        BY <1>0, <1>2, <2>4, <3>1, <3>2, <4>2 DEF Waiting, Todo
      <4>3. QED
        BY <2>1, <4>1, <4>2 DEF Leaves
    <3>3. CASE /\ new[w[2]].stage \in {"todo", "empty", "hit"}
               /\ task[s][w[2]].stage = "wait_permit" => new[w[2]].stage = "todo"
      BY <1>2, <2>4, <3>1, <3>3 DEF Waiting
    <3>4. QED
      BY <2>1, <3>2, <3>3 DEF Settles
  <2>5. QED
    BY <2>2, <2>3, <2>4
<1>3. LineInv'
  <2>1. ASSUME NEW k \in ObjectId \ {i}
        PROVE  Lists(queue'[k], Waiting(k)')
    <3>1. queue'[k] = queue[k] /\ Lists(queue[k], Waiting(k))
      BY DEF DialogInv, LineInv, Settled
    <3>2. QED
      BY <1>1, <3>1
  <2>2. ASSUME NEW k \in ObjectId, k = i
        PROVE  Lists(queue'[k], Waiting(k)')
    <3>1. Lists(queue'[k], {w \in Waiting(k) \ woken : w[1] = s => new[w[2]].stage # "todo"})
      BY <2>2 DEF Settled
    <3>2. QED
      BY <1>2, <2>2, <3>1
  <2>3. \A k \in ObjectId : Lists(queue'[k], Waiting(k)')
    BY <2>1, <2>2
  <2>4. QED
    BY <2>3 DEF LineInv
<1>4. ASSUME NEW t \in Search, NEW d \in Dialog, task'[t][d].stage # "todo"
      PROVE  semOf'[t] # 0
  <2>1. CASE t # s
    <3>1. task[t][d].stage # "todo"
      <4>1. CASE <<t, d>> \in woken
        BY <4>1, <1>9
      <4>2. CASE <<t, d>> \notin woken
        BY <1>4, <1>9, <2>1, <4>2
      <4>3. QED
        BY <4>1, <4>2
    <3>2. QED
      BY <2>1, <3>1 DEF DialogInv, BusyInv, Leaves
  <2>2. CASE t = s
    <3>1. semOf'[s] = 0 => FALSE
      <4> SUFFICES ASSUME semOf'[s] = 0
                   PROVE  FALSE
        OBVIOUS
      <4>1. new[d] = Todo
        BY <1>0 DEF Leaves
      <4>2. <<s, d>> \notin woken
        BY <4>1 DEF Settled, Waiting, Todo
      <4>3. QED
        BY <1>4, <2>2, <4>1, <4>2, <1>9 DEF Todo
    <3>2. QED
      BY <2>2, <3>1
  <2>3. QED
    BY <2>1, <2>2
<1>5. QED
  BY <1>3, <1>4 DEF BusyInv

\* Holders that leave and holders that come, in numbers.
LEMMA Exchange ==
    ASSUME NEW H, IsFiniteSet(H), NEW F \in SUBSET H, NEW W, IsFiniteSet(W), W \cap H = {}
    PROVE  /\ IsFiniteSet((H \ F) \cup W)
           /\ Cardinality((H \ F) \cup W) = Cardinality(H) - Cardinality(F) + Cardinality(W)
<1>1. /\ IsFiniteSet(F) /\ H \cap F = F
      /\ Cardinality(H) \in Nat /\ Cardinality(F) \in Nat /\ Cardinality(W) \in Nat
  BY FS_Subset, FS_CardinalityType
<1>2. IsFiniteSet(H \ F) /\ Cardinality(H \ F) = Cardinality(H) - Cardinality(F)
  BY <1>1, FS_Difference
<1>3. (H \ F) \cap W = {}
  OBVIOUS
<1>4. /\ IsFiniteSet((H \ F) \cup W)
      /\ Cardinality((H \ F) \cup W)
           = Cardinality(H \ F) + Cardinality(W) - Cardinality((H \ F) \cap W)
  BY <1>2, FS_Union
<1>5. Cardinality((H \ F) \cap W) = 0
  BY <1>3, FS_EmptySet
<1>6. QED
  BY <1>1, <1>2, <1>4, <1>5

\* The tasks of one search are as many as their dialogs.
LEMMA OneSearchCounts ==
    ASSUME NEW s, NEW D \in SUBSET Dialog
    PROVE  Cardinality({s} \X D) = Cardinality(D)
<1> DEFINE f == [d \in D |-> <<s, d>>]
<1>1. f \in Bijection(D, {s} \X D)
  <2>1. f \in [D -> {s} \X D]
    OBVIOUS
  <2>2. \A d, e \in D : f[d] = f[e] => d = e
    OBVIOUS
  <2>3. \A w \in {s} \X D : \E d \in D : f[d] = w
    <3> TAKE w \in {s} \X D
    <3>1. w[2] \in D /\ w = <<s, w[2]>>
      OBVIOUS
    <3>2. f[w[2]] = w
      BY <3>1
    <3>3. QED
      BY <3>1, <3>2
  <2> HIDE DEF f
  <2>4. QED
    BY <2>1, <2>2, <2>3 DEF Bijection, Injection, IsInjective, Surjection
<1>2. IsFiniteSet(D)
  BY WorkIsFinite, FS_Subset
<1>3. ExistsBijection(D, {s} \X D)
  BY <1>1 DEF ExistsBijection
<1>4. QED
  BY <1>2, <1>3, FS_Bijection

\* The permits: what is given back is with those in `woken' or in the semaphore.
LEMMA SettledPermits ==
    ASSUME DialogInv, NEW s \in Search, semOf[s] # 0, NEW new, Settles(s, new),
           NEW woken, Settled(s, new, woken), Leaves(s, new), sem' = sem
    PROVE  value' \in [ObjectId -> Nat] /\ FreeIsZero' /\ PermitsKept'
<1>1. PICK i \in ObjectId : i = semOf[s]
  BY DEF DialogInv, DialogTypes
<1>2. /\ \A t \in Search, d \in Dialog :
           <<t, d>> \in woken => /\ task[t][d].stage = "wait_permit" /\ semOf[t] = i
                                 /\ task'[t][d].stage = "granted"
      /\ \A d \in Dialog : <<s, d>> \notin woken => task'[s][d] = new[d]
      /\ \A t \in Search \ {s}, d \in Dialog : <<t, d>> \notin woken => task'[t][d] = task[t][d]
  BY <1>1, SettledTasks
<1>3. \A t \in Search : semOf'[t] # 0 => semOf'[t] = semOf[t]
  BY DEF Leaves
<1>4. \A d \in Dialog : HasPermit(s, new[d]) => new[d] = task[s][d] /\ semOf'[s] = i
  <2> SUFFICES ASSUME NEW d \in Dialog, HasPermit(s, new[d])
               PROVE  new[d] = task[s][d] /\ semOf'[s] = i
    OBVIOUS
  <2>1. new[d].stage \notin {"todo", "empty", "hit"}
    BY DEF HasPermit
  <2>2. new[d] = task[s][d]
    BY <2>1 DEF Settles
  <2>3. QED
    BY <1>1, <2>1, <2>2 DEF Leaves, Todo
<1>5. \A t \in Search, d \in Dialog : <<t, d>> \in woken => semOf'[t] = i
  <2> SUFFICES ASSUME NEW t \in Search, NEW d \in Dialog, <<t, d>> \in woken
               PROVE  semOf'[t] = i
    OBVIOUS
  <2>1. CASE t = s
    <3>1. new[d].stage = "wait_permit"
      BY <1>2, <2>1 DEF Settled
    <3>2. QED
      BY <1>1, <2>1, <3>1 DEF Leaves, Todo
  <2>2. CASE t # s
    BY <1>2, <2>2 DEF Leaves
  <2>3. QED
    BY <2>1, <2>2
<1> DEFINE freed == Cardinality(Freed(s, new))
           n == Cardinality(woken)
           F == {s} \X Freed(s, new)
<1>6. freed \in Nat /\ n \in 0..freed /\ IsFiniteSet(woken) /\ Cardinality(F) = freed
  <2>1. Freed(s, new) \in SUBSET Dialog
    BY DEF Freed
  <2>2. QED
    BY <2>1, FreedIsFinite, OneSearchCounts DEF Settled
<1>7. \A k \in ObjectId : Used(k)' => Used(k)
  BY <1>3, Objects DEF Used
<1>8. \A k \in ObjectId :
        value'[k] = IF ~Used(k)' THEN 0
                    ELSE IF k = i THEN value[k] + (freed - n) ELSE value[k]
  <2> DEFINE counters == [value EXCEPT ![i] = @ + (freed - n)]
  <2>1. value' = Alive(counters, semOf', sem.id)
    BY <1>1 DEF Settled
  <2>2. value \in [ObjectId -> Nat]
    BY DEF DialogInv, DialogTypes
  <2>3. \A k \in ObjectId : counters[k] = IF k = i THEN value[k] + (freed - n) ELSE value[k]
    BY <2>2
  <2> HIDE DEF counters
  <2>4. \A k \in ObjectId : value'[k] = IF Used(k)' THEN counters[k] ELSE 0
    BY <2>1 DEF Alive, Used
  <2>5. QED
    BY <2>3, <2>4
<1>9. value' \in [ObjectId -> Nat]
  <2>1. ASSUME NEW k \in ObjectId
        PROVE  value'[k] \in Nat
    <3>1. value[k] \in Nat
      BY DEF DialogInv, DialogTypes
    <3>2. value'[k] \in {0, value[k], value[k] + (freed - n)}
      BY <1>8
    <3> HIDE DEF freed, n
    <3>3. QED
      BY <1>6, <3>1, <3>2
  <2>2. value' = [k \in ObjectId |-> value'[k]]
    BY DEF Settled, Alive
  <2>3. QED
    BY <2>1, <2>2
<1>10. FreeIsZero'
  BY <1>8 DEF FreeIsZero, Used
<1>11. ASSUME NEW k \in ObjectId, k # i
       PROVE  Holders(k)' = Holders(k)
  <2> DEFINE now(w) == semOf'[w[1]] = k /\ HasPermit(w[1], task'[w[1]][w[2]])
             was(w) == semOf[w[1]] = k /\ HasPermit(w[1], task[w[1]][w[2]])
  <2>1. Holders(k)' = {w \in Search \X Dialog : now(w)} /\ Holders(k) = {w \in Search \X Dialog : was(w)}
    BY DEF Holders, HasPermit
  <2> SUFFICES ASSUME NEW t \in Search, NEW d \in Dialog
               PROVE  now(<<t, d>>) <=> was(<<t, d>>)
    BY <2>1
  <2>2. CASE t = s
    BY <1>1, <1>11, <2>2, Objects DEF Leaves
  <2>3. CASE t # s /\ <<t, d>> \in woken
    BY <1>2, <1>5, <1>11, <2>3
  <2>4. CASE t # s /\ <<t, d>> \notin woken
    BY <1>2, <2>4 DEF Leaves
  <2>5. QED
    BY <2>2, <2>3, <2>4
<1>12. Holders(i)' = (Holders(i) \ F) \cup woken
  <2> DEFINE now(w) == semOf'[w[1]] = i /\ HasPermit(w[1], task'[w[1]][w[2]])
             was(w) == semOf[w[1]] = i /\ HasPermit(w[1], task[w[1]][w[2]])
  <2>1. Holders(i)' = {w \in Search \X Dialog : now(w)} /\ Holders(i) = {w \in Search \X Dialog : was(w)}
    BY DEF Holders, HasPermit
  <2>2. woken \subseteq Search \X Dialog
    BY DEF Settled, Waiting, Work
  <2> SUFFICES ASSUME NEW t \in Search, NEW d \in Dialog
               PROVE  now(<<t, d>>) <=> \/ was(<<t, d>>) /\ <<t, d>> \notin F
                                        \/ <<t, d>> \in woken
    BY <2>1, <2>2
  <2>3. CASE <<t, d>> \in woken
    BY <1>2, <1>5, <2>3 DEF HasPermit
  <2>4. CASE t # s /\ <<t, d>> \notin woken
    BY <1>2, <2>4 DEF Leaves
  <2>5. CASE t = s /\ <<s, d>> \notin woken
    <3>1. now(<<s, d>>) <=> HasPermit(s, new[d])
      BY <1>2, <1>4, <2>5
    <3>2. was(<<s, d>>) /\ <<s, d>> \notin F <=> HasPermit(s, task[s][d]) /\ HasPermit(s, new[d])
      BY <1>1 DEF Freed
    <3>3. HasPermit(s, new[d]) => HasPermit(s, task[s][d])
      BY <1>4
    <3>4. QED
      BY <2>5, <3>1, <3>2, <3>3
  <2>6. QED
    BY <2>3, <2>4, <2>5
<1>13. F \subseteq Holders(i) /\ woken \cap Holders(i) = {}
  BY <1>1, <1>2 DEF Freed, Holders, HasPermit
<1>14. Cardinality(Holders(i)') = Cardinality(Holders(i)) - freed + n
  <2> HIDE DEF F, freed, n
  <2>1. Cardinality((Holders(i) \ F) \cup woken) = Cardinality(Holders(i)) - Cardinality(F) + Cardinality(woken)
    BY <1>6, <1>13, WorkIsFinite, Exchange
  <2>2. QED
    BY <1>6, <1>12, <2>1 DEF n
<1>15. ASSUME NEW k \in ObjectId, Used(k)'
       PROVE  value'[k] + Cardinality(Holders(k)') \in 1..MaxPermits
  <2>1. value[k] + Cardinality(Holders(k)) \in 1..MaxPermits
    BY <1>7, <1>15 DEF DialogInv, PermitsKept, Used
  <2>2. CASE k = i
    <3>1. value'[k] = value[k] + (freed - n)
      BY <1>8, <1>15, <2>2
    <3>2. value[k] \in Nat /\ Cardinality(Holders(k)) \in Nat
      BY WorkIsFinite DEF DialogInv, DialogTypes
    <3> HIDE DEF freed, n
    <3>3. QED
      BY <1>6, <1>14, <2>1, <2>2, <3>1, <3>2
  <2>3. CASE k # i
    BY <1>8, <1>11, <1>15, <2>1, <2>3
  <2>4. QED
    BY <2>2, <2>3
<1>16. PermitsKept'
  BY <1>15 DEF PermitsKept, Used
<1>17. QED
  BY <1>9, <1>10, <1>16

\* Whatever gives permits back keeps the invariant.
LEMMA SettleKeeps ==
    ASSUME DialogInv, NEW s \in Search, semOf[s] # 0, NEW new, Settles(s, new), Settle(s, new),
           Leaves(s, new), UNCHANGED <<desired, sem, locks, takeovers>>,
           spent' \in [Search -> BOOLEAN]
    PROVE  DialogInv'
<1>1. PICK woken : Settled(s, new, woken)
  BY SettleIsSettled DEF DialogInv
<1>2. task' \in [Search -> [Dialog -> Task]]
  BY <1>1, SettledTasks
<1>3. LockInv' /\ LocksExclude'
  BY <1>1, SettledLocks
<1>4. LineInv' /\ BusyInv'
  BY <1>1, SettledLines
<1>5. value' \in [ObjectId -> Nat] /\ FreeIsZero' /\ PermitsKept'
  BY <1>1, SettledPermits
<1>6. DialogTypes'
  BY <1>1, <1>2, <1>5 DEF DialogInv, DialogTypes, Settled, Leaves
<1>7. QED
  BY <1>3, <1>4, <1>5, <1>6 DEF DialogInv

\* A task ends, without a permit and a lock.
LEMMA FinishKeeps ==
    ASSUME DialogInv, NEW s \in Search, NEW d \in Dialog, NEW stage \in {"empty", "hit"},
           task[s][d].stage \notin {"todo", "wait_permit"}, Finish(s, d, stage),
           UNCHANGED <<desired, sem, semOf, spent, locks, takeovers>>
    PROVE  DialogInv'
<1> DEFINE new == [task[s] EXCEPT ![d] = [stage |-> stage, lock |-> 0]]
<1>1. task[s] \in [Dialog -> Task] /\ semOf[s] # 0
  BY DEF DialogInv, DialogTypes, BusyInv
<1>2. [stage |-> stage, lock |-> 0] \in Task
  BY DEF Task, Stage
<1>3. Settles(s, new)
  <2>1. new \in [Dialog -> Task]
    BY <1>1, <1>2
  <2>2. \A e \in Dialog : e # d => new[e] = task[s][e]
    BY <1>1
  <2>3. new[d] = [stage |-> stage, lock |-> 0]
    BY <1>1
  <2> HIDE DEF new
  <2>4. new[d].stage \in {"todo", "empty", "hit"} /\ new[d].lock = 0
    BY <2>3
  <2>5. QED
    BY <2>1, <2>2, <2>4 DEF Settles
<1>4. Leaves(s, new)
  BY DEF Leaves, DialogInv, DialogTypes
<1>5. Settle(s, new)
  BY DEF Finish
<1> HIDE DEF new
<1>6. QED
  BY <1>1, <1>3, <1>4, <1>5, SettleKeeps DEF DialogInv, DialogTypes

\* A search returns: its tasks leave their lines, permits and locks.
LEMMA ReturnKeeps ==
    ASSUME DialogInv, NEW s \in Search, semOf[s] # 0, Return(s),
           UNCHANGED <<desired, sem, locks, takeovers>>, spent' \in [Search -> BOOLEAN]
    PROVE  DialogInv'
<1> DEFINE new == [d \in Dialog |-> Todo]
<1>1. semOf \in [Search -> {0} \cup ObjectId]
  BY DEF DialogInv, DialogTypes
<1>2. Todo \in Task /\ Todo.stage = "todo" /\ Todo.lock = 0
  BY DEF Todo, Task, Stage
<1>3. Settles(s, new)
  BY <1>2 DEF Settles
<1>4. Leaves(s, new)
  BY <1>1 DEF Leaves, Return
<1>5. Settle(s, new)
  BY DEF Return
<1> HIDE DEF new
<1>6. QED
  BY <1>3, <1>4, <1>5, SettleKeeps

----------------------------------------------------------------------------
(* Tasks that take permits and locks *)

\* Does no other task hold the lock l of dialog d?
LockIsFree(s, d, l) ==
    \A t \in Search \ {s} : HasLock(t, task[t][d]) => task[t][d].lock # l

\* One task changes, and is new now.
Becomes(s, d, new) == task' = [task EXCEPT ![s][d] = new]

\* A step of one task leaves all others alone.
LEMMA OneTask ==
    ASSUME DialogInv, NEW s \in Search, NEW d \in Dialog, NEW new \in Task,
           Becomes(s, d, new)
    PROVE  /\ task' \in [Search -> [Dialog -> Task]]
           /\ task'[s][d] = new
           /\ \A t \in Search, e \in Dialog : t # s \/ e # d => task'[t][e] = task[t][e]
<1>1. task \in [Search -> [Dialog -> Task]]
  BY DEF DialogInv, DialogTypes
<1>2. QED
  BY <1>1 DEF Becomes

\* It keeps the locks if it takes one only when nobody holds it.
LEMMA OneTaskLocks ==
    ASSUME DialogInv, NEW s \in Search, NEW d \in Dialog, NEW new \in Task,
           Becomes(s, d, new),
           new.lock # 0 <=> HasLock(s, new) \/ new.stage = "wait_lock",
           HasLock(s, new) => LockIsFree(s, d, new.lock)
    PROVE  LockInv' /\ LocksExclude'
<1>1. /\ task'[s][d] = new
      /\ \A t \in Search, e \in Dialog : t # s \/ e # d => task'[t][e] = task[t][e]
  BY OneTask
<1>2. \A t \in Search, e \in Dialog :
        task'[t][e].lock # 0 <=> HasLock(t, task'[t][e]) \/ task'[t][e].stage = "wait_lock"
  BY <1>1 DEF DialogInv, LockInv
<1>3. ASSUME NEW e \in Dialog, NEW t \in Search, NEW u \in Search, t # u,
             HasLock(t, task'[t][e]), HasLock(u, task'[u][e])
      PROVE  task'[t][e].lock # task'[u][e].lock
  <2>1. CASE e = d /\ t = s
    BY <1>1, <1>3, <2>1 DEF LockIsFree
  <2>2. CASE e = d /\ u = s
    BY <1>1, <1>3, <2>2 DEF LockIsFree
  <2>3. CASE e # d \/ (t # s /\ u # s)
    <3>1. task'[t][e] = task[t][e] /\ task'[u][e] = task[u][e]
      BY <1>1, <2>3
    <3>2. QED
      BY <1>3, <3>1 DEF DialogInv, LocksExclude
  <2>4. QED
    BY <2>1, <2>2, <2>3
<1>4. QED
  BY <1>2, <1>3 DEF LockInv, LocksExclude, HasLock

\* Nothing changes hands.
LEMMA MovesKeep ==
    ASSUME DialogInv, task' \in [Search -> [Dialog -> Task]],
           UNCHANGED <<sem, value, queue, semOf>>,
           desired' \in 1..MaxPermits, spent' \in [Search -> BOOLEAN],
           locks' \in [Dialog -> {0} \cup ObjectId], takeovers' \in 0..MaxTakeovers,
           \A t \in Search, d \in Dialog :
             /\ HasPermit(t, task'[t][d]) <=> HasPermit(t, task[t][d])
             /\ task'[t][d].stage = "wait_permit" <=> task[t][d].stage = "wait_permit"
             /\ task'[t][d].stage # "todo" => semOf[t] # 0,
           LockInv' /\ LocksExclude'
    PROVE  DialogInv'
<1>1. DialogTypes'
  BY DEF DialogInv, DialogTypes
<1>2. ASSUME NEW k \in ObjectId
      PROVE  Waiting(k)' = Waiting(k) /\ Holders(k)' = Holders(k) /\ (Used(k)' <=> Used(k))
  BY DEF Waiting, Holders, Used, Work, HasPermit
<1>3. LineInv'
  <2>1. \A k \in ObjectId : Lists(queue'[k], Waiting(k)')
    BY <1>2 DEF DialogInv, LineInv
  <2>2. QED
    BY <2>1 DEF LineInv
<1>4. FreeIsZero' /\ PermitsKept'
  BY <1>2 DEF DialogInv, FreeIsZero, PermitsKept, Used
<1>5. BusyInv'
  BY DEF BusyInv
<1>6. QED
  BY <1>1, <1>3, <1>4, <1>5 DEF DialogInv

\* A permit is taken, or the task gets in line.
LEMMA AcquireKeeps ==
    ASSUME DialogInv, NEW s \in Search, NEW d \in Dialog, NEW lock \in {0} \cup ObjectId,
           task[s][d].stage \notin {"todo", "wait_permit"}, ~HasPermit(s, task[s][d]),
           lock # 0 <=> Kind[s] = "fast", lock # 0 => LockIsFree(s, d, lock),
           Acquire(s, d, lock),
           UNCHANGED <<desired, sem, semOf, spent, takeovers>>,
           locks' \in [Dialog -> {0} \cup ObjectId]
    PROVE  DialogInv'
<1>1. PICK i \in ObjectId : i = semOf[s]
  BY DEF DialogInv, DialogTypes, BusyInv
<1>2. Used(i)
  BY <1>1 DEF Used
<1>3. \A stage \in {"granted", "wait_permit"} : [stage |-> stage, lock |-> lock] \in Task
  BY DEF Task, Stage
<1>4. value \in [ObjectId -> Nat] /\ queue \in [ObjectId -> Seq(Work)]
  BY DEF DialogInv, DialogTypes
<1>5. <<s, d>> \in Work /\ <<s, d>> \notin Holders(i) /\ <<s, d>> \notin Waiting(i)
  BY DEF Work, Holders, Waiting
<1>6. \A k \in ObjectId : Used(k)' <=> Used(k)
  BY DEF Used
<1>7. CASE value[i] > 0
  <2>2. PICK new \in Task : new = [stage |-> "granted", lock |-> lock]
    BY <1>3
  <2>1. /\ Becomes(s, d, new)
        /\ value' = [value EXCEPT ![i] = @ - 1]
        /\ queue' = queue
    BY <1>1, <1>7, <2>2 DEF Acquire, Becomes
  <2>3. /\ task' \in [Search -> [Dialog -> Task]] /\ task'[s][d] = new
        /\ \A t \in Search, e \in Dialog : t # s \/ e # d => task'[t][e] = task[t][e]
    BY <2>1, OneTask
  <2>4. LockInv' /\ LocksExclude'
    BY <2>1, <2>2, OneTaskLocks DEF HasLock, LockIsFree
  <2>5. ASSUME NEW k \in ObjectId
        PROVE  /\ Waiting(k)' = Waiting(k)
               /\ Holders(k)' = IF k = i THEN Holders(k) \cup {<<s, d>>} ELSE Holders(k)
    <3>1. Waiting(k)' = Waiting(k)
      BY <2>2, <2>3 DEF Waiting, Work
    <3>2. Holders(k)' = IF k = i THEN Holders(k) \cup {<<s, d>>} ELSE Holders(k)
      BY <1>1, <2>2, <2>3 DEF Holders, HasPermit
    <3>3. QED
      BY <3>1, <3>2
  <2>6. Cardinality(Holders(i)') = Cardinality(Holders(i)) + 1
    BY <1>5, <2>5, WorkIsFinite, FS_AddElement
  <2>7. \A k \in ObjectId : value'[k] = (IF k = i THEN value[k] - 1 ELSE value[k]) /\ value[k] \in Nat
    BY <1>4, <2>1
  <2>8. value' \in [ObjectId -> Nat]
    <3>1. \A k \in ObjectId : value'[k] \in Nat
      BY <1>7, <2>7
    <3>2. QED
      BY <1>4, <2>1, <3>1
  <2>9. DialogTypes'
    BY <2>1, <2>3, <2>8 DEF DialogInv, DialogTypes
  <2>10. LineInv'
    <3>1. \A k \in ObjectId : Lists(queue'[k], Waiting(k)')
      BY <2>1, <2>5 DEF DialogInv, LineInv
    <3>2. QED
      BY <3>1 DEF LineInv
  <2>11. FreeIsZero'
    BY <1>2, <1>6, <2>7 DEF DialogInv, FreeIsZero, Used
  <2>12. ASSUME NEW k \in ObjectId, Used(k)'
         PROVE  value'[k] + Cardinality(Holders(k)') \in 1..MaxPermits
    <3>1. value[k] + Cardinality(Holders(k)) \in 1..MaxPermits
      BY <1>6, <2>12 DEF DialogInv, PermitsKept, Used
    <3>2. CASE k = i
      <4>1. Cardinality(Holders(k)) \in Nat
        BY WorkIsFinite
      <4>2. QED
        BY <2>6, <2>7, <3>1, <3>2, <4>1
    <3>3. CASE k # i
      BY <2>5, <2>7, <3>1, <3>3
    <3>4. QED
      BY <3>2, <3>3
  <2>13. PermitsKept'
    BY <2>12 DEF PermitsKept, Used
  <2>14. BusyInv'
    BY <1>1, <2>3, Objects DEF DialogInv, BusyInv
  <2>15. QED
    BY <2>4, <2>9, <2>10, <2>11, <2>13, <2>14 DEF DialogInv
<1>8. CASE ~(value[i] > 0)
  <2>2. PICK new \in Task : new = [stage |-> "wait_permit", lock |-> lock]
    BY <1>3
  <2>1. /\ Becomes(s, d, new)
        /\ queue' = [queue EXCEPT ![i] = Append(@, <<s, d>>)]
        /\ value' = value
    BY <1>1, <1>8, <2>2 DEF Acquire, Becomes
  <2>3. /\ task' \in [Search -> [Dialog -> Task]] /\ task'[s][d] = new
        /\ \A t \in Search, e \in Dialog : t # s \/ e # d => task'[t][e] = task[t][e]
    BY <2>1, OneTask
  <2>4. LockInv' /\ LocksExclude'
    BY <2>1, <2>2, OneTaskLocks DEF HasLock, LockIsFree
  <2>5. ASSUME NEW k \in ObjectId
        PROVE  /\ Waiting(k)' = IF k = i THEN Waiting(k) \cup {<<s, d>>} ELSE Waiting(k)
               /\ Holders(k)' = Holders(k)
    <3>1. Waiting(k)' = IF k = i THEN Waiting(k) \cup {<<s, d>>} ELSE Waiting(k)
      BY <1>1, <2>2, <2>3 DEF Waiting, Work
    <3>2. Holders(k)' = Holders(k)
      BY <2>2, <2>3 DEF Holders, HasPermit
    <3>3. QED
      BY <3>1, <3>2
  <2>6. queue[i] \in Seq(Work) /\ Waiting(i) \in SUBSET Work /\ Lists(queue[i], Waiting(i))
    BY <1>4 DEF DialogInv, LineInv, Waiting
  <2>7. /\ Append(queue[i], <<s, d>>) \in Seq(Work)
        /\ Lists(Append(queue[i], <<s, d>>), Waiting(i) \cup {<<s, d>>})
    BY <1>5, <2>6, AppendLists
  <2>8. \A k \in ObjectId : queue'[k] = IF k = i THEN Append(queue[k], <<s, d>>) ELSE queue[k]
    BY <1>4, <2>1
  <2>9. queue' \in [ObjectId -> Seq(Work)]
    BY <1>4, <2>1, <2>7
  <2>10. DialogTypes'
    BY <2>1, <2>3, <2>9 DEF DialogInv, DialogTypes
  <2>11. LineInv'
    <3>1. \A k \in ObjectId : Lists(queue'[k], Waiting(k)')
      BY <2>5, <2>7, <2>8 DEF DialogInv, LineInv
    <3>2. QED
      BY <3>1 DEF LineInv
  <2>12. FreeIsZero' /\ PermitsKept'
    BY <1>6, <2>1, <2>5 DEF DialogInv, FreeIsZero, PermitsKept, Used
  <2>13. BusyInv'
    BY <1>1, <2>3, Objects DEF DialogInv, BusyInv
  <2>14. QED
    BY <2>4, <2>10, <2>11, <2>12, <2>13 DEF DialogInv
<1>9. QED
  BY <1>7, <1>8

\* There are more objects than searches that could refer to one each.
LEMMA FreeObject ==
    ASSUME NEW f \in [Search -> {0} \cup ObjectId]
    PROVE  \E i \in ObjectId : \A t \in Search : f[t] # i
<1> SUFFICES ASSUME \A i \in ObjectId : \E t \in Search : f[t] = i
             PROVE  FALSE
  OBVIOUS
<1> DEFINE g == [i \in ObjectId |-> CHOOSE t \in Search : f[t] = i]
<1>1. g \in [ObjectId -> Search] /\ \A i \in ObjectId : f[g[i]] = i
  OBVIOUS
<1> HIDE DEF g
<1>2. IsFiniteSet(Search) /\ Cardinality(Search) \in Nat
  BY DialogSearchAssumption, FS_CardinalityType
<1>3. IsFiniteSet(ObjectId) /\ Cardinality(ObjectId) = Cardinality(Search) + 1
  BY <1>2, FS_Interval DEF ObjectId
<1>4. \E i, j \in ObjectId : i # j /\ g[i] = g[j]
  BY <1>1, <1>2, <1>3, FS_PigeonHole
<1>5. QED
  BY <1>1, <1>4

\* A new lock of a dialog is nobody's yet.
LEMMA FreshLockIsFresh ==
    ASSUME DialogInv, NEW s \in Search, NEW d \in Dialog, task[s][d].lock = 0
    PROVE  FreshLock(d) \in ObjectId /\ ~InUse(d, FreshLock(d))
<1> DEFINE f == [t \in Search |-> IF t = s THEN locks[d] ELSE task[t][d].lock]
<1>1. f \in [Search -> {0} \cup ObjectId]
  BY DEF DialogInv, DialogTypes, Task
<1>2. PICK i \in ObjectId : \A t \in Search : f[t] # i
  <2> HIDE DEF f
  <2>1. QED
    BY <1>1, FreeObject
<1>3. i # 0
  BY Objects
<1>4. i # locks[d] /\ ~InUse(d, i)
  BY <1>2, <1>3 DEF InUse
<1>5. QED
  BY <1>4 DEF FreshLock

\* A lock that is held or awaited, or one that is the task's from now on.
LEMMA SourceLockKeeps ==
    ASSUME DialogInv, NEW s \in Search, NEW d \in Dialog, TelegramSourceLock(s, d),
           \/ Kind[s] = "fast" /\ task[s][d].stage = "new"
           \/ Kind[s] = "history" /\ task[s][d].stage = "granted",
           UNCHANGED <<desired, sem, semOf, spent, takeovers>>
    PROVE  DialogInv'
<1> DEFINE dict == EvictStaleLocks(locks)
           lock == IF dict[d] # 0 THEN dict[d] ELSE FreshLock(d)
<1>1. task[s][d].lock = 0
  BY DEF DialogInv, LockInv, HasLock
<1>2. dict \in [Dialog -> {0} \cup ObjectId]
  BY DEF EvictStaleLocks, DialogInv, DialogTypes
<1>3. lock \in ObjectId
  BY <1>1, <1>2, FreshLockIsFresh
<1>4. /\ locks' = [dict EXCEPT ![d] = lock]
      /\ IF LockHeld(d, lock) \/ Awaited(d, lock)
         THEN /\ task' = [task EXCEPT ![s][d] = [stage |-> "wait_lock", lock |-> lock]]
              /\ UNCHANGED <<value, queue>>
         ELSE Locked(s, d, lock)
  BY DEF TelegramSourceLock
<1>5. locks' \in [Dialog -> {0} \cup ObjectId]
  <2> HIDE DEF dict, lock
  <2>1. QED
    BY <1>2, <1>3, <1>4
<1>6. ~LockHeld(d, lock) => LockIsFree(s, d, lock)
  <2> HIDE DEF lock
  <2>1. QED
    BY DEF LockHeld, LockIsFree
<1> HIDE DEF dict, lock
<1>7. lock # 0
  BY <1>3, Objects
<1>8. semOf[s] # 0
  BY DEF DialogInv, BusyInv
<1>9. ASSUME NEW new \in Task, Becomes(s, d, new), UNCHANGED <<value, queue>>,
             new.lock = lock, Kind[s] = "history" \/ new.stage = "wait_lock",
             new.stage = "wait_lock" \/ (new.stage = "remote" /\ ~LockHeld(d, lock))
      PROVE  DialogInv'
  <2>1. LockInv' /\ LocksExclude'
    BY <1>6, <1>7, <1>9, OneTaskLocks DEF HasLock
  <2>2. /\ task' \in [Search -> [Dialog -> Task]] /\ task'[s][d] = new
        /\ \A t \in Search, e \in Dialog : t # s \/ e # d => task'[t][e] = task[t][e]
    BY <1>9, OneTask
  <2>3. HasPermit(s, new) <=> HasPermit(s, task[s][d])
    BY <1>9 DEF HasPermit
  <2>4. \A t \in Search, e \in Dialog :
          /\ HasPermit(t, task'[t][e]) <=> HasPermit(t, task[t][e])
          /\ task'[t][e].stage = "wait_permit" <=> task[t][e].stage = "wait_permit"
          /\ task'[t][e].stage # "todo" => semOf[t] # 0
    BY <1>8, <1>9, <2>2, <2>3 DEF DialogInv, BusyInv
  <2>5. /\ desired' \in 1..MaxPermits /\ spent' \in [Search -> BOOLEAN]
        /\ takeovers' \in 0..MaxTakeovers
    BY DEF DialogInv, DialogTypes
  <2>6. QED
    BY <1>5, <1>9, <2>1, <2>2, <2>4, <2>5, MovesKeep
<1>10. \A stage \in {"wait_lock", "remote"} : [stage |-> stage, lock |-> lock] \in Task
  BY <1>3 DEF Task, Stage
<1>11. CASE LockHeld(d, lock) \/ Awaited(d, lock)
  <2>1. PICK new \in Task : new = [stage |-> "wait_lock", lock |-> lock]
    BY <1>10
  <2>2. Becomes(s, d, new) /\ UNCHANGED <<value, queue>>
    BY <1>4, <1>11, <2>1 DEF Becomes
  <2>3. new.stage = "wait_lock" /\ new.lock = lock
    BY <2>1
  <2>4. QED
    BY <1>9, <2>2, <2>3
<1>12. CASE ~LockHeld(d, lock) /\ Locked(s, d, lock) /\ Kind[s] = "history"
  <2>1. PICK new \in Task : new = [stage |-> "remote", lock |-> lock]
    BY <1>10
  <2>2. Becomes(s, d, new) /\ UNCHANGED <<value, queue>>
    BY <1>12, <2>1 DEF Locked, Becomes
  <2>3. new.stage = "remote" /\ new.lock = lock
    BY <2>1
  <2>4. QED
    BY <1>9, <1>12, <2>2, <2>3
<1>13. CASE ~LockHeld(d, lock) /\ Locked(s, d, lock) /\ Kind[s] = "fast"
  <2>1. Acquire(s, d, lock)
    BY <1>13 DEF Locked
  <2>2. task[s][d].stage = "new"
    BY <1>13
  <2>3. ~HasPermit(s, task[s][d])
    BY <2>2 DEF HasPermit
  <2>4. QED
    BY <1>3, <1>5, <1>6, <1>7, <1>13, <2>1, <2>2, <2>3, AcquireKeeps
<1>14. QED
  BY <1>4, <1>11, <1>12, <1>13, DialogSearchAssumption

\* Taking a lock keeps the invariant.
LEMMA TakeLockKeeps ==
    ASSUME DialogInv, NEW s \in Search, NEW d \in Dialog, TakeLock(s, d)
    PROVE  DialogInv'
<1> DEFINE lock == task[s][d].lock
<1>1. task[s][d].stage = "wait_lock" /\ ~LockHeld(d, lock) /\ Locked(s, d, lock)
  BY DEF TakeLock
<1>2. UNCHANGED <<desired, sem, semOf, spent, locks, takeovers>>
  BY DEF TakeLock
<1>3. lock \in ObjectId /\ lock # 0
  BY <1>1 DEF DialogInv, DialogTypes, LockInv, Task
<1>4. LockIsFree(s, d, lock)
  BY <1>1 DEF LockHeld, LockIsFree
<1>5. /\ desired' \in 1..MaxPermits /\ spent' \in [Search -> BOOLEAN]
      /\ takeovers' \in 0..MaxTakeovers /\ locks' \in [Dialog -> {0} \cup ObjectId]
  BY <1>2 DEF DialogInv, DialogTypes
<1> HIDE DEF lock
<1>6. CASE Kind[s] = "history"
  <2>1. PICK new \in Task : new = [stage |-> "remote", lock |-> lock]
    BY <1>3 DEF Task, Stage
  <2>2. Becomes(s, d, new) /\ UNCHANGED <<value, queue>>
    BY <1>1, <1>6, <2>1 DEF Locked, Becomes
  <2>3. new.stage = "remote" /\ new.lock = lock
    BY <2>1
  <2>4. LockInv' /\ LocksExclude'
    BY <1>3, <1>4, <2>2, <2>3, OneTaskLocks DEF HasLock
  <2>5. /\ task' \in [Search -> [Dialog -> Task]] /\ task'[s][d] = new
        /\ \A t \in Search, e \in Dialog : t # s \/ e # d => task'[t][e] = task[t][e]
    BY <2>2, OneTask
  <2>6. HasPermit(s, new) /\ HasPermit(s, task[s][d]) /\ semOf[s] # 0
    BY <1>1, <1>6, <2>3 DEF HasPermit, DialogInv, BusyInv
  <2>7. \A t \in Search, e \in Dialog :
          /\ HasPermit(t, task'[t][e]) <=> HasPermit(t, task[t][e])
          /\ task'[t][e].stage = "wait_permit" <=> task[t][e].stage = "wait_permit"
          /\ task'[t][e].stage # "todo" => semOf[t] # 0
    BY <1>1, <2>3, <2>5, <2>6 DEF DialogInv, BusyInv
  <2>8. QED
    BY <1>2, <1>5, <2>2, <2>4, <2>5, <2>7, MovesKeep
<1>7. CASE Kind[s] = "fast"
  <2>1. Acquire(s, d, lock)
    BY <1>1, <1>7 DEF Locked
  <2>2. ~HasPermit(s, task[s][d])
    BY <1>1, <1>7 DEF HasPermit
  <2>3. QED
    BY <1>1, <1>2, <1>3, <1>4, <1>5, <1>7, <2>1, <2>2, AcquireKeeps
<1>8. QED
  BY <1>6, <1>7, DialogSearchAssumption

\* So do the other steps of a task.
LEMMA TaskRunsKeeps ==
    ASSUME DialogInv, NEW s \in Search, NEW d \in Dialog, TaskRuns(s, d)
    PROVE  DialogInv'
<1>1. /\ desired \in 1..MaxPermits /\ spent \in [Search -> BOOLEAN]
      /\ takeovers \in 0..MaxTakeovers /\ locks \in [Dialog -> {0} \cup ObjectId]
  BY DEF DialogInv, DialogTypes
<1>2. CASE StartTask(s, d)
  <2>1. task[s][d].stage = "new" /\ UNCHANGED <<desired, sem, semOf, spent, takeovers>>
    BY <1>2 DEF StartTask
  <2>2. CASE Finish(s, d, "empty") /\ UNCHANGED locks
    BY <2>1, <2>2, FinishKeeps
  <2>3. CASE Kind[s] = "history" /\ Acquire(s, d, 0) /\ UNCHANGED locks
    <3>1. ~HasPermit(s, task[s][d])
      BY <2>1 DEF HasPermit
    <3>2. QED
      BY <1>1, <2>1, <2>3, <3>1, AcquireKeeps
  <2>4. CASE Kind[s] = "fast" /\ TelegramSourceLock(s, d)
    BY <2>1, <2>4, SourceLockKeeps
  <2>5. QED
    BY <1>2, <2>2, <2>3, <2>4 DEF StartTask
<1>3. CASE GoOn(s, d)
  <2>1. task[s][d].stage = "granted" /\ UNCHANGED <<desired, sem, semOf, spent, takeovers>>
    BY <1>3 DEF GoOn
  <2>2. CASE Finish(s, d, "empty") /\ UNCHANGED locks
    BY <2>1, <2>2, FinishKeeps
  <2>3. CASE Kind[s] = "history" /\ TelegramSourceLock(s, d)
    BY <2>1, <2>3, SourceLockKeeps
  <2>4. CASE /\ Kind[s] = "fast"
             /\ task' = [task EXCEPT ![s][d].stage = "remote"]
             /\ UNCHANGED <<value, queue, locks>>
    <3>1. task[s][d] \in Task /\ task \in [Search -> [Dialog -> Task]]
      BY DEF DialogInv, DialogTypes
    <3>2. PICK new \in Task : new = [stage |-> "remote", lock |-> task[s][d].lock]
      BY <3>1 DEF Task, Stage
    <3>3. Becomes(s, d, new)
      <4>1. [task[s][d] EXCEPT !.stage = "remote"] = new
        BY <3>1, <3>2 DEF Task
      <4>2. QED
        BY <2>4, <3>1, <4>1 DEF Becomes
    <3>4. new.stage = "remote" /\ new.lock = task[s][d].lock
      BY <3>2
    <3>5. HasLock(s, task[s][d]) /\ HasLock(s, new)
      BY <2>1, <2>4, <3>4 DEF HasLock
    <3>6. LockIsFree(s, d, new.lock) /\ new.lock # 0
      BY <3>4, <3>5 DEF LockIsFree, DialogInv, LocksExclude, LockInv
    <3>7. LockInv' /\ LocksExclude'
      BY <3>3, <3>5, <3>6, OneTaskLocks
    <3>8. /\ task' \in [Search -> [Dialog -> Task]] /\ task'[s][d] = new
          /\ \A t \in Search, e \in Dialog : t # s \/ e # d => task'[t][e] = task[t][e]
      BY <3>3, OneTask
    <3>9. HasPermit(s, new) /\ HasPermit(s, task[s][d]) /\ semOf[s] # 0
      BY <2>1, <3>4 DEF HasPermit, DialogInv, BusyInv
    <3>10. \A t \in Search, e \in Dialog :
             /\ HasPermit(t, task'[t][e]) <=> HasPermit(t, task[t][e])
             /\ task'[t][e].stage = "wait_permit" <=> task[t][e].stage = "wait_permit"
             /\ task'[t][e].stage # "todo" => semOf[t] # 0
      BY <2>1, <3>4, <3>8, <3>9 DEF DialogInv, BusyInv
    <3>11. QED
      BY <1>1, <2>1, <2>4, <3>7, <3>8, <3>10, MovesKeep
  <2>5. QED
    BY <1>3, <2>2, <2>3, <2>4 DEF GoOn
<1>4. CASE RemoteEnds(s, d)
  <2>1. task[s][d].stage = "remote" /\ UNCHANGED <<desired, sem, semOf, spent, locks, takeovers>>
    BY <1>4 DEF RemoteEnds
  <2>2. PICK stage \in {"empty", "hit"} : Finish(s, d, stage)
    BY <1>4 DEF RemoteEnds
  <2>3. QED
    BY <2>1, <2>2, FinishKeeps
<1>5. QED
  BY <1>2, <1>3, <1>4 DEF TaskRuns

----------------------------------------------------------------------------
(* Searches *)

\* Tasks are created and results taken: nothing changes hands.
LEMMA RefillKeeps ==
    ASSUME DialogInv, NEW s \in Search, NEW next \in SUBSET InStage(s, "todo"), Refill(s, next),
           Finished(s) # {}, UNCHANGED <<desired, sem, spent, locks, takeovers>>
    PROVE  DialogInv'
<1>1. \A stage \in {"over", "new"} : [stage |-> stage, lock |-> 0] \in Task
  BY DEF Task, Stage
<1>2. task \in [Search -> [Dialog -> Task]]
  BY DEF DialogInv, DialogTypes
<1>3. semOf[s] # 0
  BY DialogSearchAssumption DEF DialogInv, BusyInv, Finished, InStage
<1>4. /\ \A t \in Search \ {s} : task'[t] = task[t]
      /\ \A d \in Dialog :
           \/ task'[s][d] = task[s][d]
           \/ /\ task[s][d].stage \in {"hit", "empty", "todo"}
              /\ task'[s][d] \in {[stage |-> "over", lock |-> 0], [stage |-> "new", lock |-> 0]}
  <2> DEFINE row == [d \in Dialog |->
                  CASE d \in Finished(s) -> [stage |-> "over", lock |-> 0]
                    [] d \in next -> [stage |-> "new", lock |-> 0]
                    [] OTHER -> task[s][d]]
  <2>1. task' = [task EXCEPT ![s] = row]
    BY DEF Refill
  <2>2. \A d \in Dialog :
          \/ row[d] = task[s][d]
          \/ /\ task[s][d].stage \in {"hit", "empty", "todo"}
             /\ row[d] \in {[stage |-> "over", lock |-> 0], [stage |-> "new", lock |-> 0]}
    BY DEF Finished, InStage
  <2> HIDE DEF row
  <2>3. task'[s] = row /\ \A t \in Search \ {s} : task'[t] = task[t]
    BY <1>2, <2>1
  <2>4. QED
    BY <2>2, <2>3
<1>5. task' \in [Search -> [Dialog -> Task]]
  <2> DEFINE row == [d \in Dialog |->
                  CASE d \in Finished(s) -> [stage |-> "over", lock |-> 0]
                    [] d \in next -> [stage |-> "new", lock |-> 0]
                    [] OTHER -> task[s][d]]
  <2>1. task' = [task EXCEPT ![s] = row]
    BY DEF Refill
  <2>2. row \in [Dialog -> Task]
    BY <1>1, <1>2
  <2> HIDE DEF row
  <2>3. QED
    BY <1>2, <2>1, <2>2
<1>6. ASSUME NEW t \in Search, NEW d \in Dialog
      PROVE  /\ HasPermit(t, task'[t][d]) <=> HasPermit(t, task[t][d])
             /\ task'[t][d].stage = "wait_permit" <=> task[t][d].stage = "wait_permit"
             /\ task'[t][d].stage # "todo" => semOf[t] # 0
             /\ HasLock(t, task'[t][d]) => HasLock(t, task[t][d]) /\ task'[t][d] = task[t][d]
             /\ task'[t][d].lock # 0 <=> HasLock(t, task'[t][d]) \/ task'[t][d].stage = "wait_lock"
  <2>1. CASE task'[t][d] = task[t][d]
    BY <2>1 DEF DialogInv, BusyInv, LockInv
  <2>2. CASE /\ t = s /\ task[s][d].stage \in {"hit", "empty", "todo"}
             /\ task'[s][d].stage \in {"over", "new"} /\ task'[s][d].lock = 0
    BY <1>3, <2>2 DEF HasPermit, HasLock
  <2>3. QED
    BY <1>4, <2>1, <2>2
<1>7. LockInv' /\ LocksExclude'
  <2>1. \A t \in Search, d \in Dialog :
          task'[t][d].lock # 0 <=> HasLock(t, task'[t][d]) \/ task'[t][d].stage = "wait_lock"
    BY <1>6
  <2>2. \A d \in Dialog, t, u \in Search :
          t # u /\ HasLock(t, task'[t][d]) /\ HasLock(u, task'[u][d])
              => task'[t][d].lock # task'[u][d].lock
    BY <1>6 DEF DialogInv, LocksExclude
  <2>3. QED
    BY <2>1, <2>2 DEF LockInv, LocksExclude, HasLock
<1>8. /\ desired' \in 1..MaxPermits /\ spent' \in [Search -> BOOLEAN]
      /\ takeovers' \in 0..MaxTakeovers /\ locks' \in [Dialog -> {0} \cup ObjectId]
  BY DEF DialogInv, DialogTypes
<1>9. UNCHANGED <<sem, value, queue, semOf>>
  BY DEF Refill
<1>10. QED
  BY <1>5, <1>6, <1>7, <1>8, <1>9, MovesKeep

\* So do the steps of a search: filling its pool, collecting, cancelling.
LEMMA SearchRunsKeeps ==
    ASSUME DialogInv, NEW s \in Search, SearchRuns(s)
    PROVE  DialogInv'
<1>1. spent \in [Search -> BOOLEAN] /\ [spent EXCEPT ![s] = FALSE] \in [Search -> BOOLEAN]
  BY DEF DialogInv, DialogTypes
<1>2. Finished(s) # {} => semOf[s] # 0
  BY DialogSearchAssumption DEF DialogInv, BusyInv, Finished, InStage
<1>3. CASE CollectHistory(s)
  BY <1>3, RefillKeeps DEF CollectHistory
<1>4. CASE CollectFast(s)
  <2>1. CASE Return(s) /\ spent' = [spent EXCEPT ![s] = FALSE]
    BY <1>1, <1>2, <1>4, <2>1, ReturnKeeps DEF CollectFast
  <2>2. CASE /\ \E next \in SUBSET InStage(s, "todo") : Refill(s, next)
             /\ UNCHANGED spent
    BY <1>4, <2>2, RefillKeeps DEF CollectFast
  <2>3. QED
    BY <1>4, <2>1, <2>2 DEF CollectFast
<1>5. CASE SearchEnds(s)
  BY <1>1, <1>5, ReturnKeeps DEF SearchEnds, Running
<1>6. QED
  BY <1>3, <1>4, <1>5 DEF SearchRuns

\* A new semaphore is nobody's yet.
LEMMA FreshSemIsFresh ==
    ASSUME DialogInv, NEW s \in Search, ~Running(s)
    PROVE  /\ FreshSem \in ObjectId /\ FreshSem # sem.id
           /\ \A t \in Search : semOf[t] # FreshSem
<1> DEFINE f == [t \in Search |-> IF t = s THEN sem.id ELSE semOf[t]]
<1>1. f \in [Search -> {0} \cup ObjectId]
  BY DEF DialogInv, DialogTypes
<1>2. PICK i \in ObjectId : \A t \in Search : f[t] # i
  <2> HIDE DEF f
  <2>1. QED
    BY <1>1, FreeObject
<1>3. i # 0 /\ semOf[s] = 0
  BY Objects DEF Running
<1>4. i # sem.id /\ \A t \in Search : semOf[t] # i
  BY <1>2, <1>3
<1>5. QED
  BY <1>4 DEF FreshSem

\* What a search that begins finds in the semaphore.
LEMMA SemaphoreKeeps ==
    ASSUME DialogInv, NEW s \in Search, ~Running(s), TelegramDialogSearchSemaphore
    PROVE  /\ sem' \in [id : ObjectId, limit : 0..MaxPermits]
           /\ value' \in [ObjectId -> Nat]
           /\ \A k \in ObjectId :
                IF k = sem'.id \/ \E t \in Search : semOf[t] = k
                THEN value'[k] + Cardinality(Holders(k)) \in 1..MaxPermits
                ELSE value'[k] = 0
<1>1. /\ sem \in [id : {0} \cup ObjectId, limit : 0..MaxPermits]
      /\ desired \in 1..MaxPermits /\ value \in [ObjectId -> Nat]
      /\ MaxPermits \in Nat
  BY DialogSearchAssumption DEF DialogInv, DialogTypes
<1>2. \A k \in ObjectId :
        IF k = sem.id \/ \E t \in Search : semOf[t] = k
        THEN value[k] + Cardinality(Holders(k)) \in 1..MaxPermits
        ELSE value[k] = 0
  BY DEF DialogInv, PermitsKept, FreeIsZero, Used
<1>3. CASE sem.id # 0 /\ UNCHANGED <<sem, value>>
  BY <1>1, <1>2, <1>3
<1>4. CASE /\ sem.id # 0
           /\ sem' = [sem EXCEPT !.limit = desired]
           /\ value' = [value EXCEPT ![sem.id] = Smaller(@, desired)]
  <2>1. sem.id \in ObjectId /\ sem' = [id |-> sem.id, limit |-> desired]
    BY <1>1, <1>4
  <2>2. \A k \in ObjectId : value'[k] = IF k = sem.id THEN Smaller(value[k], desired) ELSE value[k]
    BY <1>1, <1>4
  <2>3. value' \in [ObjectId -> Nat]
    <3>1. Smaller(value[sem.id], desired) \in Nat
      BY <1>1, <2>1 DEF Smaller
    <3>2. QED
      BY <1>1, <1>4, <3>1
  <2>4. ASSUME NEW k \in ObjectId
        PROVE  IF k = sem'.id \/ \E t \in Search : semOf[t] = k
               THEN value'[k] + Cardinality(Holders(k)) \in 1..MaxPermits
               ELSE value'[k] = 0
    <3>1. CASE k = sem.id
      <4>1. value[k] \in Nat /\ Cardinality(Holders(k)) \in Nat
        BY <1>1, WorkIsFinite
      <4>2. value[k] + Cardinality(Holders(k)) \in 1..MaxPermits
        BY <1>2, <3>1
      <4>3. Smaller(value[k], desired) + Cardinality(Holders(k)) \in 1..MaxPermits
        BY <1>1, <4>1, <4>2 DEF Smaller
      <4>4. QED
        BY <2>1, <2>2, <3>1, <4>3
    <3>2. CASE k # sem.id
      BY <1>2, <2>1, <2>2, <3>2
    <3>3. QED
      BY <3>1, <3>2
  <2>5. sem' \in [id : ObjectId, limit : 0..MaxPermits]
    BY <1>1, <2>1
  <2>6. QED
    BY <2>3, <2>4, <2>5
<1>5. CASE /\ sem' = [id |-> FreshSem, limit |-> desired]
           /\ value' = [Alive(value, semOf, 0) EXCEPT ![FreshSem] = desired]
  <2>1. PICK i \in ObjectId : i = FreshSem /\ i # sem.id /\ \A t \in Search : semOf[t] # i
    BY FreshSemIsFresh
  <2>2. \A k \in ObjectId :
          value'[k] = IF k = i THEN desired
                      ELSE IF \E t \in Search : semOf[t] = k THEN value[k] ELSE 0
    BY <1>5, <2>1, Objects DEF Alive
  <2>3. value' \in [ObjectId -> Nat]
    <3>1. \A k \in ObjectId : value'[k] \in Nat
      BY <1>1, <2>2
    <3>2. value' = [k \in ObjectId |-> value'[k]]
      BY <1>5 DEF Alive
    <3>3. QED
      BY <3>1, <3>2
  <2>4. Holders(i) = {}
    BY <2>1 DEF Holders
  <2>5. Cardinality(Holders(i)) = 0
    BY <2>4, FS_EmptySet
  <2>6. sem' = [id |-> i, limit |-> desired]
    BY <1>5, <2>1
  <2>7. QED
    BY <1>1, <1>2, <2>2, <2>3, <2>5, <2>6
<1>6. QED
  BY <1>3, <1>4, <1>5 DEF TelegramDialogSearchSemaphore, Kept, ShrunkInPlace

\* So does a search that begins, with a new, a cut or the kept semaphore.
LEMMA SearchBeginsKeeps ==
    ASSUME DialogInv, NEW s \in Search, SearchBegins(s)
    PROVE  DialogInv'
<1>1. ~Running(s) /\ semOf[s] = 0
  BY DEF SearchBegins, Running
<1>2. /\ sem' \in [id : ObjectId, limit : 0..MaxPermits]
      /\ value' \in [ObjectId -> Nat]
      /\ \A k \in ObjectId :
           IF k = sem'.id \/ \E t \in Search : semOf[t] = k
           THEN value'[k] + Cardinality(Holders(k)) \in 1..MaxPermits
           ELSE value'[k] = 0
  BY <1>1, SemaphoreKeeps DEF SearchBegins
<1>3. /\ semOf \in [Search -> {0} \cup ObjectId] /\ task \in [Search -> [Dialog -> Task]]
      /\ spent \in [Search -> BOOLEAN]
  BY DEF DialogInv, DialogTypes
<1>4. /\ semOf' = [semOf EXCEPT ![s] = sem'.id]
      /\ spent' = [spent EXCEPT ![s] = FALSE]
      /\ UNCHANGED <<desired, queue, locks, takeovers>>
  BY DEF SearchBegins
<1>5. /\ semOf' \in [Search -> {0} \cup ObjectId]
      /\ semOf'[s] = sem'.id /\ \A t \in Search \ {s} : semOf'[t] = semOf[t]
  BY <1>2, <1>3, <1>4
<1>6. /\ task' \in [Search -> [Dialog -> Task]]
      /\ \A t \in Search \ {s} : task'[t] = task[t]
      /\ \A d \in Dialog : task'[s][d].stage \in {"new", "todo"} /\ task'[s][d].lock = 0
  <2>1. PICK first : task' = [task EXCEPT ![s] = [d \in Dialog |->
                               IF d \in first THEN [stage |-> "new", lock |-> 0] ELSE Todo]]
    BY DEF SearchBegins
  <2> DEFINE row == [d \in Dialog |-> IF d \in first THEN [stage |-> "new", lock |-> 0] ELSE Todo]
  <2>2. row \in [Dialog -> Task]
    BY DEF Todo, Task, Stage
  <2>3. \A d \in Dialog : row[d].stage \in {"new", "todo"} /\ row[d].lock = 0
    BY DEF Todo
  <2> HIDE DEF row
  <2>4. task' = [task EXCEPT ![s] = row]
    BY <2>1 DEF row
  <2>5. QED
    BY <1>3, <2>2, <2>3, <2>4
<1>7. \A d \in Dialog : task[s][d].stage = "todo"
  BY <1>1 DEF DialogInv, BusyInv
<1>8. ASSUME NEW k \in ObjectId
      PROVE  Waiting(k)' = Waiting(k) /\ Holders(k)' = Holders(k)
  <2>1. k # 0
    BY Objects
  <2>2. Waiting(k)' = Waiting(k)
    BY <1>1, <1>5, <1>6, <2>1 DEF Waiting, Work
  <2>3. Holders(k)' = Holders(k)
    BY <1>1, <1>5, <1>6, <2>1 DEF Holders, HasPermit
  <2>4. QED
    BY <2>2, <2>3
<1>9. DialogTypes'
  BY <1>2, <1>3, <1>4, <1>5, <1>6 DEF DialogInv, DialogTypes
<1>10. LineInv'
  <2>1. \A k \in ObjectId : Lists(queue'[k], Waiting(k)')
    BY <1>4, <1>8 DEF DialogInv, LineInv
  <2>2. QED
    BY <2>1 DEF LineInv
<1>11. BusyInv'
  BY <1>2, <1>5, <1>6, Objects DEF DialogInv, BusyInv
<1>12. ASSUME NEW t \in Search, NEW d \in Dialog
       PROVE  /\ task'[t][d].lock # 0 <=> HasLock(t, task'[t][d]) \/ task'[t][d].stage = "wait_lock"
              /\ HasLock(t, task'[t][d]) => HasLock(t, task[t][d]) /\ task'[t][d] = task[t][d]
  <2>1. CASE t = s
    BY <1>6, <2>1 DEF HasLock
  <2>2. CASE t # s
    BY <1>6, <2>2 DEF DialogInv, LockInv
  <2>3. QED
    BY <2>1, <2>2
<1>13. LockInv' /\ LocksExclude'
  <2>1. \A d \in Dialog, t, u \in Search :
          t # u /\ HasLock(t, task'[t][d]) /\ HasLock(u, task'[u][d])
              => task'[t][d].lock # task'[u][d].lock
    BY <1>12 DEF DialogInv, LocksExclude
  <2>2. QED
    BY <1>12, <2>1 DEF LockInv, LocksExclude, HasLock
<1>14. \A k \in ObjectId : Used(k)' <=> k = sem'.id \/ \E t \in Search : semOf[t] = k
  BY <1>1, <1>5, Objects DEF Used
<1>15. FreeIsZero' /\ PermitsKept'
  <2>1. \A k \in ObjectId : ~Used(k)' => value'[k] = 0
    BY <1>2, <1>14
  <2>2. \A k \in ObjectId : Used(k)' => value'[k] + Cardinality(Holders(k)') \in 1..MaxPermits
    BY <1>2, <1>8, <1>14
  <2>3. QED
    BY <2>1, <2>2 DEF FreeIsZero, PermitsKept, Used
<1>16. QED
  BY <1>9, <1>10, <1>11, <1>13, <1>15 DEF DialogInv

\* So do the gate, the other loops and the clock.
LEMMA OthersKeep ==
    ASSUME DialogInv,
           \/ PressureChanges \/ OtherLoopSearches \/ OtherLoopLocks
           \/ UNCHANGED vars
           \/ \E s \in Search : TimeRunsOut(s)
    PROVE  DialogInv'
<1>1. UNCHANGED <<queue, semOf, task>>
  BY DEF PressureChanges, OtherLoopSearches, OtherLoopLocks, vars, TimeRunsOut
<1>2. LockInv' /\ LocksExclude'
  BY <1>1 DEF DialogInv, LockInv, LocksExclude, HasLock
<1>3. task' \in [Search -> [Dialog -> Task]] /\ MaxPermits \in Nat /\ MaxTakeovers \in Nat
  BY <1>1, DialogSearchAssumption DEF DialogInv, DialogTypes
<1>4. /\ desired \in 1..MaxPermits /\ spent \in [Search -> BOOLEAN]
      /\ takeovers \in 0..MaxTakeovers /\ locks \in [Dialog -> {0} \cup ObjectId]
  BY DEF DialogInv, DialogTypes
<1>5. \A t \in Search, d \in Dialog :
        /\ HasPermit(t, task'[t][d]) <=> HasPermit(t, task[t][d])
        /\ task'[t][d].stage = "wait_permit" <=> task[t][d].stage = "wait_permit"
        /\ task'[t][d].stage # "todo" => semOf[t] # 0
  BY <1>1 DEF DialogInv, BusyInv
<1>6. CASE PressureChanges
  <2>1. desired' \in 1..MaxPermits
    BY <1>3, <1>4, <1>6 DEF PressureChanges, Smaller
  <2>2. UNCHANGED <<sem, value, spent, locks, takeovers>>
    BY <1>6 DEF PressureChanges
  <2>3. QED
    BY <1>1, <1>2, <1>3, <1>4, <1>5, <2>1, <2>2, MovesKeep
<1>7. CASE OtherLoopLocks
  <2>1. locks' \in [Dialog -> {0} \cup ObjectId] /\ takeovers' \in 0..MaxTakeovers
    BY <1>3, <1>4, <1>7 DEF OtherLoopLocks
  <2>2. UNCHANGED <<desired, sem, value, spent>>
    BY <1>7 DEF OtherLoopLocks
  <2>3. QED
    BY <1>1, <1>2, <1>3, <1>4, <1>5, <2>1, <2>2, MovesKeep
<1>8. CASE \E s \in Search : TimeRunsOut(s)
  <2>1. spent' \in [Search -> BOOLEAN]
    BY <1>4, <1>8 DEF TimeRunsOut
  <2>2. UNCHANGED <<desired, sem, value, locks, takeovers>>
    BY <1>8 DEF TimeRunsOut
  <2>3. QED
    BY <1>1, <1>2, <1>3, <1>4, <1>5, <2>1, <2>2, MovesKeep
<1>9. CASE UNCHANGED vars
  BY <1>1, <1>2, <1>3, <1>4, <1>5, <1>9, MovesKeep DEF vars
<1>10. CASE OtherLoopSearches
  <2>1. /\ sem' = [id |-> 0, limit |-> 0] /\ takeovers' = takeovers + 1 /\ takeovers < MaxTakeovers
        /\ value' = Alive(value, semOf, 0)
        /\ UNCHANGED <<desired, spent, locks>>
    BY <1>10 DEF OtherLoopSearches
  <2>2. \A k \in ObjectId : value'[k] = IF \E t \in Search : semOf[t] = k THEN value[k] ELSE 0
    BY <2>1, Objects DEF Alive
  <2>3. value' \in [ObjectId -> Nat]
    <3>1. \A k \in ObjectId : value'[k] \in Nat
      BY <2>2 DEF DialogInv, DialogTypes
    <3>2. value' = [k \in ObjectId |-> value'[k]]
      BY <2>1 DEF Alive
    <3>3. QED
      BY <3>1, <3>2
  <2>4. DialogTypes'
    BY <1>1, <1>3, <1>4, <2>1, <2>3 DEF DialogInv, DialogTypes
  <2>5. ASSUME NEW k \in ObjectId
        PROVE  /\ Waiting(k)' = Waiting(k) /\ Holders(k)' = Holders(k)
               /\ Used(k)' <=> \E t \in Search : semOf[t] = k
    <3>1. k # 0
      BY Objects
    <3>2. QED
      BY <1>1, <2>1, <3>1 DEF Waiting, Holders, Used, Work, HasPermit
  <2>6. LineInv'
    <3>1. \A k \in ObjectId : Lists(queue'[k], Waiting(k)')
      BY <1>1, <2>5 DEF DialogInv, LineInv
    <3>2. QED
      BY <3>1 DEF LineInv
  <2>7. BusyInv'
    BY <1>1 DEF DialogInv, BusyInv
  <2>8. FreeIsZero' /\ PermitsKept'
    <3>1. \A k \in ObjectId : ~Used(k)' => value'[k] = 0
      BY <2>2, <2>5
    <3>2. \A k \in ObjectId : Used(k)' => value'[k] + Cardinality(Holders(k)') \in 1..MaxPermits
      BY <2>2, <2>5 DEF DialogInv, PermitsKept
    <3>3. QED
      BY <3>1, <3>2 DEF FreeIsZero, PermitsKept, Used
  <2>9. QED
    BY <1>2, <2>4, <2>6, <2>7, <2>8 DEF DialogInv
<1>11. QED
  BY <1>6, <1>7, <1>8, <1>9, <1>10

\* The invariant of permits, lines and locks.
LEMMA DialogInvHolds == Spec => []DialogInv
<1>1. Init => DialogInv
  <2> SUFFICES ASSUME Init PROVE DialogInv
    OBVIOUS
  <2>1. MaxPermits \in Nat \ {0} /\ MaxTakeovers \in Nat /\ MaxPermits \in 1..MaxPermits /\ 0 \in 0..MaxPermits
    BY DialogSearchAssumption
  <2>2. Todo \in Task /\ Todo.stage = "todo" /\ Todo.lock = 0
    BY DEF Todo, Task, Stage
  <2>3. \A s \in Search, d \in Dialog : task[s][d] = Todo
    BY DEF Init
  <2>4. DialogTypes
    <3>1. <<>> \in Seq(Work)
      OBVIOUS
    <3>2. sem \in [id : {0} \cup ObjectId, limit : 0..MaxPermits]
      BY <2>1 DEF Init
    <3>3. QED
      BY <2>1, <2>2, <3>1, <3>2 DEF Init, DialogTypes
  <2>5. LineInv
    <3>1. \A k \in ObjectId : queue[k] = <<>> /\ Waiting(k) = {}
      BY <2>2, <2>3 DEF Init, Waiting, Work
    <3>2. Lists(<<>>, {})
      BY DEF Lists
    <3>3. QED
      BY <3>1, <3>2 DEF LineInv
  <2>6. BusyInv /\ LockInv /\ LocksExclude
    BY <2>2, <2>3 DEF BusyInv, LockInv, LocksExclude, HasLock
  <2>7. FreeIsZero /\ PermitsKept
    <3>1. \A k \in ObjectId : ~Used(k) /\ value[k] = 0
      BY Objects DEF Init, Used
    <3>2. QED
      BY <3>1 DEF FreeIsZero, PermitsKept, Used
  <2>8. QED
    BY <2>4, <2>5, <2>6, <2>7 DEF DialogInv
<1>2. DialogInv /\ [Next]_vars => DialogInv'
  <2> SUFFICES ASSUME DialogInv, [Next]_vars PROVE DialogInv'
    OBVIOUS
  <2>1. ASSUME NEW s \in Search, TelegramSearchTimesOut(s)
        PROVE  DialogInv'
    <3>1. spent' \in [Search -> BOOLEAN]
      BY <2>1 DEF TelegramSearchTimesOut, DialogInv, DialogTypes
    <3>2. QED
      BY <2>1, <3>1, ReturnKeeps DEF TelegramSearchTimesOut, Running
  <2>2. QED
    BY <2>1, OthersKeep, SearchBeginsKeeps, TaskRunsKeeps, TakeLockKeeps, SearchRunsKeeps DEF Next
<1>3. QED
  BY <1>1, <1>2, PTL DEF Spec

----------------------------------------------------------------------------
(* The theorems *)

\* Whatever happens, tasks, permits, lines and locks are what TypeOK says:
\* in particular those in line are exactly those that wait, and a task has a
\* lock object exactly while it holds it or waits for it.
THEOREM DialogTypeCorrect == Spec => []TypeOK
<1>1. DialogInv => TypeOK
  <2> SUFFICES ASSUME DialogInv PROVE TypeOK
    OBVIOUS
  <2>1. DialogTypes /\ LineInv /\ LockInv /\ FreeIsZero /\ PermitsKept /\ MaxPermits \in Nat
    BY DialogSearchAssumption DEF DialogInv
  <2>2. value \in [ObjectId -> 0..MaxPermits]
    <3>1. ASSUME NEW i \in ObjectId
          PROVE  value[i] \in 0..MaxPermits
      <4>1. value[i] \in Nat /\ Cardinality(Holders(i)) \in Nat
        BY <2>1, WorkIsFinite DEF DialogTypes
      <4>2. CASE Used(i)
        BY <2>1, <4>1, <4>2 DEF PermitsKept, Used
      <4>3. CASE ~Used(i)
        BY <2>1, <4>3 DEF FreeIsZero
      <4>4. QED
        BY <4>2, <4>3
    <3>2. QED
      BY <2>1, <3>1 DEF DialogTypes
  <2>3. ASSUME NEW i \in ObjectId, NEW w \in Search \X Dialog
        PROVE  (\E j \in 1..Len(queue[i]) : queue[i][j] = w)
                   <=> semOf[w[1]] = i /\ task[w[1]][w[2]].stage = "wait_permit"
    <3>1. w \in Waiting(i) <=> semOf[w[1]] = i /\ task[w[1]][w[2]].stage = "wait_permit"
      BY DEF Waiting, Work
    <3>2. Lists(queue[i], Waiting(i))
      BY <2>1 DEF LineInv
    <3>3. QED
      BY <3>1, <3>2 DEF Lists
  <2>4. sem.id \in {0} \cup ObjectId /\ sem.limit \in 0..MaxPermits
    BY <2>1 DEF DialogTypes
  <2>5. QED
    BY <2>1, <2>2, <2>3, <2>4 DEF TypeOK, DialogTypes, LockInv
<1>2. QED
  BY <1>1, DialogInvHolds, PTL

\* A semaphore that is in use never runs dry and never gives out more than it
\* was built with: not when tasks are cancelled while they wait or hold a
\* permit, not when its value is cut, not when it is replaced.
THEOREM PermitsAreNeverLost == Spec => []PermitsKept
<1>1. DialogInv => PermitsKept
  BY DEF DialogInv
<1>2. QED
  BY <1>1, DialogInvHolds, PTL

\* Two searches read one dialog at once only when the lock of one of them is
\* no longer the dialog's.
THEOREM DialogsAreSerialized == Spec => []SourceSerialized
<1>1. DialogInv => SourceSerialized
  BY DEF DialogInv, LocksExclude, SourceSerialized, HasLock
<1>2. QED
  BY <1>1, DialogInvHolds, PTL

----------------------------------------------------------------------------
(* The pool of tasks of a history search *)

\* A search that has taken results and not created every task has tasks.
PoolInv ==
    \A s \in Search :
        Kind[s] = "history" /\ semOf[s] # 0 /\ ~spent[s]
          /\ InStage(s, "over") # {} /\ InStage(s, "todo") # {}
            => Pending(s) # {}

\* No task of s is created and no result of s is taken.
Steady(s) ==
    \A d \in Dialog : /\ task'[s][d].stage = "todo" <=> task[s][d].stage = "todo"
                      /\ task'[s][d].stage = "over" <=> task[s][d].stage = "over"

PoolStays(s) ==
    \/ semOf'[s] = 0
    \/ Steady(s) /\ semOf'[s] = semOf[s] /\ (spent'[s] \/ spent'[s] = spent[s])

\* While permits are given back, no other search gets or loses a task.
LEMMA SettlePool ==
    ASSUME DialogInv, NEW s \in Search, semOf[s] # 0, NEW new, Settles(s, new), Settle(s, new),
           \/ semOf'[s] = 0
           \/ /\ semOf'[s] = semOf[s] /\ spent'[s] = spent[s]
              /\ \A d \in Dialog : \/ new[d] = task[s][d]
                                   \/ /\ new[d].stage \notin {"todo", "over"}
                                      /\ task[s][d].stage \notin {"todo", "over"},
           \A t \in Search \ {s} : semOf'[t] = semOf[t] /\ spent'[t] = spent[t]
    PROVE  \A t \in Search : PoolStays(t)
<1>1. PICK woken : Settled(s, new, woken)
  BY SettleIsSettled DEF DialogInv
<1>2. /\ \A t \in Search, d \in Dialog :
           <<t, d>> \in woken => task[t][d].stage = "wait_permit" /\ task'[t][d].stage = "granted"
      /\ \A d \in Dialog : <<s, d>> \notin woken => task'[s][d] = new[d]
      /\ \A t \in Search \ {s}, d \in Dialog : <<t, d>> \notin woken => task'[t][d] = task[t][d]
  BY <1>1, SettledTasks
<1>3. ASSUME NEW t \in Search \ {s}, NEW d \in Dialog
      PROVE  /\ task'[t][d].stage = "todo" <=> task[t][d].stage = "todo"
             /\ task'[t][d].stage = "over" <=> task[t][d].stage = "over"
  <2>1. CASE <<t, d>> \in woken
    BY <1>2, <2>1
  <2>2. CASE <<t, d>> \notin woken
    <3>1. task'[t][d] = task[t][d]
      BY <1>2, <2>2
    <3>2. QED
      BY <3>1
  <2>3. QED
    BY <2>1, <2>2
<1>4. ASSUME NEW d \in Dialog, semOf'[s] # 0
      PROVE  /\ task'[s][d].stage = "todo" <=> task[s][d].stage = "todo"
             /\ task'[s][d].stage = "over" <=> task[s][d].stage = "over"
  <2>1. CASE <<s, d>> \in woken
    BY <1>2, <2>1
  <2>2. CASE <<s, d>> \notin woken
    <3>1. task'[s][d] = new[d]
      BY <1>2, <2>2
    <3>2. QED
      BY <1>4, <3>1
  <2>3. QED
    BY <2>1, <2>2
<1>5. QED
  BY <1>3, <1>4 DEF PoolStays, Steady

\* A search that returns leaves the pools of the others alone.
LEMMA ReturnPool ==
    ASSUME DialogInv, NEW s \in Search, semOf[s] # 0, Return(s),
           \A t \in Search \ {s} : spent'[t] = spent[t]
    PROVE  \A t \in Search : PoolStays(t)
<1> DEFINE new == [d \in Dialog |-> Todo]
<1>1. Settles(s, new)
  <2>1. Todo \in Task /\ Todo.stage = "todo" /\ Todo.lock = 0
    BY DEF Todo, Task, Stage
  <2>2. QED
    BY <2>1 DEF Settles
<1>2. Settle(s, new)
  BY DEF Return
<1>3. semOf'[s] = 0 /\ \A t \in Search \ {s} : semOf'[t] = semOf[t]
  BY DEF Return, DialogInv, DialogTypes
<1> HIDE DEF new
<1>4. QED
  BY <1>1, <1>2, <1>3, SettlePool

\* A task that ends is still to be collected: no result is taken by that.
LEMMA FinishPool ==
    ASSUME DialogInv, NEW s \in Search, NEW d \in Dialog, NEW stage \in {"empty", "hit"},
           task[s][d].stage \in {"new", "granted", "remote"}, Finish(s, d, stage),
           UNCHANGED <<semOf, spent>>
    PROVE  \A t \in Search : PoolStays(t)
<1> DEFINE new == [task[s] EXCEPT ![d] = [stage |-> stage, lock |-> 0]]
<1>1. task[s] \in [Dialog -> Task] /\ semOf[s] # 0
  BY DEF DialogInv, DialogTypes, BusyInv
<1>2. /\ new \in [Dialog -> Task]
      /\ \A e \in Dialog : e # d => new[e] = task[s][e]
      /\ new[d] = [stage |-> stage, lock |-> 0]
  BY <1>1 DEF Task, Stage
<1>3. Settle(s, new)
  BY DEF Finish
<1> HIDE DEF new
<1>4. new[d].stage = stage /\ new[d].lock = 0
  BY <1>2
<1>5. Settles(s, new)
  BY <1>2, <1>4 DEF Settles
<1>6. QED
  BY <1>1, <1>2, <1>3, <1>4, <1>5, SettlePool

\* A task that goes on.
LEMMA OneTaskPool ==
    ASSUME DialogInv, NEW s \in Search, NEW d \in Dialog, UNCHANGED <<semOf, spent>>,
           task[s][d].stage \in {"new", "granted", "wait_lock"},
           NEW new \in Task, Becomes(s, d, new),
           new.stage \in {"granted", "wait_permit", "wait_lock", "remote"}
    PROVE  \A t \in Search : PoolStays(t)
<1>1. /\ task'[s][d] = new
      /\ \A t \in Search, e \in Dialog : t # s \/ e # d => task'[t][e] = task[t][e]
  BY OneTask
<1>2. ASSUME NEW t \in Search, NEW e \in Dialog
      PROVE  /\ task'[t][e].stage = "todo" <=> task[t][e].stage = "todo"
             /\ task'[t][e].stage = "over" <=> task[t][e].stage = "over"
  <2>1. CASE t = s /\ e = d
    BY <1>1, <2>1
  <2>2. CASE t # s \/ e # d
    <3>1. task'[t][e] = task[t][e]
      BY <1>1, <2>2
    <3>2. QED
      BY <3>1
  <2>3. QED
    BY <2>1, <2>2
<1>3. QED
  BY <1>2 DEF PoolStays, Steady

\* No step of a task creates one, or takes a result.
LEMMA TaskRunsPool ==
    ASSUME DialogInv, NEW s \in Search, NEW d \in Dialog, TaskRuns(s, d) \/ TakeLock(s, d)
    PROVE  \A t \in Search : PoolStays(t)
<1>1. UNCHANGED <<semOf, spent>>
  BY DEF TaskRuns, TakeLock, StartTask, GoOn, RemoteEnds
<1>2. task[s][d] \in Task /\ task \in [Search -> [Dialog -> Task]]
  BY DEF DialogInv, DialogTypes
<1>3. \A stage \in Stage, lock \in {0} \cup ObjectId :
        [stage |-> stage, lock |-> lock] \in Task
  BY DEF Task
<1>4. ASSUME NEW lock \in {0} \cup ObjectId,
             \/ Acquire(s, d, lock) \/ Locked(s, d, lock)
             \/ task' = [task EXCEPT ![s][d] = [stage |-> "wait_lock", lock |-> lock]],
             task[s][d].stage \in {"new", "granted", "wait_lock"}
      PROVE  \A t \in Search : PoolStays(t)
  <2>1. PICK stage \in {"granted", "wait_permit", "wait_lock", "remote"} :
             task' = [task EXCEPT ![s][d] = [stage |-> stage, lock |-> lock]]
    BY <1>4 DEF Acquire, Locked
  <2>2. PICK new \in Task : new = [stage |-> stage, lock |-> lock]
    BY <1>3 DEF Stage
  <2>3. new.stage = stage /\ Becomes(s, d, new)
    BY <2>1, <2>2 DEF Becomes
  <2>4. QED
    BY <1>1, <1>4, <2>3, OneTaskPool
<1>5. ASSUME TelegramSourceLock(s, d), task[s][d].stage \in {"new", "granted"}, task[s][d].lock = 0
      PROVE  \A t \in Search : PoolStays(t)
  <2> DEFINE dict == EvictStaleLocks(locks)
             lock == IF dict[d] # 0 THEN dict[d] ELSE FreshLock(d)
  <2>1. dict[d] \in {0} \cup ObjectId
    BY DEF EvictStaleLocks, DialogInv, DialogTypes
  <2>2. lock \in {0} \cup ObjectId
    BY <1>5, <2>1, FreshLockIsFresh
  <2>3. \/ Locked(s, d, lock)
        \/ task' = [task EXCEPT ![s][d] = [stage |-> "wait_lock", lock |-> lock]]
    BY <1>5 DEF TelegramSourceLock
  <2> HIDE DEF lock
  <2>4. QED
    BY <1>4, <1>5, <2>2, <2>3
<1>6. CASE TakeLock(s, d)
  <2>1. task[s][d].lock \in {0} \cup ObjectId
    BY <1>2 DEF Task
  <2>2. QED
    BY <1>4, <1>6, <2>1 DEF TakeLock
<1>7. CASE StartTask(s, d)
  <2>1. task[s][d].stage = "new" /\ task[s][d].lock = 0
    BY <1>7 DEF StartTask, DialogInv, LockInv, HasLock
  <2>2. QED
    BY <1>1, <1>4, <1>5, <1>7, <2>1, FinishPool DEF StartTask
<1>8. CASE GoOn(s, d)
  <2>1. task[s][d].stage = "granted"
    BY <1>8 DEF GoOn
  <2>2. CASE Finish(s, d, "empty")
    BY <1>1, <2>1, <2>2, FinishPool
  <2>3. CASE Kind[s] = "history" /\ TelegramSourceLock(s, d)
    <3>1. task[s][d].lock = 0
      BY <2>1, <2>3 DEF DialogInv, LockInv, HasLock
    <3>2. QED
      BY <1>5, <2>1, <2>3, <3>1
  <2>4. CASE task' = [task EXCEPT ![s][d].stage = "remote"]
    <3>1. PICK new \in Task : new = [stage |-> "remote", lock |-> task[s][d].lock]
      BY <1>2 DEF Task, Stage
    <3>2. [task[s][d] EXCEPT !.stage = "remote"] = new
      BY <1>2, <3>1 DEF Task
    <3>3. Becomes(s, d, new) /\ new.stage = "remote"
      BY <1>2, <2>4, <3>1, <3>2 DEF Becomes
    <3>4. QED
      BY <1>1, <2>1, <3>3, OneTaskPool
  <2>5. QED
    BY <1>8, <2>2, <2>3, <2>4 DEF GoOn
<1>9. CASE RemoteEnds(s, d)
  BY <1>1, <1>9, FinishPool DEF RemoteEnds
<1>10. QED
  BY <1>6, <1>7, <1>8, <1>9 DEF TaskRuns

\* As many tasks are created as results are taken, or all that are left.
LEMMA CollectPool ==
    ASSUME DialogInv, NEW s \in Search, CollectHistory(s)
    PROVE  spent'[s] \/ InStage(s, "todo")' = {} \/ Pending(s)' # {}
<1> SUFFICES ASSUME ~spent[s]
             PROVE  InStage(s, "todo")' = {} \/ Pending(s)' # {}
  BY DEF CollectHistory
<1>1. PICK next \in SUBSET InStage(s, "todo") : Cardinality(next) = SlotsFreed(s) /\ Refill(s, next)
  BY DEF CollectHistory
<1>2. DialogsOf[s] \subseteq Dialog /\ IsFiniteSet(Dialog)
  BY DialogSearchAssumption
<1>3. /\ IsFiniteSet(Finished(s)) /\ IsFiniteSet(InStage(s, "todo"))
      /\ Finished(s) \subseteq DialogsOf[s] /\ InStage(s, "todo") \subseteq DialogsOf[s]
  <2>1. Finished(s) \subseteq DialogsOf[s] /\ InStage(s, "todo") \subseteq DialogsOf[s]
    BY DEF Finished, InStage
  <2>2. QED
    BY <1>2, <2>1, FS_Subset
<1>4. /\ Cardinality(Finished(s)) \in Nat /\ Cardinality(InStage(s, "todo")) \in Nat
      /\ Cardinality(Finished(s)) # 0
  BY <1>3, FS_CardinalityType, FS_EmptySet DEF CollectHistory
<1>5. \A d \in Dialog :
        /\ d \in Finished(s) => task'[s][d] = [stage |-> "over", lock |-> 0]
        /\ d \notin Finished(s) /\ d \in next => task'[s][d] = [stage |-> "new", lock |-> 0]
        /\ d \notin Finished(s) /\ d \notin next => task'[s][d] = task[s][d]
  <2> DEFINE row == [d \in Dialog |->
                  CASE d \in Finished(s) -> [stage |-> "over", lock |-> 0]
                    [] d \in next -> [stage |-> "new", lock |-> 0]
                    [] OTHER -> task[s][d]]
  <2>1. task' = [task EXCEPT ![s] = row]
    BY <1>1 DEF Refill
  <2>2. \A d \in Dialog :
          /\ d \in Finished(s) => row[d] = [stage |-> "over", lock |-> 0]
          /\ d \notin Finished(s) /\ d \in next => row[d] = [stage |-> "new", lock |-> 0]
          /\ d \notin Finished(s) /\ d \notin next => row[d] = task[s][d]
    BY DEF Finished, InStage
  <2> HIDE DEF row
  <2>3. task'[s] = row
    BY <2>1 DEF DialogInv, DialogTypes
  <2>4. QED
    BY <2>2, <2>3
<1>6. CASE next = {}
  <2>1. Cardinality(InStage(s, "todo")) = 0
    BY <1>1, <1>4, <1>6, FS_EmptySet DEF SlotsFreed, Smaller
  <2>2. InStage(s, "todo") = {}
    BY <1>3, <2>1, FS_EmptySet
  <2>3. \A d \in DialogsOf[s] : task'[s][d].stage # "todo"
    <3> SUFFICES ASSUME NEW d \in DialogsOf[s]
                 PROVE  task'[s][d].stage # "todo"
      OBVIOUS
    <3>1. task[s][d].stage # "todo"
      BY <2>2 DEF InStage
    <3>2. CASE d \in Finished(s)
      <4>1. d \in Dialog
        BY <1>2
      <4>2. task'[s][d] = [stage |-> "over", lock |-> 0]
        BY <1>5, <3>2, <4>1
      <4>3. QED
        BY <4>2
    <3>3. CASE d \notin Finished(s)
      <4>1. task'[s][d] = task[s][d]
        BY <1>2, <1>5, <1>6, <3>3
      <4>2. QED
        BY <3>1, <4>1
    <3>4. QED
      BY <3>2, <3>3
  <2>4. QED
    BY <2>3 DEF InStage
<1>7. CASE next # {}
  <2>1. PICK d \in next : TRUE
    BY <1>7
  <2>2. task[s][d].stage = "todo" /\ d \in DialogsOf[s] /\ d \notin Finished(s)
    BY <2>1 DEF InStage, Finished
  <2>3. task'[s][d] = [stage |-> "new", lock |-> 0]
    BY <1>2, <1>5, <2>1, <2>2
  <2>4. task'[s][d].stage = "new"
    BY <2>3
  <2>5. d \in Pending(s)'
    BY <2>2, <2>4 DEF Pending, InStage
  <2>6. QED
    BY <2>5
<1>8. QED
  BY <1>6, <1>7

\* A search has a task in its pool while a dialog is left.
LEMMA PoolKept ==
    ASSUME DialogInv, PoolInv, [Next]_vars
    PROVE  PoolInv'
<1>1. ASSUME NEW s \in Search, PoolStays(s)
      PROVE  /\ Kind[s] = "history" /\ semOf'[s] # 0 /\ ~spent'[s]
                /\ InStage(s, "over")' # {} /\ InStage(s, "todo")' # {}
             => Pending(s)' # {}
  <2>1. CASE semOf'[s] = 0
    BY <2>1
  <2>2. CASE Steady(s) /\ semOf'[s] = semOf[s] /\ (spent'[s] \/ spent'[s] = spent[s])
    <3>1. \A stage \in {"over", "todo"} : InStage(s, stage)' = InStage(s, stage)
      BY <2>2, DialogSearchAssumption DEF InStage, Steady
    <3>2. Pending(s)' = Pending(s)
      BY <3>1 DEF Pending
    <3>3. QED
      BY <2>2, <3>1, <3>2 DEF PoolInv
  <2>3. QED
    BY <1>1, <2>1, <2>2 DEF PoolStays
<1>2. ASSUME \A s \in Search : PoolStays(s)
      PROVE  PoolInv'
  BY <1>1, <1>2 DEF PoolInv
<1>3. CASE UNCHANGED <<task, semOf>> /\ \A s \in Search : spent'[s] \/ spent'[s] = spent[s]
  <2>1. \A s \in Search : PoolStays(s)
    BY <1>3 DEF PoolStays, Steady
  <2>2. QED
    BY <1>2, <2>1
<1>4. CASE PressureChanges \/ OtherLoopSearches \/ OtherLoopLocks \/ UNCHANGED vars
  BY <1>3, <1>4 DEF PressureChanges, OtherLoopSearches, OtherLoopLocks, vars
<1>5. ASSUME NEW s \in Search, TimeRunsOut(s)
      PROVE  PoolInv'
  BY <1>3, <1>5 DEF TimeRunsOut, DialogInv, DialogTypes
<1>6. ASSUME NEW s \in Search, NEW d \in Dialog, TaskRuns(s, d) \/ TakeLock(s, d)
      PROVE  PoolInv'
  BY <1>2, <1>6, TaskRunsPool
<1>7. spent \in [Search -> BOOLEAN] /\ task \in [Search -> [Dialog -> Task]] /\ semOf \in [Search -> {0} \cup ObjectId]
  BY DEF DialogInv, DialogTypes
<1>8. ASSUME NEW s \in Search, Return(s), semOf[s] # 0,
             \A t \in Search \ {s} : spent'[t] = spent[t]
      PROVE  PoolInv'
  BY <1>2, <1>8, ReturnPool
<1>9. ASSUME NEW s \in Search, TelegramSearchTimesOut(s)
      PROVE  PoolInv'
  BY <1>7, <1>8, <1>9 DEF TelegramSearchTimesOut, Running
<1>10. ASSUME NEW s \in Search, SearchEnds(s)
       PROVE  PoolInv'
  BY <1>7, <1>8, <1>10 DEF SearchEnds, Running
<1>11. ASSUME NEW s \in Search, \A t \in Search \ {s} : PoolStays(t),
              Kind[s] = "history" /\ ~spent'[s] =>
                 \/ InStage(s, "over")' = {} \/ InStage(s, "todo")' = {} \/ Pending(s)' # {}
       PROVE  PoolInv'
  BY <1>1, <1>11 DEF PoolInv
<1>12. ASSUME NEW s \in Search, NEW next, Refill(s, next), spent' = spent
       PROVE  \A t \in Search \ {s} : PoolStays(t)
  <2>1. \A t \in Search \ {s} : task'[t] = task[t] /\ semOf'[t] = semOf[t]
    BY <1>7, <1>12 DEF Refill
  <2>2. QED
    BY <1>12, <2>1 DEF PoolStays, Steady
<1>13. ASSUME NEW s \in Search, CollectHistory(s)
       PROVE  PoolInv'
  <2>1. \A t \in Search \ {s} : PoolStays(t)
    BY <1>12, <1>13 DEF CollectHistory
  <2>2. QED
    BY <1>11, <1>13, <2>1, CollectPool
<1>14. ASSUME NEW s \in Search, CollectFast(s)
       PROVE  PoolInv'
  <2>1. Kind[s] = "fast"
    BY <1>14 DEF CollectFast
  <2>2. CASE Return(s) /\ spent' = [spent EXCEPT ![s] = FALSE]
    <3>1. semOf[s] # 0
      BY <1>14, DialogSearchAssumption DEF CollectFast, DialogInv, BusyInv, Finished, InStage
    <3>2. QED
      BY <1>7, <1>8, <2>2, <3>1
  <2>3. CASE \E next : Refill(s, next) /\ spent' = spent
    BY <1>11, <1>12, <2>1, <2>3
  <2>4. QED
    BY <1>14, <2>2, <2>3 DEF CollectFast
<1>15. ASSUME NEW s \in Search, SearchBegins(s)
       PROVE  PoolInv'
  <2>1. /\ \A t \in Search \ {s} : task'[t] = task[t] /\ semOf'[t] = semOf[t] /\ spent'[t] = spent[t]
        /\ \A d \in Dialog : task'[s][d].stage # "over"
    <3>1. PICK first : task' = [task EXCEPT ![s] = [d \in Dialog |->
                                 IF d \in first THEN [stage |-> "new", lock |-> 0] ELSE Todo]]
      BY <1>15 DEF SearchBegins
    <3> DEFINE row == [d \in Dialog |-> IF d \in first THEN [stage |-> "new", lock |-> 0] ELSE Todo]
    <3>2. \A d \in Dialog : row[d].stage # "over"
      BY DEF Todo
    <3> HIDE DEF row
    <3>3. task' = [task EXCEPT ![s] = row]
      BY <3>1 DEF row
    <3>4. QED
      BY <1>7, <1>15, <3>2, <3>3 DEF SearchBegins
  <2>2. \A t \in Search \ {s} : PoolStays(t)
    BY <2>1 DEF PoolStays, Steady
  <2>3. InStage(s, "over")' = {}
    BY <2>1, DialogSearchAssumption DEF InStage
  <2>4. QED
    BY <1>11, <1>15, <2>2, <2>3
<1>16. QED
  BY <1>4, <1>5, <1>6, <1>9, <1>10, <1>13, <1>14, <1>15 DEF Next, SearchRuns

\* A history search that returns before its time is over has been through
\* every dialog, or has never created a task: while a dialog is left, one is
\* searched for each that is done.
THEOREM NoDialogIsForgotten == Spec => AllDialogsOrNone
<1>1. Init => PoolInv
  BY DEF Init, PoolInv
<1>2. DialogInv /\ PoolInv /\ [Next]_vars
        => [\A s \in Search :
              ReturnsInTime(s) /\ Kind[s] = "history"
                 => InStage(s, "over") \in {{}, DialogsOf[s]}]_vars
  <2> SUFFICES ASSUME DialogInv, PoolInv, Next, NEW s \in Search,
                      ReturnsInTime(s), Kind[s] = "history"
               PROVE  InStage(s, "over") \in {{}, DialogsOf[s]}
    OBVIOUS
  <2>1. semOf[s] # 0 /\ semOf'[s] = 0 /\ ~spent[s] /\ ~spent'[s]
    BY DEF ReturnsInTime
  <2>2. Pending(s) = {}
    <3>1. semOf \in [Search -> {0} \cup ObjectId] /\ spent \in [Search -> BOOLEAN]
      BY DEF DialogInv, DialogTypes
    <3>2. UNCHANGED semOf => FALSE
      BY <2>1
    <3>3. ASSUME NEW t \in Search, SearchBegins(t)
          PROVE  FALSE
      <4>1. semOf' = [semOf EXCEPT ![t] = sem'.id] /\ semOf[t] = 0
        BY <3>3 DEF SearchBegins, Running
      <4>2. QED
        BY <2>1, <3>1, <4>1
    <3>4. \A t \in Search, d \in Dialog : TaskRuns(t, d) \/ TakeLock(t, d) => UNCHANGED semOf
      BY DEF TaskRuns, StartTask, GoOn, RemoteEnds, TakeLock
    <3>5. PressureChanges \/ OtherLoopSearches \/ OtherLoopLocks => UNCHANGED semOf
      BY DEF PressureChanges, OtherLoopSearches, OtherLoopLocks
    <3>6. \A t \in Search : TimeRunsOut(t) \/ CollectHistory(t) => UNCHANGED semOf
      BY DEF TimeRunsOut, CollectHistory, Refill
    <3>7. ASSUME NEW t \in Search, semOf' = [semOf EXCEPT ![t] = 0]
          PROVE  t = s
      BY <2>1, <3>1, <3>7
    <3>8. ASSUME NEW t \in Search, CollectFast(t)
          PROVE  FALSE
      <4>1. Kind[t] = "fast"
        BY <3>8 DEF CollectFast
      <4>2. semOf' = [semOf EXCEPT ![t] = 0] \/ UNCHANGED semOf
        BY <3>8 DEF CollectFast, Return, Refill
      <4>3. QED
        BY <3>2, <3>7, <4>1, <4>2
    <3>9. ASSUME NEW t \in Search, TelegramSearchTimesOut(t)
          PROVE  FALSE
      <4>1. t = s
        BY <3>7, <3>9 DEF TelegramSearchTimesOut, Return
      <4>2. spent'[s]
        BY <3>1, <3>9, <4>1 DEF TelegramSearchTimesOut
      <4>3. QED
        BY <2>1, <4>2
    <3>10. ASSUME NEW t \in Search, SearchEnds(t)
           PROVE  Pending(s) = {}
      <4>1. t = s
        BY <3>7, <3>10 DEF SearchEnds, Return
      <4>2. QED
        BY <3>10, <4>1 DEF SearchEnds, FastGivesUp
    <3>11. QED
      BY <3>2, <3>3, <3>4, <3>5, <3>6, <3>8, <3>9, <3>10 DEF Next, SearchRuns
  <2>3. InStage(s, "over") = {} \/ InStage(s, "todo") = {}
    BY <2>1, <2>2 DEF PoolInv
  <2>4. InStage(s, "todo") = {} => InStage(s, "over") = DialogsOf[s]
    BY <2>2 DEF Pending, InStage
  <2>5. QED
    BY <2>3, <2>4
<1>3. QED
  BY <1>1, <1>2, PoolKept, DialogInvHolds, PTL DEF Spec, AllDialogsOrNone
=============================================================================
