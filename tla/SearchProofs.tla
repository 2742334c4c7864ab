---------------------------- MODULE SearchProofs ----------------------------
(***************************************************************************)
(* The search of all subscriptions, for any number of subscriptions, any   *)
(* capacity of the semaphore, any number of broken runs and user acts.     *)
(***************************************************************************)
EXTENDS SearchAll, FiniteSetTheorems, TLAPS

----------------------------------------------------------------------------
(* Types *)

SearchAllTypeOK ==
    /\ listed \in [Subs -> [status : {"active", "paused"}, lacks : {0, 1}, age : Ages]]
    /\ runPc \in {"idle", "snapshot", "waves", "closing", "broken"}
    /\ left \in Seq(Subs)
    /\ attempt \in [Subs -> {"none", "begin", "waiting", "searching"}]
    /\ counted \in [Subs -> {"none", "inactive", "attempted"}]
    /\ noted \subseteq Subs /\ side \subseteq {"tmdb", "emby"}
    /\ allowed \in 1 .. Capacity
    /\ permit \in [value : Int, limit : 1 .. Capacity]
    /\ strays \subseteq Subs
    /\ breaks \in Nat /\ acts \in Nat

\* No subscription twice.
Distinct(order) ==
    \A i, j \in 1 .. Len(order) : order[i] = order[j] => i = j

\* An order of a set names each of its members once.
LEMMA OrderedOnce ==
    ASSUME NEW set \in SUBSET Subs, NEW order \in [1 .. Cardinality(set) -> set],
           \A i, j \in 1 .. Cardinality(set) : i < j => order[i] # order[j]
    PROVE  order \in Seq(Subs) /\ Distinct(order)
<1>1. Cardinality(set) \in Nat
  BY SearchAllAssumption, FS_Subset, FS_CardinalityType
<1>2. order \in Seq(set) /\ Len(order) = Cardinality(set)
  BY <1>1
<1>3. order \in Seq(Subs)
  BY <1>2
<1>4. Distinct(order)
  <2> SUFFICES ASSUME NEW i \in 1 .. Len(order), NEW j \in 1 .. Len(order),
                      order[i] = order[j], i # j
               PROVE  FALSE
    BY DEF Distinct
  <2>1. i < j \/ j < i
    BY <1>1, <1>2
  <2>2. QED
    BY <1>2, <2>1
<1>5. QED
  BY <1>3, <1>4

\* No subscription comes before itself.
LEMMA NotBeforeItself ==
    ASSUME listed \in [Subs -> [status : {"active", "paused"}, lacks : {0, 1}, age : Ages]],
           NEW s \in Subs
    PROVE  ~SearchedBefore(s, s)
<1> DEFINE rank == [old |-> 0, recent |-> 1, now |-> 2]
<1>1. listed[s].age \in {"old", "recent", "now"} /\ listed[s].lacks \in Int /\ s \in Int
  BY SearchAllAssumption DEF Ages
<1>2. rank[listed[s].age] \in Int
  BY <1>1
<1>3. QED
  BY <1>1, <1>2 DEF SearchedBefore

\* The list of a run names each subscription once.
LEMMA ListsAreDistinct ==
    ASSUME SearchAllTypeOK, NEW force \in BOOLEAN,
           NEW order \in IF force THEN NewestFirst(Following)
                         ELSE FilterForSearchAll(Following)
    PROVE  order \in Seq(Subs) /\ Distinct(order)
<1>1. Following \subseteq Subs
  BY DEF Following
<1>2. CASE force
  <2>1. /\ order \in [1 .. Cardinality(Following) -> Following]
        /\ \A i, j \in 1 .. Cardinality(Following) : i < j => order[i] > order[j]
    BY <1>2 DEF NewestFirst
  <2>2. \A i, j \in 1 .. Cardinality(Following) : i < j => order[i] # order[j]
    <3> SUFFICES ASSUME NEW i \in 1 .. Cardinality(Following),
                        NEW j \in 1 .. Cardinality(Following), i < j
                 PROVE  order[i] # order[j]
      OBVIOUS
    <3>1. order[i] > order[j] /\ order[i] \in Nat /\ order[j] \in Nat
      BY <1>1, <2>1, SearchAllAssumption
    <3>2. QED
      BY <3>1
  <2>3. QED
    BY <1>1, <2>1, <2>2, OrderedOnce
<1>3. CASE ~force
  <2> DEFINE due == {s \in Following : ~ShouldSkipRecentSearchAll(s)}
  <2>1. /\ order \in [1 .. Cardinality(due) -> due]
        /\ \A i, j \in 1 .. Cardinality(due) : i < j => SearchedBefore(order[i], order[j])
    BY <1>3 DEF FilterForSearchAll, PrioritizeSubscriptions
  <2>2. due \subseteq Subs
    BY <1>1
  <2> HIDE DEF due
  <2>3. \A i, j \in 1 .. Cardinality(due) : i < j => order[i] # order[j]
    BY <2>1, <2>2, NotBeforeItself DEF SearchAllTypeOK
  <2>4. QED
    BY <2>1, <2>2, <2>3, OrderedOnce
<1>4. QED
  BY <1>2, <1>3

\* Waves are never empty, and a semaphore has a permit at least.
LEMMA PressureIsBounded ==
    ASSUME SearchAllTypeOK
    PROVE  /\ SearchAllWaveSize \in Nat \ {0}
           /\ FreshSemaphore \in [value : Int, limit : 1 .. Capacity]
           /\ SearchSemaphore.sem \in [value : Int, limit : 1 .. Capacity]
<1>1. allowed \in 1 .. Capacity /\ Capacity \in Nat
  BY SearchAllAssumption DEF SearchAllTypeOK
<1>2. SearchAllWaveSize \in Nat \ {0}
  BY <1>1 DEF SearchAllWaveSize, DesiredSearchConcurrency
<1>3. FreshSemaphore \in [value : Int, limit : 1 .. Capacity]
  BY <1>1 DEF FreshSemaphore, DesiredSearchConcurrency
<1>4. /\ permit \in [value : Int, limit : 1 .. Capacity]
      /\ permit.value \in Int /\ permit.limit \in 1 .. Capacity
  BY DEF SearchAllTypeOK
<1> DEFINE free == IF permit.value < DesiredSearchConcurrency THEN permit.value
                   ELSE DesiredSearchConcurrency
<1>5. [value |-> free, limit |-> DesiredSearchConcurrency] \in [value : Int, limit : 1 .. Capacity]
  BY <1>1, <1>4 DEF DesiredSearchConcurrency
<1>6. SearchSemaphore.sem \in {permit, FreshSemaphore, [value |-> free, limit |-> DesiredSearchConcurrency]}
  BY <1>1, <1>4 DEF SearchSemaphore, DesiredSearchConcurrency
<1> HIDE DEF free
<1>7. QED
  BY <1>2, <1>3, <1>4, <1>5, <1>6

\* What ends a search takes it out, and may let another in.
LEMMA GiveBackKeepsTypes ==
    ASSUME SearchAllTypeOK, NEW s \in Subs, GiveBack(s)
    PROVE  /\ attempt' \in [Subs -> {"none", "begin", "waiting", "searching"}]
           /\ permit' \in [value : Int, limit : 1 .. Capacity]
           /\ attempt'[s] = "none"
           /\ \A t \in Subs \ {s} : attempt'[t] # attempt[t] => attempt[t] = "waiting"
<1>1. /\ permit \in [value : Int, limit : 1 .. Capacity] /\ permit.value \in Int
      /\ attempt \in [Subs -> {"none", "begin", "waiting", "searching"}]
  BY DEF SearchAllTypeOK
<1>2. CASE s \in PermitHolders /\ {t \in Subs \ {s} : attempt[t] = "waiting"} # {}
  <2>1. PICK t \in {t \in Subs \ {s} : attempt[t] = "waiting"} :
            attempt' = [attempt EXCEPT ![s] = "none", ![t] = "searching"]
    BY <1>2 DEF GiveBack
  <2>2. permit' = permit
    BY <1>2 DEF GiveBack
  <2>3. QED
    BY <1>1, <2>1, <2>2
<1>3. CASE ~(s \in PermitHolders /\ {t \in Subs \ {s} : attempt[t] = "waiting"} # {})
  <2>1. /\ attempt' = [attempt EXCEPT ![s] = "none"]
        /\ permit' = [permit EXCEPT !.value = IF s \in PermitHolders THEN @ + 1 ELSE @]
    BY <1>3 DEF GiveBack
  <2>2. permit' = [permit EXCEPT !.value = @ + 1] \/ permit' = [permit EXCEPT !.value = @]
    BY <2>1
  <2>3. QED
    BY <1>1, <2>1, <2>2
<1>4. QED
  BY <1>2, <1>3

\* Every step keeps the types.
LEMMA SearchAllTypeInvariant == SearchAllTypeOK /\ [SearchAllNext]_allVars => SearchAllTypeOK'
<1> SUFFICES ASSUME SearchAllTypeOK, [SearchAllNext]_allVars
             PROVE  SearchAllTypeOK'
  OBVIOUS
<1> USE SearchAllAssumption
<1>1. ASSUME NEW force \in BOOLEAN, SearchAllActiveSubscriptions(force)
      PROVE  SearchAllTypeOK'
  <2>1. left' \in Seq(Subs)
    BY <1>1, ListsAreDistinct DEF SearchAllActiveSubscriptions
  <2>2. permit' \in [value : Int, limit : 1 .. Capacity]
    BY <1>1, PressureIsBounded DEF SearchAllActiveSubscriptions
  <2>3. QED
    BY <1>1, <2>1, <2>2 DEF SearchAllActiveSubscriptions, SearchAllTypeOK
<1>2. CASE LibrarySnapshot
  BY <1>2 DEF LibrarySnapshot, SearchAllTypeOK
<1>3. CASE StartWave
  <2> DEFINE size == IF SearchAllWaveSize < Len(left) THEN SearchAllWaveSize ELSE Len(left)
             wave == {left[i] : i \in 1 .. size}
  <2>1. size \in Nat /\ left \in Seq(Subs)
    BY PressureIsBounded DEF SearchAllTypeOK
  <2>2. /\ attempt' = [s \in Subs |-> IF s \in wave THEN "begin" ELSE attempt[s]]
        /\ left' = SubSeq(left, size + 1, Len(left))
    BY <1>3 DEF StartWave
  <2>3. size \in 0 .. Len(left)
    BY <2>1, PressureIsBounded
  <2> HIDE DEF size
  <2>4. left' \in Seq(Subs)
    BY <2>1, <2>2, <2>3
  <2> HIDE DEF wave
  <2>5. attempt' \in [Subs -> {"none", "begin", "waiting", "searching"}]
    BY <2>2 DEF SearchAllTypeOK
  <2>6. QED
    BY <1>3, <2>4, <2>5 DEF StartWave, SearchAllTypeOK
<1>4. CASE AllWavesDone
  BY <1>4 DEF AllWavesDone, SearchAllTypeOK
<1>5. CASE CloseRun
  <2>1. permit' \in [value : Int, limit : 1 .. Capacity]
    BY <1>5, PressureIsBounded DEF CloseRun
  <2>2. listed' \in [Subs -> [status : {"active", "paused"}, lacks : {0, 1}, age : Ages]] /\ noted' \subseteq Subs
    <3>1. CASE runPc = "closing"
      <4>1. listed' = [s \in Subs |-> IF s \in noted THEN [listed[s] EXCEPT !.age = "now"] ELSE listed[s]]
        BY <1>5, <3>1 DEF CloseRun, FlushPendingChecked
      <4> DEFINE Row == [status : {"active", "paused"}, lacks : {0, 1}, age : Ages]
      <4>2. \A row \in Row : [row EXCEPT !.age = "now"] \in Row
        BY DEF Ages
      <4> HIDE DEF Row
      <4>3. listed \in [Subs -> Row]
        BY DEF SearchAllTypeOK, Row
      <4>4. listed' \in [Subs -> Row]
        BY <4>1, <4>2, <4>3
      <4>5. QED
        BY <1>5, <3>1, <4>4 DEF CloseRun, FlushPendingChecked, Row
    <3>2. CASE runPc # "closing"
      BY <1>5, <3>2 DEF CloseRun, SearchAllTypeOK
    <3>3. QED
      BY <3>1, <3>2
  <2>3. QED
    BY <1>5, <2>1, <2>2 DEF CloseRun, SearchAllTypeOK
<1>6. ASSUME NEW s \in Subs, SearchOne(s)
      PROVE  SearchAllTypeOK'
  <2>1. CASE listed[s].status # "active"
    BY <1>6, <2>1, GiveBackKeepsTypes DEF SearchOne, Ends, SearchAllTypeOK
  <2>2. CASE listed[s].status = "active"
    <3> DEFINE got == SearchSemaphore
               free == got.sem.value > 0
    <3>1. /\ attempt' = [attempt EXCEPT ![s] = IF free THEN "searching" ELSE "waiting"]
          /\ permit' = [got.sem EXCEPT !.value = IF free THEN @ - 1 ELSE @]
          /\ strays' = IF got.new THEN strays \cup PermitHolders ELSE strays
          /\ UNCHANGED <<counted, noted>>
          /\ UNCHANGED <<listed, runPc, left, side, allowed, breaks, acts>>
      BY <1>6, <2>2 DEF SearchOne
    <3>2. got.sem \in [value : Int, limit : 1 .. Capacity]
      BY PressureIsBounded
    <3> HIDE DEF got
    <3>3. permit' = [got.sem EXCEPT !.value = @ - 1] \/ permit' = [got.sem EXCEPT !.value = @]
      BY <3>1
    <3>4. permit' \in [value : Int, limit : 1 .. Capacity]
      BY <3>2, <3>3
    <3>5. strays' \subseteq Subs
      BY <3>1 DEF SearchAllTypeOK, PermitHolders
    <3> HIDE DEF free
    <3>6. attempt' \in [Subs -> {"none", "begin", "waiting", "searching"}]
      BY <3>1 DEF SearchAllTypeOK
    <3>7. QED
      BY <3>1, <3>4, <3>5, <3>6 DEF SearchAllTypeOK
  <2>3. QED
    BY <2>1, <2>2
<1>7. ASSUME NEW s \in Subs, SearchAndAttachGuarded(s) \/ SearchFails(s)
      PROVE  SearchAllTypeOK'
  <2>1. CASE SearchAndAttachGuarded(s)
    BY <2>1, GiveBackKeepsTypes DEF SearchAndAttachGuarded, Ends, SearchAllTypeOK
  <2>2. CASE SearchFails(s)
    BY <2>2, GiveBackKeepsTypes DEF SearchFails, Ends, SearchAllTypeOK
  <2>3. QED
    BY <1>7, <2>1, <2>2
<1>8. ASSUME NEW s \in Subs, WaveBreaks(s)
      PROVE  SearchAllTypeOK'
  BY <1>8 DEF WaveBreaks, SearchAllTypeOK
<1>9. CASE SyncEmbyInBackground
  <2>1. PICK have \in SUBSET Moving :
            listed' = [s \in Subs |-> IF s \in have THEN [listed[s] EXCEPT !.lacks = 0] ELSE listed[s]]
    BY <1>9 DEF SyncEmbyInBackground
  <2>2. listed' \in [Subs -> [status : {"active", "paused"}, lacks : {0, 1}, age : Ages]]
    BY <2>1 DEF SearchAllTypeOK
  <2>3. QED
    BY <1>9, <2>2 DEF SyncEmbyInBackground, SearchAllTypeOK
<1>10. CASE PrefetchTmdb
  <2>1. PICK grown \in SUBSET Moving :
            listed' = [s \in Subs |-> IF s \in grown THEN [listed[s] EXCEPT !.lacks = 1] ELSE listed[s]]
    BY <1>10 DEF PrefetchTmdb
  <2>2. listed' \in [Subs -> [status : {"active", "paused"}, lacks : {0, 1}, age : Ages]]
    BY <2>1 DEF SearchAllTypeOK
  <2>3. QED
    BY <1>10, <2>2 DEF PrefetchTmdb, SearchAllTypeOK
<1>11. CASE GatePressureChanges
  BY <1>11 DEF GatePressureChanges, SearchAllTypeOK
<1>12. ASSUME NEW s \in Subs, TimePasses(s)
       PROVE  SearchAllTypeOK'
  <2>1. PICK age \in {"recent", "old"} : listed' = [listed EXCEPT ![s].age = age]
    BY <1>12 DEF TimePasses
  <2>2. listed' \in [Subs -> [status : {"active", "paused"}, lacks : {0, 1}, age : Ages]]
    BY <2>1 DEF SearchAllTypeOK, Ages
  <2>3. QED
    BY <1>12, <2>2 DEF TimePasses, SearchAllTypeOK
<1>13. ASSUME NEW s \in Subs, UserToggles(s)
       PROVE  SearchAllTypeOK'
  <2>1. PICK status \in {"active", "paused"} : listed' = [listed EXCEPT ![s].status = status]
    BY <1>13 DEF UserToggles
  <2>2. listed' \in [Subs -> [status : {"active", "paused"}, lacks : {0, 1}, age : Ages]]
    BY <2>1 DEF SearchAllTypeOK
  <2>3. QED
    BY <1>13, <2>2 DEF UserToggles, SearchAllTypeOK
<1>14. CASE UNCHANGED allVars
  BY <1>14 DEF allVars, SearchAllTypeOK
<1>15. QED
  BY <1>1, <1>2, <1>3, <1>4, <1>5, <1>6, <1>7, <1>8, <1>9, <1>10, <1>11, <1>12, <1>13, <1>14
     DEF SearchAllNext, RunStep

\* The rows, the run, the semaphore and the counters have their types.
THEOREM SearchTypeCorrect == SearchAllSpec => []SearchAllTypeOK
<1>1. SearchAllInit => SearchAllTypeOK
  BY SearchAllAssumption DEF SearchAllInit, SearchAllTypeOK, Ages
<1>2. QED
  BY <1>1, SearchAllTypeInvariant, PTL DEF SearchAllSpec

----------------------------------------------------------------------------
(* The permits *)

\* What makes the count of the permits last: only searches that run hold one of
\* an old semaphore, and no search runs where a run starts.
PermitInv ==
    /\ strays \subseteq {s \in Subs : attempt[s] = "searching"}
    /\ runPc \in {"idle", "snapshot"} => \A s \in Subs : attempt[s] = "none"
    /\ SearchPermitsKept

\* The holders of permits can be counted.
LEMMA HoldersAreFinite ==
    /\ IsFiniteSet(PermitHolders) /\ Cardinality(PermitHolders) \in Nat
    /\ IsFiniteSet(PermitHolders)' /\ Cardinality(PermitHolders)' \in Nat
<1>1. PermitHolders \subseteq Subs /\ PermitHolders' \subseteq Subs
  BY DEF PermitHolders
<1>2. QED
  BY <1>1, SearchAllAssumption, FS_Subset, FS_CardinalityType

\* Where nobody holds a permit, a fresh semaphore has them all.
LEMMA FreshIsWhole ==
    ASSUME SearchAllTypeOK, permit' = FreshSemaphore, PermitHolders' = {}
    PROVE  SearchPermitsKept'
<1>1. Cardinality(PermitHolders)' = 0
  BY FS_EmptySet
<1>2. /\ permit'.value = allowed /\ permit'.limit = allowed
      /\ allowed \in 1 .. Capacity /\ Capacity \in Nat
  BY SearchAllAssumption DEF FreshSemaphore, DesiredSearchConcurrency, SearchAllTypeOK
<1>3. QED
  BY <1>1, <1>2 DEF SearchPermitsKept

\* The end of a search keeps the count: its permit becomes free or another's.
LEMMA GiveBackKeepsPermits ==
    ASSUME SearchAllTypeOK, PermitInv, NEW s \in Subs, GiveBack(s), strays' = strays \ {s}
    PROVE  /\ strays' \subseteq {t \in Subs : attempt'[t] = "searching"}
           /\ SearchPermitsKept'
<1> DEFINE waiting == {t \in Subs \ {s} : attempt[t] = "waiting"}
<1>1. /\ permit \in [value : Int, limit : 1 .. Capacity] /\ permit.value \in Int
      /\ permit.limit \in Int /\ Capacity \in Nat
      /\ attempt \in [Subs -> {"none", "begin", "waiting", "searching"}]
      /\ strays \subseteq {t \in Subs : attempt[t] = "searching"}
      /\ SearchPermitsKept
  BY SearchAllAssumption DEF SearchAllTypeOK, PermitInv
<1>2. CASE s \in PermitHolders /\ waiting # {}
  <2>1. PICK t \in waiting : attempt' = [attempt EXCEPT ![s] = "none", ![t] = "searching"]
    BY <1>2 DEF GiveBack
  <2>2. permit' = permit
    BY <1>2 DEF GiveBack
  <2>3. PermitHolders' = (PermitHolders \ {s}) \cup {t}
    BY <1>1, <2>1 DEF PermitHolders
  <2>4. t \notin PermitHolders \ {s}
    BY <2>1 DEF PermitHolders
  <2>5. Cardinality(PermitHolders)' = Cardinality(PermitHolders)
    <3>1. /\ IsFiniteSet(PermitHolders \ {s})
          /\ Cardinality(PermitHolders \ {s}) = Cardinality(PermitHolders) - 1
      BY <1>2, HoldersAreFinite, FS_RemoveElement
    <3>2. Cardinality((PermitHolders \ {s}) \cup {t}) = Cardinality(PermitHolders \ {s}) + 1
      BY <2>4, <3>1, FS_AddElement
    <3>3. QED
      BY <2>3, <3>1, <3>2, HoldersAreFinite
  <2>6. strays' \subseteq {u \in Subs : attempt'[u] = "searching"}
    BY <1>1, <2>1
  <2>7. QED
    BY <1>1, <2>2, <2>5, <2>6 DEF SearchPermitsKept
<1>3. CASE s \in PermitHolders /\ waiting = {}
  <2>1. attempt' = [attempt EXCEPT ![s] = "none"]
    BY <1>3 DEF GiveBack
  <2>2. permit'.value = permit.value + 1 /\ permit'.limit = permit.limit
    BY <1>1, <1>3 DEF GiveBack
  <2>3. PermitHolders' = PermitHolders \ {s}
    BY <1>1, <2>1 DEF PermitHolders
  <2>4. Cardinality(PermitHolders)' = Cardinality(PermitHolders) - 1
    BY <1>3, <2>3, HoldersAreFinite, FS_RemoveElement
  <2>5. strays' \subseteq {u \in Subs : attempt'[u] = "searching"}
    BY <1>1, <2>1
  <2>6. QED
    BY <1>1, <2>2, <2>4, <2>5, HoldersAreFinite DEF SearchPermitsKept
<1>4. CASE s \notin PermitHolders
  <2>1. attempt' = [attempt EXCEPT ![s] = "none"]
    BY <1>4 DEF GiveBack
  <2>2. permit'.value = permit.value /\ permit'.limit = permit.limit
    BY <1>1, <1>4 DEF GiveBack
  <2>3. PermitHolders' = PermitHolders
    BY <1>1, <1>4, <2>1 DEF PermitHolders
  <2>4. strays' \subseteq {u \in Subs : attempt'[u] = "searching"}
    BY <1>1, <2>1
  <2>5. QED
    BY <1>1, <2>2, <2>3, <2>4 DEF SearchPermitsKept
<1>5. QED
  BY <1>2, <1>3, <1>4

\* A search that asks for its permit: the semaphore as it is, cut, or replaced
\* while the old one still has holders.
LEMMA AskingKeepsPermits ==
    ASSUME SearchAllTypeOK, PermitInv, NEW s \in Subs, SearchOne(s), listed[s].status = "active"
    PROVE  /\ strays' \subseteq {t \in Subs : attempt'[t] = "searching"}
           /\ SearchPermitsKept'
<1> DEFINE got == SearchSemaphore
           free == got.sem.value > 0
<1>1. /\ attempt[s] = "begin"
      /\ attempt' = [attempt EXCEPT ![s] = IF free THEN "searching" ELSE "waiting"]
      /\ permit' = [got.sem EXCEPT !.value = IF free THEN @ - 1 ELSE @]
      /\ strays' = IF got.new THEN strays \cup PermitHolders ELSE strays
  BY DEF SearchOne
<1>2. /\ permit \in [value : Int, limit : 1 .. Capacity] /\ permit.value \in Int
      /\ permit.limit \in 1 .. Capacity /\ Capacity \in Nat /\ allowed \in 1 .. Capacity
      /\ attempt \in [Subs -> {"none", "begin", "waiting", "searching"}]
      /\ strays \subseteq {t \in Subs : attempt[t] = "searching"}
      /\ permit.value + Cardinality(PermitHolders) >= permit.limit
      /\ permit.value + Cardinality(PermitHolders) <= Capacity
      /\ permit.value >= 0
  BY SearchAllAssumption DEF SearchAllTypeOK, PermitInv, SearchPermitsKept
<1>3. s \notin PermitHolders /\ s \notin strays
  BY <1>1, <1>2 DEF PermitHolders
<1>4. got.new \in BOOLEAN /\ got.sem \in [value : Int, limit : 1 .. Capacity]
  BY PressureIsBounded DEF SearchSemaphore
<1>5. CASE got.new
  <2>1. got.sem.value = allowed /\ got.sem.limit = allowed
    BY <1>5 DEF SearchSemaphore, FreshSemaphore, DesiredSearchConcurrency
  <2> HIDE DEF got
  <2>2. /\ attempt' = [attempt EXCEPT ![s] = "searching"]
        /\ permit'.value = allowed - 1 /\ permit'.limit = allowed
        /\ strays' = strays \cup PermitHolders
    <3>1. free
      BY <1>2, <2>1
    <3>2. permit' = [got.sem EXCEPT !.value = @ - 1]
      BY <1>1, <3>1
    <3>3. QED
      BY <1>1, <1>4, <1>5, <2>1, <3>1, <3>2
  <2>3. PermitHolders' = {s} /\ strays' \subseteq {t \in Subs : attempt'[t] = "searching"}
    BY <1>1, <1>2, <1>3, <2>2 DEF PermitHolders
  <2>4. Cardinality(PermitHolders)' = 1
    BY <2>3, FS_Singleton
  <2>5. QED
    BY <1>2, <2>2, <2>3, <2>4 DEF SearchPermitsKept
<1>6. CASE ~got.new
  <2>1. /\ got.sem.value >= 0
        /\ got.sem.value + Cardinality(PermitHolders) >= got.sem.limit
        /\ got.sem.value + Cardinality(PermitHolders) <= Capacity
    <3>1. CASE got.sem = permit
      BY <1>2, <3>1
    <3>2. CASE got.sem # permit
      <4>1. allowed < permit.limit
        BY <1>6, <3>2 DEF SearchSemaphore, DesiredSearchConcurrency
      <4>2. /\ got.sem.value = IF permit.value < allowed THEN permit.value ELSE allowed
            /\ got.sem.limit = allowed
        BY <1>2, <1>6, <3>2, <4>1 DEF SearchSemaphore, DesiredSearchConcurrency
      <4> HIDE DEF got
      <4>3. QED
        BY <1>2, <4>1, <4>2, HoldersAreFinite
    <3>3. QED
      BY <3>1, <3>2
  <2> HIDE DEF got
  <2>2. CASE free
    <3>1. /\ attempt' = [attempt EXCEPT ![s] = "searching"]
          /\ permit'.value = got.sem.value - 1 /\ permit'.limit = got.sem.limit
          /\ strays' = strays
      BY <1>1, <1>4, <1>6, <2>2
    <3>2. PermitHolders' = PermitHolders \cup {s} /\ strays' \subseteq {t \in Subs : attempt'[t] = "searching"}
      BY <1>1, <1>2, <1>3, <3>1 DEF PermitHolders
    <3>3. Cardinality(PermitHolders)' = Cardinality(PermitHolders) + 1
      BY <1>3, <3>2, HoldersAreFinite, FS_AddElement
    <3>4. QED
      BY <1>2, <1>4, <2>1, <2>2, <3>1, <3>2, <3>3, HoldersAreFinite DEF SearchPermitsKept
  <2>3. CASE ~free
    <3>1. /\ attempt' = [attempt EXCEPT ![s] = "waiting"]
          /\ permit'.value = got.sem.value /\ permit'.limit = got.sem.limit
          /\ strays' = strays
      BY <1>1, <1>4, <1>6, <2>3
    <3>2. PermitHolders' = PermitHolders /\ strays' \subseteq {t \in Subs : attempt'[t] = "searching"}
      BY <1>1, <1>2, <1>3, <3>1 DEF PermitHolders
    <3>3. QED
      BY <2>1, <3>1, <3>2 DEF SearchPermitsKept
  <2>4. QED
    BY <2>2, <2>3
<1>7. QED
  BY <1>4, <1>5, <1>6

\* Every step keeps free permits, holders and limit in balance.
LEMMA PermitStep == SearchAllTypeOK /\ PermitInv /\ [SearchAllNext]_allVars => PermitInv'
<1> SUFFICES ASSUME SearchAllTypeOK, PermitInv, [SearchAllNext]_allVars
             PROVE  PermitInv'
  OBVIOUS
<1>1. ASSUME NEW force \in BOOLEAN, SearchAllActiveSubscriptions(force)
      PROVE  PermitInv'
  <2>1. /\ runPc = "idle" /\ attempt' = attempt
        /\ permit' = FreshSemaphore /\ strays' = {}
    BY <1>1 DEF SearchAllActiveSubscriptions
  <2>2. \A s \in Subs : attempt'[s] = "none"
    BY <2>1 DEF PermitInv
  <2>3. PermitHolders' = {}
    BY <2>2 DEF PermitHolders
  <2>4. QED
    BY <2>1, <2>2, <2>3, FreshIsWhole DEF PermitInv
<1>2. CASE CloseRun
  <2>1. /\ attempt' = [s \in Subs |-> "none"]
        /\ permit' = FreshSemaphore /\ strays' = {}
    BY <1>2 DEF CloseRun
  <2>2. PermitHolders' = {}
    BY <2>1 DEF PermitHolders
  <2>3. QED
    BY <2>1, <2>2, FreshIsWhole DEF PermitInv
<1>3. CASE StartWave
  <2> DEFINE size == IF SearchAllWaveSize < Len(left) THEN SearchAllWaveSize ELSE Len(left)
             wave == {left[i] : i \in 1 .. size}
  <2>1. /\ runPc' = "waves" /\ ~WaveRunning /\ UNCHANGED <<permit, strays>>
        /\ attempt' = [s \in Subs |-> IF s \in wave THEN "begin" ELSE attempt[s]]
    BY <1>3 DEF StartWave
  <2>2. \A s \in Subs : attempt[s] = "none" /\ attempt'[s] \in {"none", "begin"}
    <3> HIDE DEF wave
    <3>1. QED
      BY <2>1 DEF WaveRunning
  <2>3. PermitHolders = {} /\ PermitHolders' = {} /\ strays = {}
    BY <2>2 DEF PermitHolders, PermitInv
  <2>4. QED
    BY <2>1, <2>3 DEF PermitInv, SearchPermitsKept
<1>4. ASSUME NEW s \in Subs, SearchOne(s)
      PROVE  PermitInv'
  <2>1. attempt[s] = "begin" /\ runPc' = runPc
    BY <1>4 DEF SearchOne
  <2>2. runPc' \notin {"idle", "snapshot"}
    BY <2>1 DEF PermitInv
  <2>3. CASE listed[s].status = "active"
    BY <1>4, <2>2, <2>3, AskingKeepsPermits DEF PermitInv
  <2>4. CASE listed[s].status # "active"
    <3>1. GiveBack(s) /\ strays' = strays
      BY <1>4, <2>4 DEF SearchOne
    <3>2. strays' = strays \ {s}
      BY <2>1, <3>1 DEF PermitInv
    <3>3. QED
      BY <2>2, <3>1, <3>2, GiveBackKeepsPermits DEF PermitInv
  <2>5. QED
    BY <2>3, <2>4
<1>5. ASSUME NEW s \in Subs, SearchAndAttachGuarded(s) \/ SearchFails(s)
      PROVE  PermitInv'
  <2>1. attempt[s] # "none" /\ runPc' = runPc /\ GiveBack(s) /\ strays' = strays \ {s}
    BY <1>5 DEF SearchAndAttachGuarded, SearchFails
  <2>2. runPc' \notin {"idle", "snapshot"}
    BY <2>1 DEF PermitInv
  <2>3. QED
    BY <2>1, <2>2, GiveBackKeepsPermits DEF PermitInv
<1>6. ASSUME NEW s \in Subs, WaveBreaks(s)
      PROVE  PermitInv'
  <2>1. /\ attempt[s] = "begin" /\ attempt' = [attempt EXCEPT ![s] = "none"]
        /\ runPc' = "broken" /\ UNCHANGED <<permit, strays>>
    BY <1>6 DEF WaveBreaks
  <2>2. {t \in Subs : attempt'[t] = "searching"} = {t \in Subs : attempt[t] = "searching"}
    BY <2>1 DEF SearchAllTypeOK
  <2>3. PermitHolders' = PermitHolders
    BY <2>1, <2>2 DEF PermitHolders
  <2>4. QED
    BY <2>1, <2>2, <2>3 DEF PermitInv, SearchPermitsKept
<1>7. CASE LibrarySnapshot \/ AllWavesDone
  BY <1>7 DEF LibrarySnapshot, AllWavesDone, PermitInv, SearchPermitsKept, PermitHolders
<1>8. CASE SyncEmbyInBackground \/ PrefetchTmdb
  <2>1. UNCHANGED <<runPc, attempt, permit, strays>>
    BY <1>8 DEF SyncEmbyInBackground, PrefetchTmdb
  <2>2. QED
    BY <2>1 DEF PermitInv, SearchPermitsKept, PermitHolders
<1>9. CASE GatePressureChanges \/ \E s \in Subs : TimePasses(s) \/ UserToggles(s)
  <2>1. UNCHANGED <<runPc, attempt, permit, strays>>
    BY <1>9 DEF GatePressureChanges, TimePasses, UserToggles
  <2>2. QED
    BY <2>1 DEF PermitInv, SearchPermitsKept, PermitHolders
<1>10. CASE UNCHANGED allVars
  BY <1>10 DEF allVars, PermitInv, SearchPermitsKept, PermitHolders
<1>11. QED
  BY <1>1, <1>2, <1>3, <1>4, <1>5, <1>6, <1>7, <1>8, <1>9, <1>10 DEF SearchAllNext, RunStep

\* No permit of the search semaphore is lost and none is made up, however often
\* it is cut and replaced while searches hold and wait for its permits.
THEOREM PermitsAreKept == SearchAllSpec => []SearchPermitsKept
<1>1. SearchAllInit => PermitInv
  <2> SUFFICES ASSUME SearchAllInit
               PROVE  PermitInv
    OBVIOUS
  <2>1. PermitHolders = {}
    BY DEF SearchAllInit, PermitHolders
  <2>2. permit.value = Capacity /\ permit.limit = Capacity /\ Capacity \in Nat
    BY SearchAllAssumption DEF SearchAllInit
  <2>3. QED
    BY <2>1, <2>2, FS_EmptySet DEF SearchAllInit, PermitInv, SearchPermitsKept
<1>2. SearchAllInit => SearchAllTypeOK
  BY SearchAllAssumption DEF SearchAllInit, SearchAllTypeOK, Ages
<1>3. PermitInv => SearchPermitsKept
  BY DEF PermitInv
<1>4. QED
  BY <1>1, <1>2, <1>3, SearchAllTypeInvariant, PermitStep, PTL DEF SearchAllSpec

----------------------------------------------------------------------------
(* The marks *)

\* What a run has noted it has attempted, and what it will search it has not:
\* who is left is left once, is not being searched and is not noted.
NotesInv ==
    /\ Distinct(left)
    /\ \A i \in 1 .. Len(left) : attempt[left[i]] = "none" /\ left[i] \notin noted
    /\ \A s \in Subs : attempt[s] # "none" => s \notin noted
    /\ runPc # "idle" => \A s \in noted : counted[s] = "attempted"
    /\ runPc \in {"idle", "snapshot"} => \A s \in Subs : attempt[s] = "none"

\* The end of a search, with or without its note.
LEMMA EndKeepsNotes ==
    ASSUME SearchAllTypeOK, NotesInv, NEW s \in Subs, attempt[s] # "none", GiveBack(s),
           UNCHANGED <<left, runPc>>,
           NEW note \in BOOLEAN, NEW result \in {"inactive", "attempted"},
           Ends(s, result, note), note => result = "attempted"
    PROVE  NotesInv'
<1>1. /\ attempt \in [Subs -> {"none", "begin", "waiting", "searching"}]
      /\ counted \in [Subs -> {"none", "inactive", "attempted"}]
      /\ noted \subseteq Subs /\ left \in Seq(Subs)
  BY DEF SearchAllTypeOK
<1>2. /\ attempt'[s] = "none"
      /\ \A t \in Subs \ {s} : attempt'[t] # attempt[t] => attempt[t] = "waiting"
  BY GiveBackKeepsTypes
<1>3. noted' \subseteq noted \cup {s} /\ counted' = [counted EXCEPT ![s] = result]
  BY DEF Ends
<1>4. runPc \notin {"idle", "snapshot"}
  BY DEF NotesInv
<1>5. \A t \in Subs : attempt'[t] # "none" => t \notin noted'
  BY <1>2, <1>3 DEF NotesInv
<1>6. ASSUME NEW i \in 1 .. Len(left)
      PROVE  attempt'[left[i]] = "none" /\ left[i] \notin noted'
  <2>1. left[i] \in Subs /\ attempt[left[i]] = "none" /\ left[i] \notin noted
    BY <1>1 DEF NotesInv
  <2>2. QED
    BY <1>2, <1>3, <2>1
<1>7. \A t \in noted' : counted'[t] = "attempted"
  <2>1. s \in noted' => result = "attempted"
    BY DEF Ends, NotesInv
  <2>2. \A t \in noted' \ {s} : t \in noted /\ counted'[t] = counted[t]
    BY <1>1, <1>3
  <2>3. QED
    BY <1>1, <1>3, <1>4, <2>1, <2>2 DEF NotesInv
<1>8. QED
  BY <1>4, <1>5, <1>6, <1>7 DEF NotesInv, Distinct

\* Every step keeps what was noted within what was attempted.
LEMMA NotesStep == SearchAllTypeOK /\ NotesInv /\ [SearchAllNext]_allVars => NotesInv'
<1> SUFFICES ASSUME SearchAllTypeOK, NotesInv, [SearchAllNext]_allVars
             PROVE  NotesInv'
  OBVIOUS
<1>1. ASSUME NEW force \in BOOLEAN, SearchAllActiveSubscriptions(force)
      PROVE  NotesInv'
  <2>1. /\ runPc = "idle" /\ runPc' = "snapshot" /\ noted' = {}
        /\ UNCHANGED <<attempt, counted>>
        /\ left' \in IF force THEN NewestFirst(Following) ELSE FilterForSearchAll(Following)
    BY <1>1 DEF SearchAllActiveSubscriptions
  <2>2. left' \in Seq(Subs) /\ Distinct(left')
    BY <2>1, ListsAreDistinct
  <2>3. \A s \in Subs : attempt[s] = "none"
    BY <2>1 DEF NotesInv
  <2>4. QED
    BY <2>1, <2>2, <2>3 DEF NotesInv, Distinct
<1>2. CASE CloseRun
  <2>1. runPc' = "idle" /\ attempt' = [s \in Subs |-> "none"] /\ left' = <<>>
    BY <1>2 DEF CloseRun
  <2>2. QED
    BY <2>1 DEF NotesInv, Distinct
<1>3. CASE StartWave
  <2> DEFINE size == IF SearchAllWaveSize < Len(left) THEN SearchAllWaveSize ELSE Len(left)
             wave == {left[i] : i \in 1 .. size}
  <2>1. /\ runPc = "waves" /\ UNCHANGED <<runPc, counted, noted>>
        /\ attempt' = [s \in Subs |-> IF s \in wave THEN "begin" ELSE attempt[s]]
        /\ left' = SubSeq(left, size + 1, Len(left))
    BY <1>3 DEF StartWave
  <2>2. size \in 0 .. Len(left) /\ left \in Seq(Subs)
    BY PressureIsBounded DEF SearchAllTypeOK
  <2>3. wave \subseteq Subs \ noted
    BY <2>2 DEF NotesInv
  <2> HIDE DEF size
  <2>4. /\ Len(left') = Len(left) - size
        /\ \A i \in 1 .. Len(left') : left'[i] = left[size + i] /\ size + i \in 1 .. Len(left)
    BY <2>1, <2>2
  <2>5. Distinct(left')
    <3> SUFFICES ASSUME NEW i \in 1 .. Len(left'), NEW j \in 1 .. Len(left'), left'[i] = left'[j]
                 PROVE  i = j
      BY DEF Distinct
    <3>1. size + i = size + j
      BY <2>4 DEF NotesInv, Distinct
    <3>2. QED
      BY <2>2, <2>4, <3>1
  <2>6. ASSUME NEW i \in 1 .. Len(left')
        PROVE  attempt'[left'[i]] = "none" /\ left'[i] \notin noted
    <3>1. left'[i] = left[size + i] /\ size + i \in 1 .. Len(left)
      BY <2>4
    <3>2. left'[i] \notin wave
      <4> SUFFICES ASSUME NEW j \in 1 .. size, left[j] = left'[i]
                   PROVE  FALSE
        OBVIOUS
      <4>1. j \in 1 .. Len(left) /\ j # size + i
        BY <2>2, <2>4
      <4>2. QED
        BY <3>1, <4>1 DEF NotesInv, Distinct
    <3> HIDE DEF wave
    <3>3. left'[i] \in Subs /\ attempt[left'[i]] = "none" /\ left'[i] \notin noted
      BY <2>2, <3>1 DEF NotesInv
    <3>4. QED
      BY <2>1, <3>2, <3>3
  <2> HIDE DEF wave
  <2>7. \A s \in Subs : attempt'[s] # "none" => s \notin noted
    BY <2>1, <2>3 DEF NotesInv
  <2>8. QED
    BY <2>1, <2>5, <2>6, <2>7 DEF NotesInv
<1>4. ASSUME NEW s \in Subs, SearchOne(s)
      PROVE  NotesInv'
  <2>1. attempt[s] = "begin" /\ UNCHANGED <<runPc, left>>
    BY <1>4 DEF SearchOne
  <2>2. CASE listed[s].status = "active"
    <3>1. UNCHANGED <<counted, noted>>
      BY <1>4, <2>2 DEF SearchOne
    <3>2. PICK new \in {"searching", "waiting"} : attempt' = [attempt EXCEPT ![s] = new]
      BY <1>4, <2>2 DEF SearchOne
    <3>3. \A i \in 1 .. Len(left) : left[i] \in Subs
      BY DEF SearchAllTypeOK
    <3>4. QED
      BY <2>1, <3>1, <3>2, <3>3 DEF NotesInv, SearchAllTypeOK
  <2>3. CASE listed[s].status # "active"
    BY <1>4, <2>1, <2>3, EndKeepsNotes DEF SearchOne
  <2>4. QED
    BY <2>2, <2>3
<1>5. ASSUME NEW s \in Subs, SearchAndAttachGuarded(s) \/ SearchFails(s)
      PROVE  NotesInv'
  BY <1>5, EndKeepsNotes DEF SearchAndAttachGuarded, SearchFails
<1>6. ASSUME NEW s \in Subs, WaveBreaks(s)
      PROVE  NotesInv'
  <2>1. /\ runPc = "waves" /\ runPc' = "broken" /\ UNCHANGED <<left, counted, noted>>
        /\ attempt' = [attempt EXCEPT ![s] = "none"]
    BY <1>6 DEF WaveBreaks
  <2>2. \A i \in 1 .. Len(left) : left[i] \in Subs
    BY DEF SearchAllTypeOK
  <2>3. QED
    BY <2>1, <2>2 DEF NotesInv, SearchAllTypeOK
<1>7. CASE LibrarySnapshot \/ AllWavesDone
  BY <1>7 DEF LibrarySnapshot, AllWavesDone, NotesInv
<1>8. CASE SyncEmbyInBackground \/ PrefetchTmdb
  <2>1. UNCHANGED <<runPc, left, attempt, counted, noted>>
    BY <1>8 DEF SyncEmbyInBackground, PrefetchTmdb
  <2>2. QED
    BY <2>1 DEF NotesInv
<1>9. CASE GatePressureChanges \/ \E s \in Subs : TimePasses(s) \/ UserToggles(s)
  <2>1. UNCHANGED <<runPc, left, attempt, counted, noted>>
    BY <1>9 DEF GatePressureChanges, TimePasses, UserToggles
  <2>2. QED
    BY <2>1 DEF NotesInv
<1>10. CASE UNCHANGED allVars
  BY <1>10 DEF allVars, NotesInv
<1>11. QED
  BY <1>1, <1>2, <1>3, <1>4, <1>5, <1>6, <1>7, <1>8, <1>9, <1>10 DEF SearchAllNext, RunStep

\* A step that marks subscriptions as checked marks those the run attempted.
LEMMA MarksAreEarned ==
    ASSUME SearchAllTypeOK, NotesInv, [SearchAllNext]_allVars, NEW s \in Subs,
           listed'[s].age = "now", listed[s].age # "now"
    PROVE  counted[s] = "attempted"
<1>1. ASSUME listed' = listed
      PROVE  FALSE
  BY <1>1
<1>2. CASE CloseRun
  <2>1. runPc = "closing" /\ FlushPendingChecked
    BY <1>1, <1>2 DEF CloseRun
  <2>2. s \in noted
    BY <2>1 DEF FlushPendingChecked
  <2>3. QED
    BY <2>1, <2>2 DEF NotesInv
<1>3. ASSUME SyncEmbyInBackground \/ PrefetchTmdb
      PROVE  FALSE
  <2>1. PICK hit \in SUBSET Moving, lacks \in {0, 1} :
            listed' = [t \in Subs |-> IF t \in hit THEN [listed[t] EXCEPT !.lacks = lacks] ELSE listed[t]]
    BY <1>3 DEF SyncEmbyInBackground, PrefetchTmdb
  <2>2. listed'[s].age = listed[s].age
    BY <2>1 DEF SearchAllTypeOK
  <2>3. QED
    BY <2>2
<1>4. ASSUME NEW t \in Subs, TimePasses(t)
      PROVE  FALSE
  <2>1. PICK age \in {"recent", "old"} : listed' = [listed EXCEPT ![t].age = age]
    BY <1>4 DEF TimePasses
  <2>2. QED
    BY <2>1 DEF SearchAllTypeOK
<1>5. ASSUME NEW t \in Subs, UserToggles(t)
      PROVE  FALSE
  <2>1. PICK status \in {"active", "paused"} : listed' = [listed EXCEPT ![t].status = status]
    BY <1>5 DEF UserToggles
  <2>2. QED
    BY <2>1 DEF SearchAllTypeOK
<1>6. CASE \E force \in BOOLEAN : SearchAllActiveSubscriptions(force)
  BY <1>1, <1>6 DEF SearchAllActiveSubscriptions
<1>7. CASE LibrarySnapshot \/ StartWave \/ AllWavesDone
  BY <1>1, <1>7 DEF LibrarySnapshot, StartWave, AllWavesDone
<1>8. CASE \E t \in Subs : SearchOne(t) \/ SearchAndAttachGuarded(t) \/ SearchFails(t)
  BY <1>1, <1>8 DEF SearchOne, SearchAndAttachGuarded, SearchFails
<1>9. CASE GatePressureChanges \/ \E t \in Subs : WaveBreaks(t)
  BY <1>1, <1>9 DEF GatePressureChanges, WaveBreaks
<1>10. CASE UNCHANGED allVars
  BY <1>1, <1>10 DEF allVars
<1>11. QED
  BY <1>2, <1>3, <1>4, <1>5, <1>6, <1>7, <1>8, <1>9, <1>10 DEF SearchAllNext, RunStep

\* A subscription is marked as checked only by a run that attempted it.
THEOREM MarksAreOfTheRun == SearchAllSpec => MarkedWasAttempted
<1>1. SearchAllInit => SearchAllTypeOK /\ NotesInv
  BY SearchAllAssumption DEF SearchAllInit, SearchAllTypeOK, NotesInv, Distinct, Ages
<1>2. SearchAllTypeOK /\ NotesInv /\ [SearchAllNext]_allVars
      => [\A s \in Subs : listed'[s].age = "now" /\ listed[s].age # "now" => counted[s] = "attempted"]_allVars
  BY MarksAreEarned
<1>3. QED
  BY <1>1, <1>2, SearchAllTypeInvariant, NotesStep, PTL DEF SearchAllSpec, MarkedWasAttempted
=============================================================================
