------------------------ MODULE SimulationTimerProofs ------------------------
(***************************************************************************)
(* Proofs about ActionList and SimulationTimer for any bounds: the map of  *)
(* lists is a set of future actions, with and without the clock.  Of the   *)
(* clocks: updates only advance simulated time at any speed, and at speed  *)
(* 1 the timer is accurate, for floats of any precision.                   *)
(***************************************************************************)
EXTENDS SimulationTimer, FiniteSetTheorems, FunctionTheorems, WellFoundedInduction, TLAPS

\* The map goes from the time points to come to lists of handlers.
MapTyped ==
    /\ Keys \subseteq Times
    /\ mHandlerMap \in [Keys -> Seq(Handlers)]
    /\ mCurrentActionTime \in Times \cup {Invalid}
    /\ inserted \in 0..MaxInserts
    /\ popped \in Seq(Handlers)
    /\ core \in {"handlers", "timer", "finished"}

\* A list is not empty and holds handlers of its time point, in the order
\* they were inserted.
ListsInOrder ==
    \A k \in Keys :
        /\ mHandlerMap[k] # <<>>
        /\ \A i \in DOMAIN mHandlerMap[k] :
                mHandlerMap[k][i].time = k /\ mHandlerMap[k][i].nth <= inserted
        /\ \A i, j \in DOMAIN mHandlerMap[k] :
                i < j => mHandlerMap[k][i].nth < mHandlerMap[k][j].nth

\* No time point of the map is past, and the timer is armed for one of them.
TimesToCome ==
    /\ core = "finished" <=> mCurrentActionTime = Invalid
    /\ core # "finished" => \A k \in Keys : mCurrentActionTime <= k
    /\ core = "timer" => mCurrentActionTime \in Keys

ListInv == MapTyped /\ ListsInOrder /\ TimesToCome

\* Simulated time follows the core's with a DebugClock, and real time is not
\* behind either.
DebugTimes ==
    /\ now \in Nat
    /\ debug =>
        /\ mSimTime \in Nat
        /\ core # "finished" => mSimTime = mCurrentActionTime
        /\ core = "handlers" => mCurrentActionTime <= now
        /\ core = "timer" => expiry \in Nat /\ mCurrentActionTime <= expiry

-----------------------------------------------------------------------------
(* What the proofs of several actions use.                                 *)

\* A time point is a number, and Invalid is none.
LEMMA TimesAreNumbers ==
    /\ Times \subseteq Nat /\ Invalid \notin Times /\ Invalid \in Int
    /\ MaxInserts \in Nat /\ 0 \in Times
BY ListAssumption DEF Times, Invalid

\* What a sequence holds.
LEMMA EachInSeq ==
    ASSUME NEW S, NEW s \in Seq(S)
    PROVE  /\ Len(s) \in Nat /\ DOMAIN s = 1..Len(s)
           /\ \A i \in DOMAIN s : s[i] \in S /\ i \in Nat
           /\ s # <<>> => 1 \in DOMAIN s
<1>1. DOMAIN s = 1..Len(s) /\ Len(s) \in Nat
  OBVIOUS
<1>2. \A i \in 1..Len(s) : s[i] \in S
  OBVIOUS
<1>3. s # <<>> => 1 \in DOMAIN s
  OBVIOUS
<1> QED
  BY <1>1, <1>2, <1>3

\* A sequence without repetitions has as many elements as it is long.
LEMMA DistinctElements ==
    ASSUME NEW S, NEW s \in Seq(S), \A i, j \in DOMAIN s : s[i] = s[j] => i = j
    PROVE  IsFiniteSet(ToSet(s)) /\ Cardinality(ToSet(s)) = Len(s)
<1>1. Len(s) \in Nat /\ DOMAIN s = 1..Len(s)
  OBVIOUS
<1>2. s \in [1..Len(s) -> ToSet(s)]
  BY <1>1 DEF ToSet
<1>3. \A x \in ToSet(s) : \E i \in 1..Len(s) : s[i] = x
  BY <1>1 DEF ToSet
<1>4. \A i, j \in 1..Len(s) : s[i] = s[j] => i = j
  BY <1>1
<1>5. s \in Bijection(1..Len(s), ToSet(s))
  BY <1>2, <1>3, <1>4, Fun_IsBij
<1>6. ExistsBijection(1..Len(s), ToSet(s))
  BY <1>5 DEF ExistsBijection
<1>7. IsFiniteSet(1..Len(s)) /\ Cardinality(1..Len(s)) = Len(s)
  <2>1. 1 \in Int /\ Len(s) \in Int
    BY <1>1
  <2>2. Cardinality(1..Len(s)) = IF 1 > Len(s) THEN 0 ELSE Len(s) - 1 + 1
    BY <2>1, FS_Interval
  <2> QED
    BY <1>1, <2>1, <2>2, FS_Interval
<1> QED
  BY <1>6, <1>7, FS_Bijection

\* The handlers that are still to come.
LEMMA WhatIsPending ==
    \A x : x \in pendingHandlers <=>
        \E k \in Keys : /\ core = "timer" => k # mCurrentActionTime
                        /\ x \in ToSet(mHandlerMap[k])
BY DEF pendingHandlers

\* The same after a step.
LEMMA WhatIsPendingNext ==
    \A x : x \in pendingHandlers' <=>
        \E k \in DOMAIN mHandlerMap' :
            /\ core' = "timer" => k # mCurrentActionTime'
            /\ x \in ToSet(mHandlerMap'[k])
BY DEF pendingHandlers, Keys

-----------------------------------------------------------------------------
(* The invariant of the list.                                              *)

\* Nothing is in the map at first.
LEMMA InitListInv == ListInit => ListInv
<1> SUFFICES ASSUME ListInit PROVE ListInv
  OBVIOUS
<1> USE DEF ListInit
<1>1. Keys = {}
  BY DEF Keys
<1>2. mHandlerMap \in [Keys -> Seq(Handlers)]
  BY <1>1
<1>3. <<>> \in Seq(Handlers)
  OBVIOUS
<1>4. MapTyped
  BY <1>1, <1>2, <1>3, TimesAreNumbers DEF MapTyped
<1>5. ListsInOrder
  BY <1>1 DEF ListsInOrder
<1>6. TimesToCome
  BY <1>1 DEF TimesToCome, Invalid
<1> QED
  BY <1>4, <1>5, <1>6 DEF ListInv

\* A handler comes last in the list of its time point.
LEMMA InsertListInv == ASSUME ListInv, NEW t \in Times, InsertHandler(t) PROVE ListInv'
<1> USE DEF ListInv
<1>1. PICK n : n = inserted + 1
  OBVIOUS
<1>2. PICK h : h = Handler(t, n)
  OBVIOUS
<1>3. PICK s : s = ListAt(t)
  OBVIOUS
<1>4. PICK l : l = Append(s, h)
  OBVIOUS
<1>5. /\ core = "handlers" /\ inserted < MaxInserts /\ mCurrentActionTime <= t
      /\ inserted' = n
      /\ mHandlerMap' = [k \in Keys \cup {t} |-> IF k = t THEN l ELSE mHandlerMap[k]]
      /\ UNCHANGED <<mCurrentActionTime, popped, core>>
  BY <1>1, <1>2, <1>3, <1>4 DEF InsertHandler, NotPast, PushBack
<1>6. n \in 1..MaxInserts /\ inserted \in Nat /\ n = inserted + 1
  BY <1>1, <1>5, TimesAreNumbers DEF MapTyped
<1>7. h \in Handlers /\ h.time = t /\ h.nth = n
  BY <1>2, <1>6 DEF Handler, Handlers
<1>8. /\ s \in Seq(Handlers)
      /\ \A i \in DOMAIN s : s[i].time = t /\ s[i].nth <= inserted
      /\ \A i, j \in DOMAIN s : i < j => s[i].nth < s[j].nth
  <2>1. CASE t \in Keys
    BY <2>1, <1>3 DEF ListAt, MapTyped, ListsInOrder
  <2>2. CASE t \notin Keys
    <3>1. s = <<>>
      BY <2>2, <1>3 DEF ListAt
    <3> QED
      BY <3>1
  <2> QED
    BY <2>1, <2>2
<1>9. /\ l \in Seq(Handlers) /\ l # <<>>
      /\ \A i \in DOMAIN l : l[i].time = t /\ l[i].nth <= n
      /\ \A i, j \in DOMAIN l : i < j => l[i].nth < l[j].nth
  <2> HIDE DEF ListInv
  <2>1. PICK m \in Nat : m = Len(s) /\ DOMAIN s = 1..m
    BY <1>8, EachInSeq
  <2>2. l \in Seq(Handlers) /\ DOMAIN l = 1..(m + 1) /\ l[m + 1] = h /\ \A i \in 1..m : l[i] = s[i]
    BY <2>1, <1>4, <1>7, <1>8
  <2>3. \A i \in 1..(m + 1) : i \in 1..m \/ i = m + 1
    BY <2>1
  <2>4. \A i \in 1..m : s[i] \in Handlers /\ s[i].nth \in Nat
    <3>1. \A i \in DOMAIN s : s[i] \in Handlers
      BY <1>8, EachInSeq
    <3> QED
      BY <2>1, <3>1 DEF Handlers
  <2>5. l # <<>>
    BY <2>1, <2>2
  <2>6. \A i \in 1..(m + 1) : l[i].time = t /\ l[i].nth <= n
    BY <2>1, <2>2, <2>3, <2>4, <1>6, <1>7, <1>8
  <2>7. ASSUME NEW i \in 1..(m + 1), NEW j \in 1..(m + 1), i < j PROVE l[i].nth < l[j].nth
    <3>1. i \in 1..m
      BY <2>1, <2>7
    <3>2. CASE j \in 1..m
      BY <3>1, <3>2, <2>1, <2>2, <2>7, <1>8
    <3>3. CASE j = m + 1
      BY <3>1, <3>3, <2>1, <2>2, <2>4, <1>6, <1>7, <1>8
    <3> QED
      BY <3>2, <3>3, <2>3
  <2> QED
    BY <2>2, <2>5, <2>6, <2>7
<1>10. Keys' = Keys \cup {t} /\ mHandlerMap'[t] = l
         /\ \A k \in Keys : k # t => mHandlerMap'[k] = mHandlerMap[k]
  BY <1>5 DEF Keys
<1>11. MapTyped'
  <2>1. mHandlerMap' \in [Keys' -> Seq(Handlers)]
    BY <1>5, <1>9, <1>10 DEF MapTyped
  <2> QED
    BY <2>1, <1>5, <1>6, <1>10 DEF MapTyped
<1>12. ListsInOrder'
  <2> SUFFICES ASSUME NEW k \in Keys'
               PROVE  /\ mHandlerMap'[k] # <<>>
                      /\ \A i \in DOMAIN mHandlerMap'[k] :
                            mHandlerMap'[k][i].time = k /\ mHandlerMap'[k][i].nth <= inserted'
                      /\ \A i, j \in DOMAIN mHandlerMap'[k] :
                            i < j => mHandlerMap'[k][i].nth < mHandlerMap'[k][j].nth
    BY DEF ListsInOrder
  <2>1. CASE k = t
    BY <2>1, <1>5, <1>9, <1>10
  <2>2. CASE k # t
    <3>1. k \in Keys /\ mHandlerMap'[k] = mHandlerMap[k]
      BY <2>2, <1>10
    <3>2. \A i \in DOMAIN mHandlerMap[k] : mHandlerMap[k][i] \in Handlers
      BY <3>1, EachInSeq DEF MapTyped
    <3>3. \A i \in DOMAIN mHandlerMap[k] : mHandlerMap[k][i].nth <= n
      BY <3>1, <3>2, <1>6 DEF ListsInOrder, Handlers
    <3> QED
      BY <3>1, <3>3, <1>5 DEF ListsInOrder
  <2> QED
    BY <2>1, <2>2
<1>13. TimesToCome'
  BY <1>5, <1>10 DEF TimesToCome
<1> QED
  BY <1>11, <1>12, <1>13

\* The timer is armed for the first time point.
LEMMA ArmListInv == ASSUME ListInv, NEW t \in Times, ArmTimer(t) PROVE ListInv'
<1> USE DEF ListInv
<1>1. /\ t \in Keys /\ \A k \in Keys : t <= k
      /\ mCurrentActionTime' = t /\ core' = "timer"
      /\ UNCHANGED <<mHandlerMap, inserted, popped>>
  BY DEF ArmTimer, Begin
<1>2. Keys' = Keys
  BY <1>1 DEF Keys
<1>3. MapTyped'
  BY <1>1, <1>2 DEF MapTyped
<1>4. ListsInOrder'
  BY <1>1, <1>2 DEF ListsInOrder
<1>5. TimesToCome'
  BY <1>1, <1>2, TimesAreNumbers DEF TimesToCome
<1> QED
  BY <1>3, <1>4, <1>5

\* The simulation is over.
LEMMA FinishListInv == ASSUME ListInv, FinishSimulation PROVE ListInv'
<1> USE DEF ListInv
<1>1. /\ Keys = {} /\ mCurrentActionTime' = Invalid /\ core' = "finished" /\ popped' = <<>>
      /\ UNCHANGED <<mHandlerMap, inserted>>
  BY DEF FinishSimulation
<1>2. Keys' = Keys
  BY <1>1 DEF Keys
<1>3. <<>> \in Seq(Handlers)
  OBVIOUS
<1>4. MapTyped'
  BY <1>1, <1>2, <1>3 DEF MapTyped
<1>5. ListsInOrder' /\ TimesToCome'
  BY <1>1, <1>2 DEF ListsInOrder, TimesToCome
<1> QED
  BY <1>4, <1>5

\* The whole list of the armed time point is taken.
LEMMA PopListInv == ASSUME ListInv, NEW t \in Times, PopNextHandlers(t) PROVE ListInv'
<1> USE DEF ListInv
<1>1. /\ core = "timer" /\ t \in Keys /\ core' = "handlers"
      /\ popped' = mHandlerMap[t]
      /\ mHandlerMap' = [k \in Keys \ {t} |-> mHandlerMap[k]]
      /\ UNCHANGED <<mCurrentActionTime, inserted>>
  BY DEF PopNextHandlers, Begin, Without
<1>2. Keys' = Keys \ {t} /\ \A k \in Keys' : mHandlerMap'[k] = mHandlerMap[k]
  BY <1>1 DEF Keys
<1>3. MapTyped'
  BY <1>1, <1>2 DEF MapTyped
<1>4. ListsInOrder'
  BY <1>1, <1>2 DEF ListsInOrder
<1>5. TimesToCome'
  BY <1>1, <1>2 DEF TimesToCome
<1> QED
  BY <1>3, <1>4, <1>5

\* Every step keeps the invariant.
LEMMA NextListInv == ListInv /\ [Next]_vars => ListInv'
<1> SUFFICES ASSUME ListInv, [Next]_vars PROVE ListInv'
  OBVIOUS
<1>1. ASSUME NEW t \in Times, Insert(t) PROVE ListInv'
  BY <1>1, InsertListInv DEF Insert
<1>2. ASSUME NEW t \in Times, Arm(t) PROVE ListInv'
  BY <1>2, ArmListInv DEF Arm
<1>3. ASSUME NEW t \in Times, Fire(t) PROVE ListInv'
  BY <1>3, PopListInv DEF Fire
<1>4. CASE Finish
  BY <1>4, FinishListInv DEF Finish
<1>5. CASE UNCHANGED listVars
  BY <1>5 DEF listVars, ListInv, MapTyped, ListsInOrder, TimesToCome, Keys
<1>6. TimePasses \/ Stopped \/ UNCHANGED vars => UNCHANGED listVars
  BY DEF TimePasses, Stopped, vars
<1> QED
  BY <1>1, <1>2, <1>3, <1>4, <1>5, <1>6 DEF Next

\* The invariant of the list of future actions.
THEOREM ListInvariant == Spec => []ListInv
<1>1. Init => ListInv
  BY InitListInv DEF Init
<1>2. ListInv /\ [Next]_vars => ListInv'
  BY NextListInv
<1> QED
  BY <1>1, <1>2, PTL DEF Spec

\* Every variable of the list keeps its type.
THEOREM ListTypeCorrect == Spec => []ListTypeOK
<1>1. ListInv => ListTypeOK
  BY DEF ListInv, MapTyped, ListTypeOK
<1> QED
  BY <1>1, ListInvariant, PTL

-----------------------------------------------------------------------------
(* The set of future actions.                                              *)

\* Insertion adds an entry.
LEMMA InsertIsAdd == ASSUME ListInv, NEW t \in Times, InsertHandler(t) PROVE Set!Add(t)
<1> USE DEF ListInv
<1>1. PICK n : n = inserted + 1
  OBVIOUS
<1>2. PICK h : h = Handler(t, n)
  OBVIOUS
<1>3. PICK s : s = ListAt(t)
  OBVIOUS
<1>4. PICK l : l = Append(s, h)
  OBVIOUS
<1>5. /\ core = "handlers" /\ mCurrentActionTime <= t
      /\ inserted' = n
      /\ mHandlerMap' = [k \in Keys \cup {t} |-> IF k = t THEN l ELSE mHandlerMap[k]]
      /\ UNCHANGED <<mCurrentActionTime, popped, core>>
  BY <1>1, <1>2, <1>3, <1>4 DEF InsertHandler, NotPast, PushBack
<1>6. s \in Seq(Handlers) /\ ToSet(l) = ToSet(s) \cup {h}
  <2>1. s \in Seq(Handlers)
    BY <1>3 DEF ListAt, MapTyped
  <2> HIDE DEF ListInv
  <2>2. PICK m \in Nat : m = Len(s) /\ DOMAIN s = 1..m
    BY <2>1, EachInSeq
  <2>3. DOMAIN l = 1..(m + 1) /\ l[m + 1] = h /\ \A i \in 1..m : l[i] = s[i]
    BY <2>1, <2>2, <1>4
  <2>4. \A i : i \in 1..(m + 1) <=> i \in 1..m \/ i = m + 1
    BY <2>2
  <2>5. \A x : x \in ToSet(l) <=> x \in ToSet(s) \/ x = h
    BY <2>2, <2>3, <2>4 DEF ToSet
  <2> QED
    BY <2>1, <2>5
<1>7. t \in Keys => s = mHandlerMap[t]
  BY <1>3 DEF ListAt
<1>8. t \notin Keys => ToSet(s) = {}
  <2>1. t \notin Keys => s = <<>>
    BY <1>3 DEF ListAt
  <2>2. ToSet(<<>>) = {}
    BY DEF ToSet
  <2> QED
    BY <2>1, <2>2
<1>9. DOMAIN mHandlerMap' = Keys \cup {t} /\ mHandlerMap'[t] = l
        /\ \A k \in Keys : k # t => mHandlerMap'[k] = mHandlerMap[k]
  BY <1>5
<1>10. \A x : x \in pendingHandlers' <=> x \in pendingHandlers \/ x = h
  <2>1. \A x : x \in pendingHandlers <=> \E k \in Keys : x \in ToSet(mHandlerMap[k])
    BY <1>5, WhatIsPending
  <2>2. \A x : x \in pendingHandlers' <=> \E k \in Keys \cup {t} : x \in ToSet(mHandlerMap'[k])
    BY <1>5, <1>9, WhatIsPendingNext
  <2>3. \A x : x \in ToSet(mHandlerMap'[t]) <=> x \in ToSet(s) \/ x = h
    BY <1>6, <1>9
  <2> QED
    BY <2>1, <2>2, <2>3, <1>7, <1>8, <1>9
<1>11. pendingHandlers' = pendingHandlers \cup {h}
  BY <1>10
<1>12. UNCHANGED dueHandlers
  BY <1>5 DEF dueHandlers
<1>13. mCurrentActionTime # Invalid
  BY <1>5 DEF TimesToCome
<1>14. h = Set!Entry(t, n)
  BY <1>2 DEF Handler, Set!Entry
<1> QED
  BY <1>1, <1>5, <1>11, <1>12, <1>13, <1>14 DEF Set!Add

\* The entries of the time point for which the timer is armed are the
\* earliest, and are due in the order they were added.
LEMMA ArmIsAdvance == ASSUME ListInv, NEW t \in Times, ArmTimer(t) PROVE Set!Advance
<1> USE DEF ListInv
<1>1. /\ core = "handlers" /\ t \in Keys /\ \A k \in Keys : t <= k
      /\ mCurrentActionTime' = t /\ core' = "timer"
      /\ UNCHANGED <<mHandlerMap, inserted, popped>>
  BY DEF ArmTimer, Begin
<1>2. PICK s : s = mHandlerMap[t]
  OBVIOUS
<1>3. /\ s \in Seq(Handlers) /\ s # <<>>
      /\ \A i \in DOMAIN s : s[i].time = t
      /\ \A i, j \in DOMAIN s : i < j => s[i].nth < s[j].nth
  BY <1>1, <1>2 DEF MapTyped, ListsInOrder
<1>4. /\ Len(s) \in Nat /\ DOMAIN s = 1..Len(s) /\ 1 \in DOMAIN s
      /\ \A i \in DOMAIN s : s[i] \in Handlers /\ i \in Nat
  BY <1>3, EachInSeq
<1>5. ASSUME NEW k \in Keys, NEW x \in ToSet(mHandlerMap[k]) PROVE x.time = k
  BY <1>5 DEF ToSet, ListsInOrder
<1>6. \A x : x \in pendingHandlers <=> \E k \in Keys : x \in ToSet(mHandlerMap[k])
  BY <1>1, WhatIsPending
<1>7. Set!Earliest = ToSet(s)
  <2>1. ASSUME NEW x \in ToSet(s) PROVE x \in Set!Earliest
    <3>1. x \in pendingHandlers /\ x.time = t
      BY <1>1, <1>2, <1>5, <1>6
    <3>2. \A f \in pendingHandlers : t <= f.time
      BY <1>1, <1>5, <1>6
    <3> QED
      BY <3>1, <3>2 DEF Set!Earliest
  <2>2. ASSUME NEW x \in Set!Earliest PROVE x \in ToSet(s)
    <3>1. x \in pendingHandlers /\ \A f \in pendingHandlers : x.time <= f.time
      BY DEF Set!Earliest
    <3>2. PICK k \in Keys : x \in ToSet(mHandlerMap[k])
      BY <3>1, <1>6
    <3>3. s[1] \in ToSet(s) /\ s[1].time = t
      BY <1>3, <1>4 DEF ToSet
    <3>4. s[1] \in pendingHandlers
      BY <3>3, <1>1, <1>2, <1>6
    <3>5. k <= t /\ t <= k /\ k \in Nat /\ t \in Nat
      BY <3>1, <3>2, <3>3, <3>4, <1>1, <1>5, TimesAreNumbers DEF MapTyped
    <3>6. k = t
      BY <3>5
    <3> QED
      BY <3>2, <3>6, <1>2
  <2> QED
    BY <2>1, <2>2
<1>8. Cardinality(ToSet(s)) = Len(s)
  <2>1. ASSUME NEW i \in DOMAIN s, NEW j \in DOMAIN s, s[i] = s[j] PROVE i = j
    <3>1. s[i].nth \in Nat /\ s[j].nth \in Nat
      BY <1>4 DEF Handlers
    <3>2. ~(i < j) /\ ~(j < i)
      BY <3>1, <2>1, <1>3
    <3> QED
      BY <3>2, <1>4
  <2> HIDE DEF ListInv
  <2> QED
    BY <2>1, <1>3, DistinctElements
<1>9. Keys' = Keys
  BY <1>1 DEF Keys
<1>10. dueHandlers' = s
  BY <1>1, <1>2, <1>9 DEF dueHandlers, ListAt
<1>11. dueHandlers' \in [1..Cardinality(Set!Earliest) -> Set!Earliest]
  <2>1. s \in [1..Len(s) -> ToSet(s)]
    BY <1>3, <1>4 DEF ToSet
  <2> QED
    BY <2>1, <1>7, <1>8, <1>10
<1>12. Set!InOrder(dueHandlers')
  BY <1>3, <1>10 DEF Set!InOrder
<1>13. pendingHandlers' = pendingHandlers \ Set!Earliest
  <2>1. \A x : x \in pendingHandlers' <=>
               \E k \in Keys : k # t /\ x \in ToSet(mHandlerMap[k])
    BY <1>1, <1>9, WhatIsPendingNext DEF Keys
  <2>2. \A x : x \in pendingHandlers' <=> x \in pendingHandlers /\ x \notin ToSet(s)
    BY <2>1, <1>1, <1>2, <1>5, <1>6
  <2> QED
    BY <2>2, <1>7
<1>14. \E e \in Set!Earliest : mCurrentActionTime' = e.time
  <2>1. s[1] \in ToSet(s) /\ s[1].time = t
    BY <1>3, <1>4 DEF ToSet
  <2> QED
    BY <2>1, <1>1, <1>7
<1>15. UNCHANGED inserted
  BY <1>1
<1> HIDE DEF ListInv
<1>16. Set!Cardinality(Set!Earliest) = Cardinality(Set!Earliest)
  BY Zenon DEF Set!Cardinality, Cardinality
<1> QED
  BY <1>11, <1>12, <1>13, <1>14, <1>15, <1>16, Zenon DEF Set!Advance

\* The end of the simulation finds nothing to do.
LEMMA FinishIsFinish == ASSUME ListInv, FinishSimulation PROVE Set!Finish
<1>1. /\ core = "handlers" /\ Keys = {} /\ mCurrentActionTime' = Invalid /\ core' = "finished"
      /\ popped' = <<>> /\ UNCHANGED <<mHandlerMap, inserted>>
  BY DEF FinishSimulation
<1>2. pendingHandlers = {}
  BY <1>1, WhatIsPending
<1>3. pendingHandlers' = {}
  BY <1>1, WhatIsPendingNext DEF Keys
<1>4. dueHandlers' = <<>>
  BY <1>1 DEF dueHandlers
<1> QED
  BY <1>1, <1>2, <1>3, <1>4 DEF Set!Finish

\* When the timer fires, what was due is due.
LEMMA PopIsStutter ==
    ASSUME ListInv, NEW t \in Times, PopNextHandlers(t) PROVE UNCHANGED Set!vars
<1> USE DEF ListInv
<1>1. /\ core = "timer" /\ t \in Keys /\ \A k \in Keys : t <= k
      /\ core' = "handlers"
      /\ popped' = mHandlerMap[t]
      /\ mHandlerMap' = [k \in Keys \ {t} |-> mHandlerMap[k]]
      /\ UNCHANGED <<mCurrentActionTime, inserted>>
  BY DEF PopNextHandlers, Begin, Without
<1>2. t = mCurrentActionTime
  <2>1. mCurrentActionTime \in Keys /\ mCurrentActionTime <= t /\ t <= mCurrentActionTime
    BY <1>1 DEF TimesToCome
  <2>2. mCurrentActionTime \in Nat /\ t \in Nat
    BY <2>1, TimesAreNumbers DEF MapTyped
  <2> QED
    BY <2>1, <2>2
<1>3. dueHandlers' = dueHandlers
  BY <1>1, <1>2 DEF dueHandlers, ListAt
<1>4. pendingHandlers' = pendingHandlers
  <2>1. \A x : x \in pendingHandlers <=>
               \E k \in Keys : k # t /\ x \in ToSet(mHandlerMap[k])
    BY <1>1, <1>2, WhatIsPending
  <2>2. \A x : x \in pendingHandlers' <=> \E k \in Keys \ {t} : x \in ToSet(mHandlerMap[k])
    BY <1>1, WhatIsPendingNext
  <2> QED
    BY <2>1, <2>2
<1> QED
  BY <1>1, <1>3, <1>4 DEF Set!vars

\* The map of lists, with the timer, is a set of future actions: nothing is
\* lost or taken twice, time advances to the earliest entries, and they are
\* taken together, in the order in which they were inserted.
THEOREM ListIsFutureActionSet == Spec => IsFutureActionSet
<1>1. ASSUME Init PROVE Set!Init
  <2>1. Keys = {} /\ core = "handlers" /\ popped = <<>> /\ mCurrentActionTime = 0 /\ inserted = 0
    BY <1>1 DEF Init, ListInit, Keys
  <2>2. pendingHandlers = {}
    BY <2>1, WhatIsPending
  <2>3. dueHandlers = <<>>
    BY <2>1 DEF dueHandlers
  <2> QED
    BY <2>1, <2>2, <2>3 DEF Set!Init
<1>2. ASSUME ListInv, [Next]_vars PROVE [Set!Next]_(Set!vars)
  <2>1. ASSUME NEW t \in Times, Insert(t) PROVE Set!Next
    BY <2>1, <1>2, InsertIsAdd DEF Insert, Set!Next
  <2>2. ASSUME NEW t \in Times, Arm(t) PROVE Set!Next
    BY <2>2, <1>2, ArmIsAdvance DEF Arm, Set!Next
  <2>3. ASSUME NEW t \in Times, Fire(t) PROVE UNCHANGED Set!vars
    BY <2>3, <1>2, PopIsStutter DEF Fire
  <2>4. CASE Finish
    BY <2>4, <1>2, FinishIsFinish DEF Finish, Set!Next
  <2>5. CASE UNCHANGED listVars
    BY <2>5 DEF listVars, Set!vars, pendingHandlers, dueHandlers, Keys, ListAt
  <2>6. TimePasses \/ Stopped \/ UNCHANGED vars => UNCHANGED listVars
    BY DEF TimePasses, Stopped, vars
  <2> QED
    BY <2>1, <2>2, <2>3, <2>4, <2>5, <2>6, <1>2 DEF Next
<1> QED
  BY <1>1, <1>2, ListInvariant, PTL DEF Spec, IsFutureActionSet, Set!Spec

-----------------------------------------------------------------------------
(* The clock of --debug.                                                   *)

\* Every step keeps the times of a DebugClock together.
LEMMA NextDebugTimes == ListInv /\ DebugTimes /\ [Next]_vars => DebugTimes'
<1> SUFFICES ASSUME ListInv, DebugTimes, [Next]_vars PROVE DebugTimes'
  OBVIOUS
<1> USE DEF ListInv, DebugTimes
<1>1. ASSUME NEW t \in Times, Insert(t) PROVE DebugTimes'
  BY <1>1 DEF Insert, InsertHandler, clockVars
<1>2. ASSUME NEW t \in Times, Arm(t) PROVE DebugTimes'
  <2>1. /\ core = "handlers" /\ t \in Keys /\ mCurrentActionTime' = t /\ core' = "timer"
        /\ UNCHANGED <<debug, now>>
        /\ mSimTime' = IF debug THEN t ELSE ElapsedSimTime
        /\ expiry' = now + NotNegative(IF debug THEN DebugDurationUntil(t) ELSE DurationUntil(t))
    BY <1>2 DEF Arm, ArmTimer, StartTimer, Begin
  <2>2. CASE debug
    <3>1. mSimTime = mCurrentActionTime /\ mCurrentActionTime \in Nat
      BY <2>1, <2>2, TimesAreNumbers DEF MapTyped, TimesToCome
    <3>2. mCurrentActionTime <= t /\ t \in Nat
      BY <2>1, TimesAreNumbers DEF TimesToCome
    <3>3. mSimTime' = t /\ expiry' = now + NotNegative(t - mCurrentActionTime)
      BY <2>1, <2>2, <3>1 DEF DebugDurationUntil
    <3>4. NotNegative(t - mCurrentActionTime) = t - mCurrentActionTime
      BY <3>1, <3>2 DEF NotNegative
    <3>5. mCurrentActionTime <= now /\ now \in Nat
      BY <2>1, <2>2
    <3>6. expiry' \in Nat /\ t <= expiry'
      BY <3>1, <3>2, <3>3, <3>4, <3>5
    <3> QED
      BY <2>1, <3>2, <3>3, <3>5, <3>6
  <2>3. CASE ~debug
    BY <2>1, <2>3
  <2> QED
    BY <2>2, <2>3
<1>3. ASSUME NEW t \in Times, Fire(t) PROVE DebugTimes'
  <2>1. /\ core = "timer" /\ core' = "handlers" /\ expiry <= now
        /\ UNCHANGED <<mCurrentActionTime, debug, now, mSimTime, expiry>>
    BY <1>3 DEF Fire, PopNextHandlers, TimerFires
  <2>2. mCurrentActionTime \in Int
    BY TimesAreNumbers DEF MapTyped
  <2> QED
    BY <2>1, <2>2
<1>4. CASE Finish
  BY <1>4 DEF Finish, FinishSimulation, clockVars
<1>5. CASE TimePasses
  <2>1. now' = now + 1 /\ UNCHANGED <<debug, mSimTime, expiry, listVars>>
    BY <1>5 DEF TimePasses
  <2>2. mCurrentActionTime \in Int
    BY TimesAreNumbers DEF MapTyped
  <2> QED
    BY <2>1, <2>2 DEF listVars
<1>6. CASE UNCHANGED vars
  BY <1>6 DEF vars, listVars, clockVars
<1>7. Stopped => UNCHANGED vars
  BY DEF Stopped
<1> QED
  BY <1>1, <1>2, <1>3, <1>4, <1>5, <1>6, <1>7 DEF Next

\* With --debug a time point is never simulated before real time has come as
\* far: the simulation falls behind but does not overtake the clock, and
\* updates of the clock only advance it.
THEOREM DebugClockNeverAhead ==
    Spec => /\ [](debug /\ core = "timer" => mCurrentActionTime <= expiry)
            /\ [](debug /\ core = "handlers" => mCurrentActionTime <= now)
            /\ [][debug => mSimTime <= mSimTime']_vars
<1>1. Init => DebugTimes
  BY DEF Init, ListInit, ClockInit, DebugTimes
<1>2. ListInv /\ DebugTimes /\ [Next]_vars => DebugTimes'
  BY NextDebugTimes
<1>3. DebugTimes => /\ debug /\ core = "timer" => mCurrentActionTime <= expiry
                    /\ debug /\ core = "handlers" => mCurrentActionTime <= now
  BY DEF DebugTimes
<1>4. ListInv /\ DebugTimes /\ [Next]_vars => [debug => mSimTime <= mSimTime']_vars
  <2> SUFFICES ASSUME ListInv, DebugTimes, Next, debug PROVE mSimTime <= mSimTime' \/ UNCHANGED vars
    OBVIOUS
  <2> USE DEF ListInv, DebugTimes
  <2>1. ASSUME NEW t \in Times, Arm(t) PROVE mSimTime <= mSimTime'
    <3>1. core = "handlers" /\ t \in Keys /\ mSimTime' = t
      BY <2>1 DEF Arm, ArmTimer, StartTimer, Begin
    <3> QED
      BY <3>1 DEF TimesToCome
  <2>2. UNCHANGED mSimTime => mSimTime <= mSimTime'
    OBVIOUS
  <2>3. ASSUME NEW t \in Times, Insert(t) \/ Fire(t) PROVE UNCHANGED mSimTime
    BY <2>3 DEF Insert, clockVars, Fire, TimerFires
  <2>4. Finish \/ TimePasses \/ Stopped => UNCHANGED mSimTime
    BY DEF Finish, clockVars, TimePasses, Stopped, vars
  <2> QED
    BY <2>1, <2>2, <2>3, <2>4 DEF Next
<1> QED
  BY <1>1, <1>2, <1>3, <1>4, ListInvariant, PTL DEF Spec

-----------------------------------------------------------------------------
(* Powers of two, division, and the rounding of floats.                    *)

\* A set of numbers that is not empty has a least one.
LEMMA LeastNumber ==
    ASSUME NEW T, T \subseteq Nat, T # {}
    PROVE  \E x \in T : \A y \in T : x <= y
<1>1. IsWellFoundedOn(OpToRel(<, Nat), Nat)
  BY NatLessThanWellFounded
<1>2. PICK x \in T : \A y \in T : ~ (<<y, x>> \in OpToRel(<, Nat))
  BY <1>1, WFMin
<1>3. \A y \in T : ~ (y < x)
  BY <1>2 DEF OpToRel
<1>4. \A y \in T : y \in Nat /\ x \in Nat
  OBVIOUS
<1> QED
  BY <1>3, <1>4

\* What the definition of PowerOfTwo says of exponents up to n.
Doubles(f, n) == f = [k \in 0..n |-> IF k = 0 THEN 1 ELSE 2 * f[k - 1]]

\* There is a function as the definition describes it.
LEMMA DoublesExists ==
    ASSUME NEW n \in Nat
    PROVE  \E f : Doubles(f, n)
<1> DEFINE T == { k \in Nat : ~ \E f : Doubles(f, k) }
<1> SUFFICES ASSUME T # {} PROVE FALSE
  OBVIOUS
<1>1. PICK k \in T : \A y \in T : k <= y
  BY LeastNumber
<1>2. CASE k = 0
  <2>1. Doubles([i \in 0..0 |-> 1], 0)
    BY DEF Doubles
  <2> QED
    BY <2>1, <1>2
<1>3. CASE k # 0
  <2>1. k - 1 \in Nat /\ k - 1 \notin T
    BY <1>1, <1>3
  <2>2. PICK g : Doubles(g, k - 1)
    BY <2>1
  <2>3. PICK h : h = [i \in 0..k |-> IF i = k THEN 2 * g[k - 1] ELSE g[i]]
    OBVIOUS
  <2>4. ASSUME NEW i \in 0..k
        PROVE  h[i] = IF i = 0 THEN 1 ELSE 2 * h[i - 1]
    <3>1. CASE i = 0
      <4>1. 0 \in 0..(k - 1) /\ 0 # k
        BY <1>3
      <4> QED
        BY <3>1, <4>1, <2>2, <2>3 DEF Doubles
    <3>2. CASE i # 0
      <4>1. i - 1 \in 0..k /\ i - 1 # k /\ h[i - 1] = g[i - 1]
        BY <3>2, <2>3
      <4>2. CASE i = k
        BY <4>1, <4>2, <2>3
      <4>3. CASE i # k
        <5>1. i \in 0..(k - 1) /\ h[i] = g[i]
          BY <4>3, <2>3
        <5>2. g[i] = 2 * g[i - 1]
          BY <5>1, <3>2, <2>2 DEF Doubles
        <5> QED
          BY <5>1, <5>2, <4>1, <3>2
      <4> QED
        BY <4>2, <4>3
    <3> QED
      BY <3>1, <3>2
  <2>5. Doubles(h, k)
    <3>1. h = [i \in 0..k |-> h[i]]
      BY <2>3
    <3> QED
      BY <2>4, <3>1 DEF Doubles
  <2> QED
    BY <2>5
<1> QED
  BY <1>2, <1>3

\* So PowerOfTwo is that function, and its values are positive numbers.
LEMMA PowersOfTwo ==
    /\ PowerOfTwo[0] = 1
    /\ \A k \in 1..(Mantissa + MaxExponent) : PowerOfTwo[k] = 2 * PowerOfTwo[k - 1]
    /\ \A k \in 0..(Mantissa + MaxExponent) : PowerOfTwo[k] \in Nat \ {0}
<1>1. PICK n : n = Mantissa + MaxExponent /\ n \in Nat
  BY ClockAssumption
<1>2. Doubles(PowerOfTwo, n)
  <2>1. PowerOfTwo = CHOOSE f : Doubles(f, n)
    BY <1>1 DEF PowerOfTwo, Doubles
  <2> QED
    BY <2>1, <1>1, DoublesExists
<1>3. PowerOfTwo[0] = 1
  BY <1>1, <1>2 DEF Doubles
<1>4. \A k \in 1..n : PowerOfTwo[k] = 2 * PowerOfTwo[k - 1]
  BY <1>1, <1>2 DEF Doubles
<1> DEFINE T == { k \in 0..n : PowerOfTwo[k] \notin Nat \ {0} }
<1>5. T = {}
  <2> SUFFICES ASSUME T # {} PROVE FALSE
    OBVIOUS
  <2>1. T \subseteq Nat
    BY <1>1
  <2>2. PICK k \in T : \A y \in T : k <= y
    BY <2>1, LeastNumber
  <2>3. k # 0 /\ k \in 1..n
    BY <2>2, <1>1, <1>3
  <2>4. k - 1 \in 0..n /\ k - 1 \notin T
    BY <2>2, <2>3, <1>1
  <2>5. PowerOfTwo[k - 1] \in Nat \ {0}
    BY <2>4
  <2>6. PowerOfTwo[k] \in Nat \ {0}
    BY <2>3, <2>5, <1>4
  <2> QED
    BY <2>2, <2>6
<1> QED
  BY <1>1, <1>3, <1>4, <1>5

\* A power is at least twice any lower one.
LEMMA PowersGrow ==
    ASSUME NEW j \in 0..(Mantissa + MaxExponent), NEW k \in 0..(Mantissa + MaxExponent), j < k
    PROVE  2 * PowerOfTwo[j] <= PowerOfTwo[k]
<1>1. PICK n : n = Mantissa + MaxExponent /\ n \in Nat
  BY ClockAssumption
<1> DEFINE T == { i \in 0..n : j < i /\ ~ (2 * PowerOfTwo[j] <= PowerOfTwo[i]) }
<1>2. T = {}
  <2> SUFFICES ASSUME T # {} PROVE FALSE
    OBVIOUS
  <2>1. T \subseteq Nat
    BY <1>1
  <2>2. PICK i \in T : \A y \in T : i <= y
    BY <2>1, LeastNumber
  <2>3. i \in 1..n /\ i - 1 \in 0..n /\ i - 1 \notin T /\ j \in 0..n
    BY <2>2, <1>1
  <2>4. PowerOfTwo[i] = 2 * PowerOfTwo[i - 1] /\ PowerOfTwo[i - 1] \in Nat /\ PowerOfTwo[j] \in Nat
    BY <2>3, <1>1, PowersOfTwo
  <2>5. CASE i - 1 = j
    BY <2>4, <2>5, <2>2
  <2>6. CASE i - 1 # j
    <3>1. j < i - 1
      BY <2>6, <2>2, <1>1
    <3>2. 2 * PowerOfTwo[j] <= PowerOfTwo[i - 1]
      BY <3>1, <2>3
    <3> QED
      BY <3>2, <2>4, <2>2
  <2> QED
    BY <2>5, <2>6
<1> QED
  BY <1>1, <1>2

\* Quotient and remainder.
LEMMA DivMod ==
    ASSUME NEW n \in Nat, NEW u \in Nat \ {0}
    PROVE  /\ n \div u \in Nat /\ n % u \in Nat
           /\ n = u * (n \div u) + (n % u) /\ n % u < u
<1>1. n % u = n - u * (n \div u)
  OBVIOUS
<1>2. n \div u \in Nat /\ n % u \in Nat /\ n % u < u
  OBVIOUS
<1>3. u * (n \div u) \in Nat
  BY <1>2
<1> QED
  BY <1>1, <1>2, <1>3

\* Products and sums.
LEMMA Products ==
    ASSUME NEW a \in Nat, NEW b \in Nat, NEW c \in Nat
    PROVE  /\ c * a \in Nat
           /\ c * (a + b) = c * a + c * b
           /\ c * (a + 1) = c * a + c
           /\ c * (2 * a) = 2 * (c * a)
           /\ a <= b => c * a <= c * b
           /\ a * c = c * a
<1>1. c * a \in Nat /\ a * c = c * a
  OBVIOUS
<1>2. c * (a + b) = c * a + c * b
  OBVIOUS
<1>3. c * (a + 1) = c * a + c
  OBVIOUS
<1>4. c * (2 * a) = 2 * (c * a)
  OBVIOUS
<1>5. a <= b => c * a <= c * b
  OBVIOUS
<1> QED
  BY <1>1, <1>2, <1>3, <1>4, <1>5

\* A quotient grows with the dividend.
LEMMA DivMonotone ==
    ASSUME NEW a \in Nat, NEW b \in Nat, NEW d \in Nat \ {0}, a <= b
    PROVE  a \div d <= b \div d
<1>1. PICK p \in Nat, r \in Nat : p = a \div d /\ a = d * p + r
  BY DivMod
<1>2. PICK q \in Nat, s \in Nat : q = b \div d /\ b = d * q + s /\ s < d
  BY DivMod
<1>3. SUFFICES ASSUME q + 1 <= p PROVE FALSE
  BY <1>1, <1>2
<1>4. d * (q + 1) <= d * p /\ d * (q + 1) = d * q + d /\ d * p \in Nat /\ d * q \in Nat
  BY <1>1, <1>2, <1>3, Products
<1> QED
  BY <1>1, <1>2, <1>4

\* Significands have a bit at least.
LEMMA SignificandsEven ==
    \E h \in Nat \ {0} : Significands = 2 * h
<1>1. Mantissa \in 1..(Mantissa + MaxExponent) /\ Mantissa - 1 \in 0..(Mantissa + MaxExponent)
  BY ClockAssumption
<1>2. PICK h \in Nat \ {0} : h = PowerOfTwo[Mantissa - 1]
  BY <1>1, PowersOfTwo
<1>3. PowerOfTwo[Mantissa] = 2 * h
  BY <1>1, <1>2, PowersOfTwo
<1> QED
  BY <1>2, <1>3 DEF Significands

\* What floats of the run can be as large as.
InRange(n) == n \in Nat /\ n < Significands * PowerOfTwo[MaxExponent]

\* The ulp of a number in range is the least power of two with which the
\* number has a significand.
LEMMA UlpIs ==
    ASSUME NEW n, InRange(n)
    PROVE  \E k \in 0..MaxExponent :
             /\ Ulp(n) = PowerOfTwo[k]
             /\ n < Significands * PowerOfTwo[k]
             /\ k = 0 \/ Significands * PowerOfTwo[k] <= 2 * n
<1>1. n \in Nat /\ Significands \in Nat \ {0} /\ MaxExponent \in Nat /\ Mantissa \in Nat
  BY ClockAssumption, SignificandsEven DEF InRange
<1> DEFINE T == { k \in 0..MaxExponent : n < Significands * PowerOfTwo[k] }
<1>2. PICK k \in T : \A j \in T : k <= j
  <2>1. T # {} /\ T \subseteq Nat
    BY <1>1 DEF InRange
  <2> HIDE DEF T
  <2> QED
    BY <2>1, LeastNumber
<1>3. k \in 0..MaxExponent /\ n < Significands * PowerOfTwo[k]
  BY <1>2
<1>4. k = 0 \/ Significands * PowerOfTwo[k] <= 2 * n
  <2> SUFFICES ASSUME k # 0 PROVE Significands * PowerOfTwo[k] <= 2 * n
    OBVIOUS
  <2>1. k - 1 \in 0..MaxExponent /\ k - 1 \notin T
    BY <1>1, <1>2
  <2>2. PICK u : u = PowerOfTwo[k - 1] /\ u \in Nat /\ PowerOfTwo[k] = 2 * u
    BY <1>1, <1>3, <2>1, PowersOfTwo
  <2>3. ~ (n < Significands * u)
    BY <2>1, <2>2
  <2>4. Significands * (2 * u) = 2 * (Significands * u) /\ Significands * u \in Nat
    BY <1>1, <2>2, Products
  <2> QED
    BY <1>1, <2>2, <2>3, <2>4
<1> DEFINE Fits(u) == n < Significands * u /\ (u = 1 \/ Significands * u <= 2 * n)
<1>5. \E u \in { PowerOfTwo[j] : j \in 0..MaxExponent } : Fits(u)
  BY <1>3, <1>4, PowersOfTwo
<1>6. Ulp(n) \in { PowerOfTwo[j] : j \in 0..MaxExponent } /\ Fits(Ulp(n))
  BY <1>5 DEF Ulp
<1>7. PICK j \in 0..MaxExponent : Ulp(n) = PowerOfTwo[j]
  BY <1>6
<1>8. j = 0 \/ PowerOfTwo[j] # 1
  <2> SUFFICES ASSUME j # 0 PROVE PowerOfTwo[j] # 1
    OBVIOUS
  <2>1. j \in 0..(Mantissa + MaxExponent) /\ 0 \in 0..(Mantissa + MaxExponent) /\ 0 < j
    BY <1>1, <1>7
  <2> QED
    BY <2>1, PowersGrow, PowersOfTwo
<1> QED
  BY <1>6, <1>7, <1>8

\* An ulp is a positive number, no more than one times the number unless it
\* is 1, and the number has a significand with it.
LEMMA UlpFacts ==
    ASSUME NEW n, InRange(n)
    PROVE  /\ Ulp(n) \in Nat \ {0}
           /\ n < Significands * Ulp(n)
           /\ Ulp(n) = 1 \/ Significands * Ulp(n) <= 2 * n
           /\ Ulp(n) = 1 \/ Ulp(n) <= n
<1>1. PICK k \in 0..MaxExponent :
             /\ Ulp(n) = PowerOfTwo[k]
             /\ n < Significands * PowerOfTwo[k]
             /\ k = 0 \/ Significands * PowerOfTwo[k] <= 2 * n
  BY UlpIs
<1>2. k \in 0..(Mantissa + MaxExponent)
  BY ClockAssumption
<1>3. PICK u \in Nat \ {0} : Ulp(n) = u
  BY <1>1, <1>2, PowersOfTwo
<1>4. n < Significands * u /\ (u = 1 \/ Significands * u <= 2 * n)
  BY <1>1, <1>3, PowersOfTwo
<1>5. PICK h \in Nat \ {0} : Significands = 2 * h
  BY SignificandsEven
<1>6. Significands * u = 2 * (u * h) /\ u <= u * h
  <2>1. u * 1 <= u * h
    BY <1>5, Products
  <2>2. (2 * h) * u = 2 * (u * h)
    BY <1>5
  <2> QED
    BY <2>1, <2>2, <1>5
<1>7. n \in Nat /\ u * h \in Nat
  BY <1>5 DEF InRange
<1> QED
  BY <1>3, <1>4, <1>6, <1>7

\* A larger number has the same ulp or one at least twice as large.
LEMMA UlpMonotone ==
    ASSUME NEW n, NEW m, InRange(n), InRange(m), n <= m
    PROVE  Ulp(n) = Ulp(m) \/ 2 * Ulp(n) <= Ulp(m)
<1>1. PICK j \in 0..MaxExponent :
             /\ Ulp(n) = PowerOfTwo[j]
             /\ n < Significands * PowerOfTwo[j]
             /\ j = 0 \/ Significands * PowerOfTwo[j] <= 2 * n
  BY UlpIs
<1>2. PICK k \in 0..MaxExponent :
             /\ Ulp(m) = PowerOfTwo[k]
             /\ m < Significands * PowerOfTwo[k]
             /\ k = 0 \/ Significands * PowerOfTwo[k] <= 2 * m
  BY UlpIs
<1>3. j \in 0..(Mantissa + MaxExponent) /\ k \in 0..(Mantissa + MaxExponent)
  BY ClockAssumption
<1>4. ~ (k < j)
  <2> SUFFICES ASSUME k < j PROVE FALSE
    OBVIOUS
  <2>1. 2 * PowerOfTwo[k] <= PowerOfTwo[j]
    BY <1>3, PowersGrow
  <2>2. PICK v \in Nat : v = PowerOfTwo[k]
    BY <1>3, PowersOfTwo
  <2>3. PICK u \in Nat : u = PowerOfTwo[j]
    BY <1>3, PowersOfTwo
  <2>4. Significands \in Nat
    BY SignificandsEven
  <2>5. Significands * (2 * v) <= Significands * u /\ Significands * (2 * v) = 2 * (Significands * v)
    BY <2>1, <2>2, <2>3, <2>4, Products
  <2>6. m < Significands * v /\ Significands * u <= 2 * n
    BY <1>1, <1>2, <2>2, <2>3
  <2>7. n \in Nat /\ m \in Nat /\ Significands * v \in Nat /\ Significands * u \in Nat
    BY <2>2, <2>3, <2>4 DEF InRange
  <2> QED
    BY <2>5, <2>6, <2>7
<1>5. CASE j = k
  BY <1>1, <1>2, <1>5
<1>6. CASE j < k
  BY <1>1, <1>2, <1>3, <1>6, PowersGrow
<1> QED
  BY <1>4, <1>5, <1>6

\* What Nearest makes of a number with quotient q and remainder r.
RoundsTo(n, u, q, r) ==
    /\ n = u * q + r /\ r < u /\ q = n \div u
    /\ u * q \in Nat /\ u * (q + 1) = u * q + u
    /\ \/ Nearest(n) = u * q /\ 2 * r <= u /\ (2 * r = u => q % 2 # 1)
       \/ Nearest(n) = u * q + u /\ u <= 2 * r /\ (2 * r = u => q % 2 = 1)

\* Rounding yields a multiple of the ulp that is at most half of it away.
LEMMA NearestIs ==
    ASSUME NEW n, InRange(n), NEW u \in Nat \ {0}, u = Ulp(n)
    PROVE  \E q \in Nat, r \in Nat : RoundsTo(n, u, q, r)
<1>1. n \in Nat
  BY DEF InRange
<1>2. PICK q \in Nat, r \in Nat : q = n \div u /\ r = n % u /\ n = u * q + r /\ r < u
  BY <1>1, DivMod
<1>3. u * q \in Nat /\ u * (q + 1) = u * q + u
  BY Products
<1>4. CASE 2 * r > u \/ (2 * r = u /\ q % 2 = 1)
  <2>1. Nearest(n) = u * (q + 1)
    BY <1>2, <1>4 DEF Nearest
  <2>2. u <= 2 * r /\ (2 * r = u => q % 2 = 1)
    BY <1>4
  <2> QED
    BY <1>2, <1>3, <2>1, <2>2 DEF RoundsTo
<1>5. CASE ~ (2 * r > u \/ (2 * r = u /\ q % 2 = 1))
  <2>1. Nearest(n) = u * (q + 0)
    BY <1>2, <1>5 DEF Nearest
  <2>2. q + 0 = q
    OBVIOUS
  <2>3. 2 * r <= u /\ (2 * r = u => q % 2 # 1)
    BY <1>5
  <2> QED
    BY <1>2, <1>3, <2>1, <2>2, <2>3 DEF RoundsTo
<1> QED
  BY <1>4, <1>5

\* Rounding errs by half an ulp at most, and at most doubles a number.
LEMMA NearestBounds ==
    ASSUME NEW n, InRange(n)
    PROVE  /\ Nearest(n) \in Nat
           /\ 2 * Nearest(n) <= 2 * n + Ulp(n)
           /\ 2 * n <= 2 * Nearest(n) + Ulp(n)
           /\ Nearest(n) <= 2 * n
<1>1. PICK u \in Nat \ {0} : u = Ulp(n)
  BY UlpFacts
<1>2. PICK q \in Nat, r \in Nat : RoundsTo(n, u, q, r)
  BY <1>1, NearestIs
<1>3. u = 1 \/ u <= n
  BY <1>1, UlpFacts
<1>4. PICK p \in Nat : p = u * q
  BY <1>2 DEF RoundsTo
<1> QED
  BY <1>1, <1>2, <1>3, <1>4 DEF RoundsTo

\* A float in the range of an ulp larger than 1 is not rounded below that range.
LEMMA NearestKeepsUlp ==
    ASSUME NEW n, InRange(n)
    PROVE  Ulp(n) = 1 \/ Significands * Ulp(n) <= 2 * Nearest(n)
<1> SUFFICES ASSUME Ulp(n) # 1 PROVE Significands * Ulp(n) <= 2 * Nearest(n)
  OBVIOUS
<1>1. PICK u \in Nat \ {0} : u = Ulp(n)
  BY UlpFacts
<1>2. PICK q \in Nat, r \in Nat : RoundsTo(n, u, q, r)
  BY <1>1, NearestIs
<1>3. PICK h \in Nat \ {0} : Significands = 2 * h
  BY SignificandsEven
<1>4. Significands * u = 2 * (u * h) /\ u * h \in Nat
  BY <1>3, Products
<1>5. u * h <= u * q + r
  <2>1. n = u * q + r /\ n \in Nat
    BY <1>2 DEF RoundsTo, InRange
  <2>2. Significands * u <= 2 * n
    BY <1>1, UlpFacts
  <2> QED
    BY <2>1, <2>2, <1>4
<1>6. h <= q
  <2> SUFFICES ASSUME q + 1 <= h PROVE FALSE
    BY <1>2, <1>3
  <2>1. u * (q + 1) <= u * h
    BY Products
  <2> QED
    BY <2>1, <1>2, <1>4, <1>5 DEF RoundsTo
<1>7. u * h <= u * q
  BY <1>6, <1>3, Products
<1> QED
  BY <1>1, <1>2, <1>4, <1>7 DEF RoundsTo

\* Rounding respects the order of numbers.
LEMMA NearestMonotone ==
    ASSUME NEW n, NEW m, InRange(n), InRange(m), n <= m
    PROVE  Nearest(n) <= Nearest(m)
<1>1. PICK u \in Nat \ {0} : u = Ulp(n)
  BY UlpFacts
<1>2. PICK v \in Nat \ {0} : v = Ulp(m)
  BY UlpFacts
<1>3. n \in Nat /\ m \in Nat
  BY DEF InRange
<1>4. CASE u = v
  <2>1. PICK q \in Nat, r \in Nat : RoundsTo(n, u, q, r)
    BY <1>1, NearestIs
  <2>2. PICK p \in Nat, s \in Nat : RoundsTo(m, u, p, s)
    BY <1>2, <1>4, NearestIs
  <2>3. q <= p
    BY <1>3, <2>1, <2>2, DivMonotone DEF RoundsTo
  <2>4. CASE q = p
    <3>1. r <= s
      BY <1>3, <2>1, <2>2, <2>4 DEF RoundsTo
    <3> QED
      BY <2>1, <2>2, <2>4, <3>1 DEF RoundsTo
  <2>5. CASE q + 1 <= p
    <3>1. u * (q + 1) <= u * p
      BY <2>5, Products
    <3> QED
      BY <2>1, <2>2, <3>1 DEF RoundsTo
  <2> QED
    BY <2>3, <2>4, <2>5
<1>5. CASE u # v
  <2>1. 2 * u <= v
    BY <1>1, <1>2, <1>5, UlpMonotone
  <2>2. Significands * v <= 2 * Nearest(m)
    BY <1>1, <1>2, <2>1, NearestKeepsUlp
  <2>3. PICK q \in Nat, r \in Nat : RoundsTo(n, u, q, r)
    BY <1>1, NearestIs
  <2>4. PICK S \in Nat \ {0} : S = Significands
    BY SignificandsEven
  <2>5. n < S * u
    BY <1>1, <2>4, UlpFacts
  <2>6. q + 1 <= S
    <3> SUFFICES ASSUME S <= q PROVE FALSE
      BY <2>3, <2>4
    <3>1. u * S <= u * q /\ S * u = u * S /\ u * S \in Nat
      BY <2>4, Products
    <3> QED
      BY <3>1, <2>3, <2>5 DEF RoundsTo
  <2>7. u * (q + 1) <= u * S /\ S * u = u * S
    BY <2>6, Products
  <2>8. S * (2 * u) <= S * v /\ S * (2 * u) = 2 * (S * u)
    BY <2>1, <2>4, Products
  <2>9. S * u \in Nat /\ S * v \in Nat /\ Nearest(n) \in Nat /\ Nearest(m) \in Nat
    BY <2>4, Products, NearestBounds
  <2>10. Nearest(n) <= u * q + u /\ u * (q + 1) = u * q + u /\ u * q \in Nat
    BY <2>3 DEF RoundsTo
  <2> QED
    BY <2>2, <2>4, <2>7, <2>8, <2>9, <2>10
<1> QED
  BY <1>4, <1>5

-----------------------------------------------------------------------------
(* SteadyClock.                                                            *)

\* All times of the run, and twice as much, are in the range of floats.
LEMMA TimesInRange ==
    /\ Num \in Nat \ {0} /\ Den \in Nat \ {0} /\ MaxReal \in Nat /\ MaxTime \in Nat
    /\ MaxReal * Num \in Nat
    /\ \A n \in Nat : n <= 2 * (MaxReal * Num) => InRange(n)
    /\ \A n \in Nat : n <= 2 * MaxReal \/ n <= 2 * MaxTime => InRange(n)
<1>1. Num \in Nat \ {0} /\ Den \in Nat \ {0} /\ MaxReal \in Nat /\ MaxTime \in Nat
  BY ClockAssumption, TimerAssumption, ListAssumption
<1>2. PICK R \in Nat : R = Significands * PowerOfTwo[MaxExponent]
  <2>1. MaxExponent \in 0..(Mantissa + MaxExponent)
    BY ClockAssumption
  <2>2. Significands \in Nat /\ PowerOfTwo[MaxExponent] \in Nat
    BY <2>1, SignificandsEven, PowersOfTwo
  <2> QED
    BY <2>2, Products
<1>3. PICK a \in Nat : a = MaxReal * Num /\ MaxReal <= a
  <2>1. MaxReal * 1 <= MaxReal * Num
    BY <1>1, Products
  <2> QED
    BY <1>1, <2>1, Products
<1>4. PICK b \in Nat : b = MaxTime * Num /\ MaxTime <= b
  <2>1. MaxTime * 1 <= MaxTime * Num
    BY <1>1, Products
  <2> QED
    BY <1>1, <2>1, Products
<1>5. 2 * a < R /\ 2 * b < R
  BY <1>2, <1>3, <1>4, RangeAssumption
<1>6. \A n \in Nat : n < R => InRange(n)
  BY <1>2 DEF InRange
<1> QED
  BY <1>1, <1>3, <1>4, <1>5, <1>6

\* The product of a number and the speed is a number and grows with it; the
\* product of a negative one is not positive.
LEMMA TimesSpeedFacts ==
    ASSUME NEW n, InRange(n)
    PROVE  /\ n \in Nat
           /\ TimesSpeed(n) = (Nearest(n) * Num) \div Den
           /\ TimesSpeed(n) \in Nat
           /\ TimesSpeed(n) <= 2 * (n * Num)
           /\ n # 0 => -TimesSpeed(-n) \in Nat
<1>1. n \in Nat
  BY DEF InRange
<1>2. Num \in Nat \ {0} /\ Den \in Nat \ {0}
  BY ClockAssumption
<1>3. PICK x \in Nat : x = Nearest(n) /\ x <= 2 * n
  BY NearestBounds
<1>4. x * Num \in Nat /\ x * Num <= 2 * (n * Num)
  <2>1. Num * x \in Nat /\ Num * x <= Num * (2 * n) /\ Num * (2 * n) = 2 * (Num * n)
    BY <1>1, <1>2, <1>3, Products
  <2>2. x * Num = Num * x /\ n * Num = Num * n
    BY <1>1, <1>2, <1>3
  <2> QED
    BY <2>1, <2>2
<1>5. PICK q \in Nat, r \in Nat : q = (x * Num) \div Den /\ x * Num = Den * q + r
  BY <1>2, <1>4, DivMod
<1>6. q <= x * Num
  <2>1. q * 1 <= q * Den /\ q * Den = Den * q /\ Den * q \in Nat
    BY <1>2, Products
  <2> QED
    BY <2>1, <1>4, <1>5
<1>7. TimesSpeed(n) = q
  BY <1>1, <1>3, <1>5 DEF TimesSpeed
<1>8. n # 0 => TimesSpeed(-n) = -q
  <2> SUFFICES ASSUME n # 0 PROVE TimesSpeed(-n) = -q
    OBVIOUS
  <2>1. ~ (-n >= 0) /\ -(-n) = n
    BY <1>1
  <2> QED
    BY <2>1, <1>3, <1>5 DEF TimesSpeed
<1>9. n \in Nat /\ n * Num \in Nat
  BY <1>1, <1>2
<1> QED
  BY <1>3, <1>4, <1>5, <1>6, <1>7, <1>8, <1>9

\* Neither the rounding of a duration nor the cut to nanoseconds changes an order.
LEMMA TimesSpeedMonotone ==
    ASSUME NEW n, NEW m, InRange(n), InRange(m), n <= m
    PROVE  TimesSpeed(n) <= TimesSpeed(m)
<1>1. PICK x \in Nat : x = Nearest(n)
  BY NearestBounds
<1>2. PICK y \in Nat : y = Nearest(m)
  BY NearestBounds
<1>3. x <= y
  BY <1>1, <1>2, NearestMonotone
<1>4. Num \in Nat /\ Den \in Nat \ {0}
  BY ClockAssumption
<1>5. Num * x <= Num * y /\ Num * x = x * Num /\ Num * y = y * Num /\ Num * x \in Nat /\ Num * y \in Nat
  BY <1>3, <1>4, Products
<1>6. (x * Num) \div Den <= (y * Num) \div Den
  BY <1>4, <1>5, DivMonotone
<1> QED
  BY <1>1, <1>2, <1>6, TimesSpeedFacts

\* What is said of the clock between steps: simulated time is not ahead of
\* what the clock would return now.
ClockInv ==
    /\ ClockTypeOK
    /\ now <= MaxReal
    /\ ~debug => mSimTime <= ElapsedSimTime

\* What StartTimer does to a SteadyClock, for a time point of the map.
LEMMA StartsTimer ==
    ASSUME ClockInv, NEW t \in Times, StartTimer(t), ~debug
    PROVE  /\ mSimTime' = ElapsedSimTime /\ ElapsedSimTime \in Nat
           /\ changed' = now
           /\ IF t < ElapsedSimTime THEN expiry' = now
                ELSE /\ InRange(t - ElapsedSimTime)
                     /\ TimesSpeed(t - ElapsedSimTime) \in Nat
                     /\ expiry' = now + TimesSpeed(t - ElapsedSimTime)
<1>1. now \in Nat /\ now <= MaxReal /\ t \in Nat /\ t <= MaxTime
  BY ListAssumption DEF ClockInv, ClockTypeOK, Times
<1>2. InRange(now)
  BY <1>1, TimesInRange
<1>3. PICK e \in Nat : e = ElapsedSimTime /\ e <= 2 * (MaxReal * Num)
  <2>1. now * Num \in Nat /\ now * Num <= MaxReal * Num
    <3>1. Num * now \in Nat /\ Num * now <= Num * MaxReal
      BY <1>1, TimesInRange, Products
    <3>2. Num * now = now * Num /\ Num * MaxReal = MaxReal * Num
      BY <1>1, TimesInRange, Products
    <3> QED
      BY <3>1, <3>2
  <2>2. TimesSpeed(now) \in Nat /\ TimesSpeed(now) <= 2 * (now * Num)
    BY <1>2, TimesSpeedFacts
  <2>3. MaxReal * Num \in Nat
    BY TimesInRange
  <2> QED
    BY <2>1, <2>2, <2>3 DEF ElapsedSimTime
<1>4. mSimTime' = e /\ changed' = now /\ expiry' = now + NotNegative(TimesSpeed(t - e))
  BY <1>3 DEF StartTimer, DurationUntil
<1>5. CASE t < e
  <2>1. e - t \in Nat /\ e - t # 0 /\ e - t <= 2 * (MaxReal * Num)
    BY <1>1, <1>3, <1>5, TimesInRange
  <2>2. InRange(e - t)
    BY <2>1, TimesInRange
  <2>3. -TimesSpeed(-(e - t)) \in Nat /\ -(e - t) = t - e
    BY <1>1, <2>1, <2>2, TimesSpeedFacts
  <2>4. -TimesSpeed(t - e) \in Nat
    BY <2>3
  <2>5. NotNegative(TimesSpeed(t - e)) = 0
    <3>1. PICK s \in Nat : -TimesSpeed(t - e) = s
      BY <2>4
    <3>2. TimesSpeed(t - e) \in Int
      <4>1. TimesSpeed(t - e) = -((Nearest(-(t - e)) * Num) \div Den)
        BY <1>1, <1>3, <1>5 DEF TimesSpeed
      <4>2. -(t - e) = e - t
        BY <1>1, <1>3
      <4>3. Nearest(e - t) \in Nat
        BY <2>2, NearestBounds
      <4>4. Nearest(e - t) * Num \in Nat
        BY <4>3, TimesInRange, Products
      <4>5. (Nearest(e - t) * Num) \div Den \in Nat
        BY <4>4, TimesInRange, DivMod
      <4> QED
        BY <4>1, <4>2, <4>5
    <3> QED
      BY <3>1, <3>2 DEF NotNegative
  <2> QED
    BY <1>1, <1>3, <1>4, <1>5, <2>5
<1>6. CASE ~ (t < e)
  <2>1. t - e \in Nat /\ t - e <= MaxTime
    BY <1>1, <1>3, <1>6, TimesInRange
  <2>2. InRange(t - e)
    BY <2>1, TimesInRange
  <2>3. TimesSpeed(t - e) \in Nat
    BY <2>2, TimesSpeedFacts
  <2>4. NotNegative(TimesSpeed(t - e)) = TimesSpeed(t - e)
    BY <2>3 DEF NotNegative
  <2> QED
    BY <1>3, <1>4, <1>6, <2>2, <2>3, <2>4
<1> QED
  BY <1>5, <1>6

\* An update sets simulated time to what the clock returns, and from then on the
\* clock only returns more.
LEMMA NextClockInv ==
    ASSUME ClockInv, [Next]_vars
    PROVE  ClockInv'
<1> USE DEF ClockInv, ClockTypeOK
<1>1. ASSUME UNCHANGED clockVars PROVE ClockInv'
  BY <1>1 DEF clockVars, ElapsedSimTime
<1>2. ASSUME NEW t \in Times, Arm(t) PROVE ClockInv'
  <2>1. StartTimer(t) /\ UNCHANGED <<debug, now>>
    BY <1>2 DEF Arm, StartTimer
  <2>2. t \in Nat
    BY TimesAreNumbers
  <2>3. CASE debug
    <3>1. mSimTime' = t /\ changed' = now /\ expiry' = now + NotNegative(t - mSimTime)
      BY <2>1, <2>3 DEF StartTimer, DebugDurationUntil
    <3>2. NotNegative(t - mSimTime) \in Nat
      BY <2>2 DEF NotNegative
    <3> QED
      BY <2>1, <2>2, <2>3, <3>1, <3>2
  <2>4. CASE ~debug
    <3>1. /\ mSimTime' = ElapsedSimTime /\ ElapsedSimTime \in Nat
          /\ changed' = now
          /\ expiry' \in Nat
      BY <2>1, <2>4, StartsTimer
    <3>2. ElapsedSimTime' = ElapsedSimTime
      BY <2>1 DEF ElapsedSimTime
    <3> QED
      BY <2>1, <2>4, <3>1, <3>2
  <2> QED
    BY <2>3, <2>4
<1>3. ASSUME NEW t \in Times, Fire(t) PROVE ClockInv'
  BY <1>3 DEF Fire, TimerFires, ElapsedSimTime
<1>4. CASE TimePasses
  <2>1. now' = now + 1 /\ now < MaxReal /\ UNCHANGED <<debug, mSimTime, expiry, changed>>
    BY <1>4 DEF TimePasses
  <2>2. now' \in Nat /\ now' <= MaxReal /\ now <= now'
    BY <2>1, TimerAssumption
  <2>3. InRange(now) /\ InRange(now')
    BY <2>2, TimesInRange
  <2>4. ElapsedSimTime <= ElapsedSimTime' /\ ElapsedSimTime \in Nat /\ ElapsedSimTime' \in Nat
    BY <2>2, <2>3, TimesSpeedMonotone, TimesSpeedFacts DEF ElapsedSimTime
  <2> QED
    BY <2>1, <2>2, <2>4
<1>5. ASSUME NEW t \in Times, Insert(t) PROVE ClockInv'
  BY <1>1, <1>5 DEF Insert
<1>6. Finish => ClockInv'
  BY <1>1 DEF Finish
<1>7. Stopped \/ UNCHANGED vars => ClockInv'
  BY <1>1 DEF Stopped, vars
<1> QED
  BY <1>2, <1>3, <1>4, <1>5, <1>6, <1>7 DEF Next

\* Real time, simulated time and the timer are numbers at any speed.
THEOREM ClockInvariant == Spec => []ClockInv
<1>1. Init => ClockInv
  <2> SUFFICES ASSUME Init PROVE ClockInv
    OBVIOUS
  <2>1. debug \in BOOLEAN /\ now = 0 /\ mSimTime = 0 /\ expiry = 0 /\ changed = 0
    BY DEF Init, ClockInit
  <2>2. InRange(0) /\ 0 <= MaxReal
    BY TimesInRange
  <2>3. ElapsedSimTime \in Nat
    BY <2>1, <2>2, TimesSpeedFacts DEF ElapsedSimTime
  <2> QED
    BY <2>1, <2>2, <2>3 DEF ClockInv, ClockTypeOK
<1>2. ClockInv /\ [Next]_vars => ClockInv'
  BY NextClockInv
<1> QED
  BY <1>1, <1>2, PTL DEF Spec

\* Every variable has its type.
THEOREM TypeCorrect == Spec => []TypeOK
<1>1. ClockInv /\ ListTypeOK => TypeOK
  BY DEF ClockInv, TypeOK
<1> QED
  BY <1>1, ClockInvariant, ListTypeCorrect, PTL

\* Updates of simulated time only advance it, with either clock and at any
\* speed: the enforce of updateSimTime holds whatever is rounded.
THEOREM UpdatesOnlyAdvance == Spec => SimTimeMonotone
<1>1. ListInv /\ DebugTimes /\ ClockInv /\ [Next]_vars => [mSimTime <= mSimTime']_vars
  <2> SUFFICES ASSUME ListInv, DebugTimes, ClockInv, Next PROVE mSimTime <= mSimTime'
    OBVIOUS
  <2>1. mSimTime \in Nat
    BY DEF ClockInv, ClockTypeOK
  <2>2. UNCHANGED mSimTime => mSimTime <= mSimTime'
    BY <2>1
  <2>3. ASSUME NEW t \in Times, Arm(t) PROVE mSimTime <= mSimTime'
    <3>1. core = "handlers" /\ t \in Keys /\ StartTimer(t)
      BY <2>3 DEF Arm, ArmTimer, Begin
    <3>2. CASE debug
      <4>1. mSimTime = mCurrentActionTime /\ mSimTime' = t /\ mCurrentActionTime <= t
        BY <3>1, <3>2 DEF StartTimer, DebugTimes, ListInv, TimesToCome
      <4> QED
        BY <4>1
    <3>3. CASE ~debug
      <4>1. mSimTime <= ElapsedSimTime /\ mSimTime' = ElapsedSimTime
        BY <3>1, <3>3, StartsTimer DEF ClockInv
      <4> QED
        BY <4>1
    <3> QED
      BY <3>2, <3>3
  <2>4. ASSUME NEW t \in Times, Insert(t) \/ Fire(t) PROVE UNCHANGED mSimTime
    BY <2>4 DEF Insert, clockVars, Fire, TimerFires
  <2>5. Finish \/ TimePasses \/ Stopped => UNCHANGED mSimTime
    BY DEF Finish, clockVars, TimePasses, Stopped, vars
  <2> QED
    BY <2>2, <2>3, <2>4, <2>5 DEF Next
<1>2. Init => DebugTimes
  BY DEF Init, ListInit, ClockInit, DebugTimes
<1>3. ListInv /\ DebugTimes /\ [Next]_vars => DebugTimes'
  BY NextDebugTimes
<1> QED
  BY <1>1, <1>2, <1>3, ListInvariant, ClockInvariant, PTL DEF Spec, SimTimeMonotone

\* What a timer armed at real time n for the time point t is off by, when
\* simulated time is real time: two roundings, of n and of the time to wait.
LEMMA TimerError ==
    ASSUME NEW n \in Nat, NEW t \in Nat, n <= MaxReal, t <= MaxTime,
           NEW e \in Nat, e = Nearest(n),
           NEW w \in Nat, IF t < e THEN w = 0 ELSE w = Nearest(t - e)
    PROVE  LET due == Max2(t, n)
               tolerance == Ulp(n) + Ulp(Max2(w, 0)) + 1
           IN  n + w \in (due - tolerance)..(due + tolerance)
<1>1. InRange(n) /\ MaxTime \in Nat
  BY TimesInRange
<1>2. PICK a \in Nat : a = Ulp(n) /\ 2 * e <= 2 * n + a /\ 2 * n <= 2 * e + a
  BY <1>1, UlpFacts, NearestBounds
<1>3. Max2(w, 0) = w
  BY DEF Max2
<1>4. PICK due \in Nat : due = Max2(t, n) /\ (IF t < n THEN due = n ELSE due = t)
  BY DEF Max2
<1>5. SUFFICES \E b \in Nat : /\ b = Ulp(w)
                              /\ n + w <= due + a + b + 1
                              /\ due <= n + w + a + b + 1
  BY <1>2, <1>3, <1>4
<1>6. CASE t < e
  <2>1. w = 0 /\ InRange(0)
    BY <1>6, TimesInRange
  <2>2. PICK b \in Nat : b = Ulp(w)
    BY <2>1, UlpFacts
  <2>3. n + w <= due + a + b + 1
    BY <1>2, <1>4, <2>1, <2>2
  <2>4. due <= n + w + a + b + 1
    BY <1>2, <1>4, <1>6, <2>1, <2>2
  <2> QED
    BY <2>2, <2>3, <2>4
<1>7. CASE ~ (t < e)
  <2>1. PICK y \in Nat : y = t - e /\ y <= MaxTime
    BY <1>1, <1>7
  <2>2. InRange(y) /\ w = Nearest(y)
    BY <1>7, <2>1, TimesInRange
  <2>3. PICK c \in Nat \ {0} : c = Ulp(y) /\ 2 * w <= 2 * y + c /\ 2 * y <= 2 * w + c /\ w <= 2 * y
    BY <2>2, UlpFacts, NearestBounds
  <2>4. InRange(w)
    <3>1. w <= 2 * MaxTime
      BY <2>1, <2>3, <1>1
    <3> QED
      BY <3>1, TimesInRange
  <2>5. PICK b \in Nat \ {0} : b = Ulp(w) /\ w < Significands * b
    BY <2>4, UlpFacts
  <2>6. c <= b
    <3>1. CASE y <= w
      BY <2>2, <2>3, <2>4, <2>5, <3>1, UlpMonotone
    <3>2. CASE c = 1
      BY <2>5, <3>2
    <3>3. CASE w < y /\ c # 1
      <4>1. b = c \/ 2 * b <= c
        BY <2>2, <2>3, <2>4, <2>5, <3>3, UlpMonotone
      <4>2. Significands * c <= 2 * w
        BY <2>2, <2>3, <3>3, NearestKeepsUlp
      <4>3. ~ (2 * b <= c)
        <5> SUFFICES ASSUME 2 * b <= c PROVE FALSE
          OBVIOUS
        <5>1. PICK S \in Nat : S = Significands
          BY SignificandsEven
        <5>2. S * (2 * b) <= S * c /\ S * (2 * b) = 2 * (S * b) /\ S * b \in Nat /\ S * c \in Nat
          BY <5>1, Products
        <5> QED
          BY <5>1, <5>2, <4>2, <2>5
      <4> QED
        BY <4>1, <4>3
    <3> QED
      BY <3>1, <3>2, <3>3
  <2>7. t = y + e
    BY <2>1
  <2>8. n + w <= due + a + b + 1
    BY <1>2, <1>4, <2>3, <2>5, <2>6, <2>7
  <2>9. due <= n + w + a + b + 1
    BY <1>2, <1>4, <2>3, <2>5, <2>6, <2>7
  <2> QED
    BY <2>5, <2>8, <2>9
<1> QED
  BY <1>6, <1>7

\* At the speed at which simulated time is real time, the timer is as
\* accurate as the two roundings of getDurationUntil allow, for any
\* significands and all times.  (Run fast_clock shows that it is not at speed 2.)
THEOREM TimerAccurateAtSpeedOne ==
    ASSUME Num = Den
    PROVE  Spec => []TimerIsAccurate
<1>1. \A n \in Nat : (n * Num) \div Den = n /\ (n * Den) \div Num = n
  <2> TAKE n \in Nat
  <2>1. Den \in Nat \ {0}
    BY ClockAssumption
  <2>2. (n * Den) \div Den = n
    BY <2>1
  <2> QED
    BY <2>2, Num = Den
<1> DEFINE Accurate == ~debug /\ core = "timer" => TimerIsAccurate
<1>2. Init => Accurate
  BY DEF Init, ListInit
<1>3. ListInv /\ ClockInv /\ Accurate /\ [Next]_vars => Accurate'
  <2> SUFFICES ASSUME ListInv, ClockInv, Accurate, [Next]_vars, (~debug)', (core = "timer")'
               PROVE  TimerIsAccurate'
    OBVIOUS
  <2>1. ASSUME UNCHANGED <<core, debug, mCurrentActionTime, expiry, changed>> PROVE TimerIsAccurate'
    BY <2>1 DEF TimerIsAccurate
  <2>2. ASSUME NEW t \in Times, Arm(t) PROVE TimerIsAccurate'
    <3>1. StartTimer(t) /\ mCurrentActionTime' = t /\ debug' = debug /\ ~debug
      BY <2>2 DEF Arm, ArmTimer, StartTimer
    <3>2. now \in Nat /\ now <= MaxReal /\ t \in Nat /\ t <= MaxTime
      BY ListAssumption DEF ClockInv, ClockTypeOK, Times
    <3>3. InRange(now) /\ Nearest(now) \in Nat /\ ElapsedSimTime = Nearest(now)
      BY <3>2, <1>1, TimesInRange, TimesSpeedFacts, NearestBounds DEF ElapsedSimTime
    <3> DEFINE e == Nearest(now)
    <3>4. PICK w \in Nat : expiry' = now + w /\ IF t < e THEN w = 0 ELSE w = Nearest(t - e)
      <4>1. CASE t < e
        BY <3>1, <3>2, <3>3, <4>1, StartsTimer
      <4>2. CASE ~ (t < e)
        <5>1. InRange(t - e) /\ expiry' = now + TimesSpeed(t - e)
          BY <3>1, <3>3, <4>2, StartsTimer
        <5>2. TimesSpeed(t - e) = Nearest(t - e) /\ Nearest(t - e) \in Nat
          BY <5>1, <1>1, TimesSpeedFacts, NearestBounds
        <5> QED
          BY <4>2, <5>1, <5>2
      <4> QED
        BY <4>1, <4>2
    <3>5. changed' = now
      BY <3>1, StartsTimer
    <3>6. (t * Den) \div Num = t /\ (now + w) - now = w
      BY <1>1, <3>2, <3>4
    <3>7. now + w \in (Max2(t, now) - (Ulp(now) + Ulp(Max2(w, 0)) + 1))..(Max2(t, now) + (Ulp(now) + Ulp(Max2(w, 0)) + 1))
      BY <3>2, <3>3, <3>4, TimerError
    <3> HIDE DEF e
    <3> QED
      BY <3>1, <3>4, <3>5, <3>6, <3>7 DEF TimerIsAccurate
  <2>3. ASSUME NEW t \in Times, Insert(t) PROVE TimerIsAccurate'
    BY <2>3, <2>1 DEF Insert, InsertHandler, clockVars
  <2>4. ASSUME NEW t \in Times PROVE ~ Fire(t)
    BY DEF Fire, PopNextHandlers
  <2>5. ~ Finish
    BY DEF Finish, FinishSimulation
  <2>6. CASE TimePasses
    BY <2>6, <2>1 DEF TimePasses, listVars
  <2>7. CASE Stopped \/ UNCHANGED vars
    BY <2>7, <2>1 DEF Stopped, vars, listVars, clockVars
  <2> QED
    BY <2>2, <2>3, <2>4, <2>5, <2>6, <2>7 DEF Next
<1>4. Accurate /\ (debug /\ core = "timer" => mCurrentActionTime <= expiry) /\ ClockInv /\ ListInv
        => TimerIsAccurate
  <2> SUFFICES ASSUME debug, core = "timer", mCurrentActionTime <= expiry, ClockInv, ListInv
               PROVE  TimerIsAccurate
    BY DEF ClockInv, ClockTypeOK, TimerIsAccurate
  <2>1. expiry \in Nat /\ mCurrentActionTime \in Int
    BY TimesAreNumbers DEF ClockInv, ClockTypeOK, ListInv, MapTyped
  <2> QED
    BY <2>1 DEF TimerIsAccurate
<1> QED
  BY <1>2, <1>3, <1>4, ListInvariant, ClockInvariant, DebugClockNeverAhead, PTL DEF Spec

=============================================================================
