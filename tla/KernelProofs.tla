---------------------------- MODULE KernelProofs ----------------------------
(***************************************************************************)
(* Proofs about Kernel, for every set of objects and actions, every        *)
(* duration and delay and both values of Safe.                             *)
(*                                                                         *)
(* BusyIffEndPending is not inductive alone.  The strengthening KernelInv  *)
(* adds that handlers in the list and in the batch are numbered by the     *)
(* counter (so that a new handler is not one of the batch, and a consumed  *)
(* one is not left in the list) and that an object still unknown to the    *)
(* container is idle (so that it can be created in the invariant).         *)
(*                                                                         *)
(* The last part is about the mapping of KernelRefinement: every step is a *)
(* step of the serial servers, or changes nothing they show.  It needs     *)
(* OrderInv: an action that arrives did not arrive before because it has   *)
(* one start handler, and none again once it is started or waits.          *)
(***************************************************************************)
EXTENDS KernelRefinement, FiniteSetTheorems, TLAPS

\* The counter is ahead of every handler, and no handler is both in the list
\* and in the batch.
Numbered ==
    /\ \A h \in Pending : h.id <= mCurrentActionId
    /\ mActions \cap batch = {}

Present(o) == container[o] # "removed"

\* BusyIffEndPending and FutureOfActive extended to objects not yet created.
PresentBusy ==
    \A o \in Objects : Present(o) =>
        /\ mFuture[o] = mActiveAction[o]
        /\ mActiveAction[o] = None => EndHandlers(o) = {}
        /\ mActiveAction[o] # None => \E h \in EndHandlers(o) : EndHandlers(o) = {h}

UnknownIdle == \A o \in Objects : container[o] = "unknown" => mActiveAction[o] = None

\* The batch is used up before the next time point is looked for.
Drained == phase \in {"loop", "timer"} => batch = {}

KernelInv ==
    /\ TypeOK
    /\ Numbered
    /\ Drained
    /\ PresentBusy
    /\ UnknownIdle
    /\ WaitingBehindActive

-----------------------------------------------------------------------------
(* Lemmas about the operators.                                             *)

\* A set of new actions is finite, so it can be numbered.
LEMMA NewSetsFinite == ASSUME NEW S \in NewSets PROVE S \subseteq Fresh /\ Cardinality(S) \in Nat
<1>1. S \subseteq Fresh /\ S \subseteq Actions
  BY DEF NewSets, Fresh
<1>2. IsFiniteSet(S)
  BY <1>1, KernelAssumption, FS_Subset
<1> QED
  BY <1>1, <1>2, FS_CardinalityType

\* What a handler schedules has the right types, and its handlers are start
\* or init handlers with numbers above the counter.
LEMMA ScheduleTypes ==
    ASSUME TypeOK, NEW S \in NewSets, NEW bases \in SUBSET Nat, NEW s \in Schedules(bases, S)
    PROVE  /\ StartHandlers(s) \subseteq Handlers
           /\ StartTimes(s) \in [Actions -> Nat]
           /\ ActionIds(s) \in [Actions -> Nat]
           /\ \A h \in StartHandlers(s) :
                 /\ h.kind # "end"
                 /\ h.id > mCurrentActionId
                 /\ h.id <= mCurrentActionId + Cardinality(S)
<1>1. S \subseteq Actions /\ Cardinality(S) \in Nat
  BY NewSetsFinite DEF Fresh
<1>2. DOMAIN s = S /\ \A a \in S : s[a].start \in Nat /\ s[a].nth \in 1..Cardinality(S)
  <2>1. s \in [S -> [start : StartChoices(bases), nth : 1..Cardinality(S)]]
    BY DEF Schedules
  <2>2. StartChoices(bases) \subseteq Nat
    BY KernelAssumption DEF StartChoices
  <2> QED
    BY <2>1, <2>2
<1>3. mCurrentActionId \in Nat /\ mStartTime \in [Actions -> Nat] /\ mActionId \in [Actions -> Nat]
  BY DEF TypeOK
<1>4. \A a \in S : StartKind(a) \in {"start", "init"}
  BY DEF StartKind
<1>5. \A a \in S : mCurrentActionId + s[a].nth \in Nat
  BY <1>1, <1>2, <1>3
<1>6. StartHandlers(s) \subseteq Handlers
  BY <1>1, <1>2, <1>4, <1>5 DEF StartHandlers, Handlers, Handler, Kinds
<1>7. StartTimes(s) \in [Actions -> Nat]
  BY <1>1, <1>2, <1>3 DEF StartTimes
<1>8. ActionIds(s) \in [Actions -> Nat]
  BY <1>1, <1>2, <1>3, <1>5 DEF ActionIds
<1>9. ASSUME NEW h \in StartHandlers(s)
      PROVE  /\ h.kind # "end"
             /\ h.id > mCurrentActionId
             /\ h.id <= mCurrentActionId + Cardinality(S)
  <2>1. PICK a \in S : h = Handler(s[a].start, mCurrentActionId + s[a].nth, StartKind(a), a)
    BY <1>2 DEF StartHandlers
  <2>2. h.kind = StartKind(a) /\ h.id = mCurrentActionId + s[a].nth
    BY <2>1 DEF Handler
  <2> QED
    BY <2>2, <1>1, <1>2, <1>3, <1>4
<1> QED
  BY <1>6, <1>7, <1>8, <1>9

\* The times an ending action's object may count from.
LEMMA BasesNat ==
    ASSUME TypeOK, NEW a \in Actions, NEW f \in Actions
    PROVE  /\ GetEndTime(a) \in Nat
           /\ Bases(a, f) \in SUBSET Nat
           /\ {mStartTime[a]} \in SUBSET Nat
  BY KernelAssumption DEF TypeOK, GetEndTime, Bases

\* A handler is a record with these fields.
LEMMA HandlerFields ==
    ASSUME NEW t \in Nat, NEW i \in Nat, NEW k \in Kinds, NEW a \in Actions
    PROVE  /\ Handler(t, i, k, a) \in Handlers
           /\ Handler(t, i, k, a).time = t
           /\ Handler(t, i, k, a).id = i
           /\ Handler(t, i, k, a).kind = k
           /\ Handler(t, i, k, a).action = a
  BY DEF Handler, Handlers

-----------------------------------------------------------------------------
(* The initial state.                                                      *)

\* A root action has a place in the list of roots.
LEMMA RootIndexType ==
    ASSUME NEW a \in RootActions
    PROVE  RootIndex(a) \in 1..Len(Roots) /\ a \in Actions
<1>1. Roots \in Seq(InitActions) /\ InitActions \subseteq Actions
  BY KernelAssumption
<1>2. PICK i \in DOMAIN Roots : a = Roots[i]
  BY DEF RootActions, ToSet
<1>3. DOMAIN Roots = 1..Len(Roots) /\ Roots[i] \in InitActions
  BY <1>1, <1>2
<1>4. \E j \in 1..Len(Roots) : Roots[j] = a
  BY <1>2, <1>3
<1> QED
  BY <1>1, <1>2, <1>3, <1>4 DEF RootIndex

\* Every variable has its type at first.
LEMMA InitTypeOK == Init => TypeOK
<1> SUFFICES ASSUME Init PROVE TypeOK
  OBVIOUS
<1>1. Len(Roots) \in Nat
  BY KernelAssumption
<1>2. mActions \subseteq Handlers
  <2> SUFFICES ASSUME NEW a \in RootActions PROVE Handler(0, RootIndex(a), "init", a) \in Handlers
    BY DEF Init
  <2>1. RootIndex(a) \in Nat
    BY RootIndexType, <1>1
  <2> QED
    BY <2>1, RootIndexType DEF Handlers, Handler, Kinds
<1>3. mActionId \in [Actions -> Nat]
  <2>1. \A a \in RootActions : RootIndex(a) \in Nat
    BY RootIndexType, <1>1
  <2> QED
    BY <2>1 DEF Init
<1>4. mDelayedQueue \in [Objects -> Seq(Actions)]
  <2>1. <<>> \in Seq(Actions)
    OBVIOUS
  <2> QED
    BY <2>1 DEF Init
<1> QED
  BY <1>1, <1>2, <1>3, <1>4 DEF Init, TypeOK

\* The roots are pending as init actions, so no end handler is and every object
\* is idle.
LEMMA InitKernelInv == Init => KernelInv
<1> SUFFICES ASSUME Init PROVE KernelInv
  OBVIOUS
<1>1. TypeOK
  BY InitTypeOK
<1>2. \A h \in Pending : h.kind = "init" /\ h.id <= mCurrentActionId
  <2> SUFFICES ASSUME NEW a \in RootActions
               PROVE  LET h == Handler(0, RootIndex(a), "init", a)
                      IN  h.kind = "init" /\ h.id <= mCurrentActionId
    BY DEF Init, Pending
  <2>1. RootIndex(a) <= Len(Roots)
    BY RootIndexType, KernelAssumption
  <2> QED
    BY <2>1 DEF Handler, Init
<1>3. Numbered
  BY <1>2 DEF Numbered, Init
<1>4. \A o \in Objects : EndHandlers(o) = {}
  BY <1>2 DEF EndHandlers
<1> QED
  BY <1>1, <1>3, <1>4 DEF KernelInv, PresentBusy, UnknownIdle, WaitingBehindActive, Drained, Init

-----------------------------------------------------------------------------
(* Steps that touch no object.                                             *)

\* A step that keeps the set of pending handlers and the objects keeps what
\* the invariant says about them.
LEMMA SamePending ==
    ASSUME KernelInv, Pending' = Pending, UNCHANGED <<objectVars, container>>
    PROVE  PresentBusy' /\ UnknownIdle' /\ WaitingBehindActive'
<1>1. \A o \in Objects : EndHandlers(o)' = EndHandlers(o)
  BY DEF EndHandlers
<1> QED
  BY <1>1 DEF KernelInv, PresentBusy, UnknownIdle, WaitingBehindActive, Present, objectVars

\* A failed check only stops the program.
LEMMA ThrowInv == ASSUME NEW checks, KernelInv, Throw(checks) PROVE KernelInv'
<1> USE DEF Throw, actionVars, objectVars
<1>1. TypeOK'
  BY DEF KernelInv, TypeOK
<1>2. Pending' = Pending
  BY DEF Pending
<1>3. Numbered'
  BY <1>2 DEF KernelInv, Numbered
<1> QED
  BY <1>1, <1>2, <1>3, SamePending DEF KernelInv, Drained

\* The first time point is a number, or invalid when the list is empty.
LEMMA CandidateType == ASSUME TypeOK PROVE Candidates \subseteq Nat \cup {Invalid}
<1>1. \A h \in mActions : h.time \in Nat
  BY DEF TypeOK, Handlers
<1> QED
  BY <1>1 DEF Candidates

\* Arming the timer changes no handler and no object.
LEMMA ArmTimerInv == ASSUME KernelInv, ArmTimer PROVE KernelInv'
<1>1. PICK t \in Candidates :
        IF Safe /\ LoopChecks(t) # {}
        THEN Throw(LoopChecks(t))
        ELSE /\ mCurrentActionTime' = t
             /\ phase' = "timer"
             /\ failed' = failed \cup LoopChecks(t)
             /\ UNCHANGED <<mCurrentActionId, mActions, batch, actionVars,
                            objectVars, container>>
  BY DEF ArmTimer
<1>2. CASE Safe /\ LoopChecks(t) # {}
  BY <1>1, <1>2, ThrowInv
<1>3. CASE ~(Safe /\ LoopChecks(t) # {})
  <2> USE DEF actionVars, objectVars
  <2>1. TypeOK'
    BY <1>1, <1>3, CandidateType DEF KernelInv, TypeOK
  <2>2. Pending' = Pending
    BY <1>1, <1>3 DEF Pending
  <2>3. Numbered'
    BY <1>1, <1>3, <2>2 DEF KernelInv, Numbered
  <2> QED
    BY <1>1, <1>3, <2>1, <2>2, <2>3, SamePending DEF ArmTimer, KernelInv, Drained
<1> QED
  BY <1>2, <1>3

\* Nor does the end of the simulation.
LEMMA FinishSimulationInv == ASSUME KernelInv, FinishSimulation PROVE KernelInv'
<1>1. CASE Safe /\ LoopChecks(Invalid) # {}
  BY <1>1, ThrowInv DEF FinishSimulation
<1>2. CASE ~(Safe /\ LoopChecks(Invalid) # {})
  <2> USE DEF actionVars, objectVars
  <2>1. TypeOK'
    BY <1>2 DEF FinishSimulation, KernelInv, TypeOK
  <2>2. Pending' = Pending
    BY <1>2 DEF FinishSimulation, Pending
  <2>3. Numbered'
    BY <1>2, <2>2 DEF FinishSimulation, KernelInv, Numbered
  <2> QED
    BY <1>2, <2>1, <2>2, <2>3, SamePending DEF FinishSimulation, KernelInv, Drained
<1> QED
  BY <1>1, <1>2

\* The handlers that are due move from the list to the batch, which is empty:
\* the pending ones stay the same.
LEMMA PopNextHandlersInv == ASSUME KernelInv, PopNextHandlers PROVE KernelInv'
<1>0. batch = {}
  BY DEF PopNextHandlers, KernelInv, Drained
<1>1. PICK t, checks :
        IF Safe /\ checks # {}
        THEN Throw(checks)
        ELSE /\ mActions' = mActions \ { h \in mActions : h.time = t }
             /\ batch' = { h \in mActions : h.time = t }
             /\ phase' = "batch"
             /\ failed' = failed \cup checks
             /\ UNCHANGED <<mCurrentActionTime, mCurrentActionId, actionVars,
                            objectVars, container>>
  BY DEF PopNextHandlers
<1>2. CASE Safe /\ checks # {}
  BY <1>1, <1>2, ThrowInv
<1>3. CASE ~(Safe /\ checks # {})
  <2> USE DEF actionVars, objectVars
  <2>1. TypeOK'
    BY <1>1, <1>3 DEF KernelInv, TypeOK
  <2>2. Pending' = Pending
    BY <1>0, <1>1, <1>3 DEF Pending
  <2>3. Numbered'
    BY <1>0, <1>1, <1>3, <2>2 DEF KernelInv, Numbered
  <2> QED
    BY <1>1, <1>3, <2>1, <2>2, <2>3, SamePending DEF KernelInv, Drained
<1> QED
  BY <1>2, <1>3

\* The end of a fiber only makes its result ready.
LEMMA FiberFinishesInv ==
    ASSUME KernelInv, NEW o \in Objects, FiberFinishes(o) PROVE KernelInv'
<1> USE DEF FiberFinishes, actionVars
<1>1. TypeOK'
  BY DEF KernelInv, TypeOK
<1>2. Pending' = Pending
  BY DEF Pending
<1>3. Numbered'
  BY <1>2 DEF KernelInv, Numbered
<1>4. \A p \in Objects : EndHandlers(p)' = EndHandlers(p)
  BY <1>2 DEF EndHandlers
<1> QED
  BY <1>1, <1>3, <1>4 DEF KernelInv, PresentBusy, UnknownIdle, WaitingBehindActive, Present, Drained

-----------------------------------------------------------------------------
(* Handlers.                                                               *)

\* Consuming handler h and inserting the handlers N, numbered from the
\* counter on, keeps the numbering and changes the pending handlers by just
\* that.
LEMMA ConsumeAndInsert ==
    ASSUME KernelInv, NEW h \in batch, Consume(h), NEW N, mActions' = mActions \cup N,
           mCurrentActionId' \in Nat, mCurrentActionId <= mCurrentActionId',
           \A g \in N : g.id \in Nat /\ mCurrentActionId < g.id /\ g.id <= mCurrentActionId'
    PROVE  /\ Numbered'
           /\ Drained'
           /\ batch' \subseteq batch
           /\ phase' \in {"loop", "batch"}
           /\ \A o \in Objects :
                 EndHandlers(o)' = (EndHandlers(o) \ {h})
                     \cup { g \in N : g.kind = "end" /\ Affected[g.action] = o }
<1>1. mActions \cap batch = {} /\ \A g \in Pending : g.id <= mCurrentActionId
  BY DEF KernelInv, Numbered
<1>2. mCurrentActionId \in Nat /\ \A g \in Pending : g.id \in Nat
  BY DEF KernelInv, TypeOK, Pending, Handlers
<1>3. batch' = batch \ {h} /\ phase' = (IF batch = {h} THEN "loop" ELSE "batch")
  BY DEF Consume
<1>4. Pending' = (Pending \ {h}) \cup N
  <2>1. h \notin mActions
    BY <1>1
  <2> QED
    BY <1>3, <2>1 DEF Pending
<1>5. \A g \in Pending' : g.id <= mCurrentActionId'
  BY <1>1, <1>2, <1>4
<1>6. N \cap batch = {}
  BY <1>1, <1>2 DEF Pending
<1>7. Numbered'
  BY <1>1, <1>3, <1>5, <1>6 DEF Numbered
<1>8. Drained'
  BY <1>3 DEF Drained
<1>9. \A o \in Objects :
        EndHandlers(o)' = (EndHandlers(o) \ {h})
            \cup { g \in N : g.kind = "end" /\ Affected[g.action] = o }
  BY <1>4 DEF EndHandlers
<1> QED
  BY <1>3, <1>7, <1>8, <1>9

\* The handler being invoked and the object it is for.
LEMMA DueFacts ==
    ASSUME KernelInv, NEW h \in batch
    PROVE  /\ h \in Handlers
           /\ h.action \in Actions
           /\ Affected[h.action] \in Objects
  BY KernelAssumption DEF KernelInv, TypeOK, Handlers

\* The same for a handler that inserts nothing.
LEMMA ConsumeOnly ==
    ASSUME KernelInv, NEW h \in batch, Consume(h), UNCHANGED <<mActions, mCurrentActionId>>
    PROVE  /\ Numbered'
           /\ Drained'
           /\ batch' \subseteq batch
           /\ phase' \in {"loop", "batch"}
           /\ \A o \in Objects : EndHandlers(o)' = EndHandlers(o) \ {h}
<1>1. PICK N : N = {}
  OBVIOUS
<1>2. \A g \in N : g.id \in Nat /\ mCurrentActionId < g.id /\ g.id <= mCurrentActionId'
  BY <1>1
<1>3. /\ mCurrentActionId' \in Nat /\ mCurrentActionId <= mCurrentActionId'
      /\ mActions' = mActions \cup N
  BY <1>1 DEF KernelInv, TypeOK
<1>4. /\ Numbered' /\ Drained' /\ batch' \subseteq batch /\ phase' \in {"loop", "batch"}
      /\ \A p \in Objects : EndHandlers(p)' = (EndHandlers(p) \ {h})
            \cup { g \in N : g.kind = "end" /\ Affected[g.action] = p }
  BY <1>2, <1>3, ConsumeAndInsert
<1> QED
  BY <1>1, <1>4

\* A handler of a removed object is consumed; no live object loses an end
\* handler.
LEMMA DropHandlerInv ==
    ASSUME KernelInv, NEW h \in batch, DropHandler(h) PROVE KernelInv'
<1> DEFINE o == Affected[h.action]
<1>0. Consume(h) /\ container[o] = "removed"
      /\ UNCHANGED <<mCurrentActionTime, mCurrentActionId, mActions, actionVars,
                     objectVars, container, failed>>
  BY DEF DropHandler
<1>2. /\ Numbered' /\ Drained' /\ batch' \subseteq batch /\ phase' \in {"loop", "batch"}
      /\ \A p \in Objects : EndHandlers(p)' = EndHandlers(p) \ {h}
  BY <1>0, ConsumeOnly
<1>3. \A p \in Objects : container[p] # "removed" => EndHandlers(p)' = EndHandlers(p)
  <2> SUFFICES ASSUME NEW p \in Objects, container[p] # "removed"
               PROVE  EndHandlers(p)' = EndHandlers(p)
    OBVIOUS
  <2>1. h \notin EndHandlers(p)
    BY <1>0 DEF EndHandlers
  <2> QED
    BY <1>2, <2>1
<1> USE DEF actionVars, objectVars
<1>4. TypeOK'
  BY <1>0, <1>2 DEF KernelInv, TypeOK
<1>5. PresentBusy'
  BY <1>0, <1>3 DEF KernelInv, PresentBusy, Present
<1>6. UnknownIdle' /\ WaitingBehindActive'
  BY <1>0 DEF KernelInv, UnknownIdle, WaitingBehindActive
<1> QED
  BY <1>2, <1>4, <1>5, <1>6 DEF KernelInv

\* An idle object becomes busy and gets its one end handler.
LEMMA StartNowInv ==
    ASSUME KernelInv, NEW h \in batch, StartNow(h) PROVE KernelInv'
<1> DEFINE a == h.action
           o == Affected[a]
           id == mCurrentActionId + 1
           e == Handler(GetEndTime(a), id, "end", a)
<1>1. CASE Safe /\ StartChecks(o) # {}
  BY <1>1, ThrowInv DEF StartNow
<1>2. CASE ~(Safe /\ StartChecks(o) # {})
  <2>0. /\ Consume(h)
        /\ container[o] = "active" /\ h.kind = "start" /\ CanStart(o)
        /\ mActiveAction' = [mActiveAction EXCEPT ![o] = a]
        /\ mFirstAction' = [mFirstAction EXCEPT ![o] = FALSE]
        /\ mCurrentAction' = [mCurrentAction EXCEPT ![o] = mActionId[a]]
        /\ mCurrentActionId' = id
        /\ mActionId' = [mActionId EXCEPT ![a] = id]
        /\ mActions' = mActions \cup {e}
        /\ LaunchFiber(a, o)
        /\ UNCHANGED <<mCurrentActionTime, mStartTime, mDelayedQueue, container>>
    BY <1>2 DEF StartNow, Due
  <2>1. a \in Actions /\ o \in Objects /\ a # None
    BY DueFacts, KernelAssumption
  <2>2. id \in Nat /\ GetEndTime(a) \in Nat /\ mCurrentActionId \in Nat
    BY <2>1, BasesNat DEF KernelInv, TypeOK
  <2>3. e \in Handlers /\ e.id = id /\ e.kind = "end" /\ e.action = a
    BY <2>1, <2>2, HandlerFields DEF Kinds
  <2> HIDE DEF e
  <2>4. /\ Numbered' /\ Drained' /\ batch' \subseteq batch /\ phase' \in {"loop", "batch"}
        /\ \A p \in Objects : EndHandlers(p)' = (EndHandlers(p) \ {h})
              \cup { g \in {e} : g.kind = "end" /\ Affected[g.action] = p }
    <3>0. PICK N : N = {e}
      OBVIOUS
    <3>1. \A g \in N : g.id \in Nat /\ mCurrentActionId < g.id /\ g.id <= mCurrentActionId'
      BY <2>0, <2>2, <2>3, <3>0
    <3>2. /\ mCurrentActionId' \in Nat /\ mCurrentActionId <= mCurrentActionId'
          /\ mActions' = mActions \cup N
      BY <2>0, <2>2, <3>0
    <3>3. /\ Numbered' /\ Drained' /\ batch' \subseteq batch /\ phase' \in {"loop", "batch"}
          /\ \A p \in Objects : EndHandlers(p)' = (EndHandlers(p) \ {h})
                \cup { g \in N : g.kind = "end" /\ Affected[g.action] = p }
      BY <2>0, <3>1, <3>2, ConsumeAndInsert
    <3> QED
      BY <3>0, <3>3
  <2>5. TypeOK'
    BY <2>0, <2>1, <2>2, <2>3, <2>4 DEF KernelInv, TypeOK, LaunchFiber
  <2>6. \A p \in Objects : EndHandlers(p)' = IF p = o THEN EndHandlers(p) \cup {e} ELSE EndHandlers(p)
    <3> SUFFICES ASSUME NEW p \in Objects
                 PROVE EndHandlers(p)' = IF p = o THEN EndHandlers(p) \cup {e} ELSE EndHandlers(p)
      OBVIOUS
    <3>1. h \notin EndHandlers(p)
      BY <2>0 DEF EndHandlers
    <3> QED
      BY <2>3, <2>4, <3>1
  <2>7. PresentBusy'
    <3> SUFFICES ASSUME NEW p \in Objects, Present(p)'
                 PROVE  /\ mFuture'[p] = mActiveAction'[p]
                        /\ mActiveAction'[p] = None => EndHandlers(p)' = {}
                        /\ mActiveAction'[p] # None =>
                              \E g \in EndHandlers(p)' : EndHandlers(p)' = {g}
      BY DEF PresentBusy
    <3>1. Present(p)
      BY <2>0 DEF Present
    <3>2. CASE p = o
      <4>1. EndHandlers(o) = {}
        BY <2>0, <2>1, <3>1, <3>2 DEF CanStart, KernelInv, PresentBusy
      <4> QED
        BY <2>0, <2>1, <2>6, <3>2, <4>1 DEF LaunchFiber, KernelInv, TypeOK
    <3>3. CASE p # o
      BY <2>0, <2>1, <2>6, <3>1, <3>3 DEF LaunchFiber, KernelInv, TypeOK, PresentBusy
    <3> QED
      BY <3>2, <3>3
  <2>8. UnknownIdle'
    BY <2>0, <2>1 DEF KernelInv, TypeOK, UnknownIdle
  <2>9. WaitingBehindActive'
    BY <2>0, <2>1 DEF KernelInv, TypeOK, WaitingBehindActive
  <2> QED
    BY <2>4, <2>5, <2>7, <2>8, <2>9 DEF KernelInv
<1> QED
  BY <1>1, <1>2

\* A busy object keeps its end handler; the action goes to its queue.
LEMMA DelayInv ==
    ASSUME KernelInv, NEW h \in batch, h.kind # "end", Consume(h),
           ~CanStart(Affected[h.action]), Delay(h.action, Affected[h.action]),
           mFirstAction' \in [Objects -> BOOLEAN],
           UNCHANGED <<mCurrentActionTime, mCurrentActionId, mActions, actionVars,
                       mActiveAction, mCurrentAction, mFuture, ready, container>>
    PROVE  KernelInv'
<1> DEFINE a == h.action
           o == Affected[a]
<1>1. a \in Actions /\ o \in Objects
  BY DueFacts
<1>2. /\ Numbered' /\ Drained' /\ batch' \subseteq batch /\ phase' \in {"loop", "batch"}
      /\ \A p \in Objects : EndHandlers(p)' = EndHandlers(p) \ {h}
  BY ConsumeOnly
<1>3. \A p \in Objects : EndHandlers(p)' = EndHandlers(p)
  <2>1. \A p \in Objects : h \notin EndHandlers(p)
    BY DEF EndHandlers
  <2> QED
    BY <1>2, <2>1
<1> USE DEF actionVars
<1>4. mDelayedQueue' \in [Objects -> Seq(Actions)]
  <2>1. mDelayedQueue \in [Objects -> Seq(Actions)] /\ mDelayedQueue[o] \in Seq(Actions)
    BY <1>1 DEF KernelInv, TypeOK
  <2>2. Append(mDelayedQueue[o], a) \in Seq(Actions)
    BY <1>1, <2>1
  <2> QED
    BY <1>1, <2>1, <2>2 DEF Delay
<1>5. TypeOK'
  BY <1>2, <1>4 DEF KernelInv, TypeOK
<1>6. PresentBusy' /\ UnknownIdle'
  BY <1>3 DEF KernelInv, PresentBusy, UnknownIdle, Present
<1>7. WaitingBehindActive'
  <2>1. mActiveAction[o] # None
    BY <1>1 DEF CanStart, KernelInv, WaitingBehindActive
  <2> QED
    BY <1>1, <2>1 DEF Delay, KernelInv, TypeOK, WaitingBehindActive
<1> QED
  BY <1>2, <1>5, <1>6, <1>7 DEF KernelInv

\* A start handler for a busy object throws, or its action goes to the queue.
LEMMA StartLaterInv ==
    ASSUME KernelInv, NEW h \in batch, StartLater(h) PROVE KernelInv'
<1> DEFINE o == Affected[h.action]
<1>1. CASE Safe /\ StartChecks(o) # {}
  BY <1>1, ThrowInv DEF StartLater
<1>2. CASE ~(Safe /\ StartChecks(o) # {})
  <2>1. /\ Consume(h) /\ h.kind # "end" /\ ~CanStart(o) /\ Delay(h.action, o)
        /\ mFirstAction' = [mFirstAction EXCEPT ![o] = FALSE]
        /\ UNCHANGED <<mCurrentActionTime, mCurrentActionId, mActions, actionVars,
                       mActiveAction, mCurrentAction, mFuture, ready, container>>
    BY <1>2 DEF StartLater, Due
  <2>2. mFirstAction' \in [Objects -> BOOLEAN]
    BY <2>1 DEF KernelInv, TypeOK
  <2> QED
    BY <2>1, <2>2, DelayInv
<1> QED
  BY <1>1, <1>2

\* An init action for an object that is busy goes to its queue.
LEMMA InitLaterInv ==
    ASSUME KernelInv, NEW h \in batch, InitLater(h) PROVE KernelInv'
<1>1. h.kind # "end" /\ mFirstAction' \in [Objects -> BOOLEAN]
  BY DEF InitLater, Due, KernelInv, TypeOK
<1> QED
  BY <1>1, DelayInv DEF InitLater

\* An init action is over at once: the object stays idle and has no end
\* handler.
LEMMA InitNowInv ==
    ASSUME KernelInv, NEW h \in batch, InitNow(h) PROVE KernelInv'
<1> DEFINE a == h.action
           o == Affected[a]
<1>1. PICK S, s :
        /\ S \in NewSets /\ s \in Schedules({mStartTime[a]}, S)
        /\ Consume(h)
        /\ mCurrentAction' = [mCurrentAction EXCEPT ![o] = mActionId[a]]
        /\ mActions' = mActions \cup StartHandlers(s)
        /\ mCurrentActionId' = mCurrentActionId + Cardinality(S)
        /\ mStartTime' = StartTimes(s)
        /\ mActionId' = ActionIds(s)
        /\ UNCHANGED <<mCurrentActionTime, mActiveAction, mDelayedQueue, mFirstAction,
                       mFuture, ready, container, failed>>
  BY DEF InitNow
<1>2. h.kind = "init" /\ a \in Actions /\ o \in Objects
  BY DueFacts DEF InitNow, Due
<1>3. TypeOK /\ mCurrentActionId \in Nat /\ Cardinality(S) \in Nat
  BY <1>1, NewSetsFinite DEF KernelInv, TypeOK
<1>4. PICK N : N = StartHandlers(s)
  OBVIOUS
<1>5. /\ N \subseteq Handlers
      /\ mStartTime' \in [Actions -> Nat] /\ mActionId' \in [Actions -> Nat]
      /\ \A g \in N : /\ g.kind # "end" /\ g.id > mCurrentActionId
                       /\ g.id <= mCurrentActionId + Cardinality(S)
  <2>1. PICK bases \in SUBSET Nat : bases = {mStartTime[a]}
    BY <1>2, <1>3, BasesNat
  <2>2. s \in Schedules(bases, S)
    BY <1>1, <2>1
  <2> QED
    BY <1>1, <1>3, <1>4, <2>2, ScheduleTypes
<1>6. \A g \in N : g.id \in Nat
  BY <1>5 DEF Handlers
<1>7. /\ Numbered' /\ Drained' /\ batch' \subseteq batch /\ phase' \in {"loop", "batch"}
      /\ \A p \in Objects : EndHandlers(p)' = (EndHandlers(p) \ {h})
            \cup { g \in N : g.kind = "end" /\ Affected[g.action] = p }
  <2>1. /\ mCurrentActionId' \in Nat /\ mCurrentActionId <= mCurrentActionId'
        /\ mActions' = mActions \cup N
        /\ \A g \in N : g.id \in Nat /\ mCurrentActionId < g.id /\ g.id <= mCurrentActionId'
    BY <1>1, <1>3, <1>4, <1>5, <1>6
  <2> QED
    BY <1>1, <2>1, ConsumeAndInsert
<1>8. \A p \in Objects : EndHandlers(p)' = EndHandlers(p)
  <2>1. \A p \in Objects : h \notin EndHandlers(p)
    BY <1>2 DEF EndHandlers
  <2> QED
    BY <1>5, <1>7, <2>1
<1>9. TypeOK'
  <2>1. mActions' \subseteq Handlers /\ mCurrentActionId' \in Nat
    BY <1>1, <1>3, <1>4, <1>5 DEF TypeOK
  <2>2. mCurrentAction' \in [Objects -> Nat]
    BY <1>1, <1>2, <1>3 DEF TypeOK
  <2> QED
    BY <1>1, <1>3, <1>5, <1>7, <2>1, <2>2 DEF TypeOK
<1>10. PresentBusy' /\ UnknownIdle' /\ WaitingBehindActive'
  BY <1>1, <1>8 DEF KernelInv, PresentBusy, UnknownIdle, WaitingBehindActive, Present
<1> QED
  BY <1>7, <1>9, <1>10 DEF KernelInv

\* What endExecution of object o does to the objects: the removed ones leave
\* the invariant's scope, the created ones were idle.
LEMMA EndExecutionObjects ==
    ASSUME TypeOK, NEW o \in Objects, NEW s, NEW gone \in SUBSET Removable(o),
           container[o] = "active", EndExecution(o, s, gone)
    PROVE  /\ container' \in [Objects -> {"unknown", "active", "removed"}]
           /\ container'[o] = "active"
           /\ \A p \in Objects : container'[p] # "removed" => container[p] # "removed"
           /\ \A p \in Objects : container'[p] = "unknown" => container[p] = "unknown"
           /\ mFuture[o] # None
  BY DEF TypeOK, EndExecution, Removable, Resolved

\* The object has nothing delayed: its end handler is used up and it is idle.
LEMMA EndLastInv ==
    ASSUME KernelInv, NEW h \in batch, EndLast(h) PROVE KernelInv'
<1> DEFINE a == h.action
           o == Affected[a]
           f == mFuture[o]
<1>1. CASE Safe /\ EndChecks(a, o) # {}
  BY <1>1, ThrowInv DEF EndLast
<1>2. CASE ~(Safe /\ EndChecks(a, o) # {})
  <2>1. PICK S, s, gone :
          /\ S \in NewSets /\ s \in Schedules(Bases(a, f), S)
          /\ gone \in SUBSET Removable(o)
          /\ EndExecution(o, s, gone)
          /\ Consume(h)
          /\ mActiveAction' = [mActiveAction EXCEPT ![o] = None]
          /\ mFuture' = [mFuture EXCEPT ![o] = None]
          /\ mActions' = mActions \cup StartHandlers(s)
          /\ mCurrentActionId' = mCurrentActionId + Cardinality(S)
          /\ mStartTime' = StartTimes(s)
          /\ mActionId' = ActionIds(s)
          /\ UNCHANGED <<mCurrentActionTime, mDelayedQueue, mCurrentAction,
                         mFirstAction, ready>>
    BY <1>2 DEF EndLast
  <2>2. /\ h.kind = "end" /\ container[o] = "active" /\ mDelayedQueue[o] = <<>>
        /\ a \in Actions /\ o \in Objects
    BY DueFacts DEF EndLast, Due, NothingDelayed
  <2>3. TypeOK /\ mCurrentActionId \in Nat /\ Cardinality(S) \in Nat
    BY <2>1, NewSetsFinite DEF KernelInv, TypeOK
  <2>4. /\ container' \in [Objects -> {"unknown", "active", "removed"}]
        /\ container'[o] = "active"
        /\ \A p \in Objects : container'[p] # "removed" => container[p] # "removed"
        /\ \A p \in Objects : container'[p] = "unknown" => container[p] = "unknown"
        /\ f # None
    BY <2>1, <2>2, <2>3, EndExecutionObjects
  <2>5. PICK N : N = StartHandlers(s)
    OBVIOUS
  <2>6. /\ N \subseteq Handlers
        /\ mStartTime' \in [Actions -> Nat] /\ mActionId' \in [Actions -> Nat]
        /\ \A g \in N : /\ g.kind # "end" /\ g.id > mCurrentActionId
                         /\ g.id <= mCurrentActionId + Cardinality(S)
    <3>1. f \in Actions
      BY <2>2, <2>3, <2>4 DEF TypeOK
    <3>2. PICK bases \in SUBSET Nat : bases = Bases(a, f)
      BY <2>2, <2>3, <3>1, BasesNat
    <3>3. s \in Schedules(bases, S)
      BY <2>1, <3>2
    <3> QED
      BY <2>1, <2>3, <2>5, <3>3, ScheduleTypes
  <2>7. \A g \in N : g.id \in Nat
    BY <2>6 DEF Handlers
  <2>8. /\ Numbered' /\ Drained' /\ batch' \subseteq batch /\ phase' \in {"loop", "batch"}
        /\ \A p \in Objects : EndHandlers(p)' = (EndHandlers(p) \ {h})
              \cup { g \in N : g.kind = "end" /\ Affected[g.action] = p }
    <3>1. /\ mCurrentActionId' \in Nat /\ mCurrentActionId <= mCurrentActionId'
          /\ mActions' = mActions \cup N
          /\ \A g \in N : g.id \in Nat /\ mCurrentActionId < g.id /\ g.id <= mCurrentActionId'
      BY <2>1, <2>3, <2>5, <2>6, <2>7
    <3> QED
      BY <2>1, <3>1, ConsumeAndInsert
  <2>9. \A p \in Objects : EndHandlers(p)' = EndHandlers(p) \ {h}
    BY <2>6, <2>8
  <2>10. TypeOK'
    <3>1. mActions' \subseteq Handlers /\ mCurrentActionId' \in Nat
      BY <2>1, <2>3, <2>5, <2>6 DEF TypeOK
    <3>2. /\ mActiveAction' \in [Objects -> Actions \cup {None}]
          /\ mFuture' \in [Objects -> Actions \cup {None}]
      BY <2>1, <2>3 DEF TypeOK
    <3> QED
      BY <2>1, <2>3, <2>4, <2>6, <2>8, <3>1, <3>2 DEF TypeOK
  <2>11. PresentBusy'
    <3> SUFFICES ASSUME NEW p \in Objects, Present(p)'
                 PROVE  /\ mFuture'[p] = mActiveAction'[p]
                        /\ mActiveAction'[p] = None => EndHandlers(p)' = {}
                        /\ mActiveAction'[p] # None =>
                              \E g \in EndHandlers(p)' : EndHandlers(p)' = {g}
      BY DEF PresentBusy
    <3>1. Present(p)
      BY <2>4 DEF Present
    <3>2. CASE p = o
      <4>1. h \in EndHandlers(o)
        BY <2>2 DEF EndHandlers, Pending
      <4>2. EndHandlers(o) = {h}
        BY <2>2, <3>1, <3>2, <4>1 DEF KernelInv, PresentBusy
      <4> QED
        BY <2>1, <2>2, <2>3, <2>9, <3>2, <4>2 DEF TypeOK
    <3>3. CASE p # o
      <4>1. h \notin EndHandlers(p)
        BY <3>3 DEF EndHandlers
      <4>2. mFuture'[p] = mFuture[p] /\ mActiveAction'[p] = mActiveAction[p]
        BY <2>1, <2>3, <3>3 DEF TypeOK
      <4> QED
        BY <2>9, <3>1, <4>1, <4>2 DEF KernelInv, PresentBusy
    <3> QED
      BY <3>2, <3>3
  <2>12. UnknownIdle'
    BY <2>1, <2>2, <2>3, <2>4 DEF KernelInv, TypeOK, UnknownIdle
  <2>13. WaitingBehindActive'
    BY <2>1, <2>2, <2>3 DEF KernelInv, TypeOK, WaitingBehindActive
  <2> QED
    BY <2>8, <2>10, <2>11, <2>12, <2>13 DEF KernelInv
<1> QED
  BY <1>1, <1>2

\* The object takes the next delayed action: one end handler is used up and one
\* made.
LEMMA EndAndActivateInv ==
    ASSUME KernelInv, NEW h \in batch, EndAndActivate(h) PROVE KernelInv'
<1> DEFINE a == h.action
           o == Affected[a]
           f == mFuture[o]
           q == mDelayedQueue[o]
           update == Head(q)
           shifted(s) == [StartTimes(s) EXCEPT ![update] = GetEndTime(a)]
           id(S) == mCurrentActionId + Cardinality(S) + 1
           e(S, s) == Handler(EndKey(a, shifted(s)), id(S), "end", a)
<1>1. CASE Safe /\ EndChecks(a, o) # {}
  BY <1>1, ThrowInv DEF EndAndActivate
<1>2. CASE ~(Safe /\ EndChecks(a, o) # {})
  <2>1. PICK S, s, gone :
          /\ S \in NewSets /\ s \in Schedules(Bases(a, f), S)
          /\ gone \in SUBSET Removable(o)
          /\ EndExecution(o, s, gone)
          /\ Consume(h)
          /\ mActiveAction' = [mActiveAction EXCEPT ![o] = update]
          /\ mDelayedQueue' = [mDelayedQueue EXCEPT ![o] = Tail(q)]
          /\ LaunchFiber(update, o)
          /\ mCurrentAction' = [mCurrentAction EXCEPT ![o] = mActionId[a]]
          /\ mStartTime' = shifted(s)
          /\ mCurrentActionId' = id(S)
          /\ mActionId' = [ActionIds(s) EXCEPT ![a] = id(S)]
          /\ mActions' = mActions \cup StartHandlers(s) \cup {e(S, s)}
          /\ UNCHANGED <<mCurrentActionTime, mFirstAction>>
    BY <1>2 DEF EndAndActivate, Rescheduled, Dequeue
  <2>2. /\ h.kind = "end" /\ container[o] = "active" /\ q # <<>>
        /\ a \in Actions /\ o \in Objects
    BY DueFacts DEF EndAndActivate, Due, NothingDelayed
  <2>3. TypeOK /\ mCurrentActionId \in Nat /\ Cardinality(S) \in Nat
    BY <2>1, NewSetsFinite DEF KernelInv, TypeOK
  <2>4. /\ container' \in [Objects -> {"unknown", "active", "removed"}]
        /\ container'[o] = "active"
        /\ \A p \in Objects : container'[p] # "removed" => container[p] # "removed"
        /\ \A p \in Objects : container'[p] = "unknown" => container[p] = "unknown"
        /\ f # None
    BY <2>1, <2>2, <2>3, EndExecutionObjects
  <2>5. update \in Actions /\ update # None /\ Tail(q) \in Seq(Actions)
    <3>1. q \in Seq(Actions)
      BY <2>2, <2>3 DEF TypeOK
    <3> QED
      BY <2>2, <3>1, KernelAssumption
  <2>6. /\ StartHandlers(s) \subseteq Handlers
        /\ StartTimes(s) \in [Actions -> Nat] /\ ActionIds(s) \in [Actions -> Nat]
        /\ \A g \in StartHandlers(s) :
              /\ g.kind # "end" /\ g.id > mCurrentActionId
              /\ g.id <= mCurrentActionId + Cardinality(S)
    <3>1. f \in Actions
      BY <2>2, <2>3, <2>4 DEF TypeOK
    <3>2. PICK bases \in SUBSET Nat : bases = Bases(a, f)
      BY <2>2, <2>3, <3>1, BasesNat
    <3>3. s \in Schedules(bases, S)
      BY <2>1, <3>2
    <3> QED
      BY <2>1, <2>3, <3>3, ScheduleTypes
  <2>7. id(S) \in Nat /\ shifted(s) \in [Actions -> Nat] /\ EndKey(a, shifted(s)) \in Nat
    <3>1. GetEndTime(a) \in Nat
      BY <2>2, <2>3, BasesNat
    <3>2. shifted(s) \in [Actions -> Nat]
      BY <2>6, <3>1
    <3> QED
      BY <2>2, <2>3, <3>2, KernelAssumption DEF EndKey
  <2> HIDE DEF shifted
  <2>8. PICK n : n = e(S, s)
    OBVIOUS
  <2>9. n \in Handlers /\ n.id = id(S) /\ n.kind = "end" /\ n.action = a
    BY <2>2, <2>7, <2>8, HandlerFields DEF Kinds
  <2>10. PICK N : N = StartHandlers(s) \cup {n}
    OBVIOUS
  <2>11. \A p \in Objects :
           { g \in N : g.kind = "end" /\ Affected[g.action] = p } = IF p = o THEN {n} ELSE {}
    BY <2>6, <2>9, <2>10
  <2>12. /\ Numbered' /\ Drained' /\ batch' \subseteq batch /\ phase' \in {"loop", "batch"}
         /\ \A p \in Objects : EndHandlers(p)' = (EndHandlers(p) \ {h})
               \cup { g \in N : g.kind = "end" /\ Affected[g.action] = p }
    <3>1. mActions' = mActions \cup N
      BY <2>1, <2>8, <2>10
    <3>2. \A g \in StartHandlers(s) : g.id \in Nat
      BY <2>6 DEF Handlers
    <3>3. \A g \in N : g.id \in Nat /\ mCurrentActionId < g.id /\ g.id <= mCurrentActionId'
      BY <2>1, <2>3, <2>6, <2>7, <2>9, <2>10, <3>2
    <3>4. mCurrentActionId' \in Nat /\ mCurrentActionId <= mCurrentActionId'
      BY <2>1, <2>3, <2>7
    <3> QED
      BY <2>1, <3>1, <3>3, <3>4, ConsumeAndInsert
  <2>13. \A p \in Objects :
           EndHandlers(p)' = (EndHandlers(p) \ {h}) \cup (IF p = o THEN {n} ELSE {})
    BY <2>11, <2>12
  <2>14. TypeOK'
    <3>1. mActions' \subseteq Handlers
      BY <2>1, <2>3, <2>6, <2>8, <2>9 DEF TypeOK
    <3>2. /\ mActiveAction' \in [Objects -> Actions \cup {None}]
          /\ mDelayedQueue' \in [Objects -> Seq(Actions)]
          /\ mFuture' \in [Objects -> Actions \cup {None}]
          /\ ready' \in [Objects -> BOOLEAN]
          /\ mCurrentAction' \in [Objects -> Nat]
      BY <2>1, <2>2, <2>3, <2>5 DEF TypeOK, LaunchFiber
    <3>3. mActionId' \in [Actions -> Nat] /\ mStartTime' \in [Actions -> Nat]
          /\ mCurrentActionId' \in Nat
      BY <2>1, <2>6, <2>7
    <3>4. batch' \subseteq Handlers /\ mCurrentActionTime' \in Nat \cup {Invalid}
          /\ mFirstAction' \in [Objects -> BOOLEAN]
      BY <2>1, <2>3, <2>12 DEF TypeOK
    <3> QED
      BY <2>4, <2>12, <3>1, <3>2, <3>3, <3>4 DEF TypeOK
  <2>15. PresentBusy'
    <3> SUFFICES ASSUME NEW p \in Objects, Present(p)'
                 PROVE  /\ mFuture'[p] = mActiveAction'[p]
                        /\ mActiveAction'[p] = None => EndHandlers(p)' = {}
                        /\ mActiveAction'[p] # None =>
                              \E g \in EndHandlers(p)' : EndHandlers(p)' = {g}
      BY DEF PresentBusy
    <3>1. Present(p)
      BY <2>4 DEF Present
    <3>2. CASE p = o
      <4>1. h \in EndHandlers(o)
        BY <2>2 DEF EndHandlers, Pending
      <4>2. EndHandlers(o) = {h}
        BY <2>2, <3>1, <3>2, <4>1 DEF KernelInv, PresentBusy
      <4>3. EndHandlers(p)' = {n}
        BY <2>2, <2>13, <3>2, <4>2
      <4>4. mFuture'[o] = update /\ mActiveAction'[o] = update
        BY <2>1, <2>2, <2>3 DEF TypeOK, LaunchFiber
      <4> QED
        BY <2>5, <3>2, <4>3, <4>4
    <3>3. CASE p # o
      <4>1. h \notin EndHandlers(p)
        BY <3>3 DEF EndHandlers
      <4>2. mFuture'[p] = mFuture[p] /\ mActiveAction'[p] = mActiveAction[p]
        BY <2>1, <2>3, <3>3 DEF TypeOK, LaunchFiber
      <4> QED
        BY <2>13, <3>1, <3>3, <4>1, <4>2 DEF KernelInv, PresentBusy
    <3> QED
      BY <3>2, <3>3
  <2>16. UnknownIdle'
    BY <2>1, <2>2, <2>3, <2>4 DEF KernelInv, TypeOK, UnknownIdle
  <2>17. WaitingBehindActive'
    BY <2>1, <2>2, <2>3, <2>5 DEF KernelInv, TypeOK, WaitingBehindActive
  <2> QED
    BY <2>12, <2>14, <2>15, <2>16, <2>17 DEF KernelInv
<1> QED
  BY <1>1, <1>2

-----------------------------------------------------------------------------
(* The theorems.                                                           *)

\* No step breaks the invariant.
LEMMA NextKernelInv == KernelInv /\ [Next]_vars => KernelInv'
<1> SUFFICES ASSUME KernelInv, [Next]_vars PROVE KernelInv'
  OBVIOUS
<1>1. CASE ArmTimer
  BY <1>1, ArmTimerInv
<1>2. CASE FinishSimulation
  BY <1>2, FinishSimulationInv
<1>3. CASE PopNextHandlers
  BY <1>3, PopNextHandlersInv
<1>4. ASSUME NEW h \in batch, Invoke(h) PROVE KernelInv'
  <2>1. CASE DropHandler(h)
    BY <2>1, DropHandlerInv
  <2>2. CASE StartNow(h)
    BY <2>2, StartNowInv
  <2>3. CASE StartLater(h)
    BY <2>3, StartLaterInv
  <2>4. CASE EndLast(h)
    BY <2>4, EndLastInv
  <2>5. CASE EndAndActivate(h)
    BY <2>5, EndAndActivateInv
  <2>6. CASE InitNow(h)
    BY <2>6, InitNowInv
  <2>7. CASE InitLater(h)
    BY <2>7, InitLaterInv
  <2> QED
    BY <1>4, <2>1, <2>2, <2>3, <2>4, <2>5, <2>6, <2>7 DEF Invoke
<1>5. ASSUME NEW o \in Objects, FiberFinishes(o) PROVE KernelInv'
  BY <1>5, FiberFinishesInv
<1>6. CASE UNCHANGED vars
  <2> USE <1>6 DEF vars, actionVars, objectVars
  <2>1. TypeOK'
    BY DEF KernelInv, TypeOK
  <2>2. Pending' = Pending
    BY DEF Pending
  <2>3. Numbered' /\ Drained'
    BY <2>2 DEF KernelInv, Numbered, Drained
  <2> QED
    BY <2>1, <2>2, <2>3, SamePending DEF KernelInv
<1> QED
  BY <1>1, <1>2, <1>3, <1>4, <1>5, <1>6 DEF Next, CoreStep, Stopped

\* The strengthened invariant holds in every reachable state.
THEOREM KernelInvariant == Spec => []KernelInv
  BY InitKernelInv, NextKernelInv, PTL DEF Spec

\* Every variable keeps its type (Core, ActionList, BaseObject and
\* ObjectActionManager state).
THEOREM KernelTypeCorrect == Spec => []TypeOK
<1>1. KernelInv => TypeOK
  BY DEF KernelInv
<1> QED
  BY <1>1, KernelInvariant, PTL

\* An object has exactly one pending end handler while it is busy and none
\* while it is idle: BaseObject never runs two actions of an object at once
\* and never forgets to end one, even though endExecutionBase reschedules the
\* handler of the action that ended.
THEOREM KernelBusyIffEndPending == Spec => []BusyIffEndPending
<1>1. KernelInv => BusyIffEndPending
  BY DEF KernelInv, PresentBusy, BusyIffEndPending, Present, Live
<1> QED
  BY <1>1, KernelInvariant, PTL

\* An action is delayed only behind an active one (ObjectActionManager).
THEOREM KernelWaitingBehindActive == Spec => []WaitingBehindActive
<1>1. KernelInv => WaitingBehindActive
  BY DEF KernelInv
<1> QED
  BY <1>1, KernelInvariant, PTL

\* The future an end handler takes is that of the active action.
THEOREM KernelFutureOfActive == Spec => []FutureOfActive
<1>1. KernelInv => FutureOfActive
  BY DEF KernelInv, PresentBusy, FutureOfActive, Present, Live
<1> QED
  BY <1>1, KernelInvariant, PTL

-----------------------------------------------------------------------------
(***************************************************************************)
(* The second part: where an action is while it waits, when its            *)
(* handlers are due, and which of the enforced conditions can be false.    *)
(*                                                                         *)
(* OneHome, HandlerTimesAgree and PendingNotPast need each other.  The end *)
(* time of an ended action's handler stays right because shiftStartTime    *)
(* only moves an action that has no handler (Homes); what object code      *)
(* schedules is not in the past because the handler that runs it is due    *)
(* now and the end time of the active action is not before it (Times); and *)
(* the enforced conditions are consequences of both (Checks).              *)
(***************************************************************************)

\* Action a is in the delayed queue of its object.
Delayed(a) ==
    \E i \in DOMAIN mDelayedQueue[Affected[a]] : mDelayedQueue[Affected[a]][i] = a

\* Objects deal with their own actions.
OwnActive == \A o \in Objects : mActiveAction[o] # None => Affected[mActiveAction[o]] = o

OwnQueue ==
    \A o \in Objects : \A i \in DOMAIN mDelayedQueue[o] : Affected[mDelayedQueue[o][i]] = o

QueuedOnce ==
    \A o \in Objects : \A i, j \in DOMAIN mDelayedQueue[o] :
        mDelayedQueue[o][i] = mDelayedQueue[o][j] => i = j

StartsOnce ==
    \A g, h \in Pending :
        g.kind # "end" /\ h.kind # "end" /\ g.action = h.action => g = h

\* An action whose start handler is pending is not yet anywhere else, and an
\* action that waits in a queue is not active.
StartsLater ==
    \A h \in Pending : h.kind # "end" =>
        ~Delayed(h.action) /\ mActiveAction[Affected[h.action]] # h.action

DelayedIdle == \A a \in Actions : Delayed(a) => mActiveAction[Affected[a]] # a

\* An action with an end handler was started: it waits for nothing.
EndedStarted ==
    \A g \in Pending : g.kind = "end" =>
        /\ ~Delayed(g.action)
        /\ \A h \in Pending : h.action = g.action => h.kind = "end"

\* An action that was not scheduled is not used.
FreshUnused ==
    \A a \in Fresh :
        /\ \A h \in Pending : h.action # a
        /\ ~Delayed(a)
        /\ mActiveAction[Affected[a]] # a

Homes ==
    /\ OwnActive
    /\ OwnQueue
    /\ QueuedOnce
    /\ StartsOnce
    /\ StartsLater
    /\ DelayedIdle
    /\ EndedStarted
    /\ FreshUnused

-----------------------------------------------------------------------------
\* The timer is armed for the first time point of the list.
TimerAtFirst == phase = "timer" => FirstTimePoint(mCurrentActionTime)

\* The batch is the current time point's.
BatchNow == phase = "batch" => \A h \in batch : h.time = mCurrentActionTime

\* An action in a queue was due before now.
DelayedNotLater ==
    phase # "finished" =>
        \A a \in Actions : Delayed(a) => mStartTime[a] <= mCurrentActionTime

\* The end handler of a busy object is not due after the end of its active
\* action (it may be before: endExecutionBase reschedules the ended one).
EndDueInTime ==
    \A o \in Objects : Present(o) /\ mActiveAction[o] # None =>
        \A h \in EndHandlers(o) : h.time <= GetEndTime(mActiveAction[o])

Times ==
    /\ HandlerTimesAgree
    /\ PendingNotPast
    /\ TimerAtFirst
    /\ BatchNow
    /\ DelayedNotLater
    /\ EndDueInTime

-----------------------------------------------------------------------------
\* mCurrentAction is set before mFirstAction's absence is asked about.
RecordedWhenUsed ==
    \A o \in Objects :
        ~mFirstAction[o] \/ mActiveAction[o] # None => mCurrentAction[o] # 0

Checks == OtherChecksHold /\ RecordedWhenUsed

OrderInv == KernelInv /\ Homes /\ Times /\ Checks

-----------------------------------------------------------------------------
(* Lemmas about the operators.                                             *)

\* A handler that is consumed leaves the pending ones, and the inserted ones
\* join them.
LEMMA PendingStep ==
    ASSUME KernelInv, NEW h \in batch, Consume(h), NEW N, mActions' = mActions \cup N
    PROVE  /\ h \in Pending
           /\ Pending' = (Pending \ {h}) \cup N
           /\ batch' \subseteq batch
           /\ phase' \in {"loop", "batch"}
<1>1. h \notin mActions
  BY DEF KernelInv, Numbered
<1> QED
  BY <1>1 DEF Consume, Pending

\* A pending handler and its action.
LEMMA PendingType ==
    ASSUME KernelInv, NEW h \in Pending
    PROVE  /\ h.time \in Nat /\ h.kind \in Kinds /\ h.action \in Actions
           /\ Affected[h.action] \in Objects
  BY KernelAssumption DEF KernelInv, TypeOK, Pending, Handlers

\* What a handler schedules: one handler for each new action, at the start
\* time the action then has and not before the time it counts from.
LEMMA ScheduleFacts ==
    ASSUME TypeOK, NEW S \in NewSets, NEW bases \in SUBSET Nat, NEW s \in Schedules(bases, S)
    PROVE  /\ S \subseteq Fresh
           /\ \A g \in StartHandlers(s) :
                 /\ g.kind # "end"
                 /\ g.action \in S
                 /\ g.time = StartTimes(s)[g.action]
                 /\ \E b \in bases : b <= g.time
           /\ \A g, k \in StartHandlers(s) : g.action = k.action => g = k
           /\ \A a \in S : ActionIds(s)[a] # 0 /\ \E g \in StartHandlers(s) : g.action = a
           /\ \A a \in Actions \ S :
                 StartTimes(s)[a] = mStartTime[a] /\ ActionIds(s)[a] = mActionId[a]
<1>1. S \subseteq Actions /\ S \subseteq Fresh /\ Cardinality(S) \in Nat
  BY NewSetsFinite DEF Fresh
<1>2. DOMAIN s = S /\ \A a \in S : s[a].start \in StartChoices(bases) /\ s[a].nth \in 1..Cardinality(S)
  BY DEF Schedules
<1>3. \A a \in S : \E b \in bases : b <= s[a].start
  <2> SUFFICES ASSUME NEW a \in S PROVE \E b \in bases : b <= s[a].start
    OBVIOUS
  <2>1. PICK b \in bases, d \in Delays : s[a].start = b + d
    BY <1>2 DEF StartChoices
  <2>2. b \in Nat /\ d \in Nat
    BY KernelAssumption
  <2> QED
    BY <2>1, <2>2
<1>4. ASSUME NEW g \in StartHandlers(s)
      PROVE  g.action \in S /\ g = Handler(s[g.action].start, mCurrentActionId + s[g.action].nth,
                                           StartKind(g.action), g.action)
  <2>1. PICK a \in S : g = Handler(s[a].start, mCurrentActionId + s[a].nth, StartKind(a), a)
    BY <1>2 DEF StartHandlers
  <2>2. g.action = a
    BY <2>1 DEF Handler
  <2> QED
    BY <2>1, <2>2
<1>5. ASSUME NEW g \in StartHandlers(s)
      PROVE  /\ g.kind # "end"
             /\ g.action \in S
             /\ g.time = StartTimes(s)[g.action]
             /\ \E b \in bases : b <= g.time
  <2>1. g.time = s[g.action].start /\ g.kind = StartKind(g.action) /\ g.action \in S
    BY <1>4 DEF Handler
  <2> QED
    BY <2>1, <1>1, <1>2, <1>3 DEF StartTimes, StartKind
<1>6. \A g, k \in StartHandlers(s) : g.action = k.action => g = k
  BY <1>4
<1>7. ASSUME NEW a \in S PROVE ActionIds(s)[a] # 0 /\ \E g \in StartHandlers(s) : g.action = a
  <2>1. ActionIds(s)[a] = mCurrentActionId + s[a].nth
    BY <1>1, <1>2 DEF ActionIds
  <2>2. mCurrentActionId \in Nat /\ s[a].nth \in Nat /\ s[a].nth >= 1
    BY <1>1, <1>2 DEF TypeOK
  <2>3. Handler(s[a].start, mCurrentActionId + s[a].nth, StartKind(a), a) \in StartHandlers(s)
    BY <1>2 DEF StartHandlers
  <2> QED
    BY <2>1, <2>2, <2>3 DEF Handler
<1>8. \A a \in Actions \ S :
        StartTimes(s)[a] = mStartTime[a] /\ ActionIds(s)[a] = mActionId[a]
  BY <1>2 DEF StartTimes, ActionIds
<1> QED
  BY <1>1, <1>5, <1>6, <1>7, <1>8

\* An action put at the end of its object's queue.
LEMMA DelayFacts ==
    ASSUME TypeOK, OwnQueue, QueuedOnce, NEW a \in Actions, ~Delayed(a), Delay(a, Affected[a])
    PROVE  /\ \A b \in Actions : Delayed(b)' <=> Delayed(b) \/ b = a
           /\ OwnQueue'
           /\ QueuedOnce'
<1>1. PICK o \in Objects : o = Affected[a]
  BY KernelAssumption
<1>2. PICK q \in Seq(Actions) : q = mDelayedQueue[o]
  BY DEF TypeOK
<1>3. PICK r : r = Append(q, a)
  OBVIOUS
<1>4. mDelayedQueue'[o] = r /\ \A p \in Objects \ {o} : mDelayedQueue'[p] = mDelayedQueue[p]
  BY <1>1, <1>2, <1>3 DEF Delay, TypeOK
<1>5. PICK n \in Nat : n = Len(q)
  OBVIOUS
<1>6. /\ DOMAIN r = 1..(n + 1) /\ DOMAIN q = 1..n
      /\ r[n + 1] = a /\ \A i \in 1..n : r[i] = q[i]
  BY <1>3, <1>5
<1>7. \A i \in 1..n : q[i] # a
  BY <1>1, <1>2, <1>6 DEF Delayed
<1>8. \A i \in 1..(n + 1) : i = n + 1 \/ i \in 1..n
  OBVIOUS
<1>9. ASSUME NEW b \in Actions PROVE Delayed(b)' <=> Delayed(b) \/ b = a
  <2>1. CASE Affected[b] = o
    <3>1. Delayed(b)' <=> \E i \in 1..(n + 1) : r[i] = b
      BY <1>4, <1>6, <2>1 DEF Delayed
    <3>2. Delayed(b) <=> \E i \in 1..n : q[i] = b
      BY <1>2, <1>6, <2>1 DEF Delayed
    <3>3. n + 1 \in 1..(n + 1) /\ 1..n \subseteq 1..(n + 1)
      OBVIOUS
    <3> QED
      BY <1>6, <1>8, <3>1, <3>2, <3>3
  <2>2. CASE Affected[b] # o
    <3>1. Affected[b] \in Objects \ {o} /\ b # a
      BY <1>1, <2>2, KernelAssumption
    <3> QED
      BY <1>4, <3>1 DEF Delayed
  <2> QED
    BY <2>1, <2>2
<1>10. \A i \in DOMAIN r : Affected[r[i]] = o
  <2>1. \A i \in 1..n : Affected[q[i]] = o
    BY <1>2, <1>6 DEF OwnQueue
  <2> QED
    BY <1>1, <1>6, <1>8, <2>1
<1>11. \A i, j \in DOMAIN r : r[i] = r[j] => i = j
  <2>1. \A i, j \in 1..n : q[i] = q[j] => i = j
    BY <1>2, <1>6 DEF QueuedOnce
  <2> QED
    BY <1>6, <1>7, <1>8, <2>1
<1>12. OwnQueue'
  <2> SUFFICES ASSUME NEW p \in Objects, NEW i \in DOMAIN mDelayedQueue'[p]
               PROVE  Affected[mDelayedQueue'[p][i]] = p
    BY DEF OwnQueue
  <2> QED
    BY <1>4, <1>10 DEF OwnQueue
<1>13. QueuedOnce'
  <2> SUFFICES ASSUME NEW p \in Objects,
                      NEW i \in DOMAIN mDelayedQueue'[p], NEW j \in DOMAIN mDelayedQueue'[p],
                      mDelayedQueue'[p][i] = mDelayedQueue'[p][j]
               PROVE  i = j
    BY DEF QueuedOnce
  <2> QED
    BY <1>4, <1>11 DEF QueuedOnce
<1> QED
  BY <1>9, <1>12, <1>13

\* The oldest action taken from a queue.
LEMMA DequeueFacts ==
    ASSUME TypeOK, OwnQueue, QueuedOnce, NEW o \in Objects, mDelayedQueue[o] # <<>>,
           mDelayedQueue' = [mDelayedQueue EXCEPT ![o] = Tail(@)],
           NEW u, u = Head(mDelayedQueue[o])
    PROVE  /\ u \in Actions /\ Affected[u] = o
           /\ Delayed(u)
           /\ \A b \in Actions : Delayed(b)' <=> Delayed(b) /\ b # u
           /\ OwnQueue'
           /\ QueuedOnce'
<1>1. PICK q \in Seq(Actions) : q = mDelayedQueue[o]
  BY DEF TypeOK
<1>2. PICK r : r = Tail(q)
  OBVIOUS
<1>3. mDelayedQueue'[o] = r /\ \A p \in Objects \ {o} : mDelayedQueue'[p] = mDelayedQueue[p]
  BY <1>1, <1>2 DEF TypeOK
<1>4. PICK n \in Nat : Len(q) = n + 1
  <2>1. Len(q) \in Nat /\ Len(q) # 0
    BY <1>1
  <2> QED
    BY <2>1, Len(q) - 1 \in Nat
<1>5. /\ DOMAIN r = 1..n /\ DOMAIN q = 1..(n + 1)
      /\ u = q[1] /\ u \in Actions /\ \A i \in 1..n : r[i] = q[i + 1]
  BY <1>1, <1>2, <1>4
<1>6. 1 \in 1..(n + 1) /\ \A i \in 1..n : i + 1 \in 1..(n + 1) /\ i + 1 # 1
  OBVIOUS
<1>7. \A i \in 1..(n + 1) : i = 1 \/ \E j \in 1..n : i = j + 1
  <2> SUFFICES ASSUME NEW i \in 1..(n + 1), i # 1 PROVE \E j \in 1..n : i = j + 1
    OBVIOUS
  <2>1. i - 1 \in 1..n /\ i = (i - 1) + 1
    OBVIOUS
  <2> QED
    BY <2>1
<1>8. \A i \in 1..(n + 1) : Affected[q[i]] = o
  BY <1>1, <1>5 DEF OwnQueue
<1>9. \A i, j \in 1..(n + 1) : q[i] = q[j] => i = j
  BY <1>1, <1>5 DEF QueuedOnce
<1>10. Affected[u] = o /\ Delayed(u)
  BY <1>1, <1>5, <1>6, <1>8 DEF Delayed
<1>11. ASSUME NEW b \in Actions PROVE Delayed(b)' <=> Delayed(b) /\ b # u
  <2>1. CASE Affected[b] = o
    <3>1. Delayed(b) <=> \E i \in 1..(n + 1) : q[i] = b
      BY <1>1, <1>5, <2>1 DEF Delayed
    <3>2. Delayed(b)' <=> \E i \in 1..n : r[i] = b
      BY <1>3, <1>5, <2>1 DEF Delayed
    <3>3. ASSUME NEW i \in 1..n, r[i] = b PROVE b # u /\ \E j \in 1..(n + 1) : q[j] = b
      <4>1. q[i + 1] = b /\ i + 1 \in 1..(n + 1) /\ i + 1 # 1
        BY <1>5, <1>6, <3>3
      <4>2. q[1] # b
        BY <1>6, <1>9, <4>1
      <4> QED
        BY <1>5, <4>1, <4>2
    <3>4. ASSUME NEW i \in 1..(n + 1), q[i] = b, b # u PROVE \E j \in 1..n : r[j] = b
      <4>1. i # 1
        BY <1>5, <3>4
      <4>2. PICK j \in 1..n : i = j + 1
        BY <1>7, <4>1
      <4> QED
        BY <1>5, <3>4, <4>2
    <3> QED
      BY <3>1, <3>2, <3>3, <3>4
  <2>2. CASE Affected[b] # o
    <3>1. Affected[b] \in Objects \ {o} /\ b # u
      BY <1>10, <2>2, KernelAssumption
    <3> QED
      BY <1>3, <3>1 DEF Delayed
  <2> QED
    BY <2>1, <2>2
<1>12. \A i \in DOMAIN r : Affected[r[i]] = o
  BY <1>5, <1>6, <1>8
<1>13. \A i, j \in DOMAIN r : r[i] = r[j] => i = j
  <2> SUFFICES ASSUME NEW i \in 1..n, NEW j \in 1..n, q[i + 1] = q[j + 1] PROVE i = j
    BY <1>5
  <2>1. i + 1 = j + 1
    BY <1>6, <1>9
  <2> QED
    BY <2>1
<1>14. OwnQueue'
  <2> SUFFICES ASSUME NEW p \in Objects, NEW i \in DOMAIN mDelayedQueue'[p]
               PROVE  Affected[mDelayedQueue'[p][i]] = p
    BY DEF OwnQueue
  <2> QED
    BY <1>3, <1>12 DEF OwnQueue
<1>15. QueuedOnce'
  <2> SUFFICES ASSUME NEW p \in Objects,
                      NEW i \in DOMAIN mDelayedQueue'[p], NEW j \in DOMAIN mDelayedQueue'[p],
                      mDelayedQueue'[p][i] = mDelayedQueue'[p][j]
               PROVE  i = j
    BY DEF QueuedOnce
  <2> QED
    BY <1>3, <1>13 DEF QueuedOnce
<1> QED
  BY <1>5, <1>10, <1>11, <1>14, <1>15

-----------------------------------------------------------------------------
(* Steps that invoke a handler.                                            *)

\* Handler h is consumed, the handlers N are inserted: start handlers of the
\* new actions S and end handlers of h's action.  No action is delayed, and
\* an action that becomes active was h's or leaves the queue.
LEMMA HomesStep ==
    ASSUME KernelInv, Homes, NEW h \in Pending, NEW N, NEW S \in SUBSET Fresh,
           Pending' = (Pending \ {h}) \cup N,
           Fresh' \subseteq Fresh \ S,
           \A g \in N : \/ g.kind # "end" /\ g.action \in S
                        \/ g.kind = "end" /\ g.action = h.action,
           \A g, k \in N : g.kind # "end" /\ k.kind # "end" /\ g.action = k.action => g = k,
           \A b \in Actions : Delayed(b)' => Delayed(b),
           OwnQueue', QueuedOnce',
           \A p \in Objects :
               \/ mActiveAction'[p] = mActiveAction[p]
               \/ mActiveAction'[p] = None
               \/ \E u \in Actions \ Fresh :
                     /\ mActiveAction'[p] = u
                     /\ Affected[u] = p
                     /\ ~Delayed(u)'
                     /\ Delayed(u) \/ (u = h.action /\ h.kind # "end")
    PROVE  Homes'
<1>1. \A g \in Pending : g.action \in Actions /\ g.action \notin Fresh
  BY PendingType DEF Homes, FreshUnused
<1>2. \A b \in Actions : Delayed(b) => b \notin Fresh
  BY DEF Homes, FreshUnused
<1>3. \A b \in Actions : Affected[b] \in Objects /\ b # None
  BY KernelAssumption
<1>4. S \subseteq Actions /\ S \subseteq Fresh /\ h.action \in Actions /\ h.action \notin Fresh
  BY <1>1 DEF Fresh
<1>5. OwnActive'
  <2> SUFFICES ASSUME NEW p \in Objects, mActiveAction'[p] # None
               PROVE  Affected[mActiveAction'[p]] = p
    BY DEF OwnActive
  <2> QED
    BY DEF Homes, OwnActive
<1>6. StartsOnce'
  <2> SUFFICES ASSUME NEW g \in Pending', NEW k \in Pending',
                      g.kind # "end", k.kind # "end", g.action = k.action
               PROVE  g = k
    BY DEF StartsOnce
  <2>1. g \in N \/ g \in Pending
    OBVIOUS
  <2>2. k \in N \/ k \in Pending
    OBVIOUS
  <2> QED
    BY <1>1, <1>4, <2>1, <2>2 DEF Homes, StartsOnce
<1>7. StartsLater'
  <2> SUFFICES ASSUME NEW g \in Pending', g.kind # "end"
               PROVE  ~Delayed(g.action)' /\ mActiveAction'[Affected[g.action]] # g.action
    BY DEF StartsLater
  <2>1. CASE g \in N
    <3>1. g.action \in S
      BY <2>1
    <3>2. ~Delayed(g.action) /\ mActiveAction[Affected[g.action]] # g.action
      BY <1>4, <3>1 DEF Homes, FreshUnused
    <3> QED
      BY <1>3, <1>4, <3>1, <3>2
  <2>2. CASE g \in Pending /\ g # h
    <3>1. ~Delayed(g.action) /\ mActiveAction[Affected[g.action]] # g.action
      BY <2>2 DEF Homes, StartsLater
    <3>2. ~(g.action = h.action /\ h.kind # "end")
      BY <2>2 DEF Homes, StartsOnce
    <3> QED
      BY <1>1, <1>3, <2>2, <3>1, <3>2
  <2> QED
    BY <2>1, <2>2
<1>8. DelayedIdle'
  <2> SUFFICES ASSUME NEW a \in Actions, Delayed(a)' PROVE mActiveAction'[Affected[a]] # a
    BY DEF DelayedIdle
  <2>1. mActiveAction[Affected[a]] # a
    BY DEF Homes, DelayedIdle
  <2> QED
    BY <1>3, <2>1
<1>9. EndedStarted'
  <2> SUFFICES ASSUME NEW g \in Pending', g.kind = "end"
               PROVE  /\ ~Delayed(g.action)'
                      /\ \A k \in Pending' : k.action = g.action => k.kind = "end"
    BY DEF EndedStarted
  <2>1. CASE g \in Pending
    <3>1. /\ ~Delayed(g.action)
          /\ \A k \in Pending : k.action = g.action => k.kind = "end"
      BY <2>1 DEF Homes, EndedStarted
    <3> QED
      BY <1>1, <1>4, <2>1, <3>1
  <2>2. CASE g \in N
    <3>1. g.action = h.action
      BY <2>2
    <3>2. ~Delayed(h.action)
      BY DEF Homes, EndedStarted, StartsLater
    <3>3. \A k \in Pending \ {h} : k.action = h.action => k.kind = "end"
      BY DEF Homes, EndedStarted, StartsOnce
    <3> QED
      BY <1>4, <3>1, <3>2, <3>3
  <2> QED
    BY <2>1, <2>2
<1>10. FreshUnused'
  <2> SUFFICES ASSUME NEW a \in Fresh'
               PROVE  /\ \A k \in Pending' : k.action # a
                      /\ ~Delayed(a)'
                      /\ mActiveAction'[Affected[a]] # a
    BY DEF FreshUnused
  <2>1. a \in Fresh /\ a \notin S /\ a \in Actions
    BY DEF Fresh
  <2>2. /\ \A k \in Pending : k.action # a
        /\ ~Delayed(a)
        /\ mActiveAction[Affected[a]] # a
    BY <2>1 DEF Homes, FreshUnused
  <2> QED
    BY <1>3, <1>4, <2>1, <2>2
<1> QED
  BY <1>5, <1>6, <1>7, <1>8, <1>9, <1>10 DEF Homes

\* The action of start handler h is delayed.
LEMMA HomesDelay ==
    ASSUME KernelInv, Homes, NEW h \in Pending, h.kind # "end",
           Pending' = Pending \ {h},
           Delay(h.action, Affected[h.action]),
           UNCHANGED <<mActiveAction, mActionId>>
    PROVE  Homes'
<1> DEFINE a == h.action
<1>1. a \in Actions /\ \A g \in Pending : g.action \in Actions
  BY PendingType
<1>2. ~Delayed(a) /\ mActiveAction[Affected[a]] # a
  BY DEF Homes, StartsLater
<1>3. /\ \A b \in Actions : Delayed(b)' <=> Delayed(b) \/ b = a
      /\ OwnQueue' /\ QueuedOnce'
  BY <1>1, <1>2, DelayFacts DEF KernelInv, Homes
<1>4. Fresh' = Fresh
  BY DEF Fresh
<1>5. OwnActive' /\ StartsOnce'
  BY DEF Homes, OwnActive, StartsOnce
<1>6. StartsLater'
  <2> SUFFICES ASSUME NEW g \in Pending', g.kind # "end"
               PROVE  ~Delayed(g.action)' /\ mActiveAction'[Affected[g.action]] # g.action
    BY DEF StartsLater
  <2>1. g.action # a
    BY DEF Homes, StartsOnce
  <2> QED
    BY <1>1, <1>3, <2>1 DEF Homes, StartsLater
<1>7. DelayedIdle'
  BY <1>2, <1>3 DEF Homes, DelayedIdle
<1>8. EndedStarted'
  <2> SUFFICES ASSUME NEW g \in Pending', g.kind = "end"
               PROVE  /\ ~Delayed(g.action)'
                      /\ \A k \in Pending' : k.action = g.action => k.kind = "end"
    BY DEF EndedStarted
  <2> QED
    BY <1>1, <1>3 DEF Homes, EndedStarted
<1>9. FreshUnused'
  <2> SUFFICES ASSUME NEW b \in Fresh
               PROVE  /\ \A k \in Pending' : k.action # b
                      /\ ~Delayed(b)'
                      /\ mActiveAction'[Affected[b]] # b
    BY <1>4 DEF FreshUnused
  <2> QED
    BY <1>3 DEF Homes, FreshUnused, Fresh
<1> QED
  BY <1>3, <1>5, <1>6, <1>7, <1>8, <1>9 DEF Homes

\* Only fresh actions and one that leaves the queue change their start time,
\* and what is inserted is due now or later.
LEMMA TimesStep ==
    ASSUME KernelInv, Homes, Times, NEW h \in batch, NEW N,
           phase = "batch", phase' \in {"loop", "batch"}, batch' \subseteq batch,
           UNCHANGED mCurrentActionTime,
           Pending' = (Pending \ {h}) \cup N,
           \A g \in N : g.time = GetTime(g)' /\ mCurrentActionTime <= g.time,
           \A a \in Actions : \/ mStartTime'[a] = mStartTime[a]
                              \/ a \in Fresh
                              \/ Delayed(a) /\ ~Delayed(a)',
           \A a \in Actions : Delayed(a)' => Delayed(a) \/ (a = h.action /\ h.kind # "end"),
           \A p \in Objects : Present(p)' => Present(p),
           \A p \in Objects :
               \/ mActiveAction'[p] = mActiveAction[p] /\ EndHandlers(p)' \subseteq EndHandlers(p)
               \/ mActiveAction'[p] = None
               \/ \A g \in EndHandlers(p)' : g.time <= GetEndTime(mActiveAction[p])'
    PROVE  Times'
<1>1. h \in Pending /\ h.action \in Actions /\ h.time = mCurrentActionTime
  BY PendingType DEF Pending, Times, BatchNow
<1>2. \A g \in Pending : /\ g.action \in Actions
                         /\ g.action \notin Fresh
                         /\ ~Delayed(g.action)
                         /\ mStartTime'[g.action] = mStartTime[g.action]
                         /\ GetTime(g)' = GetTime(g)
  <2> SUFFICES ASSUME NEW g \in Pending
               PROVE  /\ g.action \in Actions /\ g.action \notin Fresh /\ ~Delayed(g.action)
                      /\ mStartTime'[g.action] = mStartTime[g.action]
                      /\ GetTime(g)' = GetTime(g)
    OBVIOUS
  <2>1. g.action \in Actions
    BY PendingType
  <2>2. g.action \notin Fresh /\ ~Delayed(g.action)
    BY DEF Homes, FreshUnused, StartsLater, EndedStarted
  <2>3. mStartTime'[g.action] = mStartTime[g.action]
    BY <2>1, <2>2
  <2> QED
    BY <2>1, <2>2, <2>3 DEF GetTime, GetEndTime
<1>3. HandlerTimesAgree'
  <2> SUFFICES ASSUME NEW g \in Pending' PROVE g.time = GetTime(g)'
    BY DEF HandlerTimesAgree
  <2> QED
    BY <1>2 DEF Times, HandlerTimesAgree
<1>4. PendingNotPast'
  BY DEF Times, PendingNotPast
<1>5. TimerAtFirst' /\ BatchNow'
  BY DEF Times, TimerAtFirst, BatchNow
<1>6. DelayedNotLater'
  <2> SUFFICES ASSUME NEW a \in Actions, Delayed(a)'
               PROVE  mStartTime'[a] <= mCurrentActionTime
    BY DEF DelayedNotLater
  <2>1. CASE Delayed(a)
    <3>1. mStartTime'[a] = mStartTime[a]
      BY <2>1 DEF Homes, FreshUnused
    <3> QED
      BY <2>1, <3>1 DEF Times, DelayedNotLater
  <2>2. CASE a = h.action /\ h.kind # "end"
    <3>1. mStartTime[a] = h.time
      BY <1>1, <2>2 DEF Times, HandlerTimesAgree, GetTime
    <3>2. mCurrentActionTime <= mCurrentActionTime
      BY <1>1, PendingType
    <3> QED
      BY <1>1, <1>2, <2>2, <3>1, <3>2
  <2> QED
    BY <2>1, <2>2
<1>7. EndDueInTime'
  <2> SUFFICES ASSUME NEW p \in Objects, Present(p)', mActiveAction'[p] # None,
                      NEW g \in EndHandlers(p)'
               PROVE  g.time <= GetEndTime(mActiveAction[p])'
    BY DEF EndDueInTime
  <2>1. CASE mActiveAction'[p] = mActiveAction[p] /\ EndHandlers(p)' \subseteq EndHandlers(p)
    <3>1. PICK f \in Actions : f = mActiveAction[p]
      BY <2>1 DEF KernelInv, TypeOK
    <3>2. Affected[f] = p /\ f \notin Fresh /\ ~Delayed(f)
      BY <2>1, <3>1, KernelAssumption DEF Homes, OwnActive, FreshUnused, DelayedIdle
    <3>3. mStartTime'[f] = mStartTime[f]
      BY <3>2
    <3>4. g.time <= GetEndTime(f)
      BY <2>1, <3>1 DEF Times, EndDueInTime
    <3> QED
      BY <2>1, <3>1, <3>3, <3>4 DEF GetEndTime
  <2> QED
    BY <2>1
<1> QED
  BY <1>3, <1>4, <1>5, <1>6, <1>7 DEF Times

-----------------------------------------------------------------------------
(* The handlers, one by one.                                               *)

\* A failed check moves no action and no handler.
LEMMA ThrowOrder ==
    ASSUME Homes, Times, NEW checks, phase # "finished", Throw(checks) PROVE Homes' /\ Times'
<1> USE DEF Throw, actionVars, objectVars
<1>1. Pending' = Pending /\ Fresh' = Fresh
  BY DEF Pending, Fresh
<1>2. \A a \in Actions : Delayed(a)' <=> Delayed(a)
  BY DEF Delayed
<1>3. Homes'
  BY <1>1, <1>2 DEF Homes, OwnActive, OwnQueue, QueuedOnce, StartsOnce, StartsLater, DelayedIdle,
                    EndedStarted, FreshUnused, Delayed
<1>4. \A o \in Objects : EndHandlers(o)' = EndHandlers(o) /\ (Present(o)' <=> Present(o))
  BY <1>1 DEF EndHandlers, Present
<1>5. Times'
  BY <1>1, <1>2, <1>4 DEF Times, HandlerTimesAgree, PendingNotPast, TimerAtFirst, BatchNow,
                          DelayedNotLater, EndDueInTime, GetTime, GetEndTime
<1> QED
  BY <1>3, <1>5

\* A dropped handler leaves the other handlers where they are.
LEMMA DropHandlerOrder ==
    ASSUME KernelInv, Homes, Times, NEW h \in batch, DropHandler(h) PROVE Homes' /\ Times'
<1>1. /\ Consume(h) /\ phase = "batch"
      /\ UNCHANGED <<mCurrentActionTime, mActions, mStartTime, mActionId, mActiveAction,
                     mDelayedQueue, container>>
  BY DEF DropHandler, actionVars, objectVars
<1>2. PICK N : N = {}
  OBVIOUS
<1>3. PICK S \in SUBSET Fresh : S = {}
  OBVIOUS
<1>4. /\ h \in Pending /\ Pending' = (Pending \ {h}) \cup N
      /\ batch' \subseteq batch /\ phase' \in {"loop", "batch"}
  BY <1>1, <1>2, PendingStep
<1>5. Fresh' = Fresh
  BY <1>1 DEF Fresh
<1>6. \A a \in Actions : Delayed(a)' <=> Delayed(a)
  BY <1>1 DEF Delayed
<1>7. \A o \in Objects : /\ EndHandlers(o)' \subseteq EndHandlers(o)
                         /\ Present(o)' => Present(o)
                         /\ mActiveAction'[o] = mActiveAction[o]
  BY <1>1, <1>2, <1>4 DEF EndHandlers, Present
<1>8. OwnQueue' /\ QueuedOnce'
  BY <1>1 DEF Homes, OwnQueue, QueuedOnce
<1>9. Homes'
  BY <1>2, <1>3, <1>4, <1>5, <1>6, <1>7, <1>8, HomesStep
<1>10. \A g \in N : g.time = GetTime(g)' /\ mCurrentActionTime <= g.time
  BY <1>2
<1>11. Times'
  BY <1>1, <1>4, <1>6, <1>7, <1>10, TimesStep
<1> QED
  BY <1>9, <1>11

\* A due handler's action, and its time: now.
LEMMA DueNow ==
    ASSUME KernelInv, Homes, Times, NEW h \in batch, phase = "batch"
    PROVE  /\ h \in Pending /\ h.action \in Actions /\ h.action \notin Fresh
           /\ ~Delayed(h.action)
           /\ h.time = mCurrentActionTime /\ GetTime(h) = mCurrentActionTime
           /\ mCurrentActionTime \in Nat
<1>1. h \in Pending
  BY DEF Pending
<1>2. h.action \in Actions /\ h.time \in Nat
  BY <1>1, PendingType
<1>3. h.time = mCurrentActionTime /\ GetTime(h) = mCurrentActionTime
  BY <1>1 DEF Times, BatchNow, HandlerTimesAgree
<1>4. h.action \notin Fresh /\ ~Delayed(h.action)
  BY <1>1, <1>2 DEF Homes, FreshUnused, StartsLater, EndedStarted
<1> QED
  BY <1>1, <1>2, <1>3, <1>4

\* The end handler of a started action is inserted at its end, which is not past.
LEMMA StartNowOrder ==
    ASSUME KernelInv, Homes, Times, NEW h \in batch, StartNow(h), phase' # "thrown"
    PROVE  Homes' /\ Times'
<1>1. PICK a, o : a = h.action /\ o = Affected[a]
  OBVIOUS
<1>2. PICK e : e = Handler(GetEndTime(a), mCurrentActionId + 1, "end", a)
  OBVIOUS
<1>3. /\ phase = "batch" /\ h.kind = "start" /\ CanStart(o) /\ container[o] = "active"
      /\ Consume(h)
      /\ mActiveAction' = [mActiveAction EXCEPT ![o] = a]
      /\ mActionId' = [mActionId EXCEPT ![a] = mCurrentActionId + 1]
      /\ mActions' = mActions \cup {e}
      /\ UNCHANGED <<mCurrentActionTime, mStartTime, mDelayedQueue, container>>
  BY <1>1, <1>2 DEF StartNow, Due, Throw
<1>4. /\ h \in Pending /\ a \in Actions /\ a \notin Fresh /\ ~Delayed(a)
      /\ mStartTime[a] = mCurrentActionTime /\ mCurrentActionTime \in Nat
  BY <1>1, <1>3, DueNow DEF GetTime
<1>5. o \in Objects /\ a # None /\ Duration[a] \in Nat
  BY <1>1, <1>4, KernelAssumption
<1>6. e.kind = "end" /\ e.action = a /\ e.time = Duration[a] + mCurrentActionTime
  BY <1>2, <1>4 DEF Handler, GetEndTime
<1>7. PICK N : N = {e}
  OBVIOUS
<1>8. PICK S \in SUBSET Fresh : S = {}
  OBVIOUS
<1>9. /\ Pending' = (Pending \ {h}) \cup N
      /\ batch' \subseteq batch /\ phase' \in {"loop", "batch"}
  BY <1>3, <1>7, PendingStep
<1>10. Fresh' \subseteq Fresh \ S
  <2>1. mCurrentActionId + 1 # 0
    BY DEF KernelInv, TypeOK
  <2> QED
    BY <1>3, <1>8, <2>1 DEF Fresh, KernelInv, TypeOK
<1>11. \A b \in Actions : Delayed(b)' <=> Delayed(b)
  BY <1>3 DEF Delayed
<1>12. OwnQueue' /\ QueuedOnce'
  BY <1>3 DEF Homes, OwnQueue, QueuedOnce
<1>13. mActiveAction'[o] = a /\ \A p \in Objects \ {o} : mActiveAction'[p] = mActiveAction[p]
  BY <1>3, <1>5 DEF KernelInv, TypeOK
<1>14. Homes'
  <2>1. \A g \in N : g.kind = "end" /\ g.action = h.action
    BY <1>1, <1>6, <1>7
  <2>2. \A p \in Objects :
          \/ mActiveAction'[p] = mActiveAction[p]
          \/ \E u \in Actions \ Fresh :
                /\ mActiveAction'[p] = u
                /\ Affected[u] = p
                /\ ~Delayed(u)'
                /\ Delayed(u) \/ (u = h.action /\ h.kind # "end")
    BY <1>1, <1>3, <1>4, <1>11, <1>13
  <2> QED
    BY <1>4, <1>9, <1>10, <1>11, <1>12, <2>1, <2>2, HomesStep
<1>15. Times'
  <2>1. \A g \in N : g.time = GetTime(g)' /\ mCurrentActionTime <= g.time
    BY <1>3, <1>4, <1>5, <1>6, <1>7 DEF GetTime, GetEndTime
  <2>2. \A p \in Objects : Present(p)' => Present(p)
    BY <1>3 DEF Present
  <2>3. ASSUME NEW p \in Objects
        PROVE  \/ mActiveAction'[p] = mActiveAction[p] /\ EndHandlers(p)' \subseteq EndHandlers(p)
               \/ \A g \in EndHandlers(p)' : g.time <= GetEndTime(mActiveAction[p])'
    <3>1. CASE p = o
      <4>1. EndHandlers(o) = {}
        BY <1>3, <1>5 DEF CanStart, KernelInv, PresentBusy, Present
      <4>2. \A g \in EndHandlers(o)' : g = e
        BY <1>7, <1>9, <4>1 DEF EndHandlers
      <4> QED
        BY <1>3, <1>4, <1>5, <1>6, <1>13, <3>1, <4>2 DEF GetEndTime
    <3>2. CASE p # o
      <4>1. EndHandlers(p)' \subseteq EndHandlers(p)
        BY <1>1, <1>6, <1>7, <1>9, <3>2 DEF EndHandlers
      <4> QED
        BY <1>13, <3>2, <4>1
    <3> QED
      BY <3>1, <3>2
  <2> QED
    BY <1>3, <1>9, <1>11, <2>1, <2>2, <2>3, TimesStep
<1> QED
  BY <1>14, <1>15

\* A delayed action has left the list for the queue of its object.
LEMMA DelayOrder ==
    ASSUME KernelInv, Homes, Times, NEW h \in batch, phase = "batch", h.kind # "end",
           Consume(h), Delay(h.action, Affected[h.action]),
           UNCHANGED <<mCurrentActionTime, mActions, mStartTime, mActionId, mActiveAction, container>>
    PROVE  Homes' /\ Times'
<1>1. PICK N : N = {}
  OBVIOUS
<1>2. /\ h \in Pending /\ Pending' = (Pending \ {h}) \cup N
      /\ batch' \subseteq batch /\ phase' \in {"loop", "batch"}
  BY <1>1, PendingStep
<1>3. Pending' = Pending \ {h}
  BY <1>1, <1>2
<1>4. Homes'
  BY <1>2, <1>3, HomesDelay
<1>5. \A a \in Actions : Delayed(a)' => Delayed(a) \/ (a = h.action /\ h.kind # "end")
  <2>1. h.action \in Actions /\ ~Delayed(h.action)
    BY DueNow
  <2> QED
    BY <2>1, DelayFacts DEF KernelInv, Homes
<1>6. \A o \in Objects : /\ EndHandlers(o)' \subseteq EndHandlers(o)
                         /\ Present(o)' => Present(o)
                         /\ mActiveAction'[o] = mActiveAction[o]
  BY <1>3 DEF EndHandlers, Present
<1>7. \A g \in N : g.time = GetTime(g)' /\ mCurrentActionTime <= g.time
  BY <1>1
<1>8. Times'
  BY <1>2, <1>5, <1>6, <1>7, TimesStep
<1> QED
  BY <1>4, <1>8

\* The start handlers a handler inserts, and what scheduling them does to the
\* other actions.
LEMMA ScheduleOrder ==
    ASSUME TypeOK, NEW S \in NewSets, NEW bases \in SUBSET Nat, NEW s \in Schedules(bases, S),
           NEW now \in Nat, \A b \in bases : now <= b
    PROVE  /\ S \in SUBSET Fresh
           /\ \A g \in StartHandlers(s) :
                 /\ g.kind # "end" /\ g.action \in S
                 /\ g.time = StartTimes(s)[g.action]
                 /\ now <= g.time
           /\ \A g, k \in StartHandlers(s) : g.action = k.action => g = k
           /\ \A a \in Actions : a \in S \/ StartTimes(s)[a] = mStartTime[a]
           /\ \A a \in Actions : a \notin Fresh \/ a \in S => ActionIds(s)[a] # 0
<1>1. /\ S \subseteq Fresh
      /\ \A g \in StartHandlers(s) :
            /\ g.kind # "end"
            /\ g.action \in S
            /\ g.time = StartTimes(s)[g.action]
            /\ \E b \in bases : b <= g.time
      /\ \A g, k \in StartHandlers(s) : g.action = k.action => g = k
      /\ \A a \in S : ActionIds(s)[a] # 0
      /\ \A a \in Actions \ S :
            StartTimes(s)[a] = mStartTime[a] /\ ActionIds(s)[a] = mActionId[a]
  BY ScheduleFacts
<1>2. \A g \in StartHandlers(s) : g.time \in Nat
  BY ScheduleTypes DEF Handlers
<1>3. \A g \in StartHandlers(s) : now <= g.time
  BY <1>1, <1>2
<1>4. \A a \in Actions : a \notin Fresh \/ a \in S => ActionIds(s)[a] # 0
  BY <1>1 DEF Fresh
<1> QED
  BY <1>1, <1>3, <1>4

\* What an init action asks for is inserted at its own times, none of them past.
LEMMA InitNowOrder ==
    ASSUME KernelInv, Homes, Times, NEW h \in batch, InitNow(h) PROVE Homes' /\ Times'
<1>1. PICK a, o : a = h.action /\ o = Affected[a]
  OBVIOUS
<1>2. PICK S, s, N :
        /\ S \in NewSets /\ s \in Schedules({mStartTime[a]}, S)
        /\ N = StartHandlers(s)
        /\ Consume(h)
        /\ mActions' = mActions \cup N
        /\ mStartTime' = StartTimes(s)
        /\ mActionId' = ActionIds(s)
        /\ UNCHANGED <<mCurrentActionTime, mActiveAction, mDelayedQueue, container>>
  BY <1>1 DEF InitNow
<1>3. phase = "batch" /\ h.kind = "init"
  BY DEF InitNow, Due
<1>4. /\ h \in Pending /\ a \in Actions /\ a \notin Fresh
      /\ mStartTime[a] = mCurrentActionTime /\ mCurrentActionTime \in Nat
  BY <1>1, <1>3, DueNow DEF GetTime
<1>5. /\ Pending' = (Pending \ {h}) \cup N
      /\ batch' \subseteq batch /\ phase' \in {"loop", "batch"}
  BY <1>2, PendingStep
<1>6. /\ S \in SUBSET Fresh
      /\ \A g \in N : /\ g.kind # "end" /\ g.action \in S
                      /\ g.time = StartTimes(s)[g.action]
                      /\ mCurrentActionTime <= g.time
      /\ \A g, k \in N : g.action = k.action => g = k
      /\ \A b \in Actions : b \in S \/ StartTimes(s)[b] = mStartTime[b]
      /\ \A b \in Actions : b \notin Fresh \/ b \in S => ActionIds(s)[b] # 0
  <2>1. PICK bases : bases = {mStartTime[a]}
    OBVIOUS
  <2>2. bases \in SUBSET Nat /\ \A b \in bases : mCurrentActionTime <= b
    BY <1>4, <2>1
  <2> QED
    BY <1>2, <1>4, <2>1, <2>2, ScheduleOrder DEF KernelInv
<1>7. Fresh' \subseteq Fresh \ S
  BY <1>2, <1>6 DEF Fresh
<1>8. \A b \in Actions : Delayed(b)' <=> Delayed(b)
  BY <1>2 DEF Delayed
<1>9. OwnQueue' /\ QueuedOnce'
  BY <1>2 DEF Homes, OwnQueue, QueuedOnce
<1>10. Homes'
  BY <1>2, <1>4, <1>5, <1>6, <1>7, <1>8, <1>9, HomesStep
<1>11. Times'
  <2>1. \A g \in N : g.time = GetTime(g)' /\ mCurrentActionTime <= g.time
    BY <1>2, <1>6 DEF GetTime
  <2>2. \A p \in Objects : Present(p)' => Present(p)
    BY <1>2 DEF Present
  <2>3. \A p \in Objects : EndHandlers(p)' \subseteq EndHandlers(p)
    BY <1>5, <1>6 DEF EndHandlers
  <2>4. \A b \in Actions : mStartTime'[b] = mStartTime[b] \/ b \in Fresh
    BY <1>2, <1>6
  <2> QED
    BY <1>2, <1>3, <1>5, <1>8, <2>1, <2>2, <2>3, <2>4, TimesStep
<1> QED
  BY <1>10, <1>11

\* The times object code counts from when an action ends are not past, and
\* the end of the active action is one of them.
LEMMA EndBases ==
    ASSUME KernelInv, Homes, Times, NEW h \in batch, phase = "batch", h.kind = "end",
           NEW o, o = Affected[h.action], container[o] = "active", mFuture[o] # None
    PROVE  /\ o \in Objects
           /\ mFuture[o] \in Actions
           /\ Bases(h.action, mFuture[o]) \in SUBSET Nat
           /\ \A b \in Bases(h.action, mFuture[o]) : mCurrentActionTime <= b
           /\ GetEndTime(h.action) = mCurrentActionTime
           /\ EndHandlers(o) = {h}
<1>1. /\ h \in Pending /\ h.action \in Actions
      /\ h.time = mCurrentActionTime
      /\ GetEndTime(h.action) = mCurrentActionTime /\ mCurrentActionTime \in Nat
  BY DueNow DEF GetTime
<1>2. o \in Objects
  BY <1>1, KernelAssumption
<1>3. PICK f \in Actions : f = mFuture[o]
  BY <1>2 DEF KernelInv, TypeOK
<1>4. f = mActiveAction[o] /\ h \in EndHandlers(o)
  BY <1>1, <1>2, <1>3 DEF KernelInv, PresentBusy, Present, EndHandlers
<1>5. h.time <= GetEndTime(f)
  BY <1>2, <1>3, <1>4 DEF Times, EndDueInTime, Present
<1>6. EndHandlers(o) = {h}
  BY <1>2, <1>3, <1>4, KernelAssumption DEF KernelInv, PresentBusy, Present
<1>7. Bases(h.action, f) \in SUBSET Nat
  BY <1>1, BasesNat DEF KernelInv
<1> QED
  BY <1>1, <1>2, <1>3, <1>5, <1>6, <1>7 DEF Bases

\* What the fiber of an ended action asked for is inserted at its own times,
\* none of them past.
LEMMA EndLastOrder ==
    ASSUME KernelInv, Homes, Times, NEW h \in batch, EndLast(h), phase' # "thrown"
    PROVE  Homes' /\ Times'
<1>1. PICK a, o : a = h.action /\ o = Affected[a]
  OBVIOUS
<1>2. PICK S, s, N, gone :
        /\ S \in NewSets /\ s \in Schedules(Bases(a, mFuture[o]), S)
        /\ N = StartHandlers(s)
        /\ gone \in SUBSET Removable(o)
        /\ EndExecution(o, s, gone)
        /\ Consume(h)
        /\ mActiveAction' = [mActiveAction EXCEPT ![o] = None]
        /\ mActions' = mActions \cup N
        /\ mStartTime' = StartTimes(s)
        /\ mActionId' = ActionIds(s)
        /\ UNCHANGED <<mCurrentActionTime, mDelayedQueue>>
  BY <1>1 DEF EndLast, Throw
<1>3. phase = "batch" /\ h.kind = "end" /\ container[o] = "active" /\ mFuture[o] # None
  BY <1>1, <1>2 DEF EndLast, Due, EndExecution
<1>4. /\ h \in Pending /\ a \in Actions /\ a \notin Fresh /\ mCurrentActionTime \in Nat
  BY <1>1, <1>3, DueNow
<1>5. /\ o \in Objects
      /\ \A b \in Bases(a, mFuture[o]) : mCurrentActionTime <= b
      /\ Bases(a, mFuture[o]) \in SUBSET Nat
  BY <1>1, <1>3, EndBases
<1>6. /\ Pending' = (Pending \ {h}) \cup N
      /\ batch' \subseteq batch /\ phase' \in {"loop", "batch"}
  BY <1>2, PendingStep
<1>7. /\ S \in SUBSET Fresh
      /\ \A g \in N : /\ g.kind # "end" /\ g.action \in S
                      /\ g.time = StartTimes(s)[g.action]
                      /\ mCurrentActionTime <= g.time
      /\ \A g, k \in N : g.action = k.action => g = k
      /\ \A b \in Actions : b \in S \/ StartTimes(s)[b] = mStartTime[b]
      /\ \A b \in Actions : b \notin Fresh \/ b \in S => ActionIds(s)[b] # 0
  BY <1>2, <1>4, <1>5, ScheduleOrder DEF KernelInv
<1>8. Fresh' \subseteq Fresh \ S
  BY <1>2, <1>7 DEF Fresh
<1>9. \A b \in Actions : Delayed(b)' <=> Delayed(b)
  BY <1>2 DEF Delayed
<1>10. OwnQueue' /\ QueuedOnce'
  BY <1>2 DEF Homes, OwnQueue, QueuedOnce
<1>11. mActiveAction'[o] = None /\ \A p \in Objects \ {o} : mActiveAction'[p] = mActiveAction[p]
  BY <1>2, <1>5 DEF KernelInv, TypeOK
<1>12. Homes'
  BY <1>1, <1>4, <1>6, <1>7, <1>8, <1>9, <1>10, <1>11, HomesStep
<1>13. Times'
  <2>1. \A g \in N : g.time = GetTime(g)' /\ mCurrentActionTime <= g.time
    BY <1>2, <1>7 DEF GetTime
  <2>2. \A p \in Objects : Present(p)' => Present(p)
    BY <1>2, <1>3, <1>5, EndExecutionObjects DEF Present, KernelInv
  <2>3. \A p \in Objects : EndHandlers(p)' \subseteq EndHandlers(p)
    BY <1>6, <1>7 DEF EndHandlers
  <2>4. \A b \in Actions : mStartTime'[b] = mStartTime[b] \/ b \in Fresh
    BY <1>2, <1>7
  <2>5. \A p \in Objects :
          \/ mActiveAction'[p] = mActiveAction[p] /\ EndHandlers(p)' \subseteq EndHandlers(p)
          \/ mActiveAction'[p] = None
    BY <1>11, <2>3
  <2> QED
    BY <1>2, <1>3, <1>6, <1>9, <2>1, <2>2, <2>4, <2>5, TimesStep
<1> QED
  BY <1>12, <1>13

\* The dequeued action has its home in the object again, and the handler
\* inserted for the one that ended has a time that is its own.
LEMMA EndAndActivateOrder ==
    ASSUME KernelInv, Homes, Times, NEW h \in batch, EndAndActivate(h), phase' # "thrown"
    PROVE  Homes' /\ Times'
<1>1. PICK a, o, u : a = h.action /\ o = Affected[a] /\ u = Head(mDelayedQueue[o])
  OBVIOUS
<1>2. PICK S, s, gone, starts, n, N :
        /\ S \in NewSets /\ s \in Schedules(Bases(a, mFuture[o]), S)
        /\ gone \in SUBSET Removable(o)
        /\ EndExecution(o, s, gone)
        /\ starts = [StartTimes(s) EXCEPT ![u] = GetEndTime(a)]
        /\ n = Handler(EndKey(a, starts), mCurrentActionId + Cardinality(S) + 1, "end", a)
        /\ N = StartHandlers(s) \cup {n}
        /\ Consume(h)
        /\ mActiveAction' = [mActiveAction EXCEPT ![o] = u]
        /\ mDelayedQueue' = [mDelayedQueue EXCEPT ![o] = Tail(@)]
        /\ mActions' = mActions \cup N
        /\ mStartTime' = starts
        /\ mActionId' = [ActionIds(s) EXCEPT ![a] = mCurrentActionId + Cardinality(S) + 1]
        /\ UNCHANGED <<mCurrentActionTime>>
  <2>1. PICK S, s, gone :
        LET starts == [StartTimes(s) EXCEPT ![u] = GetEndTime(a)]
            id == mCurrentActionId + Cardinality(S) + 1
        IN
        /\ S \in NewSets /\ s \in Schedules(Bases(a, mFuture[o]), S)
        /\ gone \in SUBSET Removable(o)
        /\ EndExecution(o, s, gone)
        /\ Consume(h)
        /\ mActiveAction' = [mActiveAction EXCEPT ![o] = u]
        /\ mDelayedQueue' = [mDelayedQueue EXCEPT ![o] = Tail(@)]
        /\ mStartTime' = starts
        /\ mActionId' = [ActionIds(s) EXCEPT ![a] = id]
        /\ mActions' = mActions \cup StartHandlers(s)
                       \cup {Handler(EndKey(a, starts), id, "end", a)}
        /\ UNCHANGED <<mCurrentActionTime>>
    BY <1>1 DEF EndAndActivate, Throw, Rescheduled, Dequeue
  <2>2. PICK starts : starts = [StartTimes(s) EXCEPT ![u] = GetEndTime(a)]
    OBVIOUS
  <2>3. PICK n : n = Handler(EndKey(a, starts), mCurrentActionId + Cardinality(S) + 1, "end", a)
    OBVIOUS
  <2>4. PICK N : N = StartHandlers(s) \cup {n}
    OBVIOUS
  <2>5. mActions' = mActions \cup N
    BY <2>1, <2>2, <2>3, <2>4
  <2> QED
    BY <2>1, <2>2, <2>3, <2>4, <2>5
<1>3. /\ phase = "batch" /\ h.kind = "end" /\ container[o] = "active" /\ mFuture[o] # None
      /\ mDelayedQueue[o] # <<>>
  BY <1>1, <1>2 DEF EndAndActivate, Due, EndExecution, NothingDelayed
<1>4. /\ h \in Pending /\ a \in Actions /\ a \notin Fresh /\ ~Delayed(a)
      /\ mCurrentActionTime \in Nat
  BY <1>1, <1>3, DueNow
<1>5. /\ o \in Objects
      /\ \A b \in Bases(a, mFuture[o]) : mCurrentActionTime <= b
      /\ Bases(a, mFuture[o]) \in SUBSET Nat
      /\ GetEndTime(a) = mCurrentActionTime
      /\ EndHandlers(o) = {h}
  BY <1>1, <1>3, EndBases
<1>6. /\ Pending' = (Pending \ {h}) \cup N
      /\ batch' \subseteq batch /\ phase' \in {"loop", "batch"}
  BY <1>2, PendingStep
<1>7. /\ S \in SUBSET Fresh
      /\ \A g \in StartHandlers(s) :
            /\ g.kind # "end" /\ g.action \in S
            /\ g.time = StartTimes(s)[g.action]
            /\ mCurrentActionTime <= g.time
      /\ \A g, k \in StartHandlers(s) : g.action = k.action => g = k
      /\ \A b \in Actions : b \in S \/ StartTimes(s)[b] = mStartTime[b]
      /\ \A b \in Actions : b \notin Fresh \/ b \in S => ActionIds(s)[b] # 0
  BY <1>2, <1>4, <1>5, ScheduleOrder DEF KernelInv
<1>8. /\ u \in Actions /\ Affected[u] = o /\ Delayed(u)
      /\ \A b \in Actions : Delayed(b)' <=> Delayed(b) /\ b # u
      /\ OwnQueue' /\ QueuedOnce'
  BY <1>1, <1>2, <1>3, <1>5, DequeueFacts DEF KernelInv, Homes
<1>9. u \notin Fresh /\ u # a /\ u # None
  BY <1>4, <1>8, KernelAssumption DEF Homes, FreshUnused
<1>10. StartTimes(s) \in [Actions -> Nat] /\ ActionIds(s) \in [Actions -> Nat]
  BY <1>2, <1>5, ScheduleTypes DEF KernelInv
<1>11. /\ mStartTime'[u] = mCurrentActionTime
       /\ \A b \in Actions \ {u} : b \in S \/ mStartTime'[b] = mStartTime[b]
       /\ \A b \in S : mStartTime'[b] = StartTimes(s)[b]
  BY <1>2, <1>5, <1>7, <1>8, <1>9, <1>10
<1>12. /\ n.kind = "end" /\ n.action = a /\ n.time = Duration[a] + mStartTime'[a]
       /\ n.time = mCurrentActionTime
  <2>1. n.kind = "end" /\ n.action = a /\ n.time = Duration[a] + mStartTime'[a]
    BY <1>2 DEF Handler, EndKey
  <2>2. mStartTime'[a] = mStartTime[a]
    BY <1>4, <1>7, <1>9, <1>11
  <2> QED
    BY <1>5, <2>1, <2>2 DEF GetEndTime
<1>13. Fresh' \subseteq Fresh \ S
  <2>1. mCurrentActionId + Cardinality(S) + 1 # 0
    BY <1>2, NewSetsFinite DEF KernelInv, TypeOK
  <2> QED
    BY <1>2, <1>7, <1>10, <2>1 DEF Fresh
<1>14. mActiveAction'[o] = u /\ \A p \in Objects \ {o} : mActiveAction'[p] = mActiveAction[p]
  BY <1>2, <1>5 DEF KernelInv, TypeOK
<1>15. Homes'
  <2>1. /\ \A g \in N : \/ g.kind # "end" /\ g.action \in S
                        \/ g.kind = "end" /\ g.action = h.action
        /\ \A g, k \in N : g.kind # "end" /\ k.kind # "end" /\ g.action = k.action => g = k
    BY <1>1, <1>2, <1>7, <1>12
  <2>2. \A p \in Objects :
          \/ mActiveAction'[p] = mActiveAction[p]
          \/ \E v \in Actions \ Fresh :
                /\ mActiveAction'[p] = v
                /\ Affected[v] = p
                /\ ~Delayed(v)'
                /\ Delayed(v) \/ (v = h.action /\ h.kind # "end")
    BY <1>8, <1>9, <1>14
  <2>3. S \in SUBSET Fresh /\ OwnQueue' /\ QueuedOnce' /\ \A b \in Actions : Delayed(b)' => Delayed(b)
    BY <1>7, <1>8
  <2> QED
    BY <1>4, <1>6, <1>13, <2>1, <2>2, <2>3, HomesStep
<1>16. Times'
  <2>1. \A g \in N : g.time = GetTime(g)' /\ mCurrentActionTime <= g.time
    <3>1. \A g \in StartHandlers(s) : g.time = mStartTime'[g.action]
      BY <1>7, <1>11
    <3> QED
      BY <1>2, <1>4, <1>7, <1>12, <3>1 DEF GetTime, GetEndTime
  <2>2. \A p \in Objects : Present(p)' => Present(p)
    BY <1>2, <1>3, <1>5, EndExecutionObjects DEF Present, KernelInv
  <2>3. ASSUME NEW p \in Objects
        PROVE  \/ mActiveAction'[p] = mActiveAction[p] /\ EndHandlers(p)' \subseteq EndHandlers(p)
               \/ \A g \in EndHandlers(p)' : g.time <= GetEndTime(mActiveAction[p])'
    <3>1. CASE p = o
      <4>1. \A g \in EndHandlers(o)' : g = n
        BY <1>2, <1>5, <1>6, <1>7 DEF EndHandlers
      <4>2. Duration[u] \in Nat
        BY <1>8, KernelAssumption
      <4>3. GetEndTime(u)' = Duration[u] + mCurrentActionTime
        BY <1>11 DEF GetEndTime
      <4>4. mCurrentActionTime <= Duration[u] + mCurrentActionTime
        BY <1>4, <4>2
      <4> QED
        BY <1>12, <1>14, <3>1, <4>1, <4>3, <4>4 DEF GetEndTime
    <3>2. CASE p # o
      <4>1. EndHandlers(p)' \subseteq EndHandlers(p)
        BY <1>1, <1>2, <1>6, <1>7, <1>12, <3>2 DEF EndHandlers
      <4> QED
        BY <1>14, <3>2, <4>1
    <3> QED
      BY <3>1, <3>2
  <2>4. \A b \in Actions : \/ mStartTime'[b] = mStartTime[b]
                           \/ b \in Fresh
                           \/ Delayed(b) /\ ~Delayed(b)'
    BY <1>7, <1>8, <1>11
  <2> QED
    BY <1>2, <1>3, <1>6, <1>8, <2>1, <2>2, <2>3, <2>4, TimesStep
<1> QED
  BY <1>15, <1>16

-----------------------------------------------------------------------------
(* Core steps, fibers and stuttering.                                      *)

\* Steps that move no handler, no action and no start time.
LEMMA SameHomes ==
    ASSUME Homes, Pending' = Pending,
           UNCHANGED <<mActionId, mActiveAction, mDelayedQueue>>
    PROVE  Homes' /\ \A a \in Actions : Delayed(a)' <=> Delayed(a)
<1>1. Fresh' = Fresh
  BY DEF Fresh
<1>2. \A a : Delayed(a)' <=> Delayed(a)
  BY DEF Delayed
<1> QED
  BY <1>1, <1>2 DEF Homes, OwnActive, OwnQueue, QueuedOnce, StartsOnce, StartsLater, DelayedIdle,
                    EndedStarted, FreshUnused

\* The part of Times that does not ask for the time.
LEMMA SameTimes ==
    ASSUME Times, Pending' = Pending,
           UNCHANGED <<mStartTime, mActiveAction, container>>
    PROVE  HandlerTimesAgree' /\ EndDueInTime'
<1>1. \A h : GetTime(h)' = GetTime(h)
  BY DEF GetTime, GetEndTime
<1>2. \A o \in Objects : EndHandlers(o)' = EndHandlers(o) /\ (Present(o)' <=> Present(o))
  BY DEF EndHandlers, Present
<1> QED
  BY <1>1, <1>2 DEF Times, HandlerTimesAgree, EndDueInTime, GetEndTime

\* The armed time is the first of the list.
LEMMA ArmTimerOrder ==
    ASSUME KernelInv, Homes, Times, ArmTimer PROVE Homes' /\ Times'
<1>1. PICK t \in Candidates :
        /\ NextTimePoint(t)
        /\ IF Safe /\ LoopChecks(t) # {}
           THEN Throw(LoopChecks(t))
           ELSE /\ mCurrentActionTime' = t
                /\ phase' = "timer"
                /\ failed' = failed \cup LoopChecks(t)
                /\ UNCHANGED <<mCurrentActionId, mActions, batch, actionVars,
                               objectVars, container>>
  BY DEF ArmTimer
<1>2. phase = "loop" /\ mActions # {} /\ batch = {}
  BY DEF ArmTimer, KernelInv, Drained
<1>3. CASE Safe /\ LoopChecks(t) # {}
  BY <1>1, <1>2, <1>3, ThrowOrder
<1>4. CASE ~(Safe /\ LoopChecks(t) # {})
  <2>1. /\ mCurrentActionTime' = t /\ phase' = "timer"
        /\ UNCHANGED <<mActions, batch, mStartTime, mActionId, mActiveAction, mDelayedQueue, container>>
    BY <1>1, <1>4 DEF actionVars, objectVars
  <2>2. Pending' = Pending /\ Pending = mActions
    BY <1>2, <2>1 DEF Pending
  <2>3. Homes' /\ \A a \in Actions : Delayed(a)' <=> Delayed(a)
    BY <2>1, <2>2, SameHomes
  <2>4. HandlerTimesAgree' /\ EndDueInTime'
    BY <2>1, <2>2, SameTimes
  <2>5. FirstTimePoint(t)
    BY <1>1, <1>2 DEF NextTimePoint
  <2>6. t \in Nat /\ mCurrentActionTime \in Nat \cup {Invalid} /\ mCurrentActionTime <= t
    BY <1>2, <2>2, <2>5 DEF FirstTimePoint, KernelInv, TypeOK, Handlers, Times, PendingNotPast
  <2>7. PendingNotPast' /\ TimerAtFirst' /\ BatchNow'
    BY <2>1, <2>2, <2>5 DEF FirstTimePoint, PendingNotPast, TimerAtFirst, BatchNow
  <2>8. DelayedNotLater'
    <3> SUFFICES ASSUME NEW a \in Actions, Delayed(a) PROVE mStartTime[a] <= t
      BY <2>1, <2>3 DEF DelayedNotLater
    <3>1. mStartTime[a] <= mCurrentActionTime /\ mStartTime[a] \in Nat
      BY <1>2 DEF Times, DelayedNotLater, KernelInv, TypeOK
    <3> QED
      BY <2>6, <3>1 DEF Invalid
  <2> QED
    BY <2>3, <2>4, <2>7, <2>8 DEF Times
<1> QED
  BY <1>3, <1>4

\* The end of the simulation moves no handler.
LEMMA FinishSimulationOrder ==
    ASSUME KernelInv, Homes, Times, FinishSimulation PROVE Homes' /\ Times'
<1>1. CASE Safe /\ LoopChecks(Invalid) # {}
  BY <1>1, ThrowOrder DEF FinishSimulation
<1>2. CASE ~(Safe /\ LoopChecks(Invalid) # {})
  <2>1. /\ phase' = "finished"
        /\ UNCHANGED <<mActions, batch, mStartTime, mActionId, mActiveAction, mDelayedQueue, container>>
    BY <1>2 DEF FinishSimulation, actionVars, objectVars
  <2>2. Pending' = Pending
    BY <2>1 DEF Pending
  <2>3. Homes'
    BY <2>1, <2>2, SameHomes
  <2>4. HandlerTimesAgree' /\ EndDueInTime'
    BY <2>1, <2>2, SameTimes
  <2> QED
    BY <2>1, <2>3, <2>4 DEF Times, PendingNotPast, TimerAtFirst, BatchNow, DelayedNotLater
<1> QED
  BY <1>1, <1>2

\* The time point that is popped is the one the timer was armed for.
LEMMA PoppedNow ==
    ASSUME KernelInv, Times, phase = "timer", NEW t \in Candidates, NextTimePoint(t)
    PROVE  t = mCurrentActionTime
<1>1. FirstTimePoint(mCurrentActionTime)
  BY DEF Times, TimerAtFirst
<1>2. FirstTimePoint(t)
  BY <1>1 DEF NextTimePoint, FirstTimePoint
<1>3. \A h \in mActions : h.time \in Nat
  BY DEF KernelInv, TypeOK, Handlers
<1> QED
  BY <1>1, <1>2, <1>3 DEF FirstTimePoint

\* Time advances to that of the handlers that are popped.
LEMMA PopNextHandlersOrder ==
    ASSUME KernelInv, Homes, Times, PopNextHandlers PROVE Homes' /\ Times'
<1>1. PICK t, checks :
        /\ t \in Candidates /\ NextTimePoint(t)
        /\ IF Safe /\ checks # {}
           THEN Throw(checks)
           ELSE /\ mActions' = mActions \ { h \in mActions : h.time = t }
                /\ batch' = { h \in mActions : h.time = t }
                /\ phase' = "batch"
                /\ failed' = failed \cup checks
                /\ UNCHANGED <<mCurrentActionTime, mCurrentActionId, actionVars,
                               objectVars, container>>
  BY DEF PopNextHandlers
<1>2. phase = "timer" /\ batch = {}
  BY DEF PopNextHandlers, KernelInv, Drained
<1>3. t = mCurrentActionTime
  BY <1>1, <1>2, PoppedNow
<1>4. CASE Safe /\ checks # {}
  BY <1>1, <1>2, <1>4, ThrowOrder
<1>5. CASE ~(Safe /\ checks # {})
  <2>1. /\ phase' = "batch" /\ \A h \in batch' : h.time = mCurrentActionTime
        /\ mActions' \cup batch' = mActions
        /\ UNCHANGED <<mCurrentActionTime, mStartTime, mActionId, mActiveAction, mDelayedQueue, container>>
    BY <1>1, <1>3, <1>5 DEF actionVars, objectVars
  <2>2. Pending' = Pending
    BY <1>2, <2>1 DEF Pending
  <2>3. Homes' /\ \A a \in Actions : Delayed(a)' <=> Delayed(a)
    BY <2>1, <2>2, SameHomes
  <2>4. HandlerTimesAgree' /\ EndDueInTime'
    BY <2>1, <2>2, SameTimes
  <2> QED
    BY <1>2, <2>1, <2>2, <2>3, <2>4
    DEF Times, PendingNotPast, TimerAtFirst, BatchNow, DelayedNotLater
<1> QED
  BY <1>4, <1>5

\* A fiber finishes, or nothing happens.
LEMMA QuietOrder ==
    ASSUME Homes, Times,
           UNCHANGED <<mCurrentActionTime, mActions, batch, phase, mStartTime, mActionId,
                       mActiveAction, mDelayedQueue, container>>
    PROVE  Homes' /\ Times'
<1>1. Pending' = Pending
  BY DEF Pending
<1>2. Homes' /\ \A a \in Actions : Delayed(a)' <=> Delayed(a)
  BY <1>1, SameHomes
<1>3. HandlerTimesAgree' /\ EndDueInTime'
  BY <1>1, SameTimes
<1> QED
  BY <1>1, <1>2, <1>3
  DEF Times, PendingNotPast, TimerAtFirst, FirstTimePoint, BatchNow, DelayedNotLater

\* A handler is invoked only in a batch.
LEMMA InvokeOrder ==
    ASSUME KernelInv, Homes, Times, NEW h \in batch, Invoke(h) PROVE Homes' /\ Times'
<1>1. CASE DropHandler(h)
  BY <1>1, DropHandlerOrder
<1>2. CASE InitNow(h)
  BY <1>2, InitNowOrder
<1>3. CASE InitLater(h)
  <2>1. /\ phase = "batch" /\ h.kind # "end" /\ Consume(h) /\ Delay(h.action, Affected[h.action])
        /\ UNCHANGED <<mCurrentActionTime, mActions, mStartTime, mActionId, mActiveAction, container>>
    BY <1>3 DEF InitLater, Due, actionVars
  <2> QED
    BY <2>1, DelayOrder
<1>4. ASSUME NEW checks, phase = "batch", Throw(checks) PROVE Homes' /\ Times'
  BY <1>4, ThrowOrder
<1>5. CASE StartLater(h)
  <2>1. CASE phase' = "thrown"
    <3>1. phase = "batch" /\ \E checks : Throw(checks)
      BY <1>5, <2>1 DEF StartLater, Due, Consume
    <3> QED
      BY <1>4, <3>1
  <2>2. CASE phase' # "thrown"
    <3>1. /\ phase = "batch" /\ h.kind # "end" /\ Consume(h) /\ Delay(h.action, Affected[h.action])
          /\ UNCHANGED <<mCurrentActionTime, mActions, mStartTime, mActionId, mActiveAction, container>>
      BY <1>5, <2>2 DEF StartLater, Due, Throw, actionVars
    <3> QED
      BY <3>1, DelayOrder
  <2> QED
    BY <2>1, <2>2
<1>6. CASE StartNow(h)
  <2>1. CASE phase' = "thrown"
    <3>1. phase = "batch" /\ \E checks : Throw(checks)
      BY <1>6, <2>1 DEF StartNow, Due, Consume
    <3> QED
      BY <1>4, <3>1
  <2> QED
    BY <1>6, <2>1, StartNowOrder
<1>7. CASE EndLast(h)
  <2>1. CASE phase' = "thrown"
    <3>1. phase = "batch" /\ \E checks : Throw(checks)
      BY <1>7, <2>1 DEF EndLast, Due, Consume
    <3> QED
      BY <1>4, <3>1
  <2> QED
    BY <1>7, <2>1, EndLastOrder
<1>8. CASE EndAndActivate(h)
  <2>1. CASE phase' = "thrown"
    <3>1. phase = "batch" /\ \E checks : Throw(checks)
      BY <1>8, <2>1 DEF EndAndActivate, Due, Consume
    <3> QED
      BY <1>4, <3>1
  <2> QED
    BY <1>8, <2>1, EndAndActivateOrder
<1> QED
  BY <1>1, <1>2, <1>3, <1>5, <1>6, <1>7, <1>8 DEF Invoke

-----------------------------------------------------------------------------
(* The enforced conditions.                                                *)

\* What the loop may find wrong is known.
LEMMA LoopChecksKnown == ASSUME NEW t PROVE LoopChecks(t) \subseteq KnownFailures
  BY DEF LoopChecks, Check, KnownFailures

\* An object that is asked for its first action has none recorded.
LEMMA StartChecksHold ==
    ASSUME RecordedWhenUsed, NEW o \in Objects, mFirstAction \in [Objects -> BOOLEAN]
    PROVE  StartChecks(o) = {}
<1>1. mFirstAction[o] \/ mCurrentAction[o] # 0
  BY DEF RecordedWhenUsed
<1> QED
  BY <1>1 DEF StartChecks, Check

\* The oldest delayed action was due before the active one ends.
LEMMA EndChecksKnown ==
    ASSUME KernelInv, Homes, Times, NEW h \in batch, Due(h, "end")
    PROVE  EndChecks(h.action, Affected[h.action]) \subseteq KnownFailures
<1>1. PICK o, q : o = Affected[h.action] /\ q = mDelayedQueue[o]
  OBVIOUS
<1>2. /\ phase = "batch" /\ h.action \in Actions
      /\ GetEndTime(h.action) = mCurrentActionTime
  BY DueNow DEF Due, GetTime
<1>3. o \in Objects /\ q \in Seq(Actions)
  BY <1>1, <1>2, KernelAssumption DEF KernelInv, TypeOK
<1>4. ASSUME q # <<>> PROVE mStartTime[Head(q)] <= GetEndTime(h.action)
  <2>1. Head(q) = q[1] /\ 1 \in DOMAIN q /\ Head(q) \in Actions
    BY <1>3, <1>4
  <2>2. Delayed(Head(q))
    BY <1>1, <1>3, <2>1 DEF Delayed, Homes, OwnQueue
  <2> QED
    BY <1>2, <2>1, <2>2 DEF Times, DelayedNotLater
<1> QED
  BY <1>1, <1>4 DEF EndChecks, Check, KnownFailures

\* A failed check of known name keeps the recorded actions.
LEMMA ThrowChecks ==
    ASSUME Checks, NEW checks \in SUBSET KnownFailures, Throw(checks) PROVE Checks'
  BY DEF Checks, OtherChecksHold, RecordedWhenUsed, Throw, objectVars

\* What the loop checks fails only under a known name.
LEMMA CoreChecks ==
    ASSUME KernelInv, Times, Checks, ArmTimer \/ FinishSimulation \/ PopNextHandlers
    PROVE  Checks'
<1>1. CASE ArmTimer
  <2>1. PICK t \in Candidates :
          IF Safe /\ LoopChecks(t) # {}
          THEN Throw(LoopChecks(t))
          ELSE /\ failed' = failed \cup LoopChecks(t)
               /\ UNCHANGED objectVars
    BY <1>1 DEF ArmTimer
  <2> QED
    BY <2>1, LoopChecksKnown, ThrowChecks DEF Checks, OtherChecksHold, RecordedWhenUsed, objectVars
<1>2. CASE FinishSimulation
  <2>1. IF Safe /\ LoopChecks(Invalid) # {}
        THEN Throw(LoopChecks(Invalid))
        ELSE failed' = failed \cup LoopChecks(Invalid) /\ UNCHANGED objectVars
    BY <1>2 DEF FinishSimulation
  <2> QED
    BY <2>1, LoopChecksKnown, ThrowChecks DEF Checks, OtherChecksHold, RecordedWhenUsed, objectVars
<1>3. CASE PopNextHandlers
  <2>1. PICK t \in Candidates :
          LET handlers == { h \in mActions : h.time = t }
              checks == Check("Core: currentAction time corresponds not to fetched action time",
                              \A h \in handlers : FirstOf(handlers, h) => mCurrentActionTime = GetTime(h))
          IN  /\ NextTimePoint(t)
              /\ IF Safe /\ checks # {}
                 THEN Throw(checks)
                 ELSE failed' = failed \cup checks /\ UNCHANGED objectVars
    BY <1>3 DEF PopNextHandlers
  <2>2. t = mCurrentActionTime
    BY <1>3, <2>1, PoppedNow DEF PopNextHandlers
  <2>3. \A h \in mActions : h.time = t => GetTime(h) = mCurrentActionTime
    BY <2>2 DEF Times, HandlerTimesAgree, Pending
  <2>4. failed' = failed /\ UNCHANGED objectVars
    BY <2>1, <2>3 DEF Check
  <2> QED
    BY <2>4 DEF Checks, OtherChecksHold, RecordedWhenUsed, objectVars
<1> QED
  BY <1>1, <1>2, <1>3

\* Nor does a check of a handler fail under any other name.
LEMMA InvokeChecks ==
    ASSUME KernelInv, Homes, Times, Checks, NEW h \in batch, Invoke(h) PROVE Checks'
<1>1. PICK a, o : a = h.action /\ o = Affected[a]
  OBVIOUS
<1>2. a \in Actions /\ o \in Objects /\ a # None /\ h \in Pending
  BY <1>1, DueFacts, KernelAssumption DEF Pending
<1>3. mActionId[a] # 0
  BY <1>1, <1>2 DEF Homes, FreshUnused, Fresh
<1>4. /\ mFirstAction \in [Objects -> BOOLEAN] /\ mCurrentAction \in [Objects -> Nat]
      /\ mActiveAction \in [Objects -> Actions \cup {None}]
  BY DEF KernelInv, TypeOK
<1>5. CASE DropHandler(h)
  BY <1>5 DEF DropHandler, Checks, OtherChecksHold, RecordedWhenUsed, objectVars
<1>6. CASE StartNow(h)
  <2>1. StartChecks(o) = {}
    BY <1>2, <1>4, StartChecksHold DEF Checks
  <2>2. /\ failed' = failed \cup StartChecks(o)
        /\ mFirstAction' = [mFirstAction EXCEPT ![o] = FALSE]
        /\ mActiveAction' = [mActiveAction EXCEPT ![o] = a]
        /\ mCurrentAction' = [mCurrentAction EXCEPT ![o] = mActionId[a]]
    BY <1>1, <1>6, <2>1 DEF StartNow
  <2>3. OtherChecksHold'
    BY <2>1, <2>2 DEF Checks, OtherChecksHold
  <2>4. RecordedWhenUsed'
    BY <1>2, <1>3, <1>4, <2>2 DEF Checks, RecordedWhenUsed
  <2> QED
    BY <2>3, <2>4 DEF Checks
<1>7. CASE StartLater(h)
  <2>1. StartChecks(o) = {}
    BY <1>2, <1>4, StartChecksHold DEF Checks
  <2>2. /\ failed' = failed \cup StartChecks(o)
        /\ mFirstAction' = [mFirstAction EXCEPT ![o] = FALSE]
        /\ UNCHANGED <<mActiveAction, mCurrentAction>>
    BY <1>1, <1>7, <2>1 DEF StartLater
  <2>3. mActiveAction[o] # None
    BY <1>1, <1>2, <1>7 DEF StartLater, CanStart, KernelInv, WaitingBehindActive
  <2>4. OtherChecksHold'
    BY <2>1, <2>2 DEF Checks, OtherChecksHold
  <2>5. RecordedWhenUsed'
    BY <1>2, <1>4, <2>2, <2>3 DEF Checks, RecordedWhenUsed
  <2> QED
    BY <2>4, <2>5 DEF Checks
<1>8. CASE EndLast(h)
  <2>1. EndChecks(a, o) \subseteq KnownFailures
    BY <1>1, <1>8, EndChecksKnown DEF EndLast
  <2>2. CASE Safe /\ EndChecks(a, o) # {}
    BY <1>1, <1>8, <2>1, <2>2, ThrowChecks DEF EndLast
  <2>3. CASE ~(Safe /\ EndChecks(a, o) # {})
    <3>1. /\ failed' = failed \cup EndChecks(a, o)
          /\ mActiveAction' = [mActiveAction EXCEPT ![o] = None]
          /\ UNCHANGED <<mFirstAction, mCurrentAction>>
      BY <1>1, <1>8, <2>3 DEF EndLast
    <3>2. OtherChecksHold'
      BY <2>1, <3>1 DEF Checks, OtherChecksHold
    <3>3. RecordedWhenUsed'
      BY <1>2, <1>4, <3>1 DEF Checks, RecordedWhenUsed
    <3> QED
      BY <3>2, <3>3 DEF Checks
  <2> QED
    BY <2>2, <2>3
<1>9. CASE EndAndActivate(h)
  <2>1. EndChecks(a, o) \subseteq KnownFailures
    BY <1>1, <1>9, EndChecksKnown DEF EndAndActivate
  <2>2. CASE Safe /\ EndChecks(a, o) # {}
    BY <1>1, <1>9, <2>1, <2>2, ThrowChecks DEF EndAndActivate
  <2>3. CASE ~(Safe /\ EndChecks(a, o) # {})
    <3>1. /\ failed' = failed \cup EndChecks(a, o)
          /\ mActiveAction' = [mActiveAction EXCEPT ![o] = Head(mDelayedQueue[o])]
          /\ mCurrentAction' = [mCurrentAction EXCEPT ![o] = mActionId[a]]
          /\ UNCHANGED mFirstAction
      BY <1>1, <1>9, <2>3 DEF EndAndActivate
    <3>2. OtherChecksHold'
      BY <2>1, <3>1 DEF Checks, OtherChecksHold
    <3>3. RecordedWhenUsed'
      BY <1>2, <1>3, <1>4, <3>1 DEF Checks, RecordedWhenUsed
    <3> QED
      BY <3>2, <3>3 DEF Checks
  <2> QED
    BY <2>2, <2>3
<1>10. CASE InitNow(h)
  <2>1. /\ mCurrentAction' = [mCurrentAction EXCEPT ![o] = mActionId[a]]
        /\ UNCHANGED <<mFirstAction, mActiveAction, failed>>
    BY <1>1, <1>10 DEF InitNow
  <2>2. RecordedWhenUsed'
    BY <1>2, <1>3, <1>4, <2>1 DEF Checks, RecordedWhenUsed
  <2> QED
    BY <2>1, <2>2 DEF Checks, OtherChecksHold
<1>11. CASE InitLater(h)
  BY <1>11 DEF InitLater, Checks, OtherChecksHold, RecordedWhenUsed
<1> QED
  BY <1>5, <1>6, <1>7, <1>8, <1>9, <1>10, <1>11 DEF Invoke

-----------------------------------------------------------------------------
(* The theorems.                                                           *)

\* The invariants of order hold at first.
LEMMA InitOrderInv == Init => OrderInv
<1> SUFFICES ASSUME Init PROVE OrderInv
  OBVIOUS
<1>1. KernelInv
  BY InitKernelInv
<1>2. Pending = { Handler(0, RootIndex(a), "init", a) : a \in RootActions }
  BY DEF Init, Pending
<1>3. \A h \in Pending : /\ h.kind = "init" /\ h.time = 0
                         /\ h.action \in RootActions
                         /\ h = Handler(0, RootIndex(h.action), "init", h.action)
  BY <1>2 DEF Handler
<1>4. \A a \in Actions : ~Delayed(a)
  <2>1. \A a \in Actions : mDelayedQueue[Affected[a]] = <<>>
    BY KernelAssumption DEF Init
  <2> QED
    BY <2>1 DEF Delayed
<1>5. \A a \in RootActions : a \in Actions /\ mActionId[a] # 0
  BY RootIndexType, KernelAssumption DEF Init
<1>6. \A o \in Objects : mActiveAction[o] = None
  BY DEF Init
<1>7. \A a \in Actions : Affected[a] \in Objects /\ a # None
  BY KernelAssumption
<1>8. Homes
  <2>1. OwnActive
    BY <1>6 DEF OwnActive
  <2>2. OwnQueue /\ QueuedOnce
    BY DEF Init, OwnQueue, QueuedOnce
  <2>3. StartsOnce /\ EndedStarted
    BY <1>3 DEF StartsOnce, EndedStarted
  <2>4. StartsLater
    BY <1>3, <1>4, <1>5, <1>6, <1>7 DEF StartsLater
  <2>5. DelayedIdle
    BY <1>4 DEF DelayedIdle
  <2>6. FreshUnused
    BY <1>3, <1>4, <1>5, <1>6, <1>7 DEF FreshUnused, Fresh
  <2> QED
    BY <2>1, <2>2, <2>3, <2>4, <2>5, <2>6 DEF Homes
<1>9. Times
  <2>1. HandlerTimesAgree
    BY <1>3, <1>5 DEF HandlerTimesAgree, GetTime, Init
  <2>2. PendingNotPast
    BY <1>3 DEF PendingNotPast, Init
  <2> QED
    BY <1>4, <1>6, <2>1, <2>2
    DEF Init, Times, TimerAtFirst, BatchNow, DelayedNotLater, EndDueInTime
<1>10. Checks
  BY DEF Init, Checks, OtherChecksHold, RecordedWhenUsed
<1> QED
  BY <1>1, <1>8, <1>9, <1>10 DEF OrderInv

\* No step breaks the invariants of order.
LEMMA NextOrderInv == OrderInv /\ [Next]_vars => OrderInv'
<1> SUFFICES ASSUME OrderInv, [Next]_vars PROVE OrderInv'
  OBVIOUS
<1> USE DEF OrderInv
<1>1. KernelInv'
  BY NextKernelInv
<1>2. CASE ArmTimer \/ FinishSimulation \/ PopNextHandlers
  BY <1>1, <1>2, CoreChecks, ArmTimerOrder, FinishSimulationOrder, PopNextHandlersOrder
<1>3. ASSUME NEW h \in batch, Invoke(h) PROVE OrderInv'
  BY <1>1, <1>3, InvokeOrder, InvokeChecks
<1>4. ASSUME NEW o \in Objects, FiberFinishes(o) PROVE OrderInv'
  <2>1. Homes' /\ Times'
    BY <1>4, QuietOrder DEF FiberFinishes, actionVars
  <2> QED
    BY <1>1, <1>4, <2>1 DEF FiberFinishes, Checks, OtherChecksHold, RecordedWhenUsed
<1>5. CASE UNCHANGED vars
  <2>1. Homes' /\ Times'
    BY <1>5, QuietOrder DEF vars, actionVars, objectVars
  <2> QED
    BY <1>1, <1>5, <2>1 DEF vars, objectVars, Checks, OtherChecksHold, RecordedWhenUsed
<1> QED
  BY <1>2, <1>3, <1>4, <1>5 DEF Next, CoreStep, Stopped

\* The strengthened invariant holds in every reachable state.
THEOREM KernelOrderInvariant == Spec => []OrderInv
  BY InitOrderInv, NextOrderInv, PTL DEF Spec

\* The key under which ActionList stores a handler is always the time its
\* action reports: no shiftStartTime moves an action that has a handler.
THEOREM KernelHandlerTimesAgree == Spec => []HandlerTimesAgree
<1>1. OrderInv => HandlerTimesAgree
  BY DEF OrderInv, Times
<1> QED
  BY <1>1, KernelOrderInvariant, PTL

\* No handler is ever inserted before the time being simulated, so events
\* are executed at their time and simulated time does not go back
\* (ActionList::insertHandler, Core::runSimulationLoop).
THEOREM KernelPendingNotPast == Spec => []PendingNotPast
<1>1. OrderInv => PendingNotPast
  BY DEF OrderInv, Times
<1> QED
  BY <1>1, KernelOrderInvariant, PTL

\* Of the conditions the safe build enforces in Core, Action and BaseObject
\* only two can be false: "wrong order of actions", when the list is empty,
\* and "ends wrong action", after a delayed action was activated.
THEOREM KernelOtherChecksHold == Spec => []OtherChecksHold
<1>1. OrderInv => OtherChecksHold
  BY DEF OrderInv, Checks
<1> QED
  BY <1>1, KernelOrderInvariant, PTL

\* A set whose members are all equal has at most one.
LEMMA AtMostOne ==
    ASSUME NEW T, \A x, y \in T : x = y
    PROVE  Cardinality(T) = IF T = {} THEN 0 ELSE 1
<1>1. CASE T = {}
  BY <1>1, FS_EmptySet
<1>2. CASE T # {}
  <2>1. PICK x \in T : TRUE
    BY <1>2
  <2>2. T = {x}
    BY <2>1
  <2> QED
    BY <1>2, <2>2, FS_Singleton
<1> QED
  BY <1>1, <1>2

\* A scheduled action is in one place: a start handler, a position in its
\* object's queue, or active (ActionList, ObjectActionManager).
THEOREM KernelOneHome == Spec => []OneHome
<1>1. OrderInv => OneHome
  <2> SUFFICES ASSUME OrderInv, NEW a \in Actions
               PROVE  LET o == Affected[a]
                          starts == { h \in Pending : h.action = a /\ h.kind # "end" }
                          places == { i \in DOMAIN mDelayedQueue[o] : mDelayedQueue[o][i] = a }
                      IN  Cardinality(starts) + Cardinality(places)
                            + (IF mActiveAction[o] = a THEN 1 ELSE 0) <= 1
    BY DEF OneHome
  <2>1. PICK o, starts, places :
          /\ o = Affected[a]
          /\ starts = { h \in Pending : h.action = a /\ h.kind # "end" }
          /\ places = { i \in DOMAIN mDelayedQueue[o] : mDelayedQueue[o][i] = a }
    OBVIOUS
  <2>2. o \in Objects
    BY <2>1, KernelAssumption
  <2>3. Cardinality(starts) = IF starts = {} THEN 0 ELSE 1
    <3>1. \A g, h \in starts : g = h
      BY <2>1 DEF OrderInv, Homes, StartsOnce
    <3> QED
      BY <3>1, AtMostOne
  <2>4. Cardinality(places) = IF places = {} THEN 0 ELSE 1
    <3>1. \A i, j \in places : i = j
      BY <2>1, <2>2 DEF OrderInv, Homes, QueuedOnce
    <3> QED
      BY <3>1, AtMostOne
  <2>5. places # {} => Delayed(a)
    BY <2>1 DEF Delayed
  <2>6. starts # {} => ~Delayed(a) /\ mActiveAction[o] # a
    BY <2>1 DEF OrderInv, Homes, StartsLater
  <2>7. Delayed(a) => mActiveAction[o] # a
    BY <2>1 DEF OrderInv, Homes, DelayedIdle
  <2>8. Cardinality(starts) + Cardinality(places) + (IF mActiveAction[o] = a THEN 1 ELSE 0) <= 1
    BY <2>3, <2>4, <2>5, <2>6, <2>7
  <2> QED
    BY <2>1, <2>8
<1> QED
  BY <1>1, KernelOrderInvariant, PTL

-----------------------------------------------------------------------------
(* The kernel implements the serial servers.                               *)

\* The future an object holds is the active action's, for a removed object
\* too.
FutureMatches == \A o \in Objects : mFuture[o] = mActiveAction[o]

ServedInv == OrderInv /\ FutureMatches

-----------------------------------------------------------------------------
(* The mapping.                                                            *)

\* Consuming handler h and inserting handlers for the new actions S lets at
\* most h's action arrive.
LEMMA ArrivedStep ==
    ASSUME KernelInv, Homes, NEW h \in Pending, NEW N, NEW S \in SUBSET Fresh,
           Pending' = (Pending \ {h}) \cup N,
           \A g \in N : g.kind # "end" => g.action \in S,
           \A a \in S : \E g \in N : g.kind # "end" /\ g.action = a,
           \A a \in Actions \ S : mActionId'[a] # 0 <=> mActionId[a] # 0
    PROVE  /\ h.kind = "end" => arrivedActions' = arrivedActions
           /\ h.kind # "end" => /\ arrivedActions' = arrivedActions \cup {h.action}
                                /\ h.action \notin arrivedActions
<1>1. S \subseteq Actions /\ \A a \in S : mActionId[a] = 0
  BY DEF Fresh
<1>2. h.action \in Actions /\ mActionId[h.action] # 0 /\ h.action \notin S
  BY <1>1, PendingType DEF Homes, FreshUnused, Fresh
<1>3. \A a \in S : a \notin arrivedActions /\ a \notin arrivedActions'
  BY <1>1 DEF arrivedActions
<1>4. ASSUME NEW a \in Actions \ S
      PROVE  a \in arrivedActions' <=> a \in arrivedActions \/ (a = h.action /\ h.kind # "end")
  <2>1. \A g \in N : g.action = a => g.kind = "end"
    OBVIOUS
  <2>2. CASE a = h.action /\ h.kind # "end"
    <3>1. \A g \in Pending \ {h} : g.action = a => g.kind = "end"
      BY <2>2 DEF Homes, StartsOnce
    <3> QED
      BY <1>2, <2>1, <2>2, <3>1 DEF arrivedActions
  <2>3. CASE ~(a = h.action /\ h.kind # "end")
    <3>1. (\A g \in Pending' : g.action = a => g.kind = "end")
            <=> (\A g \in Pending : g.action = a => g.kind = "end")
      BY <2>1, <2>3
    <3> QED
      BY <2>3, <3>1 DEF arrivedActions
  <2> QED
    BY <2>2, <2>3
<1>5. arrivedActions \subseteq Actions /\ arrivedActions' \subseteq Actions
  BY DEF arrivedActions
<1>6. h.kind # "end" => h.action \notin arrivedActions
  BY DEF arrivedActions
<1> QED
  BY <1>2, <1>3, <1>4, <1>5, <1>6

\* The same when nothing is scheduled.
LEMMA ArrivedAlone ==
    ASSUME KernelInv, Homes, NEW h \in batch, Consume(h),
           NEW N, mActions' = mActions \cup N, \A g \in N : g.kind = "end",
           \A a \in Actions : mActionId'[a] # 0 <=> mActionId[a] # 0
    PROVE  /\ h.kind = "end" => arrivedActions' = arrivedActions
           /\ h.kind # "end" => /\ arrivedActions' = arrivedActions \cup {h.action}
                                /\ h.action \notin arrivedActions
<1>1. h \in Pending /\ Pending' = (Pending \ {h}) \cup N
  BY PendingStep
<1>2. PICK S \in SUBSET Fresh : S = {}
  OBVIOUS
<1> QED
  BY <1>1, <1>2, ArrivedStep

\* Steps the servers do not show.
LEMMA Unseen ==
    ASSUME Pending' = Pending, UNCHANGED <<mActionId, objectVars, container>>
    PROVE  UNCHANGED Server!vars
<1>1. arrivedActions' = arrivedActions
  BY DEF arrivedActions
<1>2. computedFor' = computedFor /\ removedObjects' = removedObjects
  BY DEF computedFor, removedObjects, objectVars
<1> QED
  BY <1>1, <1>2 DEF Server!vars, objectVars

\* A throw is no step of the server.
LEMMA UnseenThrow == ASSUME NEW checks, Throw(checks) PROVE UNCHANGED Server!vars
<1>1. Pending' = Pending
  BY DEF Throw, Pending
<1> QED
  BY <1>1, Unseen DEF Throw, actionVars

-----------------------------------------------------------------------------
(* The steps.                                                              *)

\* The kernel starts as the server does.
LEMMA ServerInit == Init => Server!Init
<1> SUFFICES ASSUME Init PROVE Server!Init
  OBVIOUS
<1>1. arrivedActions = {}
  <2> SUFFICES ASSUME NEW a \in Actions, mActionId[a] # 0
               PROVE  \E h \in Pending : h.action = a /\ h.kind # "end"
    BY DEF arrivedActions
  <2>1. a \in RootActions
    BY DEF Init
  <2>2. Handler(0, RootIndex(a), "init", a) \in Pending
    BY <2>1 DEF Init, Pending
  <2> QED
    BY <2>2 DEF Handler
<1>2. computedFor = [o \in Objects |-> FALSE]
  BY DEF Init, computedFor
<1>3. removedObjects = {}
  BY DEF Init, removedObjects
<1> QED
  BY <1>1, <1>2, <1>3 DEF Server!Init, Init

\* An action of a removed object is lost; an end handler of one is no step.
LEMMA DropServes ==
    ASSUME OrderInv, NEW h \in batch, DropHandler(h) PROVE [Server!Next]_(Server!vars)
<1>1. PICK a \in Actions : a = h.action
  BY DueFacts DEF OrderInv
<1>2. PICK N : N = {}
  OBVIOUS
<1>3. /\ Consume(h) /\ container[Affected[a]] = "removed" /\ mActions' = mActions \cup N
      /\ UNCHANGED <<mActionId, objectVars, container>>
  BY <1>1, <1>2 DEF DropHandler, actionVars
<1>4. /\ h.kind = "end" => arrivedActions' = arrivedActions
      /\ h.kind # "end" => arrivedActions' = arrivedActions \cup {a} /\ a \notin arrivedActions
  BY <1>1, <1>2, <1>3, ArrivedAlone DEF OrderInv
<1>5. UNCHANGED <<mActiveAction, mDelayedQueue, computedFor, removedObjects>>
  BY <1>3 DEF objectVars, computedFor, removedObjects
<1>6. CASE h.kind = "end"
  BY <1>4, <1>5, <1>6 DEF Server!vars
<1>7. CASE h.kind # "end"
  <2>1. Affected[a] \in removedObjects
    BY <1>1, <1>3, KernelAssumption DEF removedObjects
  <2>2. Server!Lose(a)
    BY <1>4, <1>5, <1>7, <2>1 DEF Server!Lose, Server!Arrive
  <2> QED
    BY <2>2 DEF Server!Next
<1> QED
  BY <1>6, <1>7

\* Starting an action at an idle object is serving it.
LEMMA StartNowServes ==
    ASSUME OrderInv, NEW h \in batch, StartNow(h) PROVE [Server!Next]_(Server!vars)
<1>1. PICK a \in Actions : a = h.action
  BY DueFacts DEF OrderInv
<1>2. PICK o \in Objects : o = Affected[a]
  BY <1>1, KernelAssumption
<1>3. CASE phase' = "thrown"
  <2>1. \E checks : Throw(checks)
    BY <1>3 DEF StartNow, Consume
  <2> QED
    BY <2>1, UnseenThrow
<1>4. CASE phase' # "thrown"
  <2>1. PICK N :
          /\ N = {Handler(GetEndTime(a), mCurrentActionId + 1, "end", a)}
          /\ h.kind = "start" /\ CanStart(o) /\ container[o] = "active"
          /\ Consume(h)
          /\ mActiveAction' = [mActiveAction EXCEPT ![o] = a]
          /\ mActionId' = [mActionId EXCEPT ![a] = mCurrentActionId + 1]
          /\ mActions' = mActions \cup N
          /\ LaunchFiber(a, o)
          /\ UNCHANGED <<mDelayedQueue, container>>
    BY <1>1, <1>2, <1>4 DEF StartNow, Due, Throw
  <2>2. \A b \in Actions : mActionId'[b] # 0 <=> mActionId[b] # 0
    <3>1. mActionId[a] # 0 /\ mCurrentActionId + 1 # 0 /\ mActionId \in [Actions -> Nat]
      BY <1>1 DEF OrderInv, KernelInv, TypeOK, Homes, FreshUnused, Fresh, Pending
    <3> QED
      BY <2>1, <3>1
  <2>3. arrivedActions' = arrivedActions \cup {a} /\ a \notin arrivedActions
    <3>1. \A g \in N : g.kind = "end"
      BY <2>1 DEF Handler
    <3> QED
      BY <1>1, <2>1, <2>2, <3>1, ArrivedAlone DEF OrderInv
  <2>4. computedFor' = [computedFor EXCEPT ![o] = FALSE]
    BY <1>2, <2>1 DEF computedFor, LaunchFiber, OrderInv, KernelInv, TypeOK
  <2>5. o \notin removedObjects /\ removedObjects' = removedObjects
    BY <2>1 DEF removedObjects
  <2>6. Server!Serve(a)
    BY <1>2, <2>1, <2>3, <2>4, <2>5 DEF Server!Serve, Server!Arrive, CanStart
  <2> QED
    BY <2>6 DEF Server!Next
<1> QED
  BY <1>3, <1>4

\* A start or init handler on a busy object.
LEMMA LaterServes ==
    ASSUME OrderInv, NEW h \in batch, h.kind # "end", Consume(h),
           container[Affected[h.action]] = "active", ~CanStart(Affected[h.action]),
           Delay(h.action, Affected[h.action]),
           UNCHANGED <<mActions, mActionId, mActiveAction, mFuture, ready, container>>
    PROVE  [Server!Next]_(Server!vars)
<1>1. PICK a \in Actions : a = h.action
  BY DueFacts DEF OrderInv
<1>2. PICK o \in Objects : o = Affected[a]
  BY <1>1, KernelAssumption
<1>3. PICK N : N = {}
  OBVIOUS
<1>4. arrivedActions' = arrivedActions \cup {a} /\ a \notin arrivedActions
  BY <1>1, <1>3, ArrivedAlone DEF OrderInv
<1>5. mActiveAction[o] # None
  BY <1>1, <1>2 DEF CanStart, OrderInv, KernelInv, WaitingBehindActive
<1>6. o \notin removedObjects /\ UNCHANGED <<removedObjects, computedFor>>
  BY <1>1, <1>2 DEF removedObjects, computedFor
<1>7. Server!Queue(a)
  BY <1>1, <1>2, <1>4, <1>5, <1>6 DEF Server!Queue, Server!Arrive, Delay
<1> QED
  BY <1>7 DEF Server!Next

\* Delaying an action is queueing it; a throw is no step.
LEMMA StartLaterServes ==
    ASSUME OrderInv, NEW h \in batch, StartLater(h) PROVE [Server!Next]_(Server!vars)
<1>1. CASE phase' = "thrown"
  <2>1. \E checks : Throw(checks)
    BY <1>1 DEF StartLater, Consume
  <2> QED
    BY <2>1, UnseenThrow
<1>2. CASE phase' # "thrown"
  BY <1>2, LaterServes DEF StartLater, Due, Throw, actionVars
<1> QED
  BY <1>1, <1>2

\* Delaying an init action is queueing it.
LEMMA InitLaterServes ==
    ASSUME OrderInv, NEW h \in batch, InitLater(h) PROVE [Server!Next]_(Server!vars)
  BY LaterServes DEF InitLater, Due, actionVars

\* What is scheduled has not arrived.
LEMMA ScheduledArrived ==
    ASSUME OrderInv, NEW h \in batch, Consume(h),
           NEW S \in NewSets, NEW bases \in SUBSET Nat, NEW s \in Schedules(bases, S),
           NEW E, \A g \in E : g.kind = "end",
           mActions' = mActions \cup (StartHandlers(s) \cup E),
           \A a \in Actions : mActionId'[a] # 0 <=> ActionIds(s)[a] # 0
    PROVE  /\ h.kind = "end" => arrivedActions' = arrivedActions
           /\ h.kind # "end" => /\ arrivedActions' = arrivedActions \cup {h.action}
                                /\ h.action \notin arrivedActions
<1>1. PICK N : N = StartHandlers(s) \cup E
  OBVIOUS
<1>2. h \in Pending /\ Pending' = (Pending \ {h}) \cup N
  BY <1>1, PendingStep DEF OrderInv
<1>3. /\ S \in SUBSET Fresh
      /\ \A g \in StartHandlers(s) : g.kind # "end" /\ g.action \in S
      /\ \A a \in S : \E g \in StartHandlers(s) : g.action = a
      /\ \A a \in Actions \ S : ActionIds(s)[a] = mActionId[a]
  BY ScheduleFacts DEF OrderInv, KernelInv
<1>4. /\ \A g \in N : g.kind # "end" => g.action \in S
      /\ \A a \in S : \E g \in N : g.kind # "end" /\ g.action = a
      /\ \A a \in Actions \ S : mActionId'[a] # 0 <=> mActionId[a] # 0
  BY <1>1, <1>3
<1> QED
  BY <1>2, <1>3, <1>4, ArrivedStep DEF OrderInv

\* An init action is served at once.
LEMMA InitNowServes ==
    ASSUME OrderInv, NEW h \in batch, InitNow(h) PROVE [Server!Next]_(Server!vars)
<1>1. PICK a \in Actions : a = h.action
  BY DueFacts DEF OrderInv
<1>2. PICK o \in Objects : o = Affected[a]
  BY <1>1, KernelAssumption
<1>3. PICK S, s :
        /\ S \in NewSets /\ s \in Schedules({mStartTime[a]}, S)
        /\ Consume(h)
        /\ mActions' = mActions \cup StartHandlers(s)
        /\ mActionId' = ActionIds(s)
        /\ UNCHANGED <<mActiveAction, mDelayedQueue, mFuture, ready, container>>
  BY <1>1 DEF InitNow
<1>4. h.kind # "end" /\ CanStart(o) /\ container[o] = "active"
  BY <1>1, <1>2 DEF InitNow, Due
<1>5. arrivedActions' = arrivedActions \cup {a} /\ a \notin arrivedActions
  <2>1. PICK E, bases : E = {} /\ bases = {mStartTime[a]}
    OBVIOUS
  <2>2. bases \in SUBSET Nat /\ \A g \in E : g.kind = "end"
    BY <2>1 DEF OrderInv, KernelInv, TypeOK
  <2>3. mActions' = mActions \cup (StartHandlers(s) \cup E)
    BY <1>3, <2>1
  <2> QED
    BY <1>1, <1>3, <1>4, <2>1, <2>2, <2>3, ScheduledArrived
<1>6. o \notin removedObjects /\ UNCHANGED <<removedObjects, computedFor>>
  BY <1>3, <1>4 DEF removedObjects, computedFor
<1>7. Server!ServeAtOnce(a)
  BY <1>2, <1>3, <1>4, <1>5, <1>6 DEF Server!ServeAtOnce, Server!Arrive, CanStart
<1> QED
  BY <1>7 DEF Server!Next

\* The objects endExecution removes are others, and were there.
LEMMA RemovedByEnd ==
    ASSUME OrderInv, NEW o \in Objects, NEW s, NEW gone \in SUBSET Removable(o),
           container[o] = "active", EndExecution(o, s, gone)
    PROVE  /\ o \notin removedObjects
           /\ computedFor[o]
           /\ \E removed \in SUBSET (Objects \ ({o} \cup removedObjects)) :
                 removedObjects' = removedObjects \cup removed
<1>1. gone \in SUBSET (Objects \ ({o} \cup removedObjects))
  BY DEF Removable, removedObjects
<1>2. removedObjects' = removedObjects \cup gone
  BY <1>1 DEF EndExecution, Resolved, removedObjects
<1> QED
  BY <1>1, <1>2 DEF removedObjects, computedFor, EndExecution

\* An object that becomes idle leaves its action.
LEMMA EndLastServes ==
    ASSUME OrderInv, NEW h \in batch, EndLast(h) PROVE [Server!Next]_(Server!vars)
<1>1. PICK a \in Actions : a = h.action
  BY DueFacts DEF OrderInv
<1>2. PICK o \in Objects : o = Affected[a]
  BY <1>1, KernelAssumption
<1>3. CASE phase' = "thrown"
  <2>1. \E checks : Throw(checks)
    BY <1>3 DEF EndLast, Consume
  <2> QED
    BY <2>1, UnseenThrow
<1>4. CASE phase' # "thrown"
  <2>1. PICK S, s, gone :
          /\ S \in NewSets /\ s \in Schedules(Bases(a, mFuture[o]), S)
          /\ gone \in SUBSET Removable(o)
          /\ EndExecution(o, s, gone)
          /\ Consume(h)
          /\ mActiveAction' = [mActiveAction EXCEPT ![o] = None]
          /\ mFuture' = [mFuture EXCEPT ![o] = None]
          /\ mActions' = mActions \cup StartHandlers(s)
          /\ mActionId' = ActionIds(s)
          /\ UNCHANGED <<mDelayedQueue, ready>>
    BY <1>1, <1>2, <1>4 DEF EndLast, Throw
  <2>2. /\ phase = "batch" /\ h.kind = "end" /\ container[o] = "active"
        /\ mDelayedQueue[o] = <<>> /\ mFuture[o] # None
    BY <1>1, <1>2, <2>1 DEF EndLast, Due, NothingDelayed, EndExecution
  <2>3. Bases(a, mFuture[o]) \in SUBSET Nat
    BY <1>1, <1>2, <2>2, EndBases DEF OrderInv
  <2>4. arrivedActions' = arrivedActions
    <3>1. PICK E, bases : E = {} /\ bases = Bases(a, mFuture[o])
      OBVIOUS
    <3>2. mActions' = mActions \cup (StartHandlers(s) \cup E) /\ \A g \in E : g.kind = "end"
      BY <2>1, <3>1
    <3> QED
      BY <2>1, <2>2, <2>3, <3>1, <3>2, ScheduledArrived
  <2>5. /\ o \notin removedObjects /\ computedFor[o]
        /\ \E removed \in SUBSET (Objects \ ({o} \cup removedObjects)) :
              removedObjects' = removedObjects \cup removed
    BY <2>1, <2>2, RemovedByEnd
  <2>6. mActiveAction[o] # None
    BY <2>2 DEF OrderInv, KernelInv, PresentBusy, Present
  <2>7. computedFor' = [computedFor EXCEPT ![o] = FALSE]
    BY <2>1 DEF computedFor, OrderInv, KernelInv, TypeOK
  <2>8. Server!Leave(o)
    BY <2>1, <2>2, <2>4, <2>5, <2>6, <2>7 DEF Server!Leave
  <2> QED
    BY <2>8 DEF Server!Next
<1> QED
  BY <1>3, <1>4

\* An object that takes a delayed action leaves one and serves the next.
LEMMA EndAndActivateServes ==
    ASSUME OrderInv, NEW h \in batch, EndAndActivate(h) PROVE [Server!Next]_(Server!vars)
<1>1. PICK a \in Actions : a = h.action
  BY DueFacts DEF OrderInv
<1>2. PICK o \in Objects : o = Affected[a]
  BY <1>1, KernelAssumption
<1>3. CASE phase' = "thrown"
  <2>1. \E checks : Throw(checks)
    BY <1>3 DEF EndAndActivate, Consume
  <2> QED
    BY <2>1, UnseenThrow
<1>4. CASE phase' # "thrown"
  <2>1. PICK u : u = Head(mDelayedQueue[o])
    OBVIOUS
  <2>2. PICK S, s, gone, key :
          /\ S \in NewSets /\ s \in Schedules(Bases(a, mFuture[o]), S)
          /\ gone \in SUBSET Removable(o)
          /\ EndExecution(o, s, gone)
          /\ Consume(h)
          /\ mActiveAction' = [mActiveAction EXCEPT ![o] = u]
          /\ mDelayedQueue' = [mDelayedQueue EXCEPT ![o] = Tail(@)]
          /\ LaunchFiber(u, o)
          /\ mActions' = mActions \cup StartHandlers(s)
                         \cup {Handler(key, mCurrentActionId + Cardinality(S) + 1, "end", a)}
          /\ mActionId' = [ActionIds(s) EXCEPT ![a] = mCurrentActionId + Cardinality(S) + 1]
    BY <1>1, <1>2, <1>4, <2>1 DEF EndAndActivate, Throw, Rescheduled, Dequeue
  <2>3. /\ phase = "batch" /\ h.kind = "end" /\ container[o] = "active"
        /\ mDelayedQueue[o] # <<>> /\ mFuture[o] # None
    BY <1>1, <1>2, <2>2 DEF EndAndActivate, Due, NothingDelayed, EndExecution
  <2>4. Bases(a, mFuture[o]) \in SUBSET Nat
    BY <1>1, <1>2, <2>3, EndBases DEF OrderInv
  <2>5. arrivedActions' = arrivedActions
    <3>1. PICK E, bases :
            /\ E = {Handler(key, mCurrentActionId + Cardinality(S) + 1, "end", a)}
            /\ bases = Bases(a, mFuture[o])
      OBVIOUS
    <3>2. mActions' = mActions \cup (StartHandlers(s) \cup E) /\ \A g \in E : g.kind = "end"
      BY <2>2, <3>1 DEF Handler
    <3>3. \A b \in Actions : mActionId'[b] # 0 <=> ActionIds(s)[b] # 0
      <4>1. mCurrentActionId + Cardinality(S) + 1 # 0
        BY <2>2, NewSetsFinite DEF OrderInv, KernelInv, TypeOK
      <4>2. a \notin Fresh
        BY <1>1, <2>3, DueNow DEF OrderInv
      <4>3. ActionIds(s)[a] # 0
        BY <2>2, <2>4, <4>2, ScheduleFacts DEF OrderInv, KernelInv, Fresh
      <4>4. ActionIds(s) \in [Actions -> Nat]
        BY <2>2, <2>4, ScheduleTypes DEF OrderInv, KernelInv
      <4>5. PICK ids, id : ids = ActionIds(s) /\ id = mCurrentActionId + Cardinality(S) + 1
        OBVIOUS
      <4>6. mActionId' = [ids EXCEPT ![a] = id] /\ id # 0 /\ ids \in [Actions -> Nat]
        BY <2>2, <4>1, <4>4, <4>5
      <4>7. \A b \in Actions : mActionId'[b] = IF b = a THEN id ELSE ids[b]
        BY <4>6
      <4>8. ids[a] # 0
        BY <4>3, <4>5
      <4>9. \A b \in Actions : mActionId'[b] # 0 <=> ids[b] # 0
        BY <4>6, <4>7, <4>8
      <4> QED
        BY <4>5, <4>9
    <3>4. S \in NewSets /\ bases \in SUBSET Nat /\ s \in Schedules(bases, S) /\ Consume(h)
      BY <2>2, <2>4, <3>1
    <3> QED
      BY <2>3, <3>2, <3>3, <3>4, ScheduledArrived
  <2>6. /\ o \notin removedObjects /\ computedFor[o]
        /\ \E removed \in SUBSET (Objects \ ({o} \cup removedObjects)) :
              removedObjects' = removedObjects \cup removed
    BY <2>2, <2>3, RemovedByEnd
  <2>7. mActiveAction[o] # None
    BY <2>3 DEF OrderInv, KernelInv, PresentBusy, Present
  <2>8. computedFor' = [computedFor EXCEPT ![o] = FALSE]
    BY <2>2 DEF computedFor, LaunchFiber, OrderInv, KernelInv, TypeOK
  <2>9. Server!Leave(o)
    BY <2>1, <2>2, <2>3, <2>5, <2>6, <2>7, <2>8 DEF Server!Leave
  <2> QED
    BY <2>9 DEF Server!Next
<1> QED
  BY <1>3, <1>4

\* The end of a fiber computes the action served, and nothing else.
LEMMA FiberServes ==
    ASSUME ServedInv, NEW o \in Objects, FiberFinishes(o) PROVE [Server!Next]_(Server!vars)
<1>1. arrivedActions' = arrivedActions
  BY DEF FiberFinishes, actionVars, arrivedActions, Pending
<1>2. removedObjects' = removedObjects
  BY DEF FiberFinishes, removedObjects
<1>3. ~computedFor[o] /\ computedFor' = [computedFor EXCEPT ![o] = TRUE]
  BY DEF FiberFinishes, computedFor, ServedInv, OrderInv, KernelInv, TypeOK
<1>4. mActiveAction[o] # None
  BY DEF FiberFinishes, ServedInv, FutureMatches
<1>5. Server!Compute(o)
  BY <1>1, <1>2, <1>3, <1>4 DEF Server!Compute, FiberFinishes
<1> QED
  BY <1>5 DEF Server!Next

\* The future and the active action are set together.
LEMMA NextFutureMatches == ServedInv /\ [Next]_vars => FutureMatches'
<1> SUFFICES ASSUME ServedInv, [Next]_vars PROVE FutureMatches'
  OBVIOUS
<1> USE DEF FutureMatches
<1>1. /\ FutureMatches
      /\ mActiveAction \in [Objects -> Actions \cup {None}]
      /\ mFuture \in [Objects -> Actions \cup {None}]
  BY DEF ServedInv, OrderInv, KernelInv, TypeOK
<1>2. CASE UNCHANGED <<mActiveAction, mFuture>>
  BY <1>1, <1>2
<1>3. ASSUME NEW checks, Throw(checks) PROVE UNCHANGED <<mActiveAction, mFuture>>
  BY <1>3 DEF Throw, objectVars
<1>4. CASE ArmTimer \/ FinishSimulation \/ PopNextHandlers
  <2>1. UNCHANGED <<mActiveAction, mFuture>>
    BY <1>3, <1>4 DEF ArmTimer, FinishSimulation, PopNextHandlers, objectVars
  <2> QED
    BY <1>2, <2>1
<1>5. ASSUME NEW h \in batch, Invoke(h) PROVE FutureMatches'
  <2>1. PICK o : o = Affected[h.action]
    OBVIOUS
  <2>2. CASE DropHandler(h) \/ StartLater(h) \/ InitNow(h) \/ InitLater(h)
    <3>1. UNCHANGED <<mActiveAction, mFuture>>
      BY <1>3, <2>2 DEF DropHandler, StartLater, InitNow, InitLater, objectVars
    <3> QED
      BY <1>2, <3>1
  <2>3. ASSUME NEW x, mActiveAction' = [mActiveAction EXCEPT ![o] = x],
               mFuture' = [mFuture EXCEPT ![o] = x]
        PROVE  FutureMatches'
    BY <1>1, <2>3
  <2>4. CASE StartNow(h)
    <3>1. UNCHANGED <<mActiveAction, mFuture>>
          \/ /\ mActiveAction' = [mActiveAction EXCEPT ![o] = h.action]
             /\ mFuture' = [mFuture EXCEPT ![o] = h.action]
      BY <1>3, <2>1, <2>4 DEF StartNow, LaunchFiber
    <3> QED
      BY <1>2, <2>3, <3>1
  <2>5. CASE EndLast(h)
    <3>1. UNCHANGED <<mActiveAction, mFuture>>
          \/ /\ mActiveAction' = [mActiveAction EXCEPT ![o] = None]
             /\ mFuture' = [mFuture EXCEPT ![o] = None]
      BY <1>3, <2>1, <2>5 DEF EndLast
    <3> QED
      BY <1>2, <2>3, <3>1
  <2>6. CASE EndAndActivate(h)
    <3>1. UNCHANGED <<mActiveAction, mFuture>>
          \/ /\ mActiveAction' = [mActiveAction EXCEPT ![o] = Head(mDelayedQueue[o])]
             /\ mFuture' = [mFuture EXCEPT ![o] = Head(mDelayedQueue[o])]
      BY <1>3, <2>1, <2>6 DEF EndAndActivate, LaunchFiber
    <3> QED
      BY <1>2, <2>3, <3>1
  <2> QED
    BY <1>5, <2>2, <2>4, <2>5, <2>6 DEF Invoke
<1>6. CASE \E o \in Objects : FiberFinishes(o)
  BY <1>2, <1>6 DEF FiberFinishes
<1>7. CASE UNCHANGED vars
  BY <1>2, <1>7 DEF vars, objectVars
<1> QED
  BY <1>4, <1>5, <1>6, <1>7 DEF Next, CoreStep, Stopped

\* The steps of the loop are none of the server.
LEMMA CoreServes ==
    ASSUME OrderInv, ArmTimer \/ FinishSimulation \/ PopNextHandlers
    PROVE  [Server!Next]_(Server!vars)
<1>1. CASE \E checks : Throw(checks)
  BY <1>1, UnseenThrow
<1>2. CASE ~\E checks : Throw(checks)
  <2>1. UNCHANGED <<mActionId, objectVars, container>>
    BY <1>2 DEF ArmTimer, FinishSimulation, PopNextHandlers, actionVars
  <2>2. Pending' = Pending
    <3>1. CASE ArmTimer \/ FinishSimulation
      BY <1>2, <3>1 DEF ArmTimer, FinishSimulation, Pending
    <3>2. CASE PopNextHandlers
      <4>1. batch = {} /\ mActions' \cup batch' = mActions
        BY <1>2, <3>2 DEF PopNextHandlers, OrderInv, KernelInv, Drained
      <4> QED
        BY <4>1 DEF Pending
    <3> QED
      BY <3>1, <3>2
  <2> QED
    BY <2>1, <2>2, Unseen
<1> QED
  BY <1>1, <1>2

\* Every step of the kernel is a step of the server, or none.
LEMMA NextServes == ServedInv /\ [Next]_vars => [Server!Next]_(Server!vars)
<1> SUFFICES ASSUME ServedInv, [Next]_vars PROVE [Server!Next]_(Server!vars)
  OBVIOUS
<1>1. OrderInv
  BY DEF ServedInv
<1>2. CASE ArmTimer \/ FinishSimulation \/ PopNextHandlers
  BY <1>1, <1>2, CoreServes
<1>3. ASSUME NEW h \in batch, Invoke(h) PROVE [Server!Next]_(Server!vars)
  <2>1. CASE DropHandler(h)
    BY <1>1, <2>1, DropServes
  <2>2. CASE StartNow(h)
    BY <1>1, <2>2, StartNowServes
  <2>3. CASE StartLater(h)
    BY <1>1, <2>3, StartLaterServes
  <2>4. CASE EndLast(h)
    BY <1>1, <2>4, EndLastServes
  <2>5. CASE EndAndActivate(h)
    BY <1>1, <2>5, EndAndActivateServes
  <2>6. CASE InitNow(h)
    BY <1>1, <2>6, InitNowServes
  <2>7. CASE InitLater(h)
    BY <1>1, <2>7, InitLaterServes
  <2> QED
    BY <1>3, <2>1, <2>2, <2>3, <2>4, <2>5, <2>6, <2>7 DEF Invoke
<1>4. ASSUME NEW o \in Objects, FiberFinishes(o) PROVE [Server!Next]_(Server!vars)
  BY <1>4, FiberServes
<1>5. CASE UNCHANGED vars
  <2>1. Pending' = Pending
    BY <1>5 DEF vars, Pending
  <2> QED
    BY <1>5, <2>1, Unseen DEF vars, actionVars
<1> QED
  BY <1>2, <1>3, <1>4, <1>5 DEF Next, CoreStep, Stopped

-----------------------------------------------------------------------------
(* The theorem.                                                            *)

\* The kernel's behaviours are those of the serial servers, but for their
\* fairness: every object computes one action at a time, in the order in
\* which they reach it, each at most once, and lets one go only when its
\* computation is over (BaseObject::startExecutionBase, endExecutionBase,
\* initObjectBase, ObjectActionManager).
THEOREM KernelServesSerially == Spec => Server!Init /\ [][Server!Next]_(Server!vars)
<1>1. Init => ServedInv /\ Server!Init
  <2>1. Init => FutureMatches
    BY DEF Init, FutureMatches
  <2> QED
    BY <2>1, InitOrderInv, ServerInit DEF ServedInv
<1>2. ServedInv /\ [Next]_vars => ServedInv'
  BY NextOrderInv, NextFutureMatches DEF ServedInv
<1>3. ServedInv /\ [Next]_vars => [Server!Next]_(Server!vars)
  BY NextServes
<1> QED
  BY <1>1, <1>2, <1>3, PTL DEF Spec
=============================================================================
