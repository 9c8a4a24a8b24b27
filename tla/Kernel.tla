------------------------------- MODULE Kernel -------------------------------
(***************************************************************************)
(* The event kernel of the simulator: the core's simulation loop, the      *)
(* future action list, and the life cycle of an action on its object       *)
(* (BaseObject, ObjectActionManager, the fiber that computes it).          *)
(*                                                                         *)
(* One core thread arms a timer for the first time point of the list, pops *)
(* every handler of that time point when the timer fires, and invokes them *)
(* in insertion order.  A start handler launches a fiber for the object or *)
(* delays the action; an end handler waits for the fiber, applies what it  *)
(* computed and starts the next delayed action.  Fibers finish at any time.*)
(*                                                                         *)
(* A handler of the list is a record.  Its time is the map key under which *)
(* insertHandler stored it, its id is the number scheduleAction gave the   *)
(* action when it was inserted: within one time point the list is in       *)
(* increasing order of id.                                                 *)
(***************************************************************************)
EXTENDS Integers, FiniteSets, Sequences, SequencesExt

CONSTANTS
    Objects,       \* objects of the simulation (ObjectId)
    Actions,       \* the actions that may ever be constructed
    None,          \* nullptr
    Affected,      \* Affected[a]: the object of action a (mAffectedObject)
    Duration,      \* Duration[a] (mDuration)
    InitActions,   \* the actions that are an InitAction; the others are a DurationAction
    Roots,         \* the init actions the SimulationManager schedules, in order
    Delays,        \* BOUND: distance from an ending action to the ones it schedules
    MaxNew,        \* BOUND: actions scheduled by one handler
    Safe           \* COSIDIA_SAFE: a failed enforce throws; otherwise it is compiled out

RootActions == ToSet(Roots)

ASSUME KernelAssumption ==
    /\ None \notin Actions
    /\ IsFiniteSet(Actions)
    /\ Affected \in [Actions -> Objects]
    /\ Duration \in [Actions -> Nat]
    /\ InitActions \subseteq Actions
    /\ Roots \in Seq(InitActions)
    /\ \A i, j \in 1..Len(Roots) : Affected[Roots[i]] = Affected[Roots[j]] => i = j
    /\ Delays \subseteq Nat
    /\ MaxNew \in Nat
    /\ Safe \in BOOLEAN

VARIABLES
    mCurrentActionTime,  \* Core: time point being simulated
    mCurrentActionId,    \* Core: last number given to a scheduled action
    mActions,            \* Core: the future action list, a set of handlers
    batch,               \* handlers popped for the current time point, not yet invoked
    phase,               \* where the core thread is
    mStartTime,          \* Action
    mActionId,           \* Action: 0 until it is scheduled
    mActiveAction,       \* ObjectActionManager of each object
    mDelayedQueue,       \* ObjectActionManager of each object
    mCurrentAction,      \* BaseObject: id recorded for the running action
    mFirstAction,        \* BaseObject
    mFuture,             \* the action whose result the object's mFuture will hold
    ready,               \* that result is there: the fiber has finished
    container,           \* ObjectContainer: "unknown", "active" or "removed"
    failed               \* the enforce conditions found false so far

actionVars == <<mStartTime, mActionId>>
objectVars == <<mActiveAction, mDelayedQueue, mCurrentAction, mFirstAction, mFuture, ready>>
vars == <<mCurrentActionTime, mCurrentActionId, mActions, batch, phase,
          actionVars, objectVars, container, failed>>

Invalid == -1      \* SimClock::invalid()

Kinds == {"start", "end", "init"}
Handlers == [time : Nat, id : Nat, kind : Kinds, action : Actions]

Handler(t, i, k, a) == [time |-> t, id |-> i, kind |-> k, action |-> a]

-----------------------------------------------------------------------------
(* Actions and their handlers.                                             *)

\* Faulty variant: the duration is subtracted.
EndBeforeStart(a) == mStartTime[a] - Duration[a]

GetEndTime(a) == Duration[a] + mStartTime[a]

\* The time of a handler is read from its action, whenever it is asked for.
GetTime(h) == IF h.kind = "end" THEN GetEndTime(h.action) ELSE mStartTime[h.action]

StartKind(a) == IF a \in InitActions THEN "init" ELSE "start"

\* What one handler may schedule: a set S of new actions, the start time of
\* each and the order in which their scheduleStartHandler is called.
StartChoices(bases) == { base + d : base \in bases, d \in Delays }

Schedules(bases, S) ==
    { s \in [S -> [start : StartChoices(bases), nth : 1..Cardinality(S)]] :
        \A a, b \in S : s[a].nth = s[b].nth => a = b }

Fresh == { a \in Actions : mActionId[a] = 0 }

NewSets == { S \in SUBSET Fresh : Cardinality(S) <= MaxNew }

StartHandlers(s) ==
    { Handler(s[a].start, mCurrentActionId + s[a].nth, StartKind(a), a) : a \in DOMAIN s }

StartTimes(s) == [a \in Actions |-> IF a \in DOMAIN s THEN s[a].start ELSE mStartTime[a]]

ActionIds(s) ==
    [a \in Actions |-> IF a \in DOMAIN s THEN mCurrentActionId + s[a].nth ELSE mActionId[a]]

-----------------------------------------------------------------------------
(* The checks of the safe build.                                           *)

Check(name, ok) == IF ok THEN {} ELSE {name}

Throw(checks) ==
    /\ phase' = "thrown"
    /\ failed' = failed \cup checks
    /\ UNCHANGED <<mCurrentActionTime, mCurrentActionId, mActions, batch,
                   actionVars, objectVars, container>>

-----------------------------------------------------------------------------
(* Core.                                                                   *)

\* Faulty variant: the map is searched from its end.
LastTimePoint(t) ==
    /\ \E h \in mActions : h.time = t
    /\ \A h \in mActions : h.time <= t

FirstTimePoint(t) ==
    /\ \E h \in mActions : h.time = t
    /\ \A h \in mActions : t <= h.time

NextTimePoint(t) == IF mActions = {} THEN t = Invalid ELSE FirstTimePoint(t)

LoopChecks(t) == Check("Core: wrong order of actions", t >= mCurrentActionTime)

Candidates == {Invalid} \cup { h.time : h \in mActions }

\* runSimulationLoop with a handler left: the timer is armed.
ArmTimer ==
    /\ phase = "loop"
    /\ mActions # {}
    /\ \E t \in Candidates :
        /\ NextTimePoint(t)
        /\ IF Safe /\ LoopChecks(t) # {}
           THEN Throw(LoopChecks(t))
           ELSE /\ mCurrentActionTime' = t
                /\ phase' = "timer"
                /\ failed' = failed \cup LoopChecks(t)
                /\ UNCHANGED <<mCurrentActionId, mActions, batch, actionVars,
                               objectVars, container>>

\* runSimulationLoop with an empty list: finishSimulation.
FinishSimulation ==
    /\ phase = "loop"
    /\ mActions = {}
    /\ IF Safe /\ LoopChecks(Invalid) # {}
       THEN Throw(LoopChecks(Invalid))
       ELSE /\ mCurrentActionTime' = Invalid
            /\ phase' = "finished"
            /\ failed' = failed \cup LoopChecks(Invalid)
            /\ UNCHANGED <<mCurrentActionId, mActions, batch, actionVars,
                           objectVars, container>>

FirstOf(hs, h) == h \in hs /\ \A g \in hs : h.id <= g.id

\* executeActionOnFinishedTimer up to its loop: popNextHandlers.
PopNextHandlers ==
    /\ phase = "timer"
    /\ \E t \in Candidates :
        LET handlers == { h \in mActions : h.time = t }
            checks == Check("Core: currentAction time corresponds not to fetched action time",
                            \A h \in handlers : FirstOf(handlers, h) => mCurrentActionTime = GetTime(h))
        IN
        /\ NextTimePoint(t)
        /\ IF Safe /\ checks # {}
           THEN Throw(checks)
           ELSE /\ mActions' = mActions \ handlers
                /\ batch' = handlers
                /\ phase' = "batch"
                /\ failed' = failed \cup checks
                /\ UNCHANGED <<mCurrentActionTime, mCurrentActionId, actionVars,
                               objectVars, container>>

\* Faulty variant: the loop does not advance.
Stuck(h) == UNCHANGED <<batch, phase>>

\* The loop of executeActionOnFinishedTimer moves past handler h.
Consume(h) ==
    /\ batch' = batch \ {h}
    /\ phase' = IF batch = {h} THEN "loop" ELSE "batch"

Due(h, kind) ==
    /\ phase = "batch"
    /\ FirstOf(batch, h)
    /\ h.kind = kind
    /\ container[Affected[h.action]] = "active"

\* The object was removed: its handler is dropped.
DropHandler(h) ==
    /\ phase = "batch"
    /\ FirstOf(batch, h)
    /\ container[Affected[h.action]] = "removed"
    /\ Consume(h)
    /\ UNCHANGED <<mCurrentActionTime, mCurrentActionId, mActions, actionVars,
                   objectVars, container, failed>>

-----------------------------------------------------------------------------
(* BaseObject and its ObjectActionManager.                                 *)

\* Faulty variant: only the queue is looked at.
QueueEmpty(o) == mDelayedQueue[o] = <<>>

\* startOrDelay returns false: the action becomes the active one.
CanStart(o) == mActiveAction[o] = None /\ mDelayedQueue[o] = <<>>

\* Faulty variant: the action jumps the queue.
DelayInFront(a, o) == mDelayedQueue' = [mDelayedQueue EXCEPT ![o] = <<a>> \o @]

Delay(a, o) == mDelayedQueue' = [mDelayedQueue EXCEPT ![o] = Append(@, a)]

\* Faulty variant: a future that is set is not replaced.
KeepFuture(a, o) ==
    /\ mFuture' = [mFuture EXCEPT ![o] = IF @ = None THEN a ELSE @]
    /\ ready' = [ready EXCEPT ![o] = FALSE]

\* startExecution of the object: a fiber that computes action a.
LaunchFiber(a, o) ==
    /\ mFuture' = [mFuture EXCEPT ![o] = a]
    /\ ready' = [ready EXCEPT ![o] = FALSE]

StartChecks(o) ==
    Check("BaseObject: last action was not ended", mCurrentAction[o] # 0 \/ mFirstAction[o])

\* startExecutionBase on an idle object.
StartNow(h) ==
    LET a == h.action
        o == Affected[a]
        id == mCurrentActionId + 1
    IN  /\ Due(h, "start")
        /\ CanStart(o)
        /\ IF Safe /\ StartChecks(o) # {}
           THEN Throw(StartChecks(o))
           ELSE /\ Consume(h)
                /\ mActiveAction' = [mActiveAction EXCEPT ![o] = a]
                /\ mFirstAction' = [mFirstAction EXCEPT ![o] = FALSE]
                /\ mCurrentAction' = [mCurrentAction EXCEPT ![o] = mActionId[a]]
                /\ mCurrentActionId' = id
                /\ mActionId' = [mActionId EXCEPT ![a] = id]
                /\ mActions' = mActions \cup {Handler(GetEndTime(a), id, "end", a)}
                /\ LaunchFiber(a, o)
                /\ failed' = failed \cup StartChecks(o)
                /\ UNCHANGED <<mCurrentActionTime, mStartTime, mDelayedQueue, container>>

\* startExecutionBase on a busy object.
StartLater(h) ==
    LET o == Affected[h.action]
    IN  /\ Due(h, "start")
        /\ ~CanStart(o)
        /\ IF Safe /\ StartChecks(o) # {}
           THEN Throw(StartChecks(o))
           ELSE /\ Consume(h)
                /\ mFirstAction' = [mFirstAction EXCEPT ![o] = FALSE]
                /\ Delay(h.action, o)
                /\ failed' = failed \cup StartChecks(o)
                /\ UNCHANGED <<mCurrentActionTime, mCurrentActionId, mActions, actionVars,
                               mActiveAction, mCurrentAction, mFuture, ready, container>>

\* The objects whose init action is among the new ones are created with it.
Created(s) == { Affected[a] : a \in DOMAIN s \cap InitActions }

\* Object code creates an object once, together with one init action, and
\* addresses other actions to objects it found in a container.
Resolved(s) ==
    /\ \A o \in Created(s) : container[o] = "unknown"
    /\ \A a, b \in DOMAIN s \cap InitActions : Affected[a] = Affected[b] => a = b
    /\ \A a \in DOMAIN s \ InitActions :
        container[Affected[a]] # "unknown" \/ Affected[a] \in Created(s)

EndChecks(a, o) ==
    Check("BaseObject: Action ends wrong action", mActionId[a] = mCurrentAction[o])
    \cup
    Check("Action: new time point must be later the old time point",
          mDelayedQueue[o] # <<>> => mStartTime[Head(mDelayedQueue[o])] <= GetEndTime(a))

\* endExecution of the object: take the fiber's result, create and schedule
\* what it asks for, remove the objects it names.
EndExecution(o, s, gone) ==
    /\ mFuture[o] # None
    /\ ready[o]
    /\ Resolved(s)
    /\ container' = [p \in Objects |-> IF p \in gone THEN "removed"
                                       ELSE IF p \in Created(s) THEN "active"
                                       ELSE container[p]]

\* Faulty variant: object code counts from the start of its action.
StartBases(a, f) == {mStartTime[f]}

\* Object code counts from the end of the action it computed (f) or, on the
\* core thread, from the end of the action whose end handler runs (a).  The
\* Router is the exception: it counts from the next event of its runtime and
\* may end an action without waiting for a fiber (module Router).
Bases(a, f) == {GetEndTime(a), GetEndTime(f)}

Removable(o) == { p \in Objects \ {o} : container[p] = "active" }

\* Faulty variant: the last waiting action is overlooked.
AtMostOneDelayed(o) == Len(mDelayedQueue[o]) <= 1

\* endAndCheckAvailable returns false.
NothingDelayed(o) == mDelayedQueue[o] = <<>>

\* endExecutionBase with no delayed action.
EndLast(h) ==
    LET a == h.action
        o == Affected[a]
    IN  /\ Due(h, "end")
        /\ NothingDelayed(o)
        /\ IF Safe /\ EndChecks(a, o) # {}
           THEN Throw(EndChecks(a, o))
           ELSE \E S \in NewSets, gone \in SUBSET Removable(o) :
                \E s \in Schedules(Bases(a, mFuture[o]), S) :
                    /\ EndExecution(o, s, gone)
                    /\ Consume(h)
                    /\ mActiveAction' = [mActiveAction EXCEPT ![o] = None]
                    /\ mFuture' = [mFuture EXCEPT ![o] = None]
                    /\ mActions' = mActions \cup StartHandlers(s)
                    /\ mCurrentActionId' = mCurrentActionId + Cardinality(S)
                    /\ mStartTime' = StartTimes(s)
                    /\ mActionId' = ActionIds(s)
                    /\ failed' = failed \cup EndChecks(a, o)
                    /\ UNCHANGED <<mCurrentActionTime, mDelayedQueue, mCurrentAction,
                                   mFirstAction, ready>>

\* The action whose end handler is scheduled for the dequeued action.
Rescheduled(a, update) == a

\* Faulty variant: the front is read but not popped.
Peek(q) == q

\* activateNextAvailableAction takes the front of the queue.
Dequeue(q) == Tail(q)

\* Faulty variant: the handler is filed under the start time.
StartAsKey(r, starts) == starts[r]

\* The key under which the end handler of r is inserted.
EndKey(r, starts) == Duration[r] + starts[r]

\* endExecutionBase with a delayed action: the oldest one is activated, its
\* start is shifted to the end of the ended one.
EndAndActivate(h) ==
    LET a == h.action
        o == Affected[a]
        update == Head(mDelayedQueue[o])
        r == Rescheduled(a, update)
    IN  /\ Due(h, "end")
        /\ ~NothingDelayed(o)
        /\ IF Safe /\ EndChecks(a, o) # {}
           THEN Throw(EndChecks(a, o))
           ELSE \E S \in NewSets, gone \in SUBSET Removable(o) :
                \E s \in Schedules(Bases(a, mFuture[o]), S) :
                    LET id == mCurrentActionId + Cardinality(S) + 1
                        shifted == [StartTimes(s) EXCEPT ![update] = GetEndTime(a)]
                    IN
                    /\ EndExecution(o, s, gone)
                    /\ Consume(h)
                    /\ mActiveAction' = [mActiveAction EXCEPT ![o] = update]
                    /\ mDelayedQueue' = [mDelayedQueue EXCEPT ![o] = Dequeue(@)]
                    /\ LaunchFiber(update, o)
                    /\ mCurrentAction' = [mCurrentAction EXCEPT ![o] = mActionId[a]]
                    /\ mStartTime' = shifted
                    /\ mCurrentActionId' = id
                    /\ mActionId' = [ActionIds(s) EXCEPT ![r] = id]
                    /\ mActions' = mActions \cup StartHandlers(s)
                                   \cup {Handler(EndKey(r, shifted), id, "end", r)}
                    /\ failed' = failed \cup EndChecks(a, o)
                    /\ UNCHANGED <<mCurrentActionTime, mFirstAction>>

\* initObjectBase on an idle object: active only inside this handler, so the
\* queue it looks at afterwards is still the empty one startOrDelay saw.
InitNow(h) ==
    LET a == h.action
        o == Affected[a]
    IN  /\ Due(h, "init")
        /\ CanStart(o)
        /\ \E S \in NewSets : \E s \in Schedules({mStartTime[a]}, S) :
            /\ Resolved(s)
            /\ Created(s) = {}
            /\ Consume(h)
            /\ mCurrentAction' = [mCurrentAction EXCEPT ![o] = mActionId[a]]
            /\ mActions' = mActions \cup StartHandlers(s)
            /\ mCurrentActionId' = mCurrentActionId + Cardinality(S)
            /\ mStartTime' = StartTimes(s)
            /\ mActionId' = ActionIds(s)
            /\ UNCHANGED <<mCurrentActionTime, mActiveAction, mDelayedQueue, mFirstAction,
                           mFuture, ready, container, failed>>

\* initObjectBase on a busy object: the init action waits like any other,
\* and will be activated by endExecutionBase.
InitLater(h) ==
    LET o == Affected[h.action]
    IN  /\ Due(h, "init")
        /\ ~CanStart(o)
        /\ Consume(h)
        /\ Delay(h.action, o)
        /\ UNCHANGED <<mCurrentActionTime, mCurrentActionId, mActions, actionVars,
                       mActiveAction, mCurrentAction, mFirstAction, mFuture, ready,
                       container, failed>>

\* A fiber finishes on whatever thread runs it.
FiberFinishes(o) ==
    /\ mFuture[o] # None
    /\ ~ready[o]
    /\ ready' = [ready EXCEPT ![o] = TRUE]
    /\ UNCHANGED <<mCurrentActionTime, mCurrentActionId, mActions, batch, phase,
                   actionVars, mActiveAction, mDelayedQueue, mCurrentAction,
                   mFirstAction, mFuture, container, failed>>

\* io_service.run() has returned, or the exception has left it.
Stopped ==
    /\ phase \in {"finished", "thrown"}
    /\ UNCHANGED vars

-----------------------------------------------------------------------------
(* The simulation starts with the init handlers of the root objects.       *)

RootIndex(a) == CHOOSE i \in 1..Len(Roots) : Roots[i] = a

Init ==
    /\ mCurrentActionTime = 0
    /\ mCurrentActionId = Len(Roots)
    /\ mActions = { Handler(0, RootIndex(a), "init", a) : a \in RootActions }
    /\ batch = {}
    /\ phase = "loop"
    /\ mStartTime = [a \in Actions |-> 0]
    /\ mActionId = [a \in Actions |-> IF a \in RootActions THEN RootIndex(a) ELSE 0]
    /\ mActiveAction = [o \in Objects |-> None]
    /\ mDelayedQueue = [o \in Objects |-> <<>>]
    /\ mCurrentAction = [o \in Objects |-> 0]
    /\ mFirstAction = [o \in Objects |-> TRUE]
    /\ mFuture = [o \in Objects |-> None]
    /\ ready = [o \in Objects |-> FALSE]
    /\ container = [o \in Objects |->
                     IF o \in {Affected[a] : a \in RootActions} THEN "active" ELSE "unknown"]
    /\ failed = {}

Invoke(h) ==
    \/ DropHandler(h)
    \/ StartNow(h)
    \/ StartLater(h)
    \/ EndLast(h)
    \/ EndAndActivate(h)
    \/ InitNow(h)
    \/ InitLater(h)

CoreStep ==
    \/ ArmTimer
    \/ FinishSimulation
    \/ PopNextHandlers
    \/ \E h \in batch : Invoke(h)

Next ==
    \/ CoreStep
    \/ \E o \in Objects : FiberFinishes(o)
    \/ Stopped

\* The core thread keeps running its io_service and the shared_work
\* scheduler runs every ready fiber.
Fairness ==
    /\ WF_vars(CoreStep)
    /\ \A o \in Objects : WF_vars(FiberFinishes(o))

Spec == Init /\ [][Next]_vars /\ Fairness
-----------------------------------------------------------------------------
(* What the kernel promises.                                               *)

Pending == mActions \cup batch
Live(o) == container[o] = "active"
DurationActions == Actions \ InitActions

\* Every variable has its type: times and ids are naturals (only the current
\* time may be SimClock::invalid()), queues hold actions of their object.
TypeOK ==
    /\ mCurrentActionTime \in Nat \cup {Invalid}
    /\ mCurrentActionId \in Nat
    /\ mActions \subseteq Handlers
    /\ batch \subseteq Handlers
    /\ phase \in {"loop", "timer", "batch", "finished", "thrown"}
    /\ mStartTime \in [Actions -> Nat]
    /\ mActionId \in [Actions -> Nat]
    /\ mActiveAction \in [Objects -> Actions \cup {None}]
    /\ mDelayedQueue \in [Objects -> Seq(Actions)]
    /\ mCurrentAction \in [Objects -> Nat]
    /\ mFirstAction \in [Objects -> BOOLEAN]
    /\ mFuture \in [Objects -> Actions \cup {None}]
    /\ ready \in [Objects -> BOOLEAN]
    /\ container \in [Objects -> {"unknown", "active", "removed"}]

EndHandlers(o) == { h \in Pending : h.kind = "end" /\ Affected[h.action] = o }

\* An object of the simulation has one end handler pending while an action is
\* active on it and none while it is idle (BaseObject::startExecutionBase and
\* endExecutionBase): no second fiber is started beside a running one, and
\* an active action is always going to be ended.
BusyIffEndPending ==
    \A o \in Objects : Live(o) =>
        IF mActiveAction[o] = None
        THEN EndHandlers(o) = {}
        ELSE \E h \in EndHandlers(o) : EndHandlers(o) = {h}

\* An action is delayed only behind an active one (ObjectActionManager): an
\* idle object never sits on a queue nobody will look at again, and the log
\* line of startOrDelay never dereferences a null mActiveAction.
WaitingBehindActive ==
    \A o \in Objects : mDelayedQueue[o] # <<>> => mActiveAction[o] # None

\* The key a handler is stored under is still the time its action reports:
\* shiftStartTime never moves an action that has a handler in the list.
HandlerTimesAgree == \A h \in Pending : h.time = GetTime(h)

\* Nothing is inserted before the time being simulated (the enforce of
\* ActionList::insertHandler), so no event is executed late and simulated
\* time never goes back.
PendingNotPast ==
    phase # "finished" => \A h \in Pending : mCurrentActionTime <= h.time

\* The future that endExecution takes is the one of the active action, and
\* there is none left when no action is active.
FutureOfActive == \A o \in Objects : Live(o) => mFuture[o] = mActiveAction[o]

\* A scheduled action is in one place at a time: one start handler in the
\* list, or one position of its object's queue, or active.
OneHome ==
    \A a \in Actions :
        LET o == Affected[a]
            starts == { h \in Pending : h.action = a /\ h.kind # "end" }
            places == { i \in DOMAIN mDelayedQueue[o] : mDelayedQueue[o][i] = a }
        IN  Cardinality(starts) + Cardinality(places)
              + (IF mActiveAction[o] = a THEN 1 ELSE 0) <= 1

\* Of the conditions the kernel enforces, only these two are ever false.
KnownFailures == {"Core: wrong order of actions", "BaseObject: Action ends wrong action"}
OtherChecksHold == failed \subseteq KnownFailures

\* Without the checks the simulation runs until its list is empty.
Finishes == <>(phase = "finished")

\* An action that waits for its start handler or in the delayed queue
\* becomes the active one, unless its object is removed first: nothing is
\* starved in the list or in a queue.
Waiting(a) ==
    \/ \E h \in Pending : h.action = a /\ h.kind = "start"
    \/ a \in ToSet(mDelayedQueue[Affected[a]])

EveryActionStarts ==
    \A a \in Actions :
        Waiting(a) ~> (mActiveAction[Affected[a]] = a \/ ~Live(Affected[a]))

\* BaseObject.cpp:53 enforces that an end handler ends the action recorded
\* when it was started.
EndsRecordedAction == "BaseObject: Action ends wrong action" \notin failed

\* An action has a duration (Action.hpp:24): when an active DurationAction is
\* ended, the time is its end time.
DurationRespected ==
    [][\A o \in Objects :
        mActiveAction[o] \in DurationActions /\ mActiveAction'[o] # mActiveAction[o]
            => mCurrentActionTime = GetEndTime(mActiveAction[o])]_vars
=============================================================================
