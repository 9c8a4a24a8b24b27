------------------------------- MODULE Router -------------------------------
(***************************************************************************)
(* The communication stack of a vehicle as an object of the simulation.    *)
(* Its actions are initRouter, a periodic caUpdate, one update for the     *)
(* next event of its runtime (the event queue of the geonet router), and   *)
(* indications, sent by the radio.  A tracker of two action pointers is to *)
(* tell the update that counts from updates that were superseded.          *)
(*                                                                         *)
(* The life cycle of an action is that of module Kernel, for this object   *)
(* and without the checks of the safe build; what Kernel leaves open there *)
(* (what a fiber asks for, whether endExecution waits for it) is Router's. *)
(* The fiber changes the tracker while the core thread reads it.  Two      *)
(* fibers that run at once are modelled as if each were one step.          *)
(***************************************************************************)
EXTENDS Integers, Sequences, FiniteSets

CONSTANTS
    Indications,   \* indications the radio may send
    CaPeriod,      \* time between two caUpdates (100 ms in the code)
    SelfDuration,  \* duration of every action (2 ms in the code)
    Gaps,          \* BOUND: distances from a time to the runtime's next event after it
    MaxActions,    \* BOUND: actions the router creates
    MaxTime,       \* BOUND: start of the actions it creates
    None

ASSUME RouterAssumption ==
    /\ None \notin Indications \cup Nat
    /\ Indications \cap Nat = {}
    /\ {CaPeriod, SelfDuration} \subseteq Nat \ {0}
    /\ Gaps \subseteq Nat \ {0}
    /\ MaxActions \in Nat \ {0} /\ MaxTime \in Nat

Created == 1..MaxActions               \* the router's own actions, as created
Actions == Created \cup Indications
Types == {"initRouter", "caUpdate", "update", "indication"}

VARIABLES
    mCurrentActionTime,      \* Core
    mCurrentActionId,        \* Core
    handlers,                \* Core: the handlers of this object still to be invoked
    created,                 \* number of actions the router has created
    type,                    \* type of each created action
    mStartTime,              \* Action
    mActiveAction,           \* ObjectActionManager
    mDelayedQueue,           \* ObjectActionManager
    mFuture,                 \* the action whose result can be got, or None
    fiber,                   \* the fiber of each action: "none", "running" or "done"
    result,                  \* the actions each fiber asks to schedule
    taking,                  \* the end handler in which the core waits for the future
    mNextStart, mNextEnd,    \* ActiveActionTracker
    mInitDone,
    nextEvent,               \* Runtime: time of the next event
    thrown                   \* get() of an empty future threw: the program ends

actionVars == <<created, type, mStartTime>>
coreVars == <<mCurrentActionTime, mCurrentActionId, handlers>>
objectVars == <<mActiveAction, mDelayedQueue, mFuture, taking>>
fiberVars == <<fiber, result>>
trackerVars == <<mNextStart, mNextEnd>>
vars == <<coreVars, actionVars, objectVars, fiberVars, trackerVars, mInitDone,
          nextEvent, thrown>>

Handler(t, i, k, a) == [time |-> t, id |-> i, kind |-> k, action |-> a]

EndTime(a) == mStartTime[a] + SelfDuration

\* The core invokes handlers by time, and by number within one time point.
Before(g, h) == g.time < h.time \/ (g.time = h.time /\ g.id < h.id)

Due(h, kind) ==
    /\ h \in handlers
    /\ h.kind = kind
    /\ taking = None
    /\ ~thrown
    /\ \A g \in handlers \ {h} : Before(h, g)

-----------------------------------------------------------------------------
(* ActiveActionTracker.                                                    *)

NextStart == IF mNextStart = None THEN 0 ELSE mStartTime[mNextStart]

IsStart(a) == mNextStart \in {a, None}

IsEnd(a) == mNextEnd \in {a, None}

-----------------------------------------------------------------------------
(* The core thread: BaseObject with Router's startExecution/endExecution.  *)

Launches(a) == type[a] \in {"caUpdate", "initRouter"} \/ IsStart(a)

\* startExecution: a fiber, or nothing if the tracker does not know a.
StartExecution(a) ==
    IF Launches(a)
    THEN /\ mFuture' = a
         /\ fiber' = [fiber EXCEPT ![a] = "running"]
    ELSE UNCHANGED <<mFuture, fiber>>

\* startExecutionBase on an idle object.
StartNow(h) ==
    LET a == h.action
    IN  /\ Due(h, "start")
        /\ mActiveAction = None /\ mDelayedQueue = <<>>
        /\ mCurrentActionTime' = h.time
        /\ mActiveAction' = a
        /\ mCurrentActionId' = mCurrentActionId + 1
        /\ handlers' = (handlers \ {h})
                       \cup {Handler(EndTime(a), mCurrentActionId + 1, "end", a)}
        /\ StartExecution(a)
        /\ UNCHANGED <<actionVars, mDelayedQueue, result, taking, trackerVars,
                       mInitDone, nextEvent, thrown>>

\* startExecutionBase on a busy object.
StartLater(h) ==
    /\ Due(h, "start")
    /\ mActiveAction # None \/ mDelayedQueue # <<>>
    /\ mCurrentActionTime' = h.time
    /\ handlers' = handlers \ {h}
    /\ mDelayedQueue' = Append(mDelayedQueue, h.action)
    /\ UNCHANGED <<mCurrentActionId, actionVars, mActiveAction, mFuture, fiberVars,
                   taking, trackerVars, mInitDone, nextEvent, thrown>>

\* What endExecutionBase does after endExecution, with the handlers hs and
\* the numbers used up to id: activate the next delayed action, whose start
\* moves to the end of a, and schedule the end handler of a again.
EndAndActivate(a, hs, id) ==
    IF mDelayedQueue = <<>>
    THEN /\ mActiveAction' = None
         /\ handlers' = hs
         /\ mCurrentActionId' = id
         /\ UNCHANGED <<mStartTime, mDelayedQueue, fiber>>
    ELSE LET update == Head(mDelayedQueue)
         IN  /\ mActiveAction' = update
             /\ mDelayedQueue' = Tail(mDelayedQueue)
             /\ mStartTime' = [mStartTime EXCEPT ![update] = EndTime(a)]
             /\ handlers' = hs \cup {Handler(EndTime(a), id + 1, "end", a)}
             /\ mCurrentActionId' = id + 1
             /\ fiber' = IF Launches(update) THEN [fiber EXCEPT ![update] = "running"] ELSE fiber

\* Faulty variant of FutureAfter: what was taken can be taken again.
SameFuture(f) == mFuture

\* The future after endExecution, which leaves f, and after startExecution.
FutureAfter(f) ==
    IF mDelayedQueue # <<>> /\ Launches(Head(mDelayedQueue)) THEN Head(mDelayedQueue) ELSE f

\* endExecution of an update or indication the tracker does not expect.
EndIgnored(h) ==
    LET a == h.action
    IN  /\ Due(h, "end")
        /\ type[a] \in {"update", "indication"}
        /\ ~IsEnd(a)
        /\ mCurrentActionTime' = h.time
        /\ mFuture' = FutureAfter(mFuture)
        /\ EndAndActivate(a, handlers \ {h}, mCurrentActionId)
        /\ UNCHANGED <<created, type, result, taking, trackerVars, mInitDone,
                       nextEvent, thrown>>

\* endExecution up to mFuture.get(): the tracker is read and moved on before
\* the fiber is waited for.
EndExpected(h) ==
    LET a == h.action
        tracked == type[a] \in {"update", "indication"}
    IN  /\ Due(h, "end")
        /\ tracked => IsEnd(a)
        /\ mCurrentActionTime' = h.time
        /\ mNextEnd' = IF tracked THEN mNextStart ELSE mNextEnd
        /\ thrown' = (mFuture = None)
        /\ taking' = h
        /\ UNCHANGED <<mCurrentActionId, handlers, actionVars, mActiveAction,
                       mDelayedQueue, mFuture, fiberVars, mNextStart, mInitDone, nextEvent>>

StartHandlers(as, id) ==
    { Handler(mStartTime[as[i]], id + i, "start", as[i]) : i \in DOMAIN as }

\* mFuture.get() returns: the rest of endExecution and endExecutionBase.
TakeResult ==
    LET h == taking
        data == result[mFuture]
    IN  /\ taking # None
        /\ mFuture # None
        /\ fiber[mFuture] = "done"
        /\ taking' = None
        /\ mFuture' = FutureAfter(None)
        /\ EndAndActivate(h.action,
                          (handlers \ {h}) \cup StartHandlers(data, mCurrentActionId),
                          mCurrentActionId + Len(data))
        /\ UNCHANGED <<mCurrentActionTime, created, type, result, trackerVars, mInitDone,
                       nextEvent, thrown>>

\* The radio sends an indication: an action of this object for a time that
\* is still to come.
SendIndication(a, t) ==
    /\ taking = None
    /\ ~thrown
    /\ a \in Indications
    /\ mStartTime[a] = 0
    /\ t \in (mCurrentActionTime + 1)..MaxTime
    /\ \A h \in handlers : mCurrentActionTime <= h.time
    /\ mStartTime' = [mStartTime EXCEPT ![a] = t]
    /\ mCurrentActionId' = mCurrentActionId + 1
    /\ handlers' = handlers \cup {Handler(t, mCurrentActionId + 1, "start", a)}
    /\ UNCHANGED <<mCurrentActionTime, created, type, objectVars, fiberVars, trackerVars,
                   mInitDone, nextEvent, thrown>>

-----------------------------------------------------------------------------
(* The fibers.                                                             *)

\* Runtime::trigger up to time t: the events due are over, and what the
\* stack did there may have added earlier ones than the next.
EventsAfter(t) ==
    { t + g : g \in Gaps } \cup (IF nextEvent > t THEN {nextEvent} ELSE {})

\* The fiber creates actions of the types ts that start at the times of ss.
Creates(a, ts, ss) ==
    /\ created' = created + Len(ts)
    /\ created' <= MaxActions
    /\ \A i \in DOMAIN ss : ss[i] <= MaxTime
    /\ LET new == { b \in Created : b > created /\ b <= created' }
       IN  /\ type' = [b \in Actions |-> IF b \in new THEN ts[b - created] ELSE type[b]]
           /\ mStartTime' = [b \in Actions |-> IF b \in new THEN ss[b - created]
                                               ELSE mStartTime[b]]
    /\ result' = [result EXCEPT ![a] = [i \in 1..Len(ts) |-> created + i]]
    /\ fiber' = [fiber EXCEPT ![a] = "done"]

\* Faulty variant of SetNext: the end is not tracked.
SetNextStart(a) ==
    /\ mNextStart' = a
    /\ UNCHANGED mNextEnd

\* setNext of the action that a fiber creates last.
SetNext(a) ==
    /\ mNextStart' = a
    /\ mNextEnd' = IF mNextEnd = None THEN a ELSE mNextEnd

\* scheduleNextUpdate, after the actions ts at ss: an update for the next
\* event, unless the tracked one starts then.
CreatesWithUpdate(a, ts, ss, event) ==
    IF event # NextStart
    THEN /\ Creates(a, ts \o <<"update">>, ss \o <<event>>)
         /\ SetNext(created')
    ELSE /\ Creates(a, ts, ss)
         /\ UNCHANGED trackerVars

\* initRouter and caUpdate end with the next caUpdate.
CaUpdateOf(a) ==
    IF type[a] \in {"initRouter", "caUpdate"} THEN <<mStartTime[a] + CaPeriod>> ELSE <<>>

\* The function a fiber computes: initRouter, caUpdate, executeUpdate or
\* transmissionReceived.
FiberFinishes(a) ==
    /\ fiber[a] = "running"
    /\ ~thrown
    /\ IF type[a] = "indication" /\ ~mInitDone
       THEN /\ Creates(a, <<>>, <<>>)
            /\ UNCHANGED <<trackerVars, nextEvent>>
       ELSE \E event \in EventsAfter(mStartTime[a]) :
            /\ nextEvent' = event
            /\ CreatesWithUpdate(a, [i \in DOMAIN CaUpdateOf(a) |-> "caUpdate"],
                                 CaUpdateOf(a), event)
    /\ mInitDone' = (mInitDone \/ type[a] = "initRouter")
    /\ UNCHANGED <<coreVars, objectVars, thrown>>

-----------------------------------------------------------------------------
\* initObject has scheduled initRouter.
Init ==
    /\ mCurrentActionTime = 0
    /\ mCurrentActionId = 1
    /\ created = 1
    /\ type = [a \in Actions |-> IF a = 1 THEN "initRouter" ELSE "indication"]
    /\ mStartTime = [a \in Actions |-> IF a = 1 THEN 2 ELSE 0]
    /\ handlers = {Handler(2, 1, "start", 1)}
    /\ mActiveAction = None
    /\ mDelayedQueue = <<>>
    /\ mFuture = None
    /\ fiber = [a \in Actions |-> "none"]
    /\ result = [a \in Actions |-> <<>>]
    /\ taking = None
    /\ mNextStart = None
    /\ mNextEnd = None
    /\ mInitDone = FALSE
    /\ nextEvent = 0
    /\ thrown = FALSE

CoreStep ==
    \/ \E h \in handlers : StartNow(h) \/ StartLater(h) \/ EndIgnored(h) \/ EndExpected(h)
    \/ TakeResult

Next ==
    \/ CoreStep
    \/ \E a \in Indications, t \in 1..MaxTime : SendIndication(a, t)
    \/ \E a \in Actions : FiberFinishes(a)

Spec == Init /\ [][Next]_vars
-----------------------------------------------------------------------------
(* What holds.                                                             *)

\* Every variable keeps its type.
TypeOK ==
    /\ {mCurrentActionTime, mCurrentActionId, created, nextEvent} \subseteq Nat
    /\ handlers \subseteq [time : Nat, id : Nat, kind : {"start", "end"}, action : Actions]
    /\ type \in [Actions -> Types]
    /\ mStartTime \in [Actions -> Nat]
    /\ {mActiveAction, mFuture, mNextStart, mNextEnd} \subseteq Actions \cup {None}
    /\ mDelayedQueue \in Seq(Actions)
    /\ fiber \in [Actions -> {"none", "running", "done"}]
    /\ result \in [Actions -> Seq(Created)]
    /\ taking \in handlers \cup {None}
    /\ {mInitDone, thrown} \subseteq BOOLEAN

\* The tracker's two pointers are set together, in whatever order the fiber
\* calls setNext and the core thread isEnd: the wildcard of isStart and of
\* isEnd (a null pointer lets any action pass) is over for both at once.
TrackerTogether == mNextStart = None <=> mNextEnd = None

\* Although end handlers are sent again and results of one fiber are taken at
\* the end of another action, no result is scheduled twice: a fiber that is
\* done is never launched again.
LaunchedOnce == [][\A a \in Actions : fiber[a] = "done" => fiber'[a] = "done"]_vars

-----------------------------------------------------------------------------
(* What the code says and does not keep.                                   *)

\* ObjectActionManager.hpp: actions are managed "to avoid concurrent
\* execution of one object".  The end handler of an update or indication that
\* the tracker does not expect makes the object idle without waiting for a
\* fiber, also when it was sent again to end the action dequeued after it, and
\* the next action launches a second fiber on the same object.
OneFiber == Cardinality({ a \in Actions : fiber[a] = "running" }) <= 1
=============================================================================
