----------------------------- MODULE ActionList -----------------------------
(***************************************************************************)
(* The list of future actions: a map from time points to lists of          *)
(* handlers, and the core's use of it.  The core looks at the first time   *)
(* point, waits for it, takes its whole list, and invokes the handlers,    *)
(* which insert others.  Module SimulationTimer adds the clock.            *)
(*                                                                         *)
(* A handler is its time and the number of its insertion.  Module Kernel   *)
(* has this list as a set of handlers ordered by number; here it is shown  *)
(* that the map of lists is such a set.                                    *)
(***************************************************************************)
EXTENDS Integers, Sequences, SequencesExt, FiniteSets

CONSTANTS
    MaxTime,     \* BOUND: last time point
    MaxInserts   \* BOUND: handlers inserted in a behaviour

ASSUME ListAssumption == MaxTime \in Nat /\ MaxInserts \in Nat

VARIABLES
    mHandlerMap,         \* the map; its domain are the keys
    mCurrentActionTime,  \* Core
    inserted,            \* number of insertions
    popped,              \* what popNextHandlers returned last
    core                 \* "handlers": handlers run, "timer": the timer is armed, "finished"

listVars == <<mHandlerMap, mCurrentActionTime, inserted, popped, core>>

Times == 0..MaxTime
Invalid == -1      \* SimClock::invalid()

Handler(t, n) == [time |-> t, nth |-> n]

-----------------------------------------------------------------------------
Keys == DOMAIN mHandlerMap

\* Faulty variant: the map is not ordered by time.
AnyKey(t) == t \in Keys

\* begin() of the map.
Begin(t) == t \in Keys /\ \A k \in Keys : t <= k

\* operator[] makes an empty list for a new key.
ListAt(t) == IF t \in Keys THEN mHandlerMap[t] ELSE <<>>

\* Faulty variant: the new handler comes first.
PushFront(list, h) == <<h>> \o list

PushBack(list, h) == Append(list, h)

\* What insertHandler enforces, and what its callers respect when it does
\* not (PendingNotPast of module Kernel).
NotPast(t) == mCurrentActionTime <= t

InsertHandler(t) ==
    /\ core = "handlers"
    /\ inserted < MaxInserts
    /\ NotPast(t)
    /\ inserted' = inserted + 1
    /\ mHandlerMap' = [k \in Keys \cup {t} |->
            IF k = t THEN PushBack(ListAt(t), Handler(t, inserted')) ELSE mHandlerMap[k]]
    /\ UNCHANGED <<mCurrentActionTime, popped, core>>

\* runSimulationLoop: getNextTimePoint of a map that is not empty.
ArmTimer(t) ==
    /\ core = "handlers"
    /\ Begin(t)
    /\ mCurrentActionTime' = t
    /\ core' = "timer"
    /\ UNCHANGED <<mHandlerMap, inserted, popped>>

\* runSimulationLoop: getNextTimePoint of an empty map.
FinishSimulation ==
    /\ core = "handlers"
    /\ Keys = {}
    /\ mCurrentActionTime' = Invalid
    /\ popped' = <<>>
    /\ core' = "finished"
    /\ UNCHANGED <<mHandlerMap, inserted>>

\* erase(begin()).
Without(t) == [k \in Keys \ {t} |-> mHandlerMap[k]]

\* popNextHandlers, when the timer fires.
PopNextHandlers(t) ==
    /\ core = "timer"
    /\ Begin(t)
    /\ popped' = mHandlerMap[t]
    /\ mHandlerMap' = Without(t)
    /\ core' = "handlers"
    /\ UNCHANGED <<mCurrentActionTime, inserted>>

ListInit ==
    /\ mHandlerMap = [t \in {} |-> <<>>]
    /\ mCurrentActionTime = 0
    /\ inserted = 0
    /\ popped = <<>>
    /\ core = "handlers"
-----------------------------------------------------------------------------
Handlers == [time : Times, nth : 1..MaxInserts]

ListTypeOK ==
    /\ Keys \subseteq Times
    /\ \A t \in Keys : mHandlerMap[t] \in Seq(Handlers)
    /\ mCurrentActionTime \in Times \cup {Invalid}
    /\ inserted \in 0..MaxInserts
    /\ popped \in Seq(Handlers)
    /\ core \in {"handlers", "timer", "finished"}

-----------------------------------------------------------------------------
\* The list of the armed time point counts as taken: the core thread does
\* nothing else until the timer fires.
dueHandlers == IF core = "timer" THEN ListAt(mCurrentActionTime) ELSE popped

pendingHandlers ==
    UNION { ToSet(mHandlerMap[t]) : t \in Keys \ (IF core = "timer" THEN {mCurrentActionTime} ELSE {}) }

Set == INSTANCE FutureActionSet WITH
    Never <- Invalid,
    now <- mCurrentActionTime,
    pending <- pendingHandlers,
    added <- inserted,
    due <- dueHandlers
=============================================================================
