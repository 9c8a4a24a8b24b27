------------------------------- MODULE Radio -------------------------------
(***************************************************************************)
(* The way of a transmission: the stack of a vehicle's router asks its     *)
(* access interface for one, the router hands it to the core with the      *)
(* receivers it found, the radio decides who hears it when it starts and   *)
(* when it ends, and every receiver gets an indication.                    *)
(*                                                                         *)
(* Routers and the radio are objects of the kernel.  This module uses what *)
(* module SerialServer says of them: an action that was scheduled arrives  *)
(* at some later time, the actions of an object are served one at a time   *)
(* in order of arrival, and their end handler runs on the core thread when *)
(* the fiber is done.  Times are left out: actions arrive in any order.    *)
(***************************************************************************)
EXTENDS FiniteSets, Sequences, SequencesExt

CONSTANTS
    Vehicles,
    Transmissions,  \* the Transmission objects that are ever made
    None

Kinds == {"transmissionStart", "transmissionEnd"}
RadioActions == Kinds \X Transmissions
Indications == Transmissions \X Vehicles

ASSUME RadioAssumption ==
    /\ IsFiniteSet(Vehicles) /\ IsFiniteSet(Transmissions)
    /\ None \notin Vehicles \cup Transmissions \cup RadioActions

VARIABLES
    active,               \* vehicles whose objects are in the current container
    removed,              \* vehicles that were taken out of the simulation
    fiber,                \* fiber of each router: "none", "init", "action" or "done"
    initialized,          \* routers whose initRouter has ended
    snapshot,             \* the container a router's fiber computes with
    asked,                \* the stack has asked since the last trigger
    mHasRequest,          \* AccessInterface
    mCurrentTransmission, \* AccessInterface
    sender,               \* who made a transmission; None: not made yet
    mPossibleReceivers,   \* Transmission
    mIsSetupDone,         \* Transmission
    transmission,         \* RouterUpdateData: what the end handler will hand over
    scheduled,            \* radio actions whose start handler is in the event list
    mDelayedQueue,        \* radio
    mActiveAction,        \* radio
    given,                \* the context that the radio's fiber was given
    computed,             \* the fiber of the active action is done
    mRadioContext,        \* recipients of the transmissions in the air
    indications,          \* indications in the event list
    heard                 \* indications that have reached a router

vehicleVars == <<active, removed>>
routerVars == <<fiber, initialized, snapshot, asked, mHasRequest,
                mCurrentTransmission, transmission>>
transmissionVars == <<sender, mPossibleReceivers, mIsSetupDone>>
radioVars == <<scheduled, mDelayedQueue, mActiveAction, given, computed, mRadioContext>>
vars == <<vehicleVars, routerVars, transmissionVars, radioVars, indications, heard>>

Start(t) == <<"transmissionStart", t>>
End(t) == <<"transmissionEnd", t>>

-----------------------------------------------------------------------------
(* Vehicles come and go, as whole sets of objects (module ObjectRegistry). *)

AddVehicle(v) ==
    /\ v \notin active \cup removed
    /\ active' = active \cup {v}
    /\ UNCHANGED <<removed, routerVars, transmissionVars, radioVars, indications, heard>>

\* The end handler of its router will be dropped.
RemoveVehicle(v) ==
    /\ v \in active
    /\ active' = active \ {v}
    /\ removed' = removed \cup {v}
    /\ UNCHANGED <<routerVars, transmissionVars, radioVars, indications, heard>>

-----------------------------------------------------------------------------
(* The fiber of a router.                                                  *)

Launch(v, kind) ==
    /\ v \in active
    /\ fiber[v] = "none"
    /\ fiber' = [fiber EXCEPT ![v] = kind]
    /\ snapshot' = [snapshot EXCEPT ![v] = active]
    /\ asked' = [asked EXCEPT ![v] = FALSE]
    /\ UNCHANGED <<vehicleVars, initialized, mHasRequest, mCurrentTransmission,
                   transmission, transmissionVars, radioVars, indications, heard>>

LaunchInit(v) == v \notin initialized /\ Launch(v, "init")

\* caUpdate, update or indication.
LaunchAction(v) == v \in initialized /\ Launch(v, "action")

Computing(v) == fiber[v] \in {"init", "action"}

\* The stack calls request, at most once between two triggers of its timers.
Request(v, t) ==
    /\ Computing(v)
    /\ ~asked[v]
    /\ sender[t] = None
    /\ sender' = [sender EXCEPT ![t] = v]
    /\ mCurrentTransmission' = [mCurrentTransmission EXCEPT ![v] = t]
    /\ mHasRequest' = [mHasRequest EXCEPT ![v] = TRUE]
    /\ asked' = [asked EXCEPT ![v] = TRUE]
    /\ UNCHANGED <<vehicleVars, fiber, initialized, snapshot, transmission,
                   mPossibleReceivers, mIsSetupDone, radioVars, indications, heard>>

\* Faulty variant: the interface forgets the transmission, not the request.
Forget(v) ==
    /\ mCurrentTransmission' = [mCurrentTransmission EXCEPT ![v] = None]
    /\ UNCHANGED mHasRequest

\* dropTransmission.
DropTransmission(v) ==
    /\ mHasRequest' = [mHasRequest EXCEPT ![v] = FALSE]
    /\ UNCHANGED mCurrentTransmission

\* The loop of initRouter: trigger what is due and drop what it sends.
InitTrigger(v) ==
    /\ fiber[v] = "init"
    /\ asked[v]
    /\ DropTransmission(v)
    /\ asked' = [asked EXCEPT ![v] = FALSE]
    /\ UNCHANGED <<vehicleVars, fiber, initialized, snapshot, transmission,
                   transmissionVars, radioVars, indications, heard>>

InitFinishes(v) ==
    /\ fiber[v] = "init"
    /\ ~asked[v]
    /\ fiber' = [fiber EXCEPT ![v] = "done"]
    /\ transmission' = [transmission EXCEPT ![v] = None]
    /\ UNCHANGED <<vehicleVars, initialized, snapshot, asked, mHasRequest,
                   mCurrentTransmission, transmissionVars, radioVars, indications, heard>>

\* getObjectsByType for routers with CacheQueryExclude.
Found(v) == snapshot[v] \ {v}

\* scheduleTransmission with getTransmission.
ActionFinishes(v) ==
    /\ fiber[v] = "action"
    /\ fiber' = [fiber EXCEPT ![v] = "done"]
    /\ mHasRequest' = [mHasRequest EXCEPT ![v] = FALSE]
    /\ transmission' = [transmission EXCEPT ![v] =
            IF mHasRequest[v] THEN mCurrentTransmission[v] ELSE None]
    /\ mCurrentTransmission' = [mCurrentTransmission EXCEPT ![v] =
            IF mHasRequest[v] THEN None ELSE @]
    /\ mPossibleReceivers' = [t \in Transmissions |->
            IF mHasRequest[v] /\ t = mCurrentTransmission[v] THEN Found(v)
            ELSE mPossibleReceivers[t]]
    /\ UNCHANGED <<vehicleVars, initialized, snapshot, asked, sender, mIsSetupDone,
                   radioVars, indications, heard>>

-----------------------------------------------------------------------------
(* The end handler of a router's action.                                   *)

Ended(v) ==
    /\ fiber' = [fiber EXCEPT ![v] = "none"]
    /\ snapshot' = [snapshot EXCEPT ![v] = {}]
    /\ initialized' = initialized \cup {v}
    /\ transmission' = [transmission EXCEPT ![v] = None]

\* setupReceiverContext and addEmitter.
SetupReceiverContext(t) == mIsSetupDone' = [mIsSetupDone EXCEPT ![t] = TRUE]

RouterEnds(v) ==
    /\ v \in active
    /\ fiber[v] = "done"
    /\ Ended(v)
    /\ LET t == transmission[v]
       IN  IF t = None THEN UNCHANGED <<scheduled, mIsSetupDone>>
           ELSE /\ scheduled' = scheduled \cup {Start(t)}
                /\ SetupReceiverContext(t)
    /\ UNCHANGED <<vehicleVars, asked, mHasRequest, mCurrentTransmission, sender,
                   mPossibleReceivers, mDelayedQueue, mActiveAction, given, computed,
                   mRadioContext, indications, heard>>

\* The result is never taken: endExecution did not expect the action (module
\* Router), or the router was removed.
RouterIgnored(v) ==
    /\ fiber[v] = "done"
    /\ v \in initialized \cup removed
    /\ Ended(v)
    /\ UNCHANGED <<vehicleVars, asked, mHasRequest, mCurrentTransmission,
                   transmissionVars, radioVars, indications, heard>>

-----------------------------------------------------------------------------
(* The radio.                                                              *)

\* Faulty variant: a busy radio loses the action.
Lost(x) == mDelayedQueue

\* The queue with an action that has to wait.
Delayed(x) == Append(mDelayedQueue, x)

\* A start handler of the radio is invoked: its fiber is launched with the
\* context, or the action is delayed.
ActionArrives(x) ==
    /\ x \in scheduled
    /\ scheduled' = scheduled \ {x}
    /\ IF mActiveAction = None
       THEN /\ mActiveAction' = x
            /\ given' = mRadioContext
            /\ computed' = FALSE
            /\ UNCHANGED mDelayedQueue
       ELSE /\ mDelayedQueue' = Delayed(x)
            /\ UNCHANGED <<mActiveAction, given, computed>>
    /\ UNCHANGED <<vehicleVars, routerVars, transmissionVars, mRadioContext,
                   indications, heard>>

\* The fiber is done: its result follows from the action and the context it
\* was given, so it is not computed before it is taken.
RadioComputes ==
    /\ mActiveAction # None
    /\ ~computed
    /\ computed' = TRUE
    /\ UNCHANGED <<vehicleVars, routerVars, transmissionVars, scheduled, mDelayedQueue,
                   mActiveAction, given, mRadioContext, indications, heard>>

Without(context, t) == [s \in DOMAIN context \ {t} |-> context[s]]

\* decideOnPhysicalReception: messages for everyone.
Recipients(t) == mPossibleReceivers[t]

\* decideOnInterference: none.  find() of a transmission that is not there
\* gives end(), which nobody may dereference.
Receivers(context, t) == context[t]

\* startTransmission and its part of endExecution.
StartTransmission(t) ==
    /\ mRadioContext' = [s \in DOMAIN given \cup {t} |->
                          IF s = t THEN Recipients(t) ELSE given[s]]
    /\ scheduled' = scheduled \cup {End(t)}
    /\ UNCHANGED indications

\* endTransmission and its part of endExecution.
EndTransmission(t) ==
    /\ mRadioContext' = Without(given, t)
    /\ indications' = indications \cup ({t} \X Receivers(given, t))
    /\ UNCHANGED scheduled

\* Faulty variant: the next fiber is given the context of the last one.
GivenAgain == given

\* The context for the next fiber: what the last one left.
Swapped == mRadioContext'

\* The end handler of the radio's action, and the start of the delayed one.
RadioEnds ==
    /\ mActiveAction # None
    /\ computed
    /\ LET t == mActiveAction[2]
       IN  \/ mActiveAction = Start(t) /\ StartTransmission(t)
           \/ mActiveAction = End(t) /\ EndTransmission(t)
    /\ IF mDelayedQueue = <<>>
       THEN /\ mActiveAction' = None
            /\ UNCHANGED mDelayedQueue
       ELSE /\ mActiveAction' = Head(mDelayedQueue)
            /\ mDelayedQueue' = Tail(mDelayedQueue)
    /\ given' = Swapped
    /\ computed' = FALSE
    /\ UNCHANGED <<vehicleVars, routerVars, transmissionVars, heard>>

\* An indication that was taken from the list.
OtherIndications(i) == indications \ {i}

\* The start handler of an indication is invoked at the receiver's router,
\* or dropped with it.
IndicationArrives(i) ==
    /\ i \in indications
    /\ indications' = OtherIndications(i)
    /\ heard' = IF i[2] \in active THEN heard \cup {i} ELSE heard
    /\ UNCHANGED <<vehicleVars, routerVars, transmissionVars, radioVars>>

-----------------------------------------------------------------------------
Init ==
    /\ active = {}
    /\ removed = {}
    /\ fiber = [v \in Vehicles |-> "none"]
    /\ initialized = {}
    /\ snapshot = [v \in Vehicles |-> {}]
    /\ asked = [v \in Vehicles |-> FALSE]
    /\ mHasRequest = [v \in Vehicles |-> FALSE]
    /\ mCurrentTransmission = [v \in Vehicles |-> None]
    /\ sender = [t \in Transmissions |-> None]
    /\ mPossibleReceivers = [t \in Transmissions |-> {}]
    /\ mIsSetupDone = [t \in Transmissions |-> FALSE]
    /\ transmission = [v \in Vehicles |-> None]
    /\ scheduled = {}
    /\ mDelayedQueue = <<>>
    /\ mActiveAction = None
    /\ given = [t \in {} |-> {}]
    /\ computed = FALSE
    /\ mRadioContext = [t \in {} |-> {}]
    /\ indications = {}
    /\ heard = {}

RouterStep(v) ==
    \/ \E t \in Transmissions : Request(v, t)
    \/ InitTrigger(v)
    \/ InitFinishes(v)
    \/ ActionFinishes(v)

RadioStep ==
    \/ \E x \in scheduled : ActionArrives(x)
    \/ RadioComputes
    \/ RadioEnds

\* Every vehicle is gone and the air is free.
Stopped ==
    /\ removed = Vehicles
    /\ UNCHANGED vars

Next ==
    \/ \E v \in Vehicles :
        \/ AddVehicle(v) \/ RemoveVehicle(v)
        \/ LaunchInit(v) \/ LaunchAction(v)
        \/ RouterStep(v)
        \/ RouterEnds(v) \/ RouterIgnored(v)
    \/ RadioStep
    \/ \E i \in Indications : IndicationArrives(i)
    \/ Stopped

\* The kernel starts every action that was scheduled (EveryActionStarts of
\* module Kernel), and fibers end.  Nothing makes a stack send.
Fairness ==
    /\ \A x \in RadioActions : WF_vars(ActionArrives(x))
    /\ WF_vars(RadioComputes)
    /\ WF_vars(RadioEnds)
    /\ \A i \in Indications : WF_vars(IndicationArrives(i))

Spec == Init /\ [][Next]_vars /\ Fairness
-----------------------------------------------------------------------------
Contexts == UNION { [S -> SUBSET Vehicles] : S \in SUBSET Transmissions }

\* Every variable has its type, and no vehicle receives itself
\* (CacheQueryExclude).
TypeOK ==
    /\ active \subseteq Vehicles /\ removed \subseteq Vehicles
    /\ fiber \in [Vehicles -> {"none", "init", "action", "done"}]
    /\ initialized \subseteq Vehicles
    /\ snapshot \in [Vehicles -> SUBSET Vehicles]
    /\ asked \in [Vehicles -> BOOLEAN]
    /\ mHasRequest \in [Vehicles -> BOOLEAN]
    /\ mCurrentTransmission \in [Vehicles -> Transmissions \cup {None}]
    /\ sender \in [Transmissions -> Vehicles \cup {None}]
    /\ mPossibleReceivers \in [Transmissions -> SUBSET Vehicles]
    /\ \A t \in Transmissions : sender[t] \notin mPossibleReceivers[t]
    /\ mIsSetupDone \in [Transmissions -> BOOLEAN]
    /\ transmission \in [Vehicles -> Transmissions \cup {None}]
    /\ scheduled \subseteq RadioActions
    /\ mDelayedQueue \in Seq(RadioActions)
    /\ mActiveAction \in RadioActions \cup {None}
    /\ {given, mRadioContext} \subseteq Contexts
    /\ computed \in BOOLEAN
    /\ indications \subseteq Indications /\ heard \subseteq Indications

\* Radio actions that are still to be ended.
Outstanding ==
    scheduled \cup ToSet(mDelayedQueue)
        \cup (IF mActiveAction = None THEN {} ELSE {mActiveAction})

\* The radio's context holds exactly the transmissions whose end is still to
\* come, although each fiber works on a copy and starts and ends of several
\* transmissions wait behind each other: the decider finds what it looks for
\* (NoInterferenceDecider dereferences find()) and nothing stays in the air.
InAirUntilEnd ==
    DOMAIN mRadioContext = { t \in Transmissions : End(t) \in Outstanding }

\* A stack that asks finds the interface free (the enforce of
\* AccessInterface::request), also after requests were dropped during
\* initialisation and results were never taken.
InterfaceIsFree == \A v \in Vehicles : Computing(v) /\ ~asked[v] => ~mHasRequest[v]

\* Every receiver of a transmission that was set up hears it, unless it
\* leaves the simulation.
EveryReceiverHears ==
    \A t \in Transmissions, v \in Vehicles :
        mIsSetupDone[t] /\ v \in mPossibleReceivers[t]
            ~> <<t, v>> \in heard \/ v \in removed

=============================================================================
