------------------------------ MODULE Mobility ------------------------------
(***************************************************************************)
(* SumoMobilityManager with its launcher and SumoUpdater.  It starts SUMO  *)
(* and connects to it.  Then, every period, it asks SUMO which vehicles    *)
(* departed and arrived, tells the core to make and to remove their        *)
(* objects, sends every known vehicle an update with what SUMO reported of *)
(* it, and advances SUMO by one step.  The calls to SUMO are atomic here   *)
(* (module TraciClient); they throw when SUMO is gone, which ends the      *)
(* program.                                                                *)
(*                                                                         *)
(* The manager and the vehicles are objects of the kernel.  Of its times   *)
(* only their order is kept: the handlers that the end of the manager's    *)
(* action schedules are 1 ms and their ends 2 ms later, the manager's next *)
(* action starts a period after its last.  Meanwhile nobody else adds or   *)
(* removes vehicles, so the container that the fiber is given is current.  *)
(* A vehicle stands for its three objects (module ObjectRegistry).         *)
(***************************************************************************)
EXTENDS Integers, FiniteSets, Functions, Sequences, SequencesExt

CONSTANTS
    SumoIds,       \* external ids of the vehicles of the scenario
    StartUpTimes   \* half seconds that SUMO may take until it listens

ASSUME SumoIdsAssumption == IsFiniteSet(SumoIds)
ASSUME StartUpAssumption == StartUpTimes \subseteq Nat /\ 0 \in StartUpTimes

\* ObjectId::stub and the ids that are given out.
Stub == -1
Ids == 1 .. Cardinality(SumoIds)

\* The steps of SUMO, BOUND: counted modulo 3.  What exists at the same time
\* is at most two steps apart.
Steps == 0 .. 2
Next3(k) == (k + 1) % 3
Last3(k) == (k + 2) % 3

\* Contexts of a vehicle object before the first update.
Absent == -2
Empty == -1

VARIABLES
    alive,                \* SUMO's process
    startUp,              \* SUMO: half seconds until it listens
    steps,                \* SUMO: steps made
    traffic,              \* SUMO: where each vehicle is
    departed,             \* SUMO: the vehicles that the last step inserted
    arrived,              \* SUMO: the vehicles that the last step removed
    subscribed,           \* SUMO: vehicles it reports on at every step
    tries,                \* API::connect: failed attempts
    waited,               \* and the half seconds spent between them
    results,              \* VehicleScope: the step that the results of each vehicle are of
    mSubscribedVehicles,  \* SumoUpdater
    mIdMapper,            \* from external ids to object ids or the stub
    manager,              \* where the manager's action is
    tasks,                \* MobilityManagerTasks that the fiber returned
    objects,              \* vehicle objects in the container: their external ids
    removed,              \* mRemovedObjects
    mCurrentObjectId,
    inits,                \* vehicles whose init action is in the event list
    updates,              \* vehicles with an update, and where it is
    updateData,           \* VehicleUpdateActionData: mObjectId and the step of each vehicle
    context               \* of every vehicle object ever made: the step it shows

sumoVars == <<alive, startUp, steps, traffic, departed, arrived, subscribed>>
clientVars == <<tries, waited, results>>
managerVars == <<mSubscribedVehicles, mIdMapper, manager, tasks, clientVars>>
objectVars == <<objects, removed, mCurrentObjectId>>
vehicleVars == <<inits, updates, updateData, context>>
vars == <<sumoVars, managerVars, objectVars, vehicleVars>>

Waiting == { n \in SumoIds : traffic[n] = "waiting" }
Running == { n \in SumoIds : traffic[n] = "running" }

NoUpdate == [id |-> Stub, step |-> Empty]
NoTasks == [vehiclesToAdd |-> <<>>, objectsToDelete |-> {},
            vehiclesToUpdate |-> {}, again |-> FALSE]

-----------------------------------------------------------------------------
(* SUMO.                                                                   *)

\* Faulty variant: the results of earlier steps stay.
ResultsKept(subscribers, step) ==
    [n \in subscribers |-> IF n \in DOMAIN results THEN results[n] ELSE step]

\* TraCIAPI::simulationStep replaces all results by what SUMO reports.
ResultsOf(subscribers, step) == [n \in subscribers |-> step]

\* One step, with the vehicles S subscribed.  Vehicles are inserted after
\* the others have moved, so none departs and arrives in one step.
SimulationStep(S) ==
    \E D \in SUBSET Waiting, A \in SUBSET Running :
        /\ traffic' = [n \in SumoIds |-> IF n \in D THEN "running"
                                         ELSE IF n \in A THEN "arrived"
                                         ELSE traffic[n]]
        /\ departed' \in SetToSeqs(D)
        /\ arrived' = A
        /\ steps' = Next3(steps)
        /\ subscribed' = S \ A
        /\ results' = ResultsOf(S \ A, steps')
        /\ UNCHANGED alive

SumoDies ==
    /\ alive
    /\ manager \notin {"stopped", "ended"}
    /\ alive' = FALSE
    /\ UNCHANGED <<startUp, steps, traffic, departed, arrived, subscribed,
                   managerVars, objectVars, vehicleVars>>

\* Faulty variant: asked after the next step.
ExpectedAfterStep == Cardinality({ n \in SumoIds : traffic'[n] # "arrived" })

\* getMinExpectedNumber: vehicles that run or are still to depart.
MinExpectedNumber == Cardinality(Waiting \cup Running)

-----------------------------------------------------------------------------
(* Start of the manager, on the core thread.                               *)

MaxTries == 10

\* Faulty variant: the sleep does not grow.
SameSleep(k) == 1

\* Half seconds to sleep after the k-th failed attempt.
Sleep(k) == 2^(k - 1)

\* What SUMO may take to listen: the sum of all sleeps.
Patience == 511

\* PosixLauncher::launch, the first thing initObject does with SUMO.  Without
\* a child process it throws.
Launch ==
    /\ manager = "created"
    /\ alive' \in BOOLEAN
    /\ manager' = IF alive' THEN "connecting" ELSE "ended"
    /\ UNCHANGED <<startUp, steps, traffic, departed, arrived, subscribed,
                   mSubscribedVehicles, mIdMapper, tasks, clientVars,
                   objectVars, vehicleVars>>

\* One attempt of API::connect.  When it succeeds SumoUpdater subscribes the
\* vehicles that already run, and SUMO makes its first step.  Nobody looks at
\* the attempts and the times again: they are zero from here on.
Connect ==
    /\ manager = "connecting"
    /\ alive
    /\ startUp <= waited
    /\ mSubscribedVehicles' = Running
    /\ SimulationStep(Running)
    /\ manager' = "scheduled"
    /\ tries' = 0 /\ waited' = 0 /\ startUp' = 0
    /\ UNCHANGED <<mIdMapper, tasks, objectVars, vehicleVars>>

ConnectFails ==
    /\ manager = "connecting"
    /\ ~alive \/ startUp > waited
    /\ tries' = tries + 1
    /\ IF tries' < MaxTries
       THEN waited' = waited + Sleep(tries') /\ UNCHANGED manager
       ELSE manager' = "ended" /\ UNCHANGED waited
    /\ UNCHANGED <<mSubscribedVehicles, mIdMapper, tasks, results, sumoVars,
                   objectVars, vehicleVars>>

-----------------------------------------------------------------------------
(* The manager's fiber.                                                    *)

StartManager ==
    /\ manager = "scheduled"
    /\ inits = {}
    /\ DOMAIN updates = {}
    /\ manager' = "computing"
    /\ UNCHANGED <<mSubscribedVehicles, mIdMapper, tasks, clientVars, sumoVars,
                   objectVars, vehicleVars>>

\* Faulty variant: any vehicle object is taken.
FetchedAny(n) ==
    IF mIdMapper[n] = Stub /\ objects # <<>>
    THEN CHOOSE id \in DOMAIN objects : TRUE
    ELSE mIdMapper[n]

\* fetchVehicleIds: a stub is replaced by the id of the vehicle's object.
Fetched(n) ==
    IF mIdMapper[n] = Stub /\ n \in Range(objects)
    THEN CHOOSE id \in DOMAIN objects : objects[id] = n
    ELSE mIdMapper[n]

\* The mapper with the stubs of the vehicles that departed.
Mapper ==
    [n \in DOMAIN mIdMapper \cup Range(departed) |->
        IF n \in DOMAIN mIdMapper THEN Fetched(n) ELSE Stub]

\* Faulty variant: vehicles that depart are not subscribed.
NotSubscribed == mSubscribedVehicles \ arrived

\* SumoUpdater::step.
Subscribed == (mSubscribedVehicles \cup Range(departed)) \ arrived

\* Faulty variant, as in MobilityManager: only the last one is kept.
LastToDelete(mapper) ==
    IF arrived = {} THEN {} ELSE { mapper[CHOOSE n \in arrived : TRUE] }

ObjectsToDelete(mapper) == { mapper[n] : n \in arrived }

\* A vehicle without a valid id gets no update.
VehiclesToUpdate(mapper) == { n \in Subscribed : mapper[n] # Stub }

\* subscribe brings the results of a vehicle that departed at once.
Results ==
    [n \in DOMAIN results \cup Range(departed) |->
        IF n \in DOMAIN results THEN results[n] ELSE steps]

\* getVehicleUpdate: a vehicle without results gets an empty update.
Update(n) == IF n \in DOMAIN Results THEN Results[n] ELSE Empty

\* What the fiber looks up is there: at() finds a key, getObject an object.
Found(mapper) ==
    /\ arrived \cup Subscribed \subseteq DOMAIN mapper
    /\ ObjectsToDelete(mapper) \subseteq DOMAIN objects

\* doVehicleUpdate with SumoUpdater::step and executeUpdate.  The fiber meets
\* no other, so it is one step.
DoVehicleUpdate ==
    /\ manager = "computing"
    /\ LET mapper == Mapper
       IN  /\ alive
           /\ Found(mapper)
           /\ SimulationStep(subscribed \cup Range(departed))
           /\ mIdMapper' = mapper
           /\ mSubscribedVehicles' = Subscribed
           /\ tasks' = [vehiclesToAdd |-> departed,
                        objectsToDelete |-> ObjectsToDelete(mapper),
                        vehiclesToUpdate |-> VehiclesToUpdate(mapper),
                        again |-> MinExpectedNumber > 0]
           /\ updateData' = [n \in SumoIds |->
                   IF n \in VehiclesToUpdate(mapper)
                   THEN [id |-> mapper[n], step |-> Update(n)]
                   ELSE NoUpdate]
    /\ manager' = "done"
    /\ UNCHANGED <<startUp, tries, waited, objectVars, inits, updates, context>>

\* An exception in the fiber goes to the future, and from there to the core
\* thread (endExecution) and out of main.
UpdateThrows ==
    /\ manager = "computing"
    /\ ~(alive /\ Found(Mapper))
    /\ manager' = "ended"
    /\ UNCHANGED <<mSubscribedVehicles, mIdMapper, tasks, clientVars, sumoVars,
                   objectVars, vehicleVars>>

-----------------------------------------------------------------------------
(* The core thread.                                                        *)

\* endExecution: vehicles are added, actions scheduled, vehicles removed.
EndManager ==
    /\ manager = "done"
    /\ LET added == [i \in mCurrentObjectId + 1
                            .. mCurrentObjectId + Len(tasks.vehiclesToAdd) |->
                        tasks.vehiclesToAdd[i - mCurrentObjectId]]
           kept == DOMAIN objects \ tasks.objectsToDelete
       IN  /\ objects' = [id \in kept \cup DOMAIN added |->
                            IF id \in kept THEN objects[id] ELSE added[id]]
           /\ inits' = DOMAIN added
           /\ mCurrentObjectId' = mCurrentObjectId + Len(tasks.vehiclesToAdd)
    /\ removed' = removed \cup tasks.objectsToDelete
    /\ updates' = [id \in { updateData[n].id : n \in tasks.vehiclesToUpdate } |-> "sent"]
    /\ manager' = IF tasks.again THEN "scheduled" ELSE "stopped"
    /\ tasks' = NoTasks
    /\ UNCHANGED <<sumoVars, clientVars, mIdMapper, mSubscribedVehicles, updateData, context>>

\* VehicleObject::initObject.
InitVehicle(id) ==
    /\ id \in inits
    /\ inits' = inits \ {id}
    /\ context' = [context EXCEPT ![id] = Empty]
    /\ UNCHANGED <<sumoVars, managerVars, objectVars, updates, updateData>>

Without(id) == [i \in DOMAIN updates \ {id} |-> updates[i]]

\* The start handler of an update, which the core drops with its object.
StartUpdate(id) ==
    /\ id \in DOMAIN updates
    /\ updates[id] = "sent"
    /\ updates' = IF id \in removed THEN Without(id)
                  ELSE [updates EXCEPT ![id] =
                            IF id \in DOMAIN objects THEN "computing" ELSE "thrown"]
    /\ UNCHANGED <<sumoVars, managerVars, objectVars, inits, updateData, context>>

\* executeSumoUpdate in a fiber.
ExecuteSumoUpdate(id) ==
    /\ id \in DOMAIN updates
    /\ updates[id] = "computing"
    /\ updates' = [updates EXCEPT ![id] =
                    IF updateData[objects[id]].id = id /\ context[id] # Absent
                    THEN "done" ELSE "thrown"]
    /\ UNCHANGED <<sumoVars, managerVars, objectVars, inits, updateData, context>>

\* VehicleObject::endExecution.
EndUpdate(id) ==
    /\ id \in DOMAIN updates
    /\ updates[id] = "done"
    /\ updates' = Without(id)
    /\ context' = [context EXCEPT ![id] = updateData[objects[id]].step]
    /\ UNCHANGED <<sumoVars, managerVars, objectVars, inits, updateData>>

VehicleStep(id) ==
    /\ manager # "ended"
    /\ \/ InitVehicle(id)
       \/ StartUpdate(id)
       \/ ExecuteSumoUpdate(id)
       \/ EndUpdate(id)

-----------------------------------------------------------------------------
\* SUMO is launched by initObject: no vehicle runs before its first step.
Init ==
    /\ alive = FALSE
    /\ startUp \in StartUpTimes
    /\ steps = 0
    /\ subscribed = {}
    /\ tries = 0
    /\ waited = 0
    /\ results = <<>>
    /\ traffic = [n \in SumoIds |-> "waiting"]
    /\ departed = <<>>
    /\ arrived = {}
    /\ mSubscribedVehicles = {}
    /\ mIdMapper = <<>>
    /\ manager = "created"
    /\ tasks = NoTasks
    /\ objects = <<>>
    /\ removed = {}
    /\ mCurrentObjectId = 0
    /\ inits = {}
    /\ updates = <<>>
    /\ updateData = [n \in SumoIds |-> NoUpdate]
    /\ context = [id \in Ids |-> Absent]

\* The simulation is over, or the program has ended.
Stopped ==
    /\ \/ manager = "stopped" /\ inits = {} /\ DOMAIN updates = {}
       \/ manager = "ended"
    /\ UNCHANGED vars

Next ==
    \/ SumoDies
    \/ Launch
    \/ Connect
    \/ ConnectFails
    \/ StartManager
    \/ DoVehicleUpdate
    \/ UpdateThrows
    \/ EndManager
    \/ \E id \in Ids \cup {Stub} : VehicleStep(id)
    \/ Stopped

\* Every action that was scheduled is started (EveryActionStarts of module
\* Kernel) and fibers end.  SUMO need not let any vehicle depart or arrive.
Fairness ==
    /\ WF_vars(Launch)
    /\ WF_vars(Connect \/ ConnectFails)
    /\ WF_vars(StartManager)
    /\ WF_vars(DoVehicleUpdate \/ UpdateThrows)
    /\ WF_vars(EndManager)
    /\ \A id \in Ids : WF_vars(VehicleStep(id))

Spec == Init /\ [][Next]_vars /\ Fairness
-----------------------------------------------------------------------------
\* Every variable has its type.
TypeOK ==
    /\ alive \in BOOLEAN /\ startUp \in StartUpTimes /\ steps \in Steps
    /\ traffic \in [SumoIds -> {"waiting", "running", "arrived"}]
    /\ departed \in Seq(SumoIds) /\ arrived \subseteq SumoIds
    /\ subscribed \subseteq SumoIds
    /\ tries \in 0 .. MaxTries /\ waited \in 0 .. Patience
    /\ DOMAIN results \subseteq SumoIds /\ Range(results) \subseteq Steps
    /\ mSubscribedVehicles \subseteq SumoIds
    /\ DOMAIN mIdMapper \subseteq SumoIds /\ Range(mIdMapper) \subseteq Ids \cup {Stub}
    /\ manager \in {"created", "connecting", "scheduled", "computing", "done", "stopped", "ended"}
    /\ tasks \in [vehiclesToAdd : Seq(SumoIds), objectsToDelete : SUBSET Ids,
                  vehiclesToUpdate : SUBSET SumoIds, again : BOOLEAN]
    /\ DOMAIN objects \subseteq Ids /\ Range(objects) \subseteq SumoIds
    /\ removed \subseteq Ids
    /\ mCurrentObjectId \in Ids \cup {0}
    /\ inits \subseteq Ids
    /\ DOMAIN updates \subseteq Ids
    /\ Range(updates) \subseteq {"sent", "computing", "done", "thrown"}
    /\ updateData \in [SumoIds -> [id : Ids \cup {Stub}, step : Steps \cup {Empty}]]
    /\ context \in [Ids -> Steps \cup {Absent, Empty}]

\* An object id in the mapper belongs to the vehicle of that name, although
\* it is looked up a period after the object was asked for, among vehicles
\* that were made at the same time.
IdsAreOwn ==
    \A n \in DOMAIN mIdMapper :
        mIdMapper[n] # Stub => \/ mIdMapper[n] \in removed
                               \/ mIdMapper[n] \in DOMAIN objects /\ objects[mIdMapper[n]] = n

\* Only SUMO can end the program: it is not started, it ends, or it takes
\* more than four minutes to listen.  Nothing the fibers look up or check throws: an
\* arriving vehicle is resolved in time for at() and getObject, even if it has
\* just departed, and every update reaches an initialised vehicle and carries
\* its object id (the enforce of executeSumoUpdate).
NothingThrows ==
    /\ manager = "ended" => ~alive \/ startUp > Patience
    /\ "thrown" \notin Range(updates)

\* The manager goes on until SUMO has no vehicle left and its objects are
\* gone: getMinExpectedNumber is one step ahead of what was removed.
StopsEmpty ==
    manager = "stopped" => objects = <<>> /\ Waiting \cup Running = {}

\* An update shows the vehicle's state at the step the manager's action read
\* (SumoUpdater::step and the assert on the times), one behind SUMO's, never
\* that of an earlier period and never an empty one.
UpdatesAreCurrent ==
    [][\A id \in DOMAIN updates \ DOMAIN updates' :
        id \in removed \/ context'[id] = Last3(steps)]_vars

\* A vehicle that is still driving gets its object and then updates.
EveryVehicleUpdated ==
    \A n \in SumoIds :
        traffic[n] = "running"
            ~> \/ traffic[n] = "arrived" \/ manager = "ended"
               \/ \E id \in DOMAIN objects : objects[id] = n /\ context[id] \in Steps

\* The objects of every vehicle that arrives are removed, however many
\* arrive at once.
ArrivedRemoved ==
    \A n \in SumoIds :
        traffic[n] = "arrived" ~> n \notin Range(objects) \/ manager = "ended"
=============================================================================
