--------------------------- MODULE ObjectRegistry ---------------------------
(***************************************************************************)
(* The registry of simulated objects.  The core thread changes a working   *)
(* copy (ObjectList) and publishes an immutable copy of it after every     *)
(* change.  A fiber computes with the copy that was current when it was    *)
(* launched, while the core goes on; the cache of a router keeps the       *)
(* results of its searches as long as it is asked about the container it   *)
(* searched last, which it remembers by a weak pointer.                    *)
(*                                                                         *)
(* A vehicle is three objects that the manager's end handler adds and      *)
(* removes one by one: a vehicle object and a router below a microchannel, *)
(* whose own parent, the radio, nobody looks for.  A container is found at *)
(* an address; the address of one that nobody holds is used again.         *)
(***************************************************************************)
EXTENDS FiniteSets, Functions, SequencesExt

CONSTANTS
    Vehicles,     \* the vehicles that may enter the simulation, each with its router
    Manager,      \* the mobility manager
    Addresses,    \* BOUND: places for containers
    Requests,     \* what routers search for: [name, exclude], name "" for any object
    None          \* no container

ASSUME RegistryAssumption ==
    /\ IsFiniteSet(Vehicles)
    /\ Manager \notin Vehicles
    /\ None \notin Addresses
    /\ Requests \subseteq [name : {"", "Microchannel", "VehicleObject", "Router"}, exclude : BOOLEAN]

\* createVehicleObject: the temporary objects in the order of their list.
Parts == <<"Microchannel", "VehicleObject", "Router">>
TempChildren == [Microchannel |-> {"VehicleObject", "Router"}, VehicleObject |-> {}, Router |-> {}]
TempParents == [Microchannel |-> {}, VehicleObject |-> {"Microchannel"}, Router |-> {"Microchannel"}]

Fibers == Vehicles \cup {Manager}      \* at most one for each object: see Kernel
ObjectIds == Vehicles \X Range(Parts)
Containers == [mActiveObjects : SUBSET ObjectIds, mRemovedObjects : SUBSET ObjectIds]

VARIABLES
    mWorkingCopy,          \* ObjectList: the container the core thread changes
    mCurrentCopy,          \* ObjectList: address of the published copy
    memory,                \* the container at each address
    snapshot,              \* the copy each running fiber was launched with, or None
    mLastObjectContainer,  \* SimpleObjectCache of each router: a weak pointer
    mCachedRequests,       \* SimpleObjectCache of each router
    scheduled,             \* objects whose init action was scheduled
    adding,                \* objects the running end handler has still to add
    removing               \* and to remove, in this order

listVars == <<mWorkingCopy, mCurrentCopy, memory>>
cacheVars == <<mLastObjectContainer, mCachedRequests>>
taskVars == <<scheduled, adding, removing>>
vars == <<listVars, snapshot, cacheVars, taskVars>>

\* The core thread is between two handlers.
CoreIdle == adding = <<>> /\ removing = <<>>

\* Containers a shared pointer holds, when the fibers hold held.
Held(cur, held) == ({cur} \cup { held[f] : f \in Fibers }) \ {None}

\* A weak pointer to a container that nobody holds any more has expired.
Expired(last, cur, held) ==
    [v \in Vehicles |-> IF last[v] \in Held(cur, held) THEN last[v] ELSE None]

-----------------------------------------------------------------------------
(* ObjectList and ObjectContainer, used by the core thread.                *)

\* Room for a new container.
Free(a) == a \notin Held(mCurrentCopy, snapshot)

\* Faulty variant: the published container itself is changed.
PublishInPlace(container) ==
    /\ mWorkingCopy' = container
    /\ memory' = [memory EXCEPT ![mCurrentCopy] = container]
    /\ UNCHANGED <<mCurrentCopy, cacheVars>>

\* mCurrentCopy = make_shared<ObjectContainer>(*mWorkingCopy).
Publish(container) ==
    \E a \in Addresses :
        /\ Free(a)
        /\ mWorkingCopy' = container
        /\ memory' = [memory EXCEPT ![a] = container]
        /\ mCurrentCopy' = a
        /\ mLastObjectContainer' = Expired(mLastObjectContainer, a, snapshot)
        /\ UNCHANGED mCachedRequests

Inserted(o) == [mWorkingCopy EXCEPT !.mActiveObjects = @ \cup {o}]

\* Faulty variant: the object is not remembered as removed.
Erased(o) == [mWorkingCopy EXCEPT !.mActiveObjects = @ \ {o}]

Removed(o) == [mActiveObjects |-> mWorkingCopy.mActiveObjects \ {o},
               mRemovedObjects |-> mWorkingCopy.mRemovedObjects \cup {o}]

-----------------------------------------------------------------------------
(* Handlers of the mobility manager.                                       *)

\* Faulty variant: a fiber is launched in the middle of a handler.
AtAnyTime == TRUE

CanLaunch == CoreIdle

StartManager ==
    /\ CanLaunch
    /\ snapshot[Manager] = None
    /\ snapshot' = [snapshot EXCEPT ![Manager] = mCurrentCopy]
    /\ UNCHANGED <<listVars, cacheVars, taskVars>>

\* Faulty variant: removed vehicles are not forgotten.
EverIn(container) ==
    { v \in Vehicles :
        <<v, "VehicleObject">> \in container.mActiveObjects \cup container.mRemovedObjects }

VehiclesIn(container) == { v \in Vehicles : <<v, "VehicleObject">> \in container.mActiveObjects }

\* resolveAndStart replaces the temporary ids of one list by real ones.
Parents(o) == { <<o[1], name>> : name \in TempParents[o[2]] }
Children(o) == { <<o[1], name>> : name \in TempChildren[o[2]] }

\* getParentByName and getSiblingByName.
ParentsByName(o, name, container) ==
    { p \in Parents(o) \cap container.mActiveObjects : p[2] = name }
SiblingsByName(o, name, container) ==
    { s \in UNION { Children(p) : p \in Parents(o) \cap container.mActiveObjects } :
        s \in container.mActiveObjects /\ s[2] = name }

\* Faulty variant: the router is looked for among the parents.
NoSibling(v, container) ==
    LET o == <<v, "VehicleObject">>
    IN  <<o>> \o SetToSeq(ParentsByName(o, "Microchannel", container))
             \o SetToSeq(ParentsByName(o, "Router", container))

\* ObjectRemover: the vehicle, the microchannel above it, the router beside it.
ObjectsToDelete(v, container) ==
    LET o == <<v, "VehicleObject">>
    IN  <<o>> \o SetToSeq(ParentsByName(o, "Microchannel", container))
             \o SetToSeq(SiblingsByName(o, "Router", container))

\* The objects of a new vehicle, as resolveAndStart adds them.
ObjectsToAdd(v) == [i \in DOMAIN Parts |-> <<v, Parts[i]>>]

\* endExecution of the manager: the fiber is over, its snapshot released.  It
\* found the vehicles to remove in that snapshot.  (All of a vehicle's objects
\* get their ids and init actions before the first of them is added.)
EndManager ==
    /\ CoreIdle
    /\ snapshot[Manager] # None
    /\ LET container == memory[snapshot[Manager]]
       IN  \E departed \in SUBSET { v \in Vehicles : <<v, "Router">> \notin scheduled },
              arrived \in SUBSET VehiclesIn(container) :
             \E add \in SetToSeqs(departed), remove \in SetToSeqs(arrived) :
                /\ adding' = FlattenSeq([i \in DOMAIN add |-> ObjectsToAdd(add[i])])
                /\ removing' = FlattenSeq([i \in DOMAIN remove |-> ObjectsToDelete(remove[i], container)])
    /\ scheduled' = scheduled \cup Range(adding')
    /\ snapshot' = [snapshot EXCEPT ![Manager] = None]
    /\ mLastObjectContainer' = Expired(mLastObjectContainer, mCurrentCopy, snapshot')
    /\ UNCHANGED <<listVars, mCachedRequests>>

\* resolveAndStart: addObject.
AddObject ==
    /\ adding # <<>>
    /\ Publish(Inserted(Head(adding)))
    /\ adding' = Tail(adding)
    /\ UNCHANGED <<snapshot, scheduled, removing>>

\* removeObjectFromSimulation.
RemoveObject ==
    /\ adding = <<>>
    /\ removing # <<>>
    /\ Publish(Removed(Head(removing)))
    /\ removing' = Tail(removing)
    /\ UNCHANGED <<snapshot, scheduled, adding>>

-----------------------------------------------------------------------------
(* Fibers of the routers.                                                  *)

StartRouter(v) ==
    /\ CanLaunch
    /\ <<v, "Router">> \in memory[mCurrentCopy].mActiveObjects
    /\ snapshot[v] = None
    /\ snapshot' = [snapshot EXCEPT ![v] = mCurrentCopy]
    /\ UNCHANGED <<listVars, cacheVars, taskVars>>

\* Faulty variant: the search lists names instead of ids.
NamesFound(container, r, v) ==
    { o[2] : o \in { x \in container.mActiveObjects : r.name \in {"", x[2]} } }

\* What a search finds in a container: every object, or every one of a name,
\* without the router itself when it is excluded (CacheQueryExclude).
Search(container, r, v) ==
    { o \in container.mActiveObjects :
        /\ r.name \in {"", o[2]}
        /\ r.exclude => o # <<v, "Router">> }

\* Faulty variant: results for other containers are kept.
AllCached(v) == mCachedRequests[v]

\* The results that may be used for the container of router v's fiber.
Usable(v) ==
    IF mLastObjectContainer[v] = snapshot[v] THEN mCachedRequests[v] ELSE [r \in {} |-> {}]

\* SimpleObjectCache::getObjectsByType: reset if it is another container,
\* search if there is no result yet.
GetObjectsByType(v, r) ==
    /\ snapshot[v] # None
    /\ mLastObjectContainer' = [mLastObjectContainer EXCEPT ![v] = snapshot[v]]
    /\ mCachedRequests' = [mCachedRequests EXCEPT ![v] =
            [q \in DOMAIN Usable(v) \cup {r} |->
                IF q \in DOMAIN Usable(v) THEN Usable(v)[q]
                ELSE Search(memory[snapshot[v]], q, v)]]
    /\ UNCHANGED <<listVars, snapshot, taskVars>>

FinishRouter(v) ==
    /\ snapshot[v] # None
    /\ snapshot' = [snapshot EXCEPT ![v] = None]
    /\ mLastObjectContainer' = Expired(mLastObjectContainer, mCurrentCopy, snapshot')
    /\ UNCHANGED <<listVars, mCachedRequests, taskVars>>

-----------------------------------------------------------------------------
EmptyContainer == [mActiveObjects |-> {}, mRemovedObjects |-> {}]

Init ==
    /\ mWorkingCopy = EmptyContainer
    /\ mCurrentCopy \in Addresses
    /\ memory = [a \in Addresses |-> EmptyContainer]
    /\ snapshot = [f \in Fibers |-> None]
    /\ mLastObjectContainer = [v \in Vehicles |-> None]
    /\ mCachedRequests = [v \in Vehicles |-> [r \in {} |-> {}]]
    /\ scheduled = {}
    /\ adding = <<>>
    /\ removing = <<>>

Next ==
    \/ StartManager
    \/ EndManager
    \/ AddObject
    \/ RemoveObject
    \/ \E v \in Vehicles :
        \/ StartRouter(v)
        \/ FinishRouter(v)
        \/ \E r \in Requests : GetObjectsByType(v, r)

Spec == Init /\ [][Next]_vars
-----------------------------------------------------------------------------
\* Every variable has its type; an expired weak pointer is None.
TypeOK ==
    /\ mWorkingCopy \in Containers
    /\ mCurrentCopy \in Addresses
    /\ memory \in [Addresses -> Containers]
    /\ snapshot \in [Fibers -> Addresses \cup {None}]
    /\ mLastObjectContainer \in [Vehicles -> Addresses \cup {None}]
    /\ DOMAIN mCachedRequests = Vehicles
    /\ \A v \in Vehicles :
        /\ DOMAIN mCachedRequests[v] \subseteq Requests
        /\ Range(mCachedRequests[v]) \subseteq SUBSET ObjectIds
    /\ scheduled \subseteq ObjectIds
    /\ adding \in Seq(ObjectIds)
    /\ removing \in Seq(ObjectIds)

Whole(container) ==
    \A v \in Vehicles :
        \/ {v} \X Range(Parts) \subseteq container.mActiveObjects
        \/ {v} \X Range(Parts) \cap container.mActiveObjects = {}

\* A fiber sees all objects of a vehicle or none of them, although they are
\* published and removed one by one and found through the relations between
\* them: getSiblingByName and getParentByName, called with the fiber's
\* container, find the object they look for.
WholeVehicles == \A f \in Fibers : snapshot[f] # None => Whole(memory[snapshot[f]])

\* What the cache of a router holds for a container still in use is what a
\* search of that container finds (SimpleObjectCache::performSearch), also
\* when containers were published and freed since.
CacheIsExact ==
    \A v \in Vehicles : \A r \in DOMAIN mCachedRequests[v] :
        LET a == mLastObjectContainer[v]
        IN  a \in Held(mCurrentCopy, snapshot)
                => mCachedRequests[v][r] = Search(memory[a], r, v)

\* Between two handlers every object that has an action scheduled is active
\* or remembered as removed, so ObjectContainer::getObject never refuses a
\* handler of the event list.
Resolvable ==
    CoreIdle =>
        LET current == memory[mCurrentCopy]
        IN  scheduled \subseteq current.mActiveObjects \cup current.mRemovedObjects

\* What the manager's fiber decided to remove by its snapshot is still there
\* when the core removes it, and is removed once: the enforce of
\* ObjectContainer::remove holds.
RemovalsAreActive ==
    /\ Range(removing) \subseteq mWorkingCopy.mActiveObjects
    /\ IsInjective(removing)

\* The container a fiber computes with does not change under it.
SnapshotsAreStable ==
    [][\A f \in Fibers :
        snapshot[f] # None /\ snapshot'[f] = snapshot[f]
            => memory'[snapshot[f]] = memory[snapshot[f]]]_vars
=============================================================================
