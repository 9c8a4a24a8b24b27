--------------------------- MODULE MobilityProofs ---------------------------
(***************************************************************************)
(* Proofs about Mobility for every set of vehicles and start-up times.     *)
(*                                                                         *)
(* Between two cycles a vehicle has an object exactly if SUMO reports on   *)
(* it (mSubscribedVehicles); while the manager's tasks are on their way    *)
(* this holds of the container they will leave.  SUMO is one step ahead:   *)
(* its last departures are not in the mapper yet, its last arrivals still  *)
(* have objects.  From this, what the fiber looks up is there, and what it *)
(* sends fits.                                                             *)
(***************************************************************************)
EXTENDS Mobility, FiniteSetTheorems, FunctionTheorems, TLAPS

Phases == {"created", "connecting", "scheduled", "computing", "done", "stopped", "ended"}

TaskType ==
    [vehiclesToAdd : Seq(SumoIds), objectsToDelete : SUBSET Ids,
     vehiclesToUpdate : SUBSET SumoIds, again : BOOLEAN]

\* The types one by one.
Typed ==
    /\ alive \in BOOLEAN /\ startUp \in StartUpTimes /\ steps \in Steps
    /\ traffic \in [SumoIds -> {"waiting", "running", "arrived"}]
    /\ departed \in Seq(SumoIds) /\ arrived \subseteq SumoIds
    /\ tries \in 0 .. MaxTries /\ waited \in 0 .. Patience
    /\ mIdMapper \in [DOMAIN mIdMapper -> Ids \cup {Stub}]
    /\ manager \in Phases
    /\ tasks \in TaskType
    /\ objects \in [DOMAIN objects -> SumoIds]
    /\ mCurrentObjectId \in Nat
    /\ updates \in [DOMAIN updates -> {"sent", "computing", "done"}]
    /\ updateData \in [SumoIds -> [id : Ids \cup {Stub}, step : Steps \cup {Empty}]]
    /\ context \in [Ids -> Steps \cup {Absent, Empty}]

Departed == Range(departed)
Added == Range(tasks.vehiclesToAdd)
Deleted == tasks.objectsToDelete

\* What SUMO reports and what the manager made of it.
SumoAhead ==
    /\ \A i, j \in DOMAIN departed : departed[i] = departed[j] => i = j
    /\ Departed \subseteq Running
    /\ \A n \in arrived : traffic[n] = "arrived"
    /\ mSubscribedVehicles = (Running \ Departed) \cup arrived
    /\ DOMAIN mIdMapper = { n \in SumoIds : traffic[n] # "waiting" } \ Departed

\* Results are of the last step, for every vehicle but those that departed.
ResultsCurrent == results = [n \in Running \ Departed |-> steps] /\ subscribed = Running \ Departed

\* Objects of the container that the tasks will leave.
ObjectsMatch ==
    /\ \A i, j \in DOMAIN objects : objects[i] = objects[j] => i = j
    /\ { objects[i] : i \in DOMAIN objects \ Deleted } \cup Added = mSubscribedVehicles
    /\ Added \cap Range(objects) = {}
    /\ \A i, j \in DOMAIN tasks.vehiclesToAdd :
            tasks.vehiclesToAdd[i] = tasks.vehiclesToAdd[j] => i = j
    /\ Deleted \subseteq DOMAIN objects

\* Ids are given out once, and no more than there are vehicles.
IdsGiven ==
    /\ DOMAIN objects \cup removed \subseteq 1 .. mCurrentObjectId
    /\ DOMAIN objects \cap removed = {}
    /\ mCurrentObjectId + Len(tasks.vehiclesToAdd) = Cardinality(DOMAIN mIdMapper)

\* Which object the mapper knows of a vehicle.
MapperMatches ==
    \A n \in DOMAIN mIdMapper : mIdMapper[n] # Stub =>
        IF n \in mSubscribedVehicles
        THEN mIdMapper[n] \in DOMAIN objects \ Deleted /\ objects[mIdMapper[n]] = n
        ELSE \/ mIdMapper[n] \in removed
             \/ mIdMapper[n] \in Deleted /\ objects[mIdMapper[n]] = n

\* What the phase of the manager says of the rest.
PhasesMatch ==
    /\ manager \in {"created", "connecting"} =>
        \A n \in SumoIds : traffic[n] = "waiting"
    /\ manager # "done" => tasks = NoTasks
    /\ manager \in {"computing", "done"} => inits = {} /\ DOMAIN updates = {}
    /\ manager \in {"created", "connecting"} => tries < MaxTries /\ waited = 2^tries - 1
    /\ manager = "ended" => ~alive \/ startUp > Patience
    /\ manager = "done" => (~tasks.again => Waiting \cup Running \cup arrived = {})
    /\ manager = "stopped" => objects = <<>> /\ Waiting \cup Running = {}
    /\ manager = "done" => \A n \in tasks.vehiclesToUpdate :
        /\ n \in mSubscribedVehicles
        /\ mIdMapper[n] # Stub
        /\ updateData[n] = [id |-> mIdMapper[n], step |-> Last3(steps)]

\* What was sent to the vehicles.
UpdatesMatch ==
    /\ inits \subseteq DOMAIN objects
    /\ \A id \in DOMAIN objects \ inits : context[id] # Absent
    /\ \A id \in DOMAIN updates :
        /\ id \in DOMAIN objects \ inits
        /\ updateData[objects[id]] = [id |-> id, step |-> Last3(steps)]

MobilityInv ==
    /\ Typed
    /\ SumoAhead
    /\ ResultsCurrent
    /\ ObjectsMatch
    /\ IdsGiven
    /\ MapperMatches
    /\ PhasesMatch
    /\ UpdatesMatch

-----------------------------------------------------------------------------
(* What the proofs of several actions use.                                 *)

\* The vehicles are finitely many, so every set of them has a size.
LEMMA SetsAreFinite ==
    ASSUME NEW S \in SUBSET SumoIds
    PROVE  IsFiniteSet(S) /\ Cardinality(S) \in Nat /\ Cardinality(S) <= Cardinality(SumoIds)
BY SumoIdsAssumption, FS_Subset, FS_CardinalityType

\* Ids are positive numbers, and neither the stub nor an empty context is
\* one of the others.
LEMMA IdsAndSteps ==
    /\ Cardinality(SumoIds) \in Nat
    /\ \A id : id \in Ids <=> id \in Nat /\ 1 <= id /\ id <= Cardinality(SumoIds)
    /\ Stub \notin Nat /\ Stub \notin Ids
    /\ Absent \notin Steps \cup {Empty} /\ Empty \notin Steps
    /\ \A k \in Steps : Next3(k) \in Steps /\ Last3(k) \in Steps /\ Last3(Next3(k)) = k
<1>1. Cardinality(SumoIds) \in Nat
  BY SumoIdsAssumption, FS_CardinalityType
<1>2. \A k \in Steps : Next3(k) \in Steps /\ Last3(k) \in Steps /\ Last3(Next3(k)) = k
  BY DEF Steps, Next3, Last3
<1> QED
  BY <1>1, <1>2 DEF Ids, Stub, Absent, Empty, Steps

\* What a sequence holds.
LEMMA EachInSeq ==
    ASSUME NEW S, NEW s \in Seq(S)
    PROVE  /\ Len(s) \in Nat /\ DOMAIN s = 1..Len(s)
           /\ \A i \in DOMAIN s : s[i] \in S /\ i \in Nat
           /\ Range(s) \subseteq S
<1>1. DOMAIN s = 1..Len(s) /\ Len(s) \in Nat
  OBVIOUS
<1>2. \A i \in 1..Len(s) : s[i] \in S
  OBVIOUS
<1> QED
  BY <1>1, <1>2 DEF Range

\* A sequence without repetitions has as many elements as it is long.
LEMMA DistinctElements ==
    ASSUME NEW S, NEW s \in Seq(S), \A i, j \in DOMAIN s : s[i] = s[j] => i = j
    PROVE  IsFiniteSet(Range(s)) /\ Cardinality(Range(s)) = Len(s)
<1>1. Len(s) \in Nat /\ DOMAIN s = 1..Len(s)
  OBVIOUS
<1>2. s \in [1..Len(s) -> Range(s)]
  BY <1>1 DEF Range
<1>3. \A x \in Range(s) : \E i \in 1..Len(s) : s[i] = x
  BY <1>1 DEF Range
<1>4. \A i, j \in 1..Len(s) : s[i] = s[j] => i = j
  BY <1>1
<1>5. s \in Bijection(1..Len(s), Range(s))
  BY <1>2, <1>3, <1>4, Fun_IsBij
<1>6. ExistsBijection(1..Len(s), Range(s))
  BY <1>5 DEF ExistsBijection
<1>7. IsFiniteSet(1..Len(s)) /\ Cardinality(1..Len(s)) = Len(s)
  <2>1. 1 \in Int /\ Len(s) \in Int
    BY <1>1
  <2>2. Cardinality(1..Len(s)) = IF 1 > Len(s) THEN 0 ELSE Len(s) - 1 + 1
    BY <2>1, FS_Interval
  <2> QED
    BY <1>1, <2>1, <2>2, FS_Interval
<1> QED
  BY <1>6, <1>7, FS_Bijection

\* SetToSeqs lists every element of a finite set once.
LEMMA SeqOfSet ==
    ASSUME NEW S, NEW D \in SUBSET S, IsFiniteSet(D), NEW s \in SetToSeqs(D)
    PROVE  /\ s \in Seq(S)
           /\ \A i, j \in DOMAIN s : s[i] = s[j] => i = j
           /\ Range(s) = D
<1>1. PICK n : n = Cardinality(D)
  OBVIOUS
<1>2. n \in Nat /\ s \in [1..n -> D] /\ \A i, j \in 1..n : i # j => s[i] # s[j]
  BY <1>1, FS_CardinalityType DEF SetToSeqs
<1>3. s \in Seq(S) /\ s \in Seq(D) /\ DOMAIN s = 1..n /\ Len(s) = n
  BY <1>2
<1>4. \A i, j \in DOMAIN s : s[i] = s[j] => i = j
  BY <1>2, <1>3
<1>5. Cardinality(Range(s)) = n
  BY <1>3, <1>4, DistinctElements
<1>6. Range(s) \in SUBSET D
  BY <1>2, <1>3 DEF Range
<1>7. Range(s) = D
  BY <1>1, <1>5, <1>6, FS_Subset
<1> QED
  BY <1>3, <1>4, <1>7

\* The manager has no tasks.
LEMMA NothingToDo ==
    /\ Len(NoTasks.vehiclesToAdd) = 0
    /\ DOMAIN NoTasks.vehiclesToAdd = {} /\ Range(NoTasks.vehiclesToAdd) = {}
    /\ NoTasks.objectsToDelete = {}
    /\ NoTasks \in TaskType
<1>1. NoTasks.vehiclesToAdd = <<>> /\ NoTasks.objectsToDelete = {}
  BY DEF NoTasks
<1>2. <<>> \in Seq(SumoIds) /\ Len(<<>>) = 0 /\ DOMAIN <<>> = {}
  OBVIOUS
<1>3. NoTasks \in TaskType
  BY <1>2 DEF NoTasks, TaskType
<1> QED
  BY <1>1, <1>2, <1>3 DEF Range

\* One step of SUMO: vehicles D depart and vehicles A arrive.
LEMMA StepOfSumo ==
    ASSUME MobilityInv, NEW S, SimulationStep(S)
    PROVE  \E D \in SUBSET Waiting, A \in SUBSET Running :
             /\ traffic' \in [SumoIds -> {"waiting", "running", "arrived"}]
             /\ \A n \in SumoIds : traffic'[n] = IF n \in D THEN "running"
                                                 ELSE IF n \in A THEN "arrived"
                                                 ELSE traffic[n]
             /\ departed' \in Seq(SumoIds) /\ Departed' = D
             /\ \A i, j \in DOMAIN departed' : departed'[i] = departed'[j] => i = j
             /\ arrived' = A
             /\ Running' = (Running \ A) \cup D /\ Waiting' = Waiting \ D
             /\ steps' = Next3(steps) /\ steps' \in Steps /\ Last3(steps') = steps
             /\ subscribed' = S \ A
             /\ results' = [n \in S \ A |-> steps']
             /\ UNCHANGED alive
<1> USE DEF MobilityInv
<1>1. PICK D \in SUBSET Waiting, A \in SUBSET Running :
        /\ traffic' = [n \in SumoIds |-> IF n \in D THEN "running"
                                         ELSE IF n \in A THEN "arrived"
                                         ELSE traffic[n]]
        /\ departed' \in SetToSeqs(D)
        /\ arrived' = A
        /\ steps' = Next3(steps)
        /\ subscribed' = S \ A
        /\ results' = ResultsOf(S \ A, steps')
        /\ UNCHANGED alive
  BY DEF SimulationStep
<1>2. D \subseteq SumoIds /\ A \subseteq SumoIds /\ D \cap A = {}
  BY <1>1 DEF Waiting, Running
<1>3. PICK s : s = departed'
  OBVIOUS
<1>4. s \in Seq(SumoIds) /\ (\A i, j \in DOMAIN s : s[i] = s[j] => i = j) /\ Range(s) = D
  <2>1. IsFiniteSet(D)
    BY <1>2, SetsAreFinite
  <2> HIDE DEF MobilityInv
  <2> QED
    BY <2>1, <1>1, <1>2, <1>3, SeqOfSet
<1>5. traffic' \in [SumoIds -> {"waiting", "running", "arrived"}]
  BY <1>1 DEF Typed
<1>6. \A n \in SumoIds : traffic'[n] = IF n \in D THEN "running"
                                       ELSE IF n \in A THEN "arrived" ELSE traffic[n]
  BY <1>1
<1>7. Running' = (Running \ A) \cup D
  BY <1>1, <1>2, <1>6 DEF Running, Waiting
<1>8. Waiting' = Waiting \ D
  BY <1>1, <1>2, <1>6 DEF Running, Waiting
<1>9. steps' \in Steps /\ Last3(steps') = steps
  BY <1>1, IdsAndSteps DEF Typed
<1>10. Departed' = D
  BY <1>3, <1>4 DEF Departed
<1> HIDE DEF MobilityInv
<1> QED
  BY <1>1, <1>3, <1>4, <1>5, <1>6, <1>7, <1>8, <1>9, <1>10 DEF ResultsOf

-----------------------------------------------------------------------------
(* One lemma for each action.                                              *)

\* Nothing is anywhere before SUMO runs.
LEMMA InitMobilityInv == Init => MobilityInv
<1> SUFFICES ASSUME Init PROVE MobilityInv
  OBVIOUS
<1> USE DEF Init
<1>1. /\ DOMAIN objects = {} /\ DOMAIN updates = {} /\ DOMAIN mIdMapper = {} /\ DOMAIN departed = {}
      /\ Departed = {} /\ Running = {} /\ Range(objects) = {}
  BY DEF Departed, Range, Running
<1>2. Added = {} /\ Deleted = {} /\ DOMAIN tasks.vehiclesToAdd = {} /\ Len(tasks.vehiclesToAdd) = 0
        /\ tasks \in TaskType
  BY NothingToDo DEF Added, Deleted
<1>3. Typed
  <2>1. <<>> \in Seq(SumoIds) /\ <<>> \in [{} -> SumoIds] /\ <<>> \in [{} -> Ids \cup {Stub}]
          /\ <<>> \in [{} -> {"sent", "computing", "done"}]
    OBVIOUS
  <2>2. updateData \in [SumoIds -> [id : Ids \cup {Stub}, step : Steps \cup {Empty}]]
    BY DEF NoUpdate
  <2>3. 0 \in 0 .. MaxTries /\ 0 \in 0 .. Patience /\ 0 \in Steps
    BY DEF MaxTries, Patience, Steps
  <2> QED
    BY <2>1, <2>2, <2>3, <1>1, <1>2 DEF Typed, Phases
<1>4. SumoAhead
  BY <1>1 DEF SumoAhead
<1>5. ResultsCurrent
  BY <1>1 DEF ResultsCurrent
<1>6. ObjectsMatch
  BY <1>1, <1>2 DEF ObjectsMatch
<1>7. IdsGiven
  BY <1>1, <1>2, FS_EmptySet DEF IdsGiven
<1>8. MapperMatches /\ UpdatesMatch
  BY <1>1 DEF MapperMatches, UpdatesMatch
<1>9. PhasesMatch
  <2>1. 0 < MaxTries /\ 0 = 2^0 - 1
    BY DEF MaxTries
  <2> QED
    BY <2>1 DEF PhasesMatch
<1> QED
  BY <1>3, <1>4, <1>5, <1>6, <1>7, <1>8, <1>9 DEF MobilityInv

\* What each part of the invariant depends on.
LEMMA Frames ==
    /\ UNCHANGED <<traffic, departed, arrived, mSubscribedVehicles, mIdMapper>>
         => (SumoAhead => SumoAhead') /\ Running' = Running /\ Waiting' = Waiting
    /\ UNCHANGED <<traffic, departed, steps, results, subscribed>>
         => (ResultsCurrent => ResultsCurrent')
    /\ UNCHANGED <<objects, tasks, mSubscribedVehicles>> => (ObjectsMatch => ObjectsMatch')
    /\ UNCHANGED <<objects, removed, mCurrentObjectId, tasks, mIdMapper>> => (IdsGiven => IdsGiven')
    /\ UNCHANGED <<mIdMapper, mSubscribedVehicles, objects, tasks, removed>>
         => (MapperMatches => MapperMatches')
    /\ UNCHANGED <<objectVars, vehicleVars, steps>> => (UpdatesMatch => UpdatesMatch')
<1>1. UNCHANGED <<traffic, departed, arrived, mSubscribedVehicles, mIdMapper>>
        => (SumoAhead => SumoAhead') /\ Running' = Running /\ Waiting' = Waiting
  BY DEF SumoAhead, Running, Waiting, Departed
<1>2. UNCHANGED <<traffic, departed, steps, results, subscribed>>
        => (ResultsCurrent => ResultsCurrent')
  BY DEF ResultsCurrent, Running, Departed
<1>3. UNCHANGED <<objects, tasks, mSubscribedVehicles>> => (ObjectsMatch => ObjectsMatch')
  BY DEF ObjectsMatch, Added, Deleted
<1>4. UNCHANGED <<objects, removed, mCurrentObjectId, tasks, mIdMapper>> => (IdsGiven => IdsGiven')
  BY DEF IdsGiven
<1>5. UNCHANGED <<mIdMapper, mSubscribedVehicles, objects, tasks, removed>>
        => (MapperMatches => MapperMatches')
  BY DEF MapperMatches, Deleted
<1>6. UNCHANGED <<objectVars, vehicleVars, steps>> => (UpdatesMatch => UpdatesMatch')
  BY DEF UpdatesMatch, objectVars, vehicleVars
<1> QED
  BY <1>1, <1>2, <1>3, <1>4, <1>5, <1>6

\* SUMO dies.
LEMMA SumoDiesStep == ASSUME MobilityInv, SumoDies PROVE MobilityInv'
<1> USE DEF MobilityInv
<1>1. /\ manager # "ended" /\ alive' = FALSE
      /\ UNCHANGED <<startUp, steps, traffic, departed, arrived, subscribed,
                     managerVars, objectVars, vehicleVars>>
  BY DEF SumoDies
<1>2. Typed'
  BY <1>1 DEF Typed, managerVars, clientVars, objectVars, vehicleVars
<1>3. SumoAhead' /\ Running' = Running /\ Waiting' = Waiting
  BY <1>1, Frames DEF managerVars
<1>4. ResultsCurrent' /\ ObjectsMatch' /\ IdsGiven' /\ MapperMatches' /\ UpdatesMatch'
  BY <1>1, Frames DEF managerVars, clientVars, objectVars
<1>5. PhasesMatch'
  BY <1>1, <1>3 DEF PhasesMatch, managerVars, clientVars, objectVars, vehicleVars
<1> QED
  BY <1>2, <1>3, <1>4, <1>5

\* SUMO is launched, or not.
LEMMA LaunchStep == ASSUME MobilityInv, Launch PROVE MobilityInv'
<1> USE DEF MobilityInv
<1>1. /\ manager = "created" /\ alive' \in BOOLEAN
      /\ manager' = IF alive' THEN "connecting" ELSE "ended"
      /\ UNCHANGED <<startUp, steps, traffic, departed, arrived, subscribed,
                     mSubscribedVehicles, mIdMapper, tasks, clientVars, objectVars, vehicleVars>>
  BY DEF Launch
<1>2. Typed'
  <2>1. manager' \in Phases
    BY <1>1 DEF Phases
  <2> QED
    BY <2>1, <1>1 DEF Typed, clientVars, objectVars, vehicleVars
<1>3. SumoAhead' /\ Running' = Running /\ Waiting' = Waiting
  BY <1>1, Frames
<1>4. ResultsCurrent' /\ ObjectsMatch' /\ IdsGiven' /\ MapperMatches' /\ UpdatesMatch'
  BY <1>1, Frames DEF clientVars, objectVars
<1>5. PhasesMatch'
  BY <1>1, <1>3 DEF PhasesMatch, clientVars, objectVars, vehicleVars
<1> QED
  BY <1>2, <1>3, <1>4, <1>5

\* The sleeps grow: after each failure all of them together are one short of
\* a power of two, and after the last but one they are all the patience there
\* is.
LEMMA Sleeps ==
    ASSUME NEW k \in Nat, k < MaxTries
    PROVE  /\ k + 1 < MaxTries => 2^k - 1 + Sleep(k + 1) = 2^(k + 1) - 1
           /\ 2^k - 1 \in 0 .. Patience
           /\ k + 1 >= MaxTries => 2^k - 1 = Patience
<1> USE DEF MaxTries, Patience, Sleep
<1>1. k \in 0 .. 9
  OBVIOUS
<1>2. 2^0 = 1 /\ 2^1 = 2 /\ 2^2 = 4 /\ 2^3 = 8 /\ 2^4 = 16 /\ 2^5 = 32 /\ 2^6 = 64
        /\ 2^7 = 128 /\ 2^8 = 256 /\ 2^9 = 512
  OBVIOUS
<1>3. k = 0 \/ k = 1 \/ k = 2 \/ k = 3 \/ k = 4 \/ k = 5 \/ k = 6 \/ k = 7 \/ k = 8 \/ k = 9
  BY <1>1
<1>4. (k + 1) - 1 = k
  OBVIOUS
<1>5. k < 9 => 2^k + 2^k = 2^(k + 1)
  <2>1. CASE k = 0
    BY <2>1, <1>2
  <2>2. CASE k = 1
    BY <2>2, <1>2
  <2>3. CASE k = 2
    BY <2>3, <1>2
  <2>4. CASE k = 3
    BY <2>4, <1>2
  <2>5. CASE k = 4
    BY <2>5, <1>2
  <2>6. CASE k = 5
    BY <2>6, <1>2
  <2>7. CASE k = 6
    BY <2>7, <1>2
  <2>8. CASE k = 7
    BY <2>8, <1>2
  <2>9. CASE k = 8
    BY <2>9, <1>2
  <2> QED
    BY <2>1, <2>2, <2>3, <2>4, <2>5, <2>6, <2>7, <2>8, <2>9, <1>3
<1>6. 2^k \in 1 .. 512 /\ (k = 9 => 2^k = 512)
  <2>1. CASE k = 0
    BY <2>1, <1>2
  <2>2. CASE k = 1
    BY <2>2, <1>2
  <2>3. CASE k = 2
    BY <2>3, <1>2
  <2>4. CASE k = 3
    BY <2>4, <1>2
  <2>5. CASE k = 4
    BY <2>5, <1>2
  <2>6. CASE k = 5
    BY <2>6, <1>2
  <2>7. CASE k = 6
    BY <2>7, <1>2
  <2>8. CASE k = 7
    BY <2>8, <1>2
  <2>9. CASE k = 8
    BY <2>9, <1>2
  <2>10. CASE k = 9
    BY <2>10, <1>2
  <2> QED
    BY <2>1, <2>2, <2>3, <2>4, <2>5, <2>6, <2>7, <2>8, <2>9, <2>10, <1>3
<1>7. PICK p, q : p = 2^k /\ q = 2^(k + 1)
  OBVIOUS
<1>8. p \in 1 .. 512 /\ (k = 9 => p = 512) /\ (k < 9 => p + p = q) /\ Sleep(k + 1) = p
  BY <1>4, <1>5, <1>6, <1>7
<1> QED
  BY <1>7, <1>8

\* An attempt to connect fails, and the last one ends the program.
LEMMA ConnectFailsStep == ASSUME MobilityInv, ConnectFails PROVE MobilityInv'
<1> USE DEF MobilityInv
<1>1. /\ manager = "connecting"
      /\ ~alive \/ startUp > waited
      /\ tries' = tries + 1
      /\ IF tries' < MaxTries
         THEN waited' = waited + Sleep(tries') /\ UNCHANGED manager
         ELSE manager' = "ended" /\ UNCHANGED waited
      /\ UNCHANGED <<mSubscribedVehicles, mIdMapper, tasks, results, sumoVars,
                     objectVars, vehicleVars>>
  BY DEF ConnectFails
<1>2. tries \in Nat /\ tries < MaxTries /\ waited = 2^tries - 1
  BY <1>1 DEF PhasesMatch, Typed
<1>3. /\ tries' < MaxTries => waited' = 2^tries' - 1 /\ waited' \in 0 .. Patience
      /\ tries' >= MaxTries => waited = Patience
  <2>1. PICK k \in Nat : k = tries
    BY <1>2
  <2>2. k < MaxTries /\ tries' = k + 1 /\ waited = 2^k - 1
    BY <2>1, <1>1, <1>2
  <2>3. /\ k + 1 < MaxTries => 2^k - 1 + Sleep(k + 1) = 2^(k + 1) - 1
        /\ k + 1 >= MaxTries => 2^k - 1 = Patience
    BY <2>1, <2>2, Sleeps
  <2>4. k + 1 < MaxTries => 2^(k + 1) - 1 \in 0 .. Patience
    <3>1. k + 1 \in Nat
      BY <2>1
    <3> QED
      BY <3>1, Sleeps
  <2> QED
    BY <2>2, <2>3, <2>4, <1>1 DEF MaxTries
<1>4. Typed'
  <2>1. manager' \in Phases
    BY <1>1 DEF Phases
  <2>2. tries' \in 0 .. MaxTries /\ waited' \in 0 .. Patience
    BY <1>1, <1>2, <1>3 DEF MaxTries, Typed
  <2> QED
    BY <2>1, <2>2, <1>1 DEF Typed, sumoVars, objectVars, vehicleVars
<1>5. SumoAhead' /\ Running' = Running /\ Waiting' = Waiting
  BY <1>1, Frames DEF sumoVars
<1>6. ResultsCurrent' /\ ObjectsMatch' /\ IdsGiven' /\ MapperMatches' /\ UpdatesMatch'
  BY <1>1, Frames DEF sumoVars, objectVars
<1>7. PhasesMatch'
  <2>1. CASE tries' < MaxTries
    BY <2>1, <1>1, <1>3, <1>5 DEF PhasesMatch, sumoVars, objectVars, vehicleVars
  <2>2. CASE ~(tries' < MaxTries)
    <3>1. manager' = "ended" /\ (~alive \/ startUp > Patience)
      BY <2>2, <1>1, <1>2, <1>3 DEF MaxTries
    <3> QED
      BY <3>1, <1>1, <1>5 DEF PhasesMatch, sumoVars, objectVars, vehicleVars
  <2> QED
    BY <2>1, <2>2
<1> QED
  BY <1>4, <1>5, <1>6, <1>7

\* The manager's fiber starts when the vehicles are done.
LEMMA StartManagerStep == ASSUME MobilityInv, StartManager PROVE MobilityInv'
<1> USE DEF MobilityInv
<1>1. /\ manager = "scheduled" /\ inits = {} /\ DOMAIN updates = {} /\ manager' = "computing"
      /\ UNCHANGED <<mSubscribedVehicles, mIdMapper, tasks, clientVars, sumoVars,
                     objectVars, vehicleVars>>
  BY DEF StartManager
<1>2. Typed'
  <2>1. manager' \in Phases
    BY <1>1 DEF Phases
  <2> QED
    BY <2>1, <1>1 DEF Typed, clientVars, sumoVars, objectVars, vehicleVars
<1>3. SumoAhead' /\ Running' = Running /\ Waiting' = Waiting
  BY <1>1, Frames DEF sumoVars
<1>4. ResultsCurrent' /\ ObjectsMatch' /\ IdsGiven' /\ MapperMatches' /\ UpdatesMatch'
  BY <1>1, Frames DEF sumoVars, clientVars, objectVars
<1>5. PhasesMatch'
  BY <1>1, <1>3 DEF PhasesMatch, clientVars, sumoVars, objectVars, vehicleVars
<1> QED
  BY <1>2, <1>3, <1>4, <1>5

\* No object has an id beyond those that are given out, and none the stub.
LEMMA ObjectIds ==
    ASSUME MobilityInv
    PROVE  /\ DOMAIN objects \cup removed \subseteq Ids
           /\ Stub \notin DOMAIN objects \cup removed
           /\ mCurrentObjectId + Len(tasks.vehiclesToAdd) <= Cardinality(SumoIds)
           /\ Len(tasks.vehiclesToAdd) \in Nat
<1> USE DEF MobilityInv
<1>1. DOMAIN mIdMapper \in SUBSET SumoIds
  BY DEF SumoAhead
<1>2. Cardinality(DOMAIN mIdMapper) <= Cardinality(SumoIds)
  BY <1>1, SetsAreFinite
<1>3. tasks.vehiclesToAdd \in Seq(SumoIds)
  BY DEF Typed, TaskType
<1>4. Len(tasks.vehiclesToAdd) \in Nat
  BY <1>3, EachInSeq
<1>5. mCurrentObjectId \in Nat /\ mCurrentObjectId + Len(tasks.vehiclesToAdd) <= Cardinality(SumoIds)
  BY <1>2 DEF IdsGiven, Typed
<1>6. mCurrentObjectId <= Cardinality(SumoIds)
  BY <1>4, <1>5, IdsAndSteps
<1>7. \A id \in DOMAIN objects \cup removed : id \in 1 .. mCurrentObjectId
  BY DEF IdsGiven
<1>8. \A id \in DOMAIN objects \cup removed : id \in Ids
  BY <1>5, <1>6, <1>7, IdsAndSteps
<1> QED
  BY <1>4, <1>5, <1>8, IdsAndSteps

\* While the manager has no tasks every vehicle that SUMO reports on has an
\* object, and no other.
LEMMA ObjectsOfReported ==
    ASSUME MobilityInv, manager # "done"
    PROVE  /\ Added = {} /\ Deleted = {}
           /\ Len(tasks.vehiclesToAdd) = 0
           /\ \A i \in DOMAIN objects : objects[i] \in mSubscribedVehicles
           /\ \A n \in mSubscribedVehicles : \E i \in DOMAIN objects : objects[i] = n
           /\ Range(objects) = mSubscribedVehicles
<1> USE DEF MobilityInv
<1>1. tasks = NoTasks
  BY DEF PhasesMatch
<1>2. Added = {} /\ Deleted = {} /\ Len(tasks.vehiclesToAdd) = 0
  BY <1>1, NothingToDo DEF Added, Deleted
<1>3. { objects[i] : i \in DOMAIN objects } = mSubscribedVehicles
  BY <1>2 DEF ObjectsMatch
<1> QED
  BY <1>2, <1>3 DEF Range

\* The vehicles that SUMO reports on are in the mapper, those that have just
\* departed are not.
LEMMA ReportedAreMapped ==
    ASSUME MobilityInv
    PROVE  /\ mSubscribedVehicles \subseteq DOMAIN mIdMapper
           /\ Departed \cap DOMAIN mIdMapper = {}
           /\ arrived \subseteq mSubscribedVehicles
           /\ DOMAIN mIdMapper \subseteq SumoIds /\ Departed \subseteq SumoIds
           /\ Departed \cap arrived = {} /\ Departed \cap mSubscribedVehicles = {}
<1>1. arrived \subseteq SumoIds
  BY DEF MobilityInv, Typed
<1> QED
  BY <1>1 DEF MobilityInv, SumoAhead, Running

\* The mapper after fetchVehicleIds resolves every vehicle that had an object
\* when the fiber began.
LEMMA MapperFacts ==
    ASSUME MobilityInv, manager # "done"
    PROVE  /\ Mapper \in [DOMAIN mIdMapper \cup Departed -> Ids \cup {Stub}]
           /\ \A n \in Departed : Mapper[n] = Stub
           /\ \A n \in mSubscribedVehicles :
                Mapper[n] # Stub /\ Mapper[n] \in DOMAIN objects /\ objects[Mapper[n]] = n
           /\ \A n \in DOMAIN mIdMapper \ mSubscribedVehicles : Mapper[n] = mIdMapper[n]
<1> USE DEF MobilityInv
<1>1. /\ Added = {} /\ Deleted = {} /\ Range(objects) = mSubscribedVehicles
      /\ \A n \in mSubscribedVehicles : \E i \in DOMAIN objects : objects[i] = n
  BY ObjectsOfReported
<1>2. \A n \in mSubscribedVehicles :
        Fetched(n) \in DOMAIN objects /\ objects[Fetched(n)] = n
  <2> SUFFICES ASSUME NEW n \in mSubscribedVehicles
               PROVE  Fetched(n) \in DOMAIN objects /\ objects[Fetched(n)] = n
    OBVIOUS
  <2>1. n \in DOMAIN mIdMapper
    BY ReportedAreMapped
  <2>2. CASE mIdMapper[n] = Stub
    <3>1. \E id \in DOMAIN objects : objects[id] = n
      BY <1>1
    <3>2. Fetched(n) = CHOOSE id \in DOMAIN objects : objects[id] = n
      BY <1>1, <2>2 DEF Fetched
    <3> QED
      BY <3>1, <3>2
  <2>3. CASE mIdMapper[n] # Stub
    BY <2>1, <2>3 DEF Fetched, MapperMatches
  <2> QED
    BY <2>2, <2>3
<1>3. \A n \in DOMAIN mIdMapper \ mSubscribedVehicles : Fetched(n) = mIdMapper[n]
  BY <1>1 DEF Fetched
<1>4. \A n \in DOMAIN mIdMapper : Fetched(n) \in Ids \cup {Stub}
  BY <1>2, <1>3, ObjectIds DEF Typed
<1>5. \A n \in DOMAIN mIdMapper : Mapper[n] = Fetched(n)
  BY DEF Mapper
<1>6. \A n \in Departed : Mapper[n] = Stub
  BY ReportedAreMapped DEF Mapper, Departed
<1>7. Mapper \in [DOMAIN mIdMapper \cup Departed -> Ids \cup {Stub}]
  <2> DEFINE e(n) == IF n \in DOMAIN mIdMapper THEN Fetched(n) ELSE Stub
  <2>1. \A n \in DOMAIN mIdMapper \cup Departed : e(n) \in Ids \cup {Stub}
    BY <1>4
  <2>2. Mapper = [n \in DOMAIN mIdMapper \cup Departed |-> e(n)]
    BY DEF Mapper, Departed
  <2> HIDE DEF e
  <2> QED
    BY <2>1, <2>2
<1> HIDE DEF MobilityInv
<1>8. \A n \in mSubscribedVehicles :
        Mapper[n] # Stub /\ Mapper[n] \in DOMAIN objects /\ objects[Mapper[n]] = n
  BY <1>2, <1>5, ReportedAreMapped, ObjectIds
<1> QED
  BY <1>3, <1>5, <1>6, <1>7, <1>8

\* What the fiber looks up is there.
LEMMA AllFound ==
    ASSUME MobilityInv, manager # "done"
    PROVE  /\ Found(Mapper)
           /\ Subscribed = Running
           /\ \A n \in VehiclesToUpdate(Mapper) : n \in Running \ Departed
<1>1. Subscribed = Running
  BY ReportedAreMapped DEF MobilityInv, SumoAhead, Subscribed, Departed, Running
<1>2. DOMAIN Mapper = DOMAIN mIdMapper \cup Departed
  BY MapperFacts
<1>3. arrived \cup Subscribed \subseteq DOMAIN Mapper
  BY <1>2, ReportedAreMapped DEF Subscribed, Departed
<1>4. ObjectsToDelete(Mapper) \subseteq DOMAIN objects
  BY MapperFacts, ReportedAreMapped DEF ObjectsToDelete
<1>5. \A n \in VehiclesToUpdate(Mapper) : n \in Running \ Departed
  BY <1>1, MapperFacts DEF VehiclesToUpdate
<1> QED
  BY <1>1, <1>3, <1>4, <1>5 DEF Found

\* The connection succeeds, and SUMO makes its first step.
LEMMA ConnectStep == ASSUME MobilityInv, Connect PROVE MobilityInv'
<1> USE DEF MobilityInv
<1>1. /\ manager = "connecting" /\ alive
      /\ mSubscribedVehicles' = Running
      /\ SimulationStep(Running)
      /\ manager' = "scheduled" /\ tries' = 0 /\ waited' = 0 /\ startUp' = 0
      /\ UNCHANGED <<mIdMapper, tasks, objectVars, vehicleVars>>
  BY DEF Connect
<1>2. PICK D \in SUBSET Waiting, A \in SUBSET Running :
        /\ traffic' \in [SumoIds -> {"waiting", "running", "arrived"}]
        /\ \A n \in SumoIds : traffic'[n] = IF n \in D THEN "running"
                                            ELSE IF n \in A THEN "arrived"
                                            ELSE traffic[n]
        /\ departed' \in Seq(SumoIds) /\ Departed' = D
        /\ \A i, j \in DOMAIN departed' : departed'[i] = departed'[j] => i = j
        /\ arrived' = A
        /\ Running' = (Running \ A) \cup D /\ Waiting' = Waiting \ D
        /\ steps' = Next3(steps) /\ steps' \in Steps /\ Last3(steps') = steps
        /\ subscribed' = Running \ A
        /\ results' = [n \in Running \ A |-> steps']
        /\ UNCHANGED alive
  <2> HIDE DEF MobilityInv
  <2> QED
    BY <1>1, StepOfSumo
<1>3. Running = {} /\ A = {} /\ Departed = {} /\ arrived = {} /\ mSubscribedVehicles = {}
  <2>1. \A n \in SumoIds : traffic[n] = "waiting"
    BY <1>1 DEF PhasesMatch
  <2>2. Running = {}
    BY <2>1 DEF Running
  <2>3. arrived = {} /\ Departed = {}
    BY <2>1, <2>2 DEF SumoAhead, Typed
  <2> QED
    BY <2>2, <2>3 DEF SumoAhead
<1>4. DOMAIN mIdMapper = {}
  <2>1. \A n \in SumoIds : traffic[n] = "waiting"
    BY <1>1 DEF PhasesMatch
  <2> QED
    BY <2>1 DEF SumoAhead
<1>5. DOMAIN objects = {} /\ DOMAIN updates = {}
  <2>1. \A i \in DOMAIN objects : objects[i] \in mSubscribedVehicles
    <3> HIDE DEF MobilityInv
    <3> QED
      BY <1>1, ObjectsOfReported
  <2>2. DOMAIN objects = {}
    BY <2>1, <1>3
  <2> QED
    BY <2>2 DEF UpdatesMatch
<1>6. UNCHANGED mSubscribedVehicles
  BY <1>1, <1>3
<1>7. Typed'
  <2>1. 0 \in 0 .. MaxTries /\ 0 \in 0 .. Patience /\ 0 \in StartUpTimes
    BY StartUpAssumption DEF MaxTries, Patience
  <2>2. manager' \in Phases
    BY <1>1 DEF Phases
  <2>3. arrived' \subseteq SumoIds
    BY <1>2, <1>3
  <2> QED
    BY <2>1, <2>2, <2>3, <1>1, <1>2 DEF Typed, objectVars, vehicleVars
<1>8. SumoAhead'
  <2>1. Departed' \subseteq Running'
    BY <1>2
  <2>2. mSubscribedVehicles' = (Running' \ Departed') \cup arrived'
    BY <1>1, <1>2, <1>3
  <2>3. \A n \in SumoIds : traffic'[n] # "waiting" => n \in D
    <3>1. \A n \in SumoIds : traffic[n] = "waiting"
      BY <1>1 DEF PhasesMatch
    <3> QED
      BY <3>1, <1>2, <1>3
  <2>4. DOMAIN mIdMapper' = { n \in SumoIds : traffic'[n] # "waiting" } \ Departed'
    BY <2>3, <1>1, <1>2, <1>4
  <2>5. \A n \in arrived' : traffic'[n] = "arrived"
    BY <1>2, <1>3
  <2> QED
    BY <2>1, <2>2, <2>4, <2>5, <1>2 DEF SumoAhead
<1>9. ResultsCurrent'
  <2>1. Running' \ Departed' = {} /\ Running \ A = {}
    BY <1>2, <1>3
  <2> QED
    BY <2>1, <1>2 DEF ResultsCurrent
<1>10. ObjectsMatch' /\ IdsGiven' /\ MapperMatches'
  BY <1>1, <1>6, Frames DEF objectVars
<1>11. UpdatesMatch'
  BY <1>1, <1>5 DEF UpdatesMatch, objectVars, vehicleVars
<1>12. PhasesMatch'
  BY <1>1 DEF PhasesMatch
<1> HIDE DEF MobilityInv
<1> QED
  BY <1>7, <1>8, <1>9, <1>10, <1>11, <1>12 DEF MobilityInv

\* The manager's fiber asks SUMO and leaves the tasks for the core thread.
LEMMA DoVehicleUpdateStep == ASSUME MobilityInv, DoVehicleUpdate PROVE MobilityInv'
<1>1. /\ manager = "computing" /\ alive
      /\ SimulationStep(subscribed \cup Departed)
      /\ mIdMapper' = Mapper
      /\ mSubscribedVehicles' = Subscribed
      /\ tasks' = [vehiclesToAdd |-> departed,
                   objectsToDelete |-> ObjectsToDelete(Mapper),
                   vehiclesToUpdate |-> VehiclesToUpdate(Mapper),
                   again |-> MinExpectedNumber > 0]
      /\ updateData' = [n \in SumoIds |->
              IF n \in VehiclesToUpdate(Mapper)
              THEN [id |-> Mapper[n], step |-> Update(n)]
              ELSE NoUpdate]
      /\ manager' = "done"
      /\ UNCHANGED <<startUp, tries, waited, objectVars, inits, updates, context>>
  BY DEF DoVehicleUpdate, Departed
<1>2. /\ mSubscribedVehicles' = Running
      /\ \A n \in VehiclesToUpdate(Mapper) : n \in Running \ Departed
  BY <1>1, AllFound
<1>3. PICK m : m = Mapper
  OBVIOUS
<1>4. /\ m \in [DOMAIN mIdMapper \cup Departed -> Ids \cup {Stub}]
      /\ \A n \in Departed : m[n] = Stub
      /\ \A n \in mSubscribedVehicles : m[n] # Stub /\ m[n] \in DOMAIN objects /\ objects[m[n]] = n
      /\ \A n \in DOMAIN mIdMapper \ mSubscribedVehicles : m[n] = mIdMapper[n]
  BY <1>1, <1>3, MapperFacts
<1>5. /\ Added = {} /\ Deleted = {} /\ Len(tasks.vehiclesToAdd) = 0
      /\ \A i \in DOMAIN objects : objects[i] \in mSubscribedVehicles
      /\ Range(objects) = mSubscribedVehicles
  BY <1>1, ObjectsOfReported
<1>6. /\ mSubscribedVehicles \subseteq DOMAIN mIdMapper
      /\ Departed \cap DOMAIN mIdMapper = {} /\ Departed \cap mSubscribedVehicles = {}
      /\ arrived \subseteq mSubscribedVehicles
      /\ DOMAIN mIdMapper \subseteq SumoIds /\ Departed \subseteq SumoIds
      /\ Departed \cap arrived = {}
  BY ReportedAreMapped
<1>7. /\ mSubscribedVehicles = (Running \ Departed) \cup arrived
      /\ Departed \subseteq Running /\ arrived \cap Running = {}
      /\ subscribed \cup Departed = Running
      /\ results = [n \in Running \ Departed |-> steps]
  BY DEF MobilityInv, SumoAhead, ResultsCurrent, Running
<1>8. PICK D \in SUBSET Waiting, A \in SUBSET Running :
        /\ traffic' \in [SumoIds -> {"waiting", "running", "arrived"}]
        /\ \A n \in SumoIds : traffic'[n] = IF n \in D THEN "running"
                                            ELSE IF n \in A THEN "arrived"
                                            ELSE traffic[n]
        /\ departed' \in Seq(SumoIds) /\ Departed' = D
        /\ \A i, j \in DOMAIN departed' : departed'[i] = departed'[j] => i = j
        /\ arrived' = A
        /\ Running' = (Running \ A) \cup D /\ Waiting' = Waiting \ D
        /\ steps' = Next3(steps) /\ steps' \in Steps /\ Last3(steps') = steps
        /\ subscribed' = Running \ A
        /\ results' = [n \in Running \ A |-> steps']
        /\ UNCHANGED alive
  <2>1. SimulationStep(Running)
    BY <1>1, <1>7 DEF SimulationStep
  <2> QED
    BY <2>1, StepOfSumo
<1>9. D \cap Running = {} /\ A \subseteq Running
  BY <1>8 DEF Waiting, Running
<1>10. Added' = Departed /\ Deleted' = { m[n] : n \in arrived }
  BY <1>1, <1>3 DEF Added, Deleted, Departed, ObjectsToDelete
<1>11. \A i \in DOMAIN objects : i \in Deleted' <=> objects[i] \in arrived
  <2> SUFFICES ASSUME NEW i \in DOMAIN objects
               PROVE  i \in Deleted' <=> objects[i] \in arrived
    OBVIOUS
  <2>1. ASSUME i \in Deleted' PROVE objects[i] \in arrived
    BY <2>1, <1>4, <1>6, <1>10
  <2>2. ASSUME objects[i] \in arrived PROVE i \in Deleted'
    <3>1. m[objects[i]] \in DOMAIN objects /\ objects[m[objects[i]]] = objects[i]
      BY <2>2, <1>4, <1>6
    <3>2. m[objects[i]] = i
      BY <3>1 DEF MobilityInv, ObjectsMatch
    <3> QED
      BY <3>2, <2>2, <1>10
  <2> QED
    BY <2>1, <2>2
<1>12. Deleted' \subseteq DOMAIN objects
  BY <1>4, <1>6, <1>10
<1>13. \A n \in VehiclesToUpdate(m) :
        updateData'[n] = [id |-> m[n], step |-> Last3(steps')] /\ n \in Running /\ m[n] # Stub
  <2> SUFFICES ASSUME NEW n \in VehiclesToUpdate(m)
               PROVE  updateData'[n] = [id |-> m[n], step |-> steps] /\ n \in Running /\ m[n] # Stub
    BY <1>8
  <2>1. n \in Running \ Departed /\ n \in SumoIds
    BY <1>2, <1>3 DEF Running
  <2>2. DOMAIN results = Running \ Departed /\ results[n] = steps
    BY <2>1, <1>7
  <2>3. Update(n) = steps
    BY <2>1, <2>2 DEF Update, Results
  <2> QED
    BY <2>1, <2>3, <1>1, <1>3 DEF VehiclesToUpdate
<1>14. VehiclesToUpdate(m) \subseteq SumoIds
  BY <1>2, <1>3 DEF Running
<1>15. Typed'
  <2>1. manager' \in Phases
    BY <1>1 DEF Phases
  <2>2. arrived' \subseteq SumoIds
    BY <1>8 DEF Running
  <2>3. tasks' \in TaskType
    <3>1. departed \in Seq(SumoIds)
      BY DEF MobilityInv, Typed
    <3>2. ObjectsToDelete(m) \in SUBSET Ids
      <4>1. \A n \in arrived : m[n] \in Ids
        BY <1>4, <1>6, ObjectIds
      <4> QED
        BY <4>1 DEF ObjectsToDelete
    <3>3. (MinExpectedNumber > 0) \in BOOLEAN
      OBVIOUS
    <3> QED
      BY <3>1, <3>2, <3>3, <1>1, <1>3, <1>14 DEF TaskType
  <2>4. updateData' \in [SumoIds -> [id : Ids \cup {Stub}, step : Steps \cup {Empty}]]
    <3>1. \A n \in VehiclesToUpdate(m) : updateData'[n] \in [id : Ids \cup {Stub}, step : Steps \cup {Empty}]
      <4> SUFFICES ASSUME NEW n \in VehiclesToUpdate(m)
                   PROVE  updateData'[n] \in [id : Ids \cup {Stub}, step : Steps \cup {Empty}]
        OBVIOUS
      <4>1. m[n] \in Ids \cup {Stub}
        BY <1>2, <1>3, <1>4, <1>6, <1>7
      <4>2. Last3(steps') \in Steps
        BY <1>8, IdsAndSteps
      <4>3. PICK a, k, u : a = m[n] /\ k = Last3(steps') /\ u = updateData'[n]
        OBVIOUS
      <4>4. u = [id |-> a, step |-> k]
        BY <4>3, <1>13
      <4>5. a \in Ids \cup {Stub} /\ k \in Steps \cup {Empty}
        BY <4>1, <4>2, <4>3
      <4>6. u \in [id : Ids \cup {Stub}, step : Steps \cup {Empty}]
        BY <4>4, <4>5
      <4> QED
        BY <4>3, <4>6
    <3>2. NoUpdate \in [id : Ids \cup {Stub}, step : Steps \cup {Empty}]
      BY DEF NoUpdate
    <3>3. \A n \in SumoIds : updateData'[n] \in [id : Ids \cup {Stub}, step : Steps \cup {Empty}]
      BY <3>1, <3>2, <1>1, <1>3
    <3>4. DOMAIN updateData' = SumoIds /\ updateData' = [n \in SumoIds |-> updateData'[n]]
      BY <1>1
    <3> QED
      BY <3>3, <3>4
  <2>5. mIdMapper' \in [DOMAIN mIdMapper' -> Ids \cup {Stub}]
    BY <1>1, <1>3, <1>4
  <2> QED
    BY <2>1, <2>2, <2>3, <2>4, <2>5, <1>1, <1>8 DEF MobilityInv, Typed, objectVars
<1>16. SumoAhead'
  <2>1. Departed' \subseteq Running'
    BY <1>8
  <2>2. mSubscribedVehicles' = (Running' \ Departed') \cup arrived'
    BY <1>2, <1>8, <1>9
  <2>3. \A n \in SumoIds : traffic'[n] # "waiting" <=> n \in D \/ traffic[n] # "waiting"
    BY <1>8 DEF Running
  <2>4. D \subseteq SumoIds /\ \A n \in D : traffic[n] = "waiting"
    BY <1>8 DEF Waiting
  <2>5. DOMAIN mIdMapper' = { n \in SumoIds : traffic[n] # "waiting" }
    <3>1. DOMAIN mIdMapper' = DOMAIN mIdMapper \cup Departed
      BY <1>1, <1>3, <1>4
    <3>2. DOMAIN mIdMapper = { n \in SumoIds : traffic[n] # "waiting" } \ Departed
      BY DEF MobilityInv, SumoAhead
    <3>3. Departed \subseteq { n \in SumoIds : traffic[n] # "waiting" }
      BY <1>7 DEF Running
    <3> QED
      BY <3>1, <3>2, <3>3
  <2>6. DOMAIN mIdMapper' = { n \in SumoIds : traffic'[n] # "waiting" } \ Departed'
    BY <2>3, <2>4, <2>5, <1>8
  <2>7. \A n \in arrived' : traffic'[n] = "arrived"
    <3>1. A \subseteq SumoIds /\ A \cap D = {}
      BY <1>8, <1>9 DEF Running
    <3> QED
      BY <3>1, <1>8
  <2> QED
    BY <2>1, <2>2, <2>6, <2>7, <1>8 DEF SumoAhead
<1>17. ResultsCurrent'
  <2>1. Running' \ Departed' = Running \ A
    BY <1>8, <1>9
  <2> QED
    BY <2>1, <1>8 DEF ResultsCurrent
<1>18. ObjectsMatch'
  <2>1. UNCHANGED objects /\ tasks'.vehiclesToAdd = departed
    BY <1>1 DEF objectVars
  <2>2. \A i \in DOMAIN objects \ Deleted' : objects[i] \in Running \ Departed
    BY <1>5, <1>7, <1>11
  <2>3. \A n \in Running \ Departed : m[n] \in DOMAIN objects \ Deleted' /\ objects[m[n]] = n
    BY <1>4, <1>7, <1>11
  <2>4. { objects[i] : i \in DOMAIN objects \ Deleted' } = Running \ Departed
    BY <2>2, <2>3
  <2>5. { objects'[i] : i \in DOMAIN objects' \ Deleted' } \cup Added' = mSubscribedVehicles'
    BY <2>1, <2>4, <1>2, <1>7, <1>10
  <2>6. Added' \cap Range(objects') = {}
    BY <2>1, <1>5, <1>6, <1>10
  <2>7. Deleted' \subseteq DOMAIN objects'
    BY <2>1, <1>12
  <2>8. /\ \A i, j \in DOMAIN objects : objects[i] = objects[j] => i = j
        /\ \A i, j \in DOMAIN departed : departed[i] = departed[j] => i = j
    BY DEF MobilityInv, ObjectsMatch, SumoAhead
  <2> QED
    BY <2>1, <2>5, <2>6, <2>7, <2>8 DEF ObjectsMatch
<1>19. IdsGiven'
  <2>1. Len(departed) = Cardinality(Departed) /\ IsFiniteSet(Departed)
    <3>1. departed \in Seq(SumoIds) /\ \A i, j \in DOMAIN departed : departed[i] = departed[j] => i = j
      BY DEF MobilityInv, Typed, SumoAhead
    <3> QED
      BY <3>1, DistinctElements DEF Departed
  <2>2. IsFiniteSet(DOMAIN mIdMapper) /\ Cardinality(DOMAIN mIdMapper) \in Nat
    <3>1. DOMAIN mIdMapper \in SUBSET SumoIds
      BY <1>6
    <3> QED
      BY <3>1, SetsAreFinite
  <2>3. Cardinality(DOMAIN mIdMapper \cup Departed) = Cardinality(DOMAIN mIdMapper) + Cardinality(Departed)
    <3>1. Cardinality(DOMAIN mIdMapper \cup Departed)
            = Cardinality(DOMAIN mIdMapper) + Cardinality(Departed)
                - Cardinality(DOMAIN mIdMapper \cap Departed)
      BY <2>1, <2>2, FS_Union
    <3>2. Cardinality(DOMAIN mIdMapper \cap Departed) = 0
      <4>1. DOMAIN mIdMapper \cap Departed = {}
        BY <1>6
      <4> QED
        BY <4>1, FS_EmptySet
    <3>3. Cardinality(Departed) \in Nat
      BY <2>1, FS_CardinalityType
    <3> QED
      BY <3>1, <3>2, <3>3, <2>2
  <2>4. mCurrentObjectId = Cardinality(DOMAIN mIdMapper)
    BY <1>5 DEF MobilityInv, IdsGiven, Typed
  <2>5. DOMAIN mIdMapper' = DOMAIN mIdMapper \cup Departed
    BY <1>1, <1>3, <1>4
  <2>6. mCurrentObjectId' + Len(tasks'.vehiclesToAdd) = Cardinality(DOMAIN mIdMapper')
    BY <2>1, <2>3, <2>4, <2>5, <1>1 DEF objectVars
  <2>7. UNCHANGED <<objects, removed, mCurrentObjectId>>
    BY <1>1 DEF objectVars
  <2> QED
    BY <2>6, <2>7 DEF MobilityInv, IdsGiven
<1>20. MapperMatches'
  <2> SUFFICES ASSUME NEW n \in DOMAIN m, m[n] # Stub
               PROVE  IF n \in Running
                      THEN m[n] \in DOMAIN objects \ Deleted' /\ objects[m[n]] = n
                      ELSE \/ m[n] \in removed
                           \/ m[n] \in Deleted' /\ objects[m[n]] = n
    BY <1>1, <1>2, <1>3 DEF MapperMatches, objectVars
  <2>1. n \in DOMAIN mIdMapper /\ n \notin Departed
    BY <1>4
  <2>2. CASE n \in Running
    BY <2>1, <2>2, <1>4, <1>7, <1>11
  <2>3. CASE n \notin Running /\ n \in mSubscribedVehicles
    BY <2>3, <1>4, <1>7, <1>11
  <2>4. CASE n \notin Running /\ n \notin mSubscribedVehicles
    BY <2>1, <2>4, <1>4, <1>5 DEF MobilityInv, MapperMatches
  <2> QED
    BY <2>2, <2>3, <2>4
<1>21. UpdatesMatch' /\ DOMAIN updates' = {} /\ inits' = {}
  <2>1. inits = {} /\ DOMAIN updates = {}
    BY <1>1 DEF MobilityInv, PhasesMatch
  <2> QED
    BY <2>1, <1>1 DEF MobilityInv, UpdatesMatch, objectVars
<1>22. ~tasks'.again => Waiting' \cup Running' \cup arrived' = {}
  <2> SUFFICES ASSUME ~(MinExpectedNumber > 0) PROVE Waiting' \cup Running' \cup arrived' = {}
    BY <1>1
  <2>1. PICK W \in SUBSET SumoIds : W = Waiting \cup Running
    BY DEF Waiting, Running
  <2>2. IsFiniteSet(W) /\ Cardinality(W) \in Nat
    BY SetsAreFinite
  <2>3. Cardinality(W) = 0
    BY <2>1, <2>2 DEF MinExpectedNumber
  <2>4. W = {}
    BY <2>2, <2>3, FS_EmptySet
  <2> QED
    BY <2>1, <2>4, <1>8
<1>23. PhasesMatch'
  <2>1. tasks'.vehiclesToUpdate = VehiclesToUpdate(m) /\ mIdMapper' = m
    BY <1>1, <1>3
  <2> QED
    BY <2>1, <1>1, <1>2, <1>13, <1>21, <1>22 DEF PhasesMatch
<1> QED
  BY <1>15, <1>16, <1>17, <1>18, <1>19, <1>20, <1>21, <1>23 DEF MobilityInv

\* The fiber throws only when SUMO is gone.
LEMMA UpdateThrowsStep == ASSUME MobilityInv, UpdateThrows PROVE MobilityInv'
<1>1. /\ manager = "computing" /\ ~(alive /\ Found(Mapper)) /\ manager' = "ended"
      /\ UNCHANGED <<mSubscribedVehicles, mIdMapper, tasks, clientVars, sumoVars,
                     objectVars, vehicleVars>>
  BY DEF UpdateThrows
<1>2. ~alive
  BY <1>1, AllFound
<1> USE DEF MobilityInv
<1>3. Typed'
  <2>1. manager' \in Phases
    BY <1>1 DEF Phases
  <2> QED
    BY <2>1, <1>1 DEF Typed, clientVars, sumoVars, objectVars, vehicleVars
<1>4. SumoAhead' /\ Running' = Running /\ Waiting' = Waiting
  BY <1>1, Frames DEF sumoVars
<1>5. ResultsCurrent' /\ ObjectsMatch' /\ IdsGiven' /\ MapperMatches' /\ UpdatesMatch'
  BY <1>1, Frames DEF sumoVars, clientVars, objectVars
<1>6. PhasesMatch'
  BY <1>1, <1>2 DEF PhasesMatch, sumoVars
<1> QED
  BY <1>3, <1>4, <1>5, <1>6

\* The tasks are carried out: objects are added and removed, the vehicles get
\* their init actions and their updates.
LEMMA EndManagerStep == ASSUME MobilityInv, EndManager PROVE MobilityInv'
<1> DEFINE v == tasks.vehiclesToAdd
           k == mCurrentObjectId
           new == k + 1 .. k + Len(v)
           kept == DOMAIN objects \ Deleted
<1>1. /\ manager = "done"
      /\ objects' = [id \in kept \cup new |-> IF id \in kept THEN objects[id] ELSE v[id - k]]
      /\ inits' = new
      /\ mCurrentObjectId' = k + Len(v)
      /\ removed' = removed \cup Deleted
      /\ updates' = [id \in { updateData[n].id : n \in tasks.vehiclesToUpdate } |-> "sent"]
      /\ manager' = IF tasks.again THEN "scheduled" ELSE "stopped"
      /\ tasks' = NoTasks
      /\ UNCHANGED <<sumoVars, clientVars, mIdMapper, mSubscribedVehicles, updateData, context>>
  <2> DEFINE added == [i \in new |-> v[i - k]]
  <2>1. /\ objects' = [id \in kept \cup DOMAIN added |-> IF id \in kept THEN objects[id] ELSE added[id]]
        /\ inits' = DOMAIN added
    BY DEF EndManager, Deleted
  <2>2. DOMAIN added = new /\ \A i \in new : added[i] = v[i - k]
    OBVIOUS
  <2>3. objects' = [id \in kept \cup new |-> IF id \in kept THEN objects[id] ELSE v[id - k]]
    <3> HIDE DEF new, kept, added
    <3> QED
      BY <2>1, <2>2
  <2> QED
    BY <2>1, <2>2, <2>3 DEF EndManager, Deleted
<1>2. /\ k \in Nat /\ Len(v) \in Nat /\ v \in Seq(SumoIds) /\ DOMAIN v = 1..Len(v)
      /\ \A i \in DOMAIN v : v[i] \in SumoIds
      /\ k + Len(v) <= Cardinality(SumoIds)
  <2>1. v \in Seq(SumoIds) /\ k \in Nat
    BY DEF MobilityInv, Typed, TaskType
  <2> QED
    BY <2>1, EachInSeq, ObjectIds
<1>3. \A id : id \in new <=> id - k \in DOMAIN v /\ id \in Nat /\ k < id
  BY <1>2
<1>4. /\ DOMAIN objects \subseteq 1..k /\ removed \subseteq 1..k
      /\ DOMAIN objects \cap removed = {} /\ Deleted \subseteq DOMAIN objects
  BY DEF MobilityInv, IdsGiven, ObjectsMatch
<1>5. kept \cap new = {}
  BY <1>2, <1>4
<1>6. \A id \in new : id \in Ids
  BY <1>2, IdsAndSteps
<1> DEFINE o == [id \in kept \cup new |-> IF id \in kept THEN objects[id] ELSE v[id - k]]
<1>7. /\ DOMAIN o = kept \cup new
      /\ \A id \in kept : o[id] = objects[id]
      /\ \A id \in new : o[id] = v[id - k]
  BY <1>5
<1>8. objects' = o
  BY <1>1
<1> HIDE DEF o
<1>9. /\ \A i, j \in DOMAIN objects : objects[i] = objects[j] => i = j
      /\ \A i, j \in DOMAIN v : v[i] = v[j] => i = j
      /\ \A i \in DOMAIN objects, j \in DOMAIN v : objects[i] # v[j]
      /\ { objects[i] : i \in kept } \cup { v[j] : j \in DOMAIN v } = mSubscribedVehicles
  BY DEF MobilityInv, ObjectsMatch, Added, Range
<1>10. \A j \in DOMAIN v : k + j \in new /\ (k + j) - k = j
  BY <1>2
<1>11. { o[i] : i \in DOMAIN o } = mSubscribedVehicles
  <2>1. \A i \in DOMAIN o : o[i] \in mSubscribedVehicles
    <3> HIDE DEF new, v, k
    <3> QED
      BY <1>3, <1>7, <1>9
  <2>2. \A n \in mSubscribedVehicles : \E i \in DOMAIN o : o[i] = n
    <3> SUFFICES ASSUME NEW n \in mSubscribedVehicles PROVE \E i \in DOMAIN o : o[i] = n
      OBVIOUS
    <3>1. CASE n \in { objects[i] : i \in kept }
      BY <3>1, <1>7
    <3>2. CASE n \in { v[j] : j \in DOMAIN v }
      <4>1. PICK j \in DOMAIN v : v[j] = n
        BY <3>2
      <4>2. k + j \in new /\ o[k + j] = v[j]
        BY <1>7, <1>10
      <4> QED
        BY <4>1, <4>2, <1>7
    <3> QED
      BY <3>1, <3>2, <1>9
  <2> QED
    BY <2>1, <2>2
<1>12. \A i, j \in DOMAIN o : o[i] = o[j] => i = j
  <2> SUFFICES ASSUME NEW i \in DOMAIN o, NEW j \in DOMAIN o, o[i] = o[j] PROVE i = j
    OBVIOUS
  <2>1. CASE i \in kept /\ j \in kept
    BY <2>1, <1>7, <1>9
  <2>2. CASE i \in new /\ j \in new
    <3>1. i - k \in DOMAIN v /\ j - k \in DOMAIN v /\ i \in Nat /\ j \in Nat
      BY <2>2, <1>3
    <3>2. i - k = j - k
      BY <2>2, <3>1, <1>7, <1>9
    <3> QED
      BY <3>1, <3>2, <1>2
  <2>3. CASE i \in kept /\ j \in new
    <3> HIDE DEF new, v, k
    <3> QED
      BY <2>3, <1>3, <1>7, <1>9
  <2>4. CASE i \in new /\ j \in kept
    <3> HIDE DEF new, v, k
    <3> QED
      BY <2>4, <1>3, <1>7, <1>9
  <2> QED
    BY <2>1, <2>2, <2>3, <2>4, <1>7
<1>13. /\ Added' = {} /\ Deleted' = {} /\ Len(tasks'.vehiclesToAdd) = 0
       /\ DOMAIN tasks'.vehiclesToAdd = {} /\ tasks' \in TaskType
  BY <1>1, NothingToDo DEF Added, Deleted
<1>14. \A n \in tasks.vehiclesToUpdate :
         /\ mIdMapper[n] \in kept /\ o[mIdMapper[n]] = n
         /\ updateData[n] = [id |-> mIdMapper[n], step |-> Last3(steps)]
  <2> SUFFICES ASSUME NEW n \in tasks.vehiclesToUpdate
               PROVE  /\ mIdMapper[n] \in kept /\ o[mIdMapper[n]] = n
                      /\ updateData[n] = [id |-> mIdMapper[n], step |-> Last3(steps)]
    OBVIOUS
  <2>1. /\ n \in mSubscribedVehicles /\ mIdMapper[n] # Stub
        /\ updateData[n] = [id |-> mIdMapper[n], step |-> Last3(steps)]
    BY <1>1 DEF MobilityInv, PhasesMatch
  <2>2. n \in DOMAIN mIdMapper
    BY <2>1, ReportedAreMapped
  <2>3. mIdMapper[n] \in kept /\ objects[mIdMapper[n]] = n
    BY <2>1, <2>2 DEF MobilityInv, MapperMatches
  <2> QED
    BY <2>1, <2>3, <1>7
<1>15. Typed'
  <2>1. manager' \in Phases
    BY <1>1 DEF Phases
  <2>2. o \in [DOMAIN o -> SumoIds]
    <3>1. \A i \in kept : objects[i] \in SumoIds
      BY DEF MobilityInv, Typed
    <3>2. \A i \in DOMAIN o : o[i] \in SumoIds
      <4> HIDE DEF new, v, k
      <4> QED
        BY <3>1, <1>2, <1>3, <1>7
    <3>3. o = [i \in DOMAIN o |-> o[i]]
      BY DEF o
    <3> QED
      BY <3>2, <3>3
  <2>3. k + Len(v) \in Nat
    BY <1>2
  <2>4. updates' \in [DOMAIN updates' -> {"sent", "computing", "done"}]
    <3> DEFINE U == { updateData[n].id : n \in tasks.vehiclesToUpdate }
    <3>1. updates' = [id \in U |-> "sent"]
      BY <1>1
    <3> HIDE DEF U
    <3> QED
      BY <3>1
  <2> HIDE DEF v, k
  <2> QED
    BY <2>1, <2>2, <2>3, <2>4, <1>1, <1>8, <1>13 DEF MobilityInv, Typed, sumoVars, clientVars
<1>16. SumoAhead' /\ Running' = Running /\ Waiting' = Waiting
  BY <1>1, Frames DEF MobilityInv, sumoVars
<1>17. ResultsCurrent'
  BY <1>1, Frames DEF MobilityInv, sumoVars, clientVars
<1>18. ObjectsMatch'
  <2>1. { objects'[i] : i \in DOMAIN objects' \ Deleted' } \cup Added' = mSubscribedVehicles'
    <3>1. PICK w, d, m : w = objects' /\ d = Deleted' /\ m = mSubscribedVehicles
      OBVIOUS
    <3>2. { w[i] : i \in DOMAIN w } = m
      BY <3>1, <1>8, <1>11
    <3>3. { w[i] : i \in DOMAIN w \ d } = m
      BY <3>1, <3>2, <1>13
    <3>4. { objects'[i] : i \in DOMAIN objects' \ Deleted' } = mSubscribedVehicles
      BY <3>1, <3>3
    <3> QED
      BY <3>4, <1>1, <1>13
  <2> QED
    BY <2>1, <1>8, <1>12, <1>13 DEF ObjectsMatch
<1>19. IdsGiven'
  <2>1. \A id \in DOMAIN o \cup removed' : id \in 1 .. k + Len(v)
    <3>1. \A id \in kept \cup removed \cup Deleted : id \in 1 .. k + Len(v)
      <4>1. \A id \in kept \cup removed \cup Deleted : id \in 1 .. k
        BY <1>4
      <4>2. \A id \in 1 .. k : id \in 1 .. k + Len(v)
        BY <1>2
      <4> QED
        BY <4>1, <4>2
    <3>2. \A id \in new : id \in 1 .. k + Len(v)
      BY <1>2
    <3> QED
      BY <3>1, <3>2, <1>1, <1>7
  <2>2. DOMAIN o \cap removed' = {}
    <3>1. new \cap (removed \cup Deleted) = {}
      BY <1>2, <1>4
    <3>2. kept \cap (removed \cup Deleted) = {}
      BY <1>4
    <3> QED
      BY <3>1, <3>2, <1>1, <1>7
  <2>3. k + Len(v) + 0 = Cardinality(DOMAIN mIdMapper)
    BY <1>2 DEF MobilityInv, IdsGiven
  <2> QED
    BY <2>1, <2>2, <2>3, <1>1, <1>8, <1>13 DEF IdsGiven
<1>20. MapperMatches'
  <2> SUFFICES ASSUME NEW n \in DOMAIN mIdMapper, mIdMapper[n] # Stub
               PROVE  IF n \in mSubscribedVehicles
                      THEN mIdMapper[n] \in DOMAIN o /\ o[mIdMapper[n]] = n
                      ELSE mIdMapper[n] \in removed'
    BY <1>1, <1>8, <1>13 DEF MapperMatches
  <2>1. IF n \in mSubscribedVehicles
        THEN mIdMapper[n] \in kept /\ objects[mIdMapper[n]] = n
        ELSE mIdMapper[n] \in removed \/ mIdMapper[n] \in Deleted
    BY DEF MobilityInv, MapperMatches
  <2> QED
    BY <2>1, <1>1, <1>7
<1>21. ~tasks.again => objects' = <<>> /\ Waiting' \cup Running' = {}
  <2> SUFFICES ASSUME ~tasks.again PROVE o = <<>> /\ Waiting \cup Running = {}
    BY <1>8, <1>16
  <2>1. Waiting \cup Running \cup arrived = {}
    BY <1>1 DEF MobilityInv, PhasesMatch
  <2>2. mSubscribedVehicles = {}
    BY <2>1 DEF MobilityInv, SumoAhead
  <2>3. DOMAIN o = {}
    BY <2>2, <1>11
  <2>4. o = <<>>
    BY <2>3 DEF o
  <2> QED
    BY <2>1, <2>4
<1>22. PhasesMatch'
  <2>1. tasks.again \in BOOLEAN
    BY DEF MobilityInv, Typed, TaskType
  <2> QED
    BY <2>1, <1>1, <1>21 DEF PhasesMatch
<1>23. UpdatesMatch'
  <2>1. inits' \subseteq DOMAIN o
    BY <1>1, <1>7
  <2>2. \A id \in DOMAIN o \ inits' : context'[id] # Absent
    <3>1. inits = {} /\ context' = context
      BY <1>1 DEF MobilityInv, PhasesMatch
    <3>2. \A id \in kept : context[id] # Absent
      BY <3>1 DEF MobilityInv, UpdatesMatch
    <3> QED
      BY <3>1, <3>2, <1>1, <1>7
  <2>3. \A id \in DOMAIN updates' :
          /\ id \in DOMAIN o \ inits'
          /\ updateData[o[id]] = [id |-> id, step |-> Last3(steps)]
    <3> SUFFICES ASSUME NEW id \in DOMAIN updates'
                 PROVE  /\ id \in DOMAIN o \ inits'
                        /\ updateData[o[id]] = [id |-> id, step |-> Last3(steps)]
      OBVIOUS
    <3>1. PICK n \in tasks.vehiclesToUpdate : id = updateData[n].id
      BY <1>1
    <3>2. id = mIdMapper[n]
      <4>1. PICK r, a, b : r = updateData[n] /\ a = mIdMapper[n] /\ b = Last3(steps)
        OBVIOUS
      <4>2. r = [id |-> a, step |-> b]
        BY <4>1, <1>14
      <4>3. r.id = a
        BY <4>2
      <4> QED
        BY <3>1, <4>1, <4>3
    <3>3. id \in kept /\ o[id] = n /\ updateData[n] = [id |-> id, step |-> Last3(steps)]
      BY <3>2, <1>14
    <3> QED
      BY <3>3, <1>1, <1>5, <1>7
  <2> QED
    BY <2>1, <2>2, <2>3, <1>1, <1>8 DEF UpdatesMatch, sumoVars
<1> QED
  BY <1>15, <1>16, <1>17, <1>18, <1>19, <1>20, <1>22, <1>23 DEF MobilityInv

\* Steps of the vehicles leave the manager's part alone.
LEMMA VehicleFrame ==
    ASSUME MobilityInv, UNCHANGED <<sumoVars, managerVars, objectVars, updateData>>,
           manager \in {"computing", "done"} => inits' = {} /\ DOMAIN updates' = {}
    PROVE  /\ SumoAhead' /\ ResultsCurrent' /\ ObjectsMatch' /\ IdsGiven' /\ MapperMatches'
           /\ PhasesMatch'
<1> USE DEF MobilityInv
<1>1. SumoAhead' /\ Running' = Running /\ Waiting' = Waiting
  BY Frames DEF sumoVars, managerVars
<1>2. ResultsCurrent' /\ ObjectsMatch' /\ IdsGiven' /\ MapperMatches'
  BY Frames DEF sumoVars, managerVars, clientVars, objectVars
<1>3. PhasesMatch'
  BY <1>1 DEF PhasesMatch, sumoVars, managerVars, clientVars, objectVars
<1> QED
  BY <1>1, <1>2, <1>3

\* A new vehicle is initialised.
LEMMA InitVehicleStep ==
    ASSUME MobilityInv, NEW id, InitVehicle(id) PROVE MobilityInv'
<1>1. /\ id \in inits /\ inits' = inits \ {id} /\ context' = [context EXCEPT ![id] = Empty]
      /\ UNCHANGED <<sumoVars, managerVars, objectVars, updates, updateData>>
  BY DEF InitVehicle
<1>2. id \in DOMAIN objects /\ id \in Ids
  BY <1>1, ObjectIds DEF MobilityInv, UpdatesMatch
<1>3. Typed'
  <2>1. context' \in [Ids -> Steps \cup {Absent, Empty}]
    BY <1>1, <1>2 DEF MobilityInv, Typed
  <2> QED
    BY <2>1, <1>1 DEF MobilityInv, Typed, sumoVars, managerVars, clientVars, objectVars
<1>4. manager \notin {"computing", "done"}
  BY <1>1 DEF MobilityInv, PhasesMatch
<1>5. UpdatesMatch'
  <2>1. \A i \in Ids : context'[i] = IF i = id THEN Empty ELSE context[i]
    BY <1>1 DEF MobilityInv, Typed
  <2>2. \A i \in DOMAIN objects \ inits' : context'[i] # Absent
    <3>1. \A i \in DOMAIN objects \ inits : context[i] # Absent
      BY DEF MobilityInv, UpdatesMatch
    <3>2. Empty # Absent
      BY IdsAndSteps
    <3> QED
      BY <2>1, <3>1, <3>2, <1>1, ObjectIds
  <2> QED
    BY <2>2, <1>1 DEF MobilityInv, UpdatesMatch, objectVars, sumoVars
<1> QED
  BY <1>1, <1>3, <1>4, <1>5, VehicleFrame DEF MobilityInv

\* What a step that changes only updates has to keep.
LEMMA UpdatesFrame ==
    ASSUME MobilityInv, DOMAIN updates' \subseteq DOMAIN updates, DOMAIN updates # {},
           updates' \in [DOMAIN updates' -> {"sent", "computing", "done"}],
           UNCHANGED <<sumoVars, managerVars, objectVars, inits, updateData, context>>
    PROVE  MobilityInv'
<1>1. Typed'
  BY DEF MobilityInv, Typed, sumoVars, managerVars, clientVars, objectVars
<1>2. manager \notin {"computing", "done"}
  BY DEF MobilityInv, PhasesMatch
<1>3. UpdatesMatch'
  BY DEF MobilityInv, UpdatesMatch, sumoVars, objectVars
<1> QED
  BY <1>1, <1>2, <1>3, VehicleFrame DEF MobilityInv

\* The update's start handler finds the object.
LEMMA StartUpdateStep ==
    ASSUME MobilityInv, NEW id, StartUpdate(id) PROVE MobilityInv'
<1>1. /\ id \in DOMAIN updates
      /\ updates' = IF id \in removed THEN Without(id)
                    ELSE [updates EXCEPT ![id] =
                              IF id \in DOMAIN objects THEN "computing" ELSE "thrown"]
      /\ UNCHANGED <<sumoVars, managerVars, objectVars, inits, updateData, context>>
  BY DEF StartUpdate
<1>2. id \in DOMAIN objects /\ id \notin removed
  BY <1>1 DEF MobilityInv, UpdatesMatch, IdsGiven
<1>3. updates' = [updates EXCEPT ![id] = "computing"]
  BY <1>1, <1>2
<1>4. DOMAIN updates' = DOMAIN updates
        /\ updates' \in [DOMAIN updates -> {"sent", "computing", "done"}]
  BY <1>1, <1>3 DEF MobilityInv, Typed
<1> QED
  BY <1>1, <1>4, UpdatesFrame

\* The update carries the id of its vehicle, which is initialised.
LEMMA ExecuteSumoUpdateStep ==
    ASSUME MobilityInv, NEW id, ExecuteSumoUpdate(id) PROVE MobilityInv'
<1>1. /\ id \in DOMAIN updates
      /\ updates' = [updates EXCEPT ![id] =
                      IF updateData[objects[id]].id = id /\ context[id] # Absent
                      THEN "done" ELSE "thrown"]
      /\ UNCHANGED <<sumoVars, managerVars, objectVars, inits, updateData, context>>
  BY DEF ExecuteSumoUpdate
<1>2. /\ id \in DOMAIN objects \ inits /\ context[id] # Absent
      /\ updateData[objects[id]] = [id |-> id, step |-> Last3(steps)]
  BY <1>1 DEF MobilityInv, UpdatesMatch
<1>3. updateData[objects[id]].id = id
  <2>1. PICK r, b : r = updateData[objects[id]] /\ b = Last3(steps)
    OBVIOUS
  <2>2. r = [id |-> id, step |-> b]
    BY <2>1, <1>2
  <2>3. r.id = id
    BY <2>2
  <2> QED
    BY <2>1, <2>3
<1>4. updates' = [updates EXCEPT ![id] = "done"]
  BY <1>1, <1>2, <1>3
<1>5. DOMAIN updates' = DOMAIN updates
        /\ updates' \in [DOMAIN updates -> {"sent", "computing", "done"}]
  BY <1>1, <1>4 DEF MobilityInv, Typed
<1> QED
  BY <1>1, <1>5, UpdatesFrame

\* What a vehicle shows after its update.
LEMMA UpdateShowsLastStep ==
    ASSUME MobilityInv, NEW id, EndUpdate(id)
    PROVE  /\ id \in DOMAIN objects /\ id \in Ids
           /\ Last3(steps) \in Steps
           /\ context' = [context EXCEPT ![id] = Last3(steps)]
<1>1. id \in DOMAIN updates /\ context' = [context EXCEPT ![id] = updateData[objects[id]].step]
  BY DEF EndUpdate
<1>2. id \in DOMAIN objects /\ updateData[objects[id]] = [id |-> id, step |-> Last3(steps)]
  BY <1>1 DEF MobilityInv, UpdatesMatch
<1>3. updateData[objects[id]].step = Last3(steps)
  <2>1. PICK r, b : r = updateData[objects[id]] /\ b = Last3(steps)
    OBVIOUS
  <2>2. r = [id |-> id, step |-> b]
    BY <2>1, <1>2
  <2>3. r.step = b
    BY <2>2
  <2> QED
    BY <2>1, <2>3
<1>4. Last3(steps) \in Steps
  BY IdsAndSteps DEF MobilityInv, Typed
<1> QED
  BY <1>1, <1>2, <1>3, <1>4, ObjectIds

\* The update arrives.
LEMMA EndUpdateStep ==
    ASSUME MobilityInv, NEW id, EndUpdate(id) PROVE MobilityInv'
<1>1. /\ id \in DOMAIN updates
      /\ updates' = [i \in DOMAIN updates \ {id} |-> updates[i]]
      /\ UNCHANGED <<sumoVars, managerVars, objectVars, inits, updateData>>
  BY DEF EndUpdate, Without
<1>2. /\ id \in DOMAIN objects /\ id \in Ids /\ Last3(steps) \in Steps
      /\ context' = [context EXCEPT ![id] = Last3(steps)]
  BY UpdateShowsLastStep
<1>3. Typed'
  <2>1. context' \in [Ids -> Steps \cup {Absent, Empty}]
    BY <1>2 DEF MobilityInv, Typed
  <2>2. updates' \in [DOMAIN updates' -> {"sent", "computing", "done"}]
    BY <1>1 DEF MobilityInv, Typed
  <2> QED
    BY <2>1, <2>2, <1>1 DEF MobilityInv, Typed, sumoVars, managerVars, clientVars, objectVars
<1>4. manager \notin {"computing", "done"}
  BY <1>1 DEF MobilityInv, PhasesMatch
<1>5. UpdatesMatch'
  <2>1. \A i \in Ids : context'[i] = IF i = id THEN Last3(steps) ELSE context[i]
    BY <1>2 DEF MobilityInv, Typed
  <2>2. \A i \in DOMAIN objects \ inits' : context'[i] # Absent
    <3>1. \A i \in DOMAIN objects \ inits : context[i] # Absent
      BY DEF MobilityInv, UpdatesMatch
    <3>2. Last3(steps) # Absent
      BY <1>2, IdsAndSteps
    <3> QED
      BY <2>1, <3>1, <3>2, <1>1, ObjectIds
  <2>3. DOMAIN updates' \subseteq DOMAIN updates
    BY <1>1
  <2> QED
    BY <2>2, <2>3, <1>1 DEF MobilityInv, UpdatesMatch, objectVars, sumoVars
<1> QED
  BY <1>1, <1>3, <1>4, <1>5, VehicleFrame DEF MobilityInv

\* No step breaks the invariant.
LEMMA NextMobilityInv == MobilityInv /\ [Next]_vars => MobilityInv'
<1> SUFFICES ASSUME MobilityInv, [Next]_vars PROVE MobilityInv'
  OBVIOUS
<1>1. CASE SumoDies
  BY <1>1, SumoDiesStep
<1>2. CASE Launch
  BY <1>2, LaunchStep
<1>3. CASE Connect
  BY <1>3, ConnectStep
<1>4. CASE ConnectFails
  BY <1>4, ConnectFailsStep
<1>5. CASE StartManager
  BY <1>5, StartManagerStep
<1>6. CASE DoVehicleUpdate
  BY <1>6, DoVehicleUpdateStep
<1>7. CASE UpdateThrows
  BY <1>7, UpdateThrowsStep
<1>8. CASE EndManager
  BY <1>8, EndManagerStep
<1>9. ASSUME NEW id \in Ids \cup {Stub}, VehicleStep(id) PROVE MobilityInv'
  BY <1>9, InitVehicleStep, StartUpdateStep, ExecuteSumoUpdateStep, EndUpdateStep DEF VehicleStep
<1>10. CASE UNCHANGED vars
  <2>1. UNCHANGED <<sumoVars, managerVars, objectVars, vehicleVars>>
    BY <1>10 DEF vars
  <2>2. Typed'
    BY <2>1 DEF MobilityInv, Typed, sumoVars, managerVars, clientVars, objectVars, vehicleVars
  <2>3. manager \in {"computing", "done"} => inits' = {} /\ DOMAIN updates' = {}
    BY <2>1 DEF MobilityInv, PhasesMatch, vehicleVars
  <2>4. UNCHANGED <<sumoVars, managerVars, objectVars, updateData>>
    BY <2>1 DEF vehicleVars
  <2>5. UpdatesMatch'
    BY <2>1 DEF MobilityInv, UpdatesMatch, vehicleVars, objectVars, sumoVars
  <2> QED
    BY <2>2, <2>3, <2>4, <2>5, VehicleFrame DEF MobilityInv
<1>11. CASE Stopped
  BY <1>10, <1>11 DEF Stopped
<1> QED
  BY <1>1, <1>2, <1>3, <1>4, <1>5, <1>6, <1>7, <1>8, <1>9, <1>10, <1>11 DEF Next

-----------------------------------------------------------------------------
(* The theorems.                                                           *)

\* The manager's subscriptions, its mapper and the vehicle objects always
\* agree, with the containers in between where they differ on purpose.
THEOREM MobilityInvariant == Spec => []MobilityInv
BY InitMobilityInv, NextMobilityInv, PTL DEF Spec

\* Every variable has its type; in particular there are never more objects
\* made than there are vehicles.
THEOREM MobilityTypeCorrect == Spec => []TypeOK
<1>1. MobilityInv => TypeOK
  <2> SUFFICES ASSUME MobilityInv PROVE TypeOK
    OBVIOUS
  <2>1. DOMAIN results \subseteq SumoIds /\ Range(results) \subseteq Steps /\ subscribed \subseteq SumoIds
    <3>1. /\ results = [n \in Running \ Departed |-> steps]
          /\ Running \subseteq SumoIds /\ steps \in Steps /\ subscribed = Running \ Departed
      BY DEF MobilityInv, ResultsCurrent, Typed, Running
    <3>2. DOMAIN results = Running \ Departed /\ \A n \in DOMAIN results : results[n] = steps
      BY <3>1
    <3> QED
      BY <3>1, <3>2 DEF Range
  <2>2. /\ mSubscribedVehicles \subseteq SumoIds /\ DOMAIN mIdMapper \subseteq SumoIds
        /\ Range(mIdMapper) \subseteq Ids \cup {Stub}
    BY ReportedAreMapped DEF MobilityInv, Typed, Range
  <2>3. /\ DOMAIN objects \subseteq Ids /\ Range(objects) \subseteq SumoIds /\ removed \subseteq Ids
        /\ mCurrentObjectId \in Ids \cup {0}
    <3>1. mCurrentObjectId \in Nat /\ mCurrentObjectId <= Cardinality(SumoIds)
      BY ObjectIds, IdsAndSteps DEF MobilityInv, Typed
    <3> QED
      BY <3>1, ObjectIds, IdsAndSteps DEF MobilityInv, Typed, Range
  <2>4. /\ inits \subseteq Ids /\ DOMAIN updates \subseteq Ids
        /\ Range(updates) \subseteq {"sent", "computing", "done", "thrown"}
    BY <2>3 DEF MobilityInv, Typed, UpdatesMatch, Range
  <2> QED
    BY <2>1, <2>2, <2>3, <2>4 DEF MobilityInv, Typed, TypeOK, Phases, TaskType
<1> QED
  BY <1>1, MobilityInvariant, PTL

\* An object id in the mapper is that of the vehicle's own object, now or
\* before it was removed (fetchVehicleIds looks it up a period late).
THEOREM MapperKnowsOwnObjects == Spec => []IdsAreOwn
<1>1. MobilityInv => IdsAreOwn
  BY DEF MobilityInv, MapperMatches, ObjectsMatch, IdsAreOwn
<1> QED
  BY <1>1, MobilityInvariant, PTL

\* Neither at() nor getObject nor the enforce of executeSumoUpdate throws;
\* the manager ends the program only when SUMO is gone or too slow.
THEOREM OnlySumoEndsTheProgram == Spec => []NothingThrows
<1>1. MobilityInv => NothingThrows
  <2> SUFFICES ASSUME MobilityInv PROVE NothingThrows
    OBVIOUS
  <2>1. "thrown" \notin Range(updates)
    BY DEF MobilityInv, Typed, Range
  <2> QED
    BY <2>1 DEF MobilityInv, PhasesMatch, NothingThrows
<1> QED
  BY <1>1, MobilityInvariant, PTL

\* The manager stops only when every vehicle has arrived and every object is
\* removed.
THEOREM ManagerStopsEmpty == Spec => []StopsEmpty
<1>1. MobilityInv => StopsEmpty
  BY DEF MobilityInv, PhasesMatch, StopsEmpty
<1> QED
  BY <1>1, MobilityInvariant, PTL

\* An update that reaches its vehicle shows what SUMO reported at the step
\* the manager read, never an older one and never nothing.
THEOREM VehiclesShowTheLastStep == Spec => UpdatesAreCurrent
<1>1. MobilityInv /\ [Next]_vars =>
        [\A id \in DOMAIN updates \ DOMAIN updates' :
            id \in removed \/ context'[id] = Last3(steps)]_vars
  <2> SUFFICES ASSUME MobilityInv, Next, NEW id \in DOMAIN updates \ DOMAIN updates'
               PROVE  context'[id] = Last3(steps)
    OBVIOUS
  <2>1. manager \notin {"computing", "done"}
    BY DEF MobilityInv, PhasesMatch
  <2>2. updates' # updates
    OBVIOUS
  <2>3. PICK v \in Ids \cup {Stub} : VehicleStep(v)
    BY <2>1, <2>2 DEF Next, SumoDies, Launch, Connect, ConnectFails, StartManager,
       DoVehicleUpdate, UpdateThrows, EndManager, Stopped, vars, vehicleVars
  <2>4. CASE InitVehicle(v)
    BY <2>2, <2>4 DEF InitVehicle
  <2>5. CASE StartUpdate(v)
    <3>1. v \in DOMAIN objects /\ v \notin removed
      BY <2>5 DEF StartUpdate, MobilityInv, UpdatesMatch, IdsGiven
    <3> QED
      BY <2>5, <3>1 DEF StartUpdate
  <2>6. CASE ExecuteSumoUpdate(v)
    BY <2>6 DEF ExecuteSumoUpdate
  <2>7. CASE EndUpdate(v)
    <3>1. v \in Ids /\ context' = [context EXCEPT ![v] = Last3(steps)]
      BY <2>7, UpdateShowsLastStep
    <3>2. updates' = [i \in DOMAIN updates \ {v} |-> updates[i]]
      BY <2>7 DEF EndUpdate, Without
    <3>3. id = v
      BY <3>2
    <3> QED
      BY <3>1, <3>3 DEF MobilityInv, Typed
  <2> QED
    BY <2>3, <2>4, <2>5, <2>6, <2>7 DEF VehicleStep
<1> QED
  BY <1>1, MobilityInvariant, PTL DEF Spec, UpdatesAreCurrent

=============================================================================
