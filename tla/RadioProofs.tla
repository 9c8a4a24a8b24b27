---------------------------- MODULE RadioProofs ----------------------------
(***************************************************************************)
(* Proofs about Radio for any finite sets of vehicles and transmissions.   *)
(*                                                                         *)
(* A transmission belongs to its sender from its request until it is set   *)
(* up; from then on it is an action of the radio, in one place at a time,  *)
(* and first its start, then its end.  That is why the radio's context,    *)
(* which every fiber gets as a copy and gives back, holds exactly the      *)
(* transmissions whose end is still to come.                               *)
(***************************************************************************)
EXTENDS Radio, TLAPS

\* A request is in the interface only while the fiber that asked computes.
RequestIsOfFiber == \A v \in Vehicles : mHasRequest[v] => Computing(v) /\ asked[v]

\* What a stack asked for, and what its router is about to hand over, was
\* made by it and has not been set up.
HandOver ==
    \A v \in Vehicles :
        /\ mHasRequest[v] =>
            /\ mCurrentTransmission[v] # None
            /\ sender[mCurrentTransmission[v]] = v
            /\ ~mIsSetupDone[mCurrentTransmission[v]]
        /\ transmission[v] # None =>
            /\ fiber[v] = "done"
            /\ sender[transmission[v]] = v
            /\ ~mIsSetupDone[transmission[v]]

\* Receivers are searched for when the transmission exists, and the radio
\* hears of it when it is set up.
InOrder ==
    \A t \in Transmissions :
        /\ sender[t] = None => mPossibleReceivers[t] = {} /\ ~mIsSetupDone[t]
        /\ ~mIsSetupDone[t] => {Start(t), End(t)} \cap Outstanding = {}

\* A radio action is in the event list, delayed or active, and a transmission
\* is to be started or to be ended.
OnePlace ==
    /\ IsInjective(mDelayedQueue)
    /\ scheduled \cap ToSet(mDelayedQueue) = {}
    /\ mActiveAction \notin scheduled \cup ToSet(mDelayedQueue)
    /\ \A t \in Transmissions : ~ (Start(t) \in Outstanding /\ End(t) \in Outstanding)

\* Nobody else changes the context while a fiber computes with its copy.
GivenIsContext == given = mRadioContext

RadioInv ==
    /\ TypeOK
    /\ RequestIsOfFiber
    /\ HandOver
    /\ InOrder
    /\ OnePlace
    /\ GivenIsContext
    /\ InAirUntilEnd

-----------------------------------------------------------------------------
(* Steps that leave a part alone.                                          *)

\* A step of a router that hands nothing over leaves the radio alone.
LEMMA RadioStays ==
    ASSUME RadioInv, UNCHANGED radioVars
    PROVE  OnePlace' /\ GivenIsContext' /\ InAirUntilEnd' /\ Outstanding' = Outstanding
BY DEF RadioInv, radioVars, OnePlace, GivenIsContext, InAirUntilEnd, Outstanding

\* A step of the radio leaves the routers alone.
LEMMA RoutersStay ==
    ASSUME RadioInv, UNCHANGED <<routerVars, transmissionVars>>
    PROVE  RequestIsOfFiber' /\ HandOver'
BY DEF RadioInv, routerVars, transmissionVars, RequestIsOfFiber, HandOver, Computing

\* A context on other transmissions is a context.
LEMMA ContextType ==
    ASSUME NEW f
    PROVE  f \in Contexts <=> /\ f = [t \in DOMAIN f |-> f[t]]
                              /\ DOMAIN f \subseteq Transmissions
                              /\ \A t \in DOMAIN f : f[t] \subseteq Vehicles
<1>1. ASSUME f \in Contexts
      PROVE  /\ f = [t \in DOMAIN f |-> f[t]]
             /\ DOMAIN f \subseteq Transmissions
             /\ \A t \in DOMAIN f : f[t] \subseteq Vehicles
  BY <1>1 DEF Contexts
<1>2. ASSUME f = [t \in DOMAIN f |-> f[t]], DOMAIN f \subseteq Transmissions,
             \A t \in DOMAIN f : f[t] \subseteq Vehicles
      PROVE  f \in Contexts
  <2>1. PICK S : S = DOMAIN f
    OBVIOUS
  <2>2. f \in [S -> SUBSET Vehicles]
    BY <1>2, <2>1
  <2> QED
    BY <1>2, <2>1, <2>2 DEF Contexts
<1> QED
  BY <1>1, <1>2

-----------------------------------------------------------------------------
(* The routers.                                                            *)

\* Nothing is sent at first.
LEMMA InitRadioInv == Init => RadioInv
<1> SUFFICES ASSUME Init PROVE RadioInv
  OBVIOUS
<1> USE DEF Init
<1>1. DOMAIN <<>> = {} /\ <<>> \in Seq(RadioActions)
  OBVIOUS
<1>2. ToSet(mDelayedQueue) = {} /\ IsInjective(mDelayedQueue) /\ Outstanding = {}
  BY <1>1 DEF ToSet, IsInjective, Outstanding
<1>3. [t \in {} |-> {}] \in Contexts
  <2>1. PICK f : f = [t \in {} |-> {}]
    OBVIOUS
  <2>2. DOMAIN f = {} /\ f = [t \in DOMAIN f |-> f[t]]
    BY <2>1
  <2> QED
    BY <2>1, <2>2, ContextType
<1>4. TypeOK
  BY <1>1, <1>3, RadioAssumption DEF TypeOK
<1>5. InAirUntilEnd
  BY <1>2 DEF InAirUntilEnd
<1>6. RequestIsOfFiber /\ HandOver /\ GivenIsContext
  BY DEF RequestIsOfFiber, HandOver, GivenIsContext
<1>7. InOrder /\ OnePlace
  BY <1>2 DEF InOrder, OnePlace
<1> QED
  BY <1>4, <1>5, <1>6, <1>7 DEF RadioInv

\* A vehicle comes or goes.
LEMMA VehicleStep ==
    ASSUME RadioInv, NEW v \in Vehicles, AddVehicle(v) \/ RemoveVehicle(v)
    PROVE  RadioInv'
<1>1. /\ active' \subseteq Vehicles /\ removed' \subseteq Vehicles
      /\ UNCHANGED <<routerVars, transmissionVars, radioVars, indications, heard>>
  BY DEF AddVehicle, RemoveVehicle, RadioInv, TypeOK
<1>2. OnePlace' /\ GivenIsContext' /\ InAirUntilEnd' /\ Outstanding' = Outstanding
  BY <1>1, RadioStays
<1>3. RequestIsOfFiber' /\ HandOver'
  BY <1>1, RoutersStay
<1>4. TypeOK'
  BY <1>1 DEF RadioInv, TypeOK, routerVars, transmissionVars, radioVars
<1>5. InOrder'
  BY <1>1, <1>2 DEF RadioInv, InOrder, transmissionVars
<1> QED
  BY <1>2, <1>3, <1>4, <1>5 DEF RadioInv

\* A router's fiber begins.
LEMMA LaunchStep ==
    ASSUME RadioInv, NEW v \in Vehicles, LaunchInit(v) \/ LaunchAction(v)
    PROVE  RadioInv'
<1> USE DEF RadioInv, TypeOK
<1>1. PICK kind \in {"init", "action"} : Launch(v, kind)
  BY DEF LaunchInit, LaunchAction
<1>2. /\ fiber[v] = "none"
      /\ fiber' = [fiber EXCEPT ![v] = kind]
      /\ snapshot' = [snapshot EXCEPT ![v] = active]
      /\ asked' = [asked EXCEPT ![v] = FALSE]
      /\ UNCHANGED <<vehicleVars, initialized, mHasRequest, mCurrentTransmission,
                     transmission, transmissionVars, radioVars, indications, heard>>
  BY <1>1 DEF Launch
<1>3. OnePlace' /\ GivenIsContext' /\ InAirUntilEnd' /\ Outstanding' = Outstanding
  BY <1>2, RadioStays
<1>4. TypeOK'
  BY <1>2 DEF vehicleVars, transmissionVars, radioVars
<1>5. InOrder'
  BY <1>2, <1>3 DEF InOrder, transmissionVars
<1>6. ~mHasRequest[v] /\ transmission[v] = None
  BY <1>2 DEF RequestIsOfFiber, Computing, HandOver
<1>7. RequestIsOfFiber'
  BY <1>2, <1>6 DEF RequestIsOfFiber, Computing
<1>8. HandOver'
  BY <1>2, <1>6 DEF HandOver, transmissionVars
<1> QED
  BY <1>3, <1>4, <1>5, <1>7, <1>8

\* The stack asks for a transmission that did not exist.
LEMMA RequestStep ==
    ASSUME RadioInv, NEW v \in Vehicles, NEW t \in Transmissions, Request(v, t)
    PROVE  RadioInv'
<1> USE DEF RadioInv, TypeOK
<1>1. /\ Computing(v)
      /\ sender[t] = None
      /\ sender' = [sender EXCEPT ![t] = v]
      /\ mCurrentTransmission' = [mCurrentTransmission EXCEPT ![v] = t]
      /\ mHasRequest' = [mHasRequest EXCEPT ![v] = TRUE]
      /\ asked' = [asked EXCEPT ![v] = TRUE]
      /\ UNCHANGED <<vehicleVars, fiber, initialized, snapshot, transmission,
                     mPossibleReceivers, mIsSetupDone, radioVars, indications, heard>>
  BY DEF Request
<1>2. OnePlace' /\ GivenIsContext' /\ InAirUntilEnd' /\ Outstanding' = Outstanding
  BY <1>1, RadioStays
<1>3. mPossibleReceivers[t] = {} /\ ~mIsSetupDone[t] /\ t # None /\ v # None
  BY <1>1, RadioAssumption DEF InOrder
<1>4. TypeOK'
  BY <1>1, <1>3 DEF vehicleVars, radioVars
<1>5. InOrder'
  BY <1>1, <1>2, <1>3 DEF InOrder
<1>6. RequestIsOfFiber'
  BY <1>1 DEF RequestIsOfFiber, Computing
<1>7. HandOver'
  <2> SUFFICES ASSUME NEW w \in Vehicles
               PROVE  /\ mHasRequest'[w] =>
                            /\ mCurrentTransmission'[w] # None
                            /\ sender'[mCurrentTransmission'[w]] = w
                            /\ ~mIsSetupDone[mCurrentTransmission'[w]]
                      /\ transmission[w] # None =>
                            /\ fiber[w] = "done"
                            /\ sender'[transmission[w]] = w
                            /\ ~mIsSetupDone[transmission[w]]
    BY <1>1 DEF HandOver
  <2>1. \A s \in Transmissions : sender'[s] = IF s = t THEN v ELSE sender[s]
    BY <1>1
  <2>2. transmission[w] # None => transmission[w] # t /\ transmission[w] \in Transmissions
    BY <1>1, RadioAssumption DEF HandOver
  <2>3. CASE w = v
    BY <2>1, <2>2, <2>3, <1>1, <1>3 DEF HandOver
  <2>4. CASE w # v
    <3>1. mHasRequest'[w] = mHasRequest[w] /\ mCurrentTransmission'[w] = mCurrentTransmission[w]
      BY <2>4, <1>1
    <3>2. mHasRequest[w] => mCurrentTransmission[w] # t /\ mCurrentTransmission[w] \in Transmissions
      BY <1>1, RadioAssumption DEF HandOver
    <3> QED
      BY <3>1, <3>2, <2>1, <2>2 DEF HandOver
  <2> QED
    BY <2>3, <2>4
<1> QED
  BY <1>2, <1>4, <1>5, <1>6, <1>7

\* initRouter drops what the stack sends, and ends.
LEMMA InitFiberStep ==
    ASSUME RadioInv, NEW v \in Vehicles, InitTrigger(v) \/ InitFinishes(v)
    PROVE  RadioInv'
<1> USE DEF RadioInv, TypeOK
<1>1. UNCHANGED <<vehicleVars, initialized, snapshot, mCurrentTransmission,
                  transmissionVars, radioVars, indications, heard>>
        /\ fiber[v] = "init" /\ transmission[v] = None
  BY DEF InitTrigger, InitFinishes, DropTransmission, HandOver
<1>2. OnePlace' /\ GivenIsContext' /\ InAirUntilEnd' /\ Outstanding' = Outstanding
  BY <1>1, RadioStays
<1>3. InOrder'
  BY <1>1, <1>2 DEF InOrder, transmissionVars
<1>4. CASE InitTrigger(v)
  <2>1. /\ mHasRequest' = [mHasRequest EXCEPT ![v] = FALSE]
        /\ asked' = [asked EXCEPT ![v] = FALSE]
        /\ UNCHANGED <<fiber, transmission>>
    BY <1>4 DEF InitTrigger, DropTransmission
  <2>2. TypeOK'
    BY <1>1, <2>1 DEF vehicleVars, transmissionVars, radioVars
  <2>3. RequestIsOfFiber' /\ HandOver'
    BY <1>1, <2>1 DEF RequestIsOfFiber, Computing, HandOver, transmissionVars
  <2> QED
    BY <2>2, <2>3, <1>2, <1>3
<1>5. CASE InitFinishes(v)
  <2>1. /\ ~asked[v]
        /\ fiber' = [fiber EXCEPT ![v] = "done"]
        /\ transmission' = [transmission EXCEPT ![v] = None]
        /\ UNCHANGED <<asked, mHasRequest>>
    BY <1>5 DEF InitFinishes
  <2>2. TypeOK'
    BY <1>1, <2>1 DEF vehicleVars, transmissionVars, radioVars
  <2>3. RequestIsOfFiber' /\ HandOver'
    BY <1>1, <2>1 DEF RequestIsOfFiber, Computing, HandOver, transmissionVars
  <2> QED
    BY <2>2, <2>3, <1>2, <1>3
<1> QED
  BY <1>4, <1>5

\* The fiber of an action ends with the transmission it asked for, if any.
LEMMA ActionFinishesStep ==
    ASSUME RadioInv, NEW v \in Vehicles, ActionFinishes(v) PROVE RadioInv'
<1> USE DEF RadioInv, TypeOK
<1>1. /\ fiber[v] = "action"
      /\ fiber' = [fiber EXCEPT ![v] = "done"]
      /\ mHasRequest' = [mHasRequest EXCEPT ![v] = FALSE]
      /\ transmission' = [transmission EXCEPT ![v] =
              IF mHasRequest[v] THEN mCurrentTransmission[v] ELSE None]
      /\ mCurrentTransmission' = [mCurrentTransmission EXCEPT ![v] =
              IF mHasRequest[v] THEN None ELSE @]
      /\ mPossibleReceivers' = [t \in Transmissions |->
              IF mHasRequest[v] /\ t = mCurrentTransmission[v] THEN Found(v)
              ELSE mPossibleReceivers[t]]
      /\ UNCHANGED <<vehicleVars, initialized, snapshot, asked, sender, mIsSetupDone,
                     radioVars, indications, heard>>
  BY DEF ActionFinishes
<1>2. OnePlace' /\ GivenIsContext' /\ InAirUntilEnd' /\ Outstanding' = Outstanding
  BY <1>1, RadioStays
<1>3. mHasRequest[v] => /\ mCurrentTransmission[v] \in Transmissions
                        /\ sender[mCurrentTransmission[v]] = v
                        /\ ~mIsSetupDone[mCurrentTransmission[v]]
  BY DEF HandOver
<1>4. v \in Vehicles /\ v # None /\ Found(v) \subseteq Vehicles /\ v \notin Found(v)
  BY RadioAssumption DEF Found
<1>5. TypeOK'
  <2>1. mPossibleReceivers' \in [Transmissions -> SUBSET Vehicles]
    BY <1>1, <1>4
  <2>2. \A t \in Transmissions : sender'[t] \notin mPossibleReceivers'[t]
    BY <1>1, <1>3, <1>4
  <2> QED
    BY <2>1, <2>2, <1>1 DEF vehicleVars, radioVars
<1>6. InOrder'
  BY <1>1, <1>2, <1>3, <1>4 DEF InOrder
<1>7. RequestIsOfFiber'
  BY <1>1 DEF RequestIsOfFiber, Computing
<1>8. HandOver'
  BY <1>1, <1>3 DEF HandOver
<1> QED
  BY <1>2, <1>5, <1>6, <1>7, <1>8

\* The router's end handler hands the transmission over: its start is a new
\* action of the radio.
LEMMA RouterEndsStep ==
    ASSUME RadioInv, NEW v \in Vehicles, RouterEnds(v) PROVE RadioInv'
<1> USE DEF RadioInv, TypeOK
<1>1. /\ fiber[v] = "done"
      /\ fiber' = [fiber EXCEPT ![v] = "none"]
      /\ snapshot' = [snapshot EXCEPT ![v] = {}]
      /\ initialized' = initialized \cup {v}
      /\ transmission' = [transmission EXCEPT ![v] = None]
      /\ UNCHANGED <<vehicleVars, asked, mHasRequest, mCurrentTransmission, sender,
                     mPossibleReceivers, mDelayedQueue, mActiveAction, given, computed,
                     mRadioContext, indications, heard>>
  BY DEF RouterEnds, Ended
<1>2. RequestIsOfFiber'
  BY <1>1 DEF RequestIsOfFiber, Computing
<1>3. CASE transmission[v] = None
  <2>1. UNCHANGED <<scheduled, mIsSetupDone>>
    BY <1>3 DEF RouterEnds
  <2>2. OnePlace' /\ GivenIsContext' /\ InAirUntilEnd' /\ Outstanding' = Outstanding
    BY <2>1, <1>1, RadioStays DEF radioVars
  <2>3. TypeOK'
    BY <2>1, <1>1 DEF vehicleVars
  <2>4. HandOver' /\ InOrder'
    BY <2>1, <2>2, <1>1 DEF HandOver, InOrder
  <2> QED
    BY <2>2, <2>3, <2>4, <1>2
<1>4. CASE transmission[v] # None
  <2>1. PICK t \in Transmissions : t = transmission[v]
    BY <1>4
  <2>2. /\ scheduled' = scheduled \cup {Start(t)}
        /\ mIsSetupDone' = [mIsSetupDone EXCEPT ![t] = TRUE]
    BY <1>4, <2>1 DEF RouterEnds, SetupReceiverContext
  <2>3. sender[t] = v /\ ~mIsSetupDone[t] /\ v # None
    BY <1>4, <2>1, RadioAssumption DEF HandOver
  <2>4. Start(t) \notin Outstanding /\ End(t) \notin Outstanding
    BY <2>3 DEF InOrder
  <2>5. Outstanding' = Outstanding \cup {Start(t)}
    BY <2>2, <1>1 DEF Outstanding
  <2>6. Start(t) \in RadioActions /\ \A s \in Transmissions :
            /\ End(s) # Start(t)
            /\ Start(s) = Start(t) => s = t
    BY DEF Start, End, RadioActions, Kinds
  <2>7. TypeOK'
    BY <2>2, <2>6, <1>1 DEF vehicleVars
  <2>8. HandOver'
    <3> SUFFICES ASSUME NEW w \in Vehicles
                 PROVE  /\ mHasRequest[w] =>
                            /\ mCurrentTransmission[w] # None
                            /\ sender[mCurrentTransmission[w]] = w
                            /\ ~mIsSetupDone'[mCurrentTransmission[w]]
                        /\ transmission'[w] # None =>
                            /\ fiber'[w] = "done"
                            /\ sender[transmission'[w]] = w
                            /\ ~mIsSetupDone'[transmission'[w]]
      BY <1>1 DEF HandOver
    <3>1. \A s \in Transmissions : s # t => mIsSetupDone'[s] = mIsSetupDone[s]
      BY <2>2
    <3>2. mHasRequest[w] => w # v
      BY <1>1 DEF RequestIsOfFiber, Computing
    <3>3. transmission'[w] # None => w # v /\ transmission'[w] = transmission[w]
      BY <1>1
    <3> QED
      BY <3>1, <3>2, <3>3, <2>3, <1>1 DEF HandOver
  <2>9. InOrder'
    <3> SUFFICES ASSUME NEW s \in Transmissions
                 PROVE  /\ sender[s] = None => mPossibleReceivers[s] = {} /\ ~mIsSetupDone'[s]
                        /\ ~mIsSetupDone'[s] => Start(s) \notin Outstanding' /\ End(s) \notin Outstanding'
      BY <1>1 DEF InOrder
    <3>1. CASE s = t
      BY <3>1, <2>2, <2>3
    <3>2. CASE s # t
      BY <3>2, <2>2, <2>5, <2>6 DEF InOrder
    <3> QED
      BY <3>1, <3>2
  <2>10. OnePlace'
    <3>1. Start(t) \notin ToSet(mDelayedQueue) /\ Start(t) # mActiveAction
      BY <2>4, <2>6, RadioAssumption DEF Outstanding
    <3>2. \A s \in Transmissions : ~ (Start(s) \in Outstanding' /\ End(s) \in Outstanding')
      BY <2>4, <2>5, <2>6 DEF OnePlace
    <3> QED
      BY <3>1, <3>2, <2>2, <1>1 DEF OnePlace
  <2>11. InAirUntilEnd'
    <3>1. \A s \in Transmissions : End(s) \in Outstanding' <=> End(s) \in Outstanding
      BY <2>5, <2>6
    <3> QED
      BY <3>1, <1>1 DEF InAirUntilEnd
  <2>12. GivenIsContext'
    BY <1>1 DEF GivenIsContext
  <2> QED
    BY <2>7, <2>8, <2>9, <2>10, <2>11, <2>12, <1>2
<1> QED
  BY <1>3, <1>4

\* Its result is lost.
LEMMA RouterIgnoredStep ==
    ASSUME RadioInv, NEW v \in Vehicles, RouterIgnored(v) PROVE RadioInv'
<1> USE DEF RadioInv, TypeOK
<1>1. /\ fiber[v] = "done"
      /\ fiber' = [fiber EXCEPT ![v] = "none"]
      /\ snapshot' = [snapshot EXCEPT ![v] = {}]
      /\ initialized' = initialized \cup {v}
      /\ transmission' = [transmission EXCEPT ![v] = None]
      /\ UNCHANGED <<vehicleVars, asked, mHasRequest, mCurrentTransmission,
                     transmissionVars, radioVars, indications, heard>>
  BY DEF RouterIgnored, Ended
<1>2. OnePlace' /\ GivenIsContext' /\ InAirUntilEnd' /\ Outstanding' = Outstanding
  BY <1>1, RadioStays
<1>3. RequestIsOfFiber'
  BY <1>1 DEF RequestIsOfFiber, Computing
<1>4. HandOver' /\ InOrder'
  BY <1>1, <1>2 DEF HandOver, InOrder, transmissionVars
<1>5. TypeOK'
  BY <1>1 DEF vehicleVars, transmissionVars, radioVars
<1> QED
  BY <1>2, <1>3, <1>4, <1>5

-----------------------------------------------------------------------------
(* The radio.                                                              *)

\* A sequence with one more element at its end.
LEMMA AppendedSet ==
    ASSUME NEW S, NEW s \in Seq(S), NEW x \in S
    PROVE  /\ Append(s, x) \in Seq(S)
           /\ ToSet(Append(s, x)) = ToSet(s) \cup {x}
           /\ IsInjective(s) /\ x \notin ToSet(s) => IsInjective(Append(s, x))
<1>1. PICK n : n = Len(s)
  OBVIOUS
<1>2. PICK c : c = Append(s, x)
  OBVIOUS
<1>3. n \in Nat /\ DOMAIN s = 1..n /\ c \in Seq(S) /\ DOMAIN c = 1..(n + 1)
  BY <1>1, <1>2
<1>4. c[n + 1] = x /\ \A i \in 1..n : c[i] = s[i]
  BY <1>1, <1>2
<1>5. \A i : i \in 1..(n + 1) <=> i \in 1..n \/ i = n + 1
  BY <1>3
<1>6. ToSet(c) = ToSet(s) \cup {x}
  BY <1>3, <1>4, <1>5 DEF ToSet
<1>7. IsInjective(s) /\ x \notin ToSet(s) => IsInjective(c)
  BY <1>3, <1>4, <1>5 DEF ToSet, IsInjective
<1> QED
  BY <1>2, <1>3, <1>6, <1>7

\* A sequence without its first element.
LEMMA RestOfSet ==
    ASSUME NEW S, NEW s \in Seq(S), s # <<>>
    PROVE  /\ Head(s) \in S
           /\ Tail(s) \in Seq(S)
           /\ ToSet(s) = {Head(s)} \cup ToSet(Tail(s))
           /\ IsInjective(s) => IsInjective(Tail(s)) /\ Head(s) \notin ToSet(Tail(s))
<1>1. PICK n : n = Len(s)
  OBVIOUS
<1>2. n \in Nat /\ n # 0 /\ DOMAIN s = 1..n
  BY <1>1
<1>3. PICK t : t = Tail(s)
  OBVIOUS
<1>4. t \in Seq(S) /\ DOMAIN t = 1..(n - 1) /\ \A i \in 1..(n - 1) : t[i] = s[i + 1]
  BY <1>1, <1>2, <1>3
<1>5. Head(s) = s[1] /\ s[1] \in S /\ 1 \in 1..n
  BY <1>1, <1>2
<1>6. \A i \in 1..n : i # 1 => i - 1 \in 1..(n - 1) /\ (i - 1) + 1 = i
  BY <1>2
<1>7. \A i \in 1..n : i # 1 => i - 1 \in DOMAIN t /\ s[i] = t[i - 1]
  BY <1>4, <1>6
<1>8. \A i \in 1..(n - 1) : i + 1 \in 1..n /\ i + 1 # 1
  BY <1>2
<1>9. ToSet(s) = {s[1]} \cup ToSet(t)
  <2>1. ASSUME NEW i \in 1..n PROVE s[i] \in {s[1]} \cup ToSet(t)
    BY <1>7 DEF ToSet
  <2>2. ASSUME NEW i \in 1..(n - 1) PROVE t[i] \in ToSet(s)
    BY <1>2, <1>4, <1>8 DEF ToSet
  <2>3. s[1] \in ToSet(s)
    BY <1>2, <1>5 DEF ToSet
  <2> QED
    BY <2>1, <2>2, <2>3, <1>2, <1>4 DEF ToSet
<1>10. ASSUME IsInjective(s) PROVE IsInjective(t) /\ s[1] \notin ToSet(t)
  <2>1. ASSUME NEW i \in 1..(n - 1), NEW j \in 1..(n - 1), t[i] = t[j] PROVE i = j
    <3>1. s[i + 1] = s[j + 1]
      BY <2>1, <1>4
    <3>2. i + 1 = j + 1
      BY <3>1, <1>2, <1>8, <1>10 DEF IsInjective
    <3> QED
      BY <3>2, <1>2
  <2>2. ASSUME NEW i \in 1..(n - 1) PROVE t[i] # s[1]
    BY <1>2, <1>4, <1>5, <1>8, <1>10 DEF IsInjective
  <2> QED
    BY <2>1, <2>2, <1>4 DEF IsInjective, ToSet
<1> QED
  BY <1>3, <1>4, <1>5, <1>9, <1>10

\* A radio action leaves the event list: it becomes active or is delayed.
LEMMA ActionArrivesStep ==
    ASSUME RadioInv, NEW x \in scheduled, ActionArrives(x) PROVE RadioInv'
<1> USE DEF RadioInv, TypeOK
<1>1. /\ scheduled' = scheduled \ {x}
      /\ UNCHANGED <<vehicleVars, routerVars, transmissionVars, mRadioContext,
                     indications, heard>>
  BY DEF ActionArrives
<1>2. RequestIsOfFiber' /\ HandOver'
  BY <1>1, RoutersStay
<1>3. x \in RadioActions /\ x # None
  BY RadioAssumption
<1>4. /\ TypeOK'
      /\ Outstanding' = Outstanding
      /\ IsInjective(mDelayedQueue')
      /\ scheduled' \cap ToSet(mDelayedQueue') = {}
      /\ mActiveAction' \notin scheduled' \cup ToSet(mDelayedQueue')
      /\ GivenIsContext'
  <2>1. CASE mActiveAction = None
    <3>1. /\ mActiveAction' = x
          /\ given' = mRadioContext
          /\ computed' = FALSE
          /\ mDelayedQueue' = mDelayedQueue
      BY <2>1 DEF ActionArrives
    <3>2. TypeOK'
      BY <3>1, <1>1, <1>3 DEF vehicleVars, routerVars, transmissionVars
    <3>3. Outstanding' = Outstanding
      BY <3>1, <2>1, <1>1, <1>3 DEF Outstanding
    <3> QED
      BY <3>1, <3>2, <3>3, <1>1 DEF OnePlace, GivenIsContext
  <2>2. CASE mActiveAction # None
    <3>1. /\ mDelayedQueue' = Append(mDelayedQueue, x)
          /\ UNCHANGED <<mActiveAction, given, computed>>
      BY <2>2 DEF ActionArrives, Delayed
    <3>2. x \notin ToSet(mDelayedQueue)
      BY DEF OnePlace
    <3>3. /\ mDelayedQueue' \in Seq(RadioActions)
          /\ ToSet(mDelayedQueue') = ToSet(mDelayedQueue) \cup {x}
          /\ IsInjective(mDelayedQueue')
      BY <3>1, <3>2, <1>3, AppendedSet DEF OnePlace
    <3>4. TypeOK'
      BY <3>1, <3>3, <1>1 DEF vehicleVars, routerVars, transmissionVars
    <3>5. Outstanding' = Outstanding
      BY <3>1, <3>3, <1>1 DEF Outstanding
    <3> QED
      BY <3>1, <3>3, <3>4, <3>5, <1>1 DEF OnePlace, GivenIsContext
  <2> QED
    BY <2>1, <2>2
<1>5. OnePlace'
  BY <1>4 DEF OnePlace
<1>6. InOrder' /\ InAirUntilEnd'
  BY <1>1, <1>4 DEF InOrder, InAirUntilEnd, transmissionVars
<1> QED
  BY <1>2, <1>4, <1>5, <1>6

\* The radio's fiber is done.
LEMMA RadioComputesStep == ASSUME RadioInv, RadioComputes PROVE RadioInv'
<1>1. /\ computed' = TRUE
      /\ UNCHANGED <<vehicleVars, routerVars, transmissionVars, scheduled, mDelayedQueue,
                     mActiveAction, given, mRadioContext, indications, heard>>
  BY DEF RadioComputes
<1>2. RequestIsOfFiber' /\ HandOver'
  BY <1>1, RoutersStay
<1>3. Outstanding' = Outstanding
  BY <1>1 DEF Outstanding
<1>4. TypeOK'
  BY <1>1 DEF RadioInv, TypeOK, vehicleVars, routerVars, transmissionVars
<1>5. InOrder' /\ OnePlace' /\ GivenIsContext' /\ InAirUntilEnd'
  BY <1>1, <1>3 DEF RadioInv, InOrder, OnePlace, GivenIsContext, InAirUntilEnd, transmissionVars
<1> QED
  BY <1>2, <1>4, <1>5 DEF RadioInv

\* An indication reaches a router or is dropped.
LEMMA IndicationArrivesStep ==
    ASSUME RadioInv, NEW i \in Indications, IndicationArrives(i) PROVE RadioInv'
<1>1. /\ indications' \subseteq Indications /\ heard' \subseteq Indications
      /\ UNCHANGED <<vehicleVars, routerVars, transmissionVars, radioVars>>
  BY DEF IndicationArrives, OtherIndications, RadioInv, TypeOK
<1>2. OnePlace' /\ GivenIsContext' /\ InAirUntilEnd' /\ Outstanding' = Outstanding
  BY <1>1, RadioStays
<1>3. RequestIsOfFiber' /\ HandOver'
  BY <1>1, RoutersStay
<1>4. TypeOK'
  BY <1>1 DEF RadioInv, TypeOK, vehicleVars, routerVars, transmissionVars, radioVars
<1>5. InOrder'
  BY <1>1, <1>2 DEF RadioInv, InOrder, transmissionVars
<1> QED
  BY <1>2, <1>3, <1>4, <1>5 DEF RadioInv

\* What the end of an action does to the queue: the first delayed action is
\* the active one.
LEMMA NextActive ==
    ASSUME RadioInv, RadioEnds
    PROVE  /\ mActiveAction' \in RadioActions \cup {None}
           /\ mDelayedQueue' \in Seq(RadioActions)
           /\ IsInjective(mDelayedQueue')
           /\ mActiveAction' \notin ToSet(mDelayedQueue')
           /\ ToSet(mDelayedQueue) =
                ToSet(mDelayedQueue') \cup (IF mActiveAction' = None THEN {} ELSE {mActiveAction'})
<1> USE DEF RadioInv, TypeOK
<1>1. CASE mDelayedQueue = <<>>
  <2>1. mActiveAction' = None /\ mDelayedQueue' = <<>>
    BY <1>1 DEF RadioEnds
  <2>2. DOMAIN <<>> = {}
    OBVIOUS
  <2>3. ToSet(<<>>) = {} /\ IsInjective(<<>>)
    BY <2>2 DEF ToSet, IsInjective
  <2> QED
    BY <2>1, <2>3, <1>1
<1>2. CASE mDelayedQueue # <<>>
  <2>1. mActiveAction' = Head(mDelayedQueue) /\ mDelayedQueue' = Tail(mDelayedQueue)
    BY <1>2 DEF RadioEnds
  <2>2. IsInjective(mDelayedQueue)
    BY DEF OnePlace
  <2>3. /\ Head(mDelayedQueue) \in RadioActions
        /\ Tail(mDelayedQueue) \in Seq(RadioActions)
        /\ ToSet(mDelayedQueue) = {Head(mDelayedQueue)} \cup ToSet(Tail(mDelayedQueue))
        /\ IsInjective(Tail(mDelayedQueue))
        /\ Head(mDelayedQueue) \notin ToSet(Tail(mDelayedQueue))
    BY <1>2, <2>2, RestOfSet
  <2>4. Head(mDelayedQueue) # None
    BY <2>3, RadioAssumption
  <2> QED
    BY <2>1, <2>3, <2>4
<1> QED
  BY <1>1, <1>2

\* A transmission started is in the air until it ends.
LEMMA RadioEndsStep == ASSUME RadioInv, RadioEnds PROVE RadioInv'
<1> USE DEF RadioInv, TypeOK
<1>1. /\ mActiveAction # None
      /\ given' = mRadioContext'
      /\ computed' = FALSE
      /\ UNCHANGED <<vehicleVars, routerVars, transmissionVars, heard>>
  BY DEF RadioEnds, Swapped
<1>2. PICK t \in Transmissions :
        \/ mActiveAction = Start(t) /\ StartTransmission(t)
        \/ mActiveAction = End(t) /\ EndTransmission(t)
  BY <1>1 DEF RadioEnds, RadioActions
<1>3. RequestIsOfFiber' /\ HandOver' /\ GivenIsContext'
  BY <1>1, RoutersStay DEF GivenIsContext
<1>4. /\ mActiveAction' \in RadioActions \cup {None}
      /\ mDelayedQueue' \in Seq(RadioActions)
      /\ IsInjective(mDelayedQueue')
      /\ mActiveAction' \notin ToSet(mDelayedQueue')
      /\ ToSet(mDelayedQueue) =
            ToSet(mDelayedQueue') \cup (IF mActiveAction' = None THEN {} ELSE {mActiveAction'})
  BY NextActive
<1>5. Outstanding' = scheduled' \cup ToSet(mDelayedQueue)
  BY <1>4 DEF Outstanding
<1>6. /\ Outstanding = scheduled \cup ToSet(mDelayedQueue) \cup {mActiveAction}
      /\ mActiveAction \notin scheduled \cup ToSet(mDelayedQueue)
      /\ scheduled \cap ToSet(mDelayedQueue) = {}
      /\ ~ (Start(t) \in Outstanding /\ End(t) \in Outstanding)
  BY <1>1 DEF Outstanding, OnePlace
<1>7. /\ Start(t) \in RadioActions /\ End(t) \in RadioActions /\ Start(t) # End(t)
      /\ None \notin RadioActions
      /\ \A s \in Transmissions : /\ End(s) # Start(t) /\ Start(s) # End(t)
                                  /\ Start(s) = Start(t) => s = t
                                  /\ End(s) = End(t) => s = t
  BY RadioAssumption DEF Start, End, RadioActions, Kinds
<1>8. mIsSetupDone[t]
  BY <1>2, <1>6 DEF InOrder
<1>9. given = mRadioContext /\ mRadioContext \in Contexts
  BY DEF GivenIsContext
<1>10. /\ DOMAIN given \subseteq Transmissions
       /\ \A s \in DOMAIN given : given[s] \subseteq Vehicles
       /\ DOMAIN given = { s \in Transmissions : End(s) \in Outstanding }
  BY <1>9, ContextType DEF InAirUntilEnd
<1>11. CASE mActiveAction = Start(t) /\ StartTransmission(t)
  <2>1. /\ mRadioContext' = [s \in DOMAIN given \cup {t} |->
                              IF s = t THEN Recipients(t) ELSE given[s]]
        /\ scheduled' = scheduled \cup {End(t)}
        /\ UNCHANGED indications
    BY <1>11 DEF StartTransmission
  <2>2. End(t) \notin Outstanding
    BY <1>6, <1>11
  <2>3. Outstanding' = (Outstanding \ {Start(t)}) \cup {End(t)}
    BY <2>1, <1>5, <1>6, <1>7, <1>11
  <2>4. mRadioContext' \in Contexts
    <3>1. PICK c : c = mRadioContext'
      OBVIOUS
    <3>2. DOMAIN c = DOMAIN given \cup {t} /\ c = [s \in DOMAIN c |-> c[s]]
      BY <3>1, <2>1
    <3>3. \A s \in DOMAIN c : c[s] = IF s = t THEN Recipients(t) ELSE given[s]
      BY <3>1, <2>1
    <3>4. Recipients(t) \subseteq Vehicles
      BY DEF Recipients
    <3>5. \A s \in DOMAIN c : c[s] \subseteq Vehicles
      BY <3>2, <3>3, <3>4, <1>10
    <3> QED
      BY <3>1, <3>2, <3>5, <1>10, ContextType
  <2>5. TypeOK'
    BY <2>1, <2>4, <1>1, <1>4, <1>7 DEF vehicleVars, routerVars, transmissionVars
  <2>6. InAirUntilEnd'
    <3>1. DOMAIN mRadioContext' = DOMAIN given \cup {t}
      BY <2>1
    <3>2. \A s \in Transmissions : End(s) \in Outstanding' <=> End(s) \in Outstanding \/ s = t
      BY <2>3, <1>7
    <3> QED
      BY <3>1, <3>2, <1>10 DEF InAirUntilEnd
  <2>7. InOrder'
    BY <2>3, <1>1, <1>7, <1>8 DEF InOrder, transmissionVars
  <2>8. OnePlace'
    <3>1. scheduled' \cap ToSet(mDelayedQueue) = {}
      BY <2>1, <2>2, <1>6
    <3>2. \A s \in Transmissions : ~ (Start(s) \in Outstanding' /\ End(s) \in Outstanding')
      BY <2>3, <1>7 DEF OnePlace
    <3>3. mActiveAction' \notin scheduled'
      BY <3>1, <2>1, <1>4, <1>7
    <3> QED
      BY <3>1, <3>2, <3>3, <1>4 DEF OnePlace
  <2> QED
    BY <2>5, <2>6, <2>7, <2>8, <1>3
<1>12. CASE mActiveAction = End(t) /\ EndTransmission(t)
  <2>1. /\ mRadioContext' = [s \in DOMAIN given \ {t} |-> given[s]]
        /\ indications' = indications \cup ({t} \X given[t])
        /\ UNCHANGED scheduled
    BY <1>12 DEF EndTransmission, Without, Receivers
  <2>2. t \in DOMAIN given
    BY <1>6, <1>10, <1>12
  <2>3. Outstanding' = Outstanding \ {End(t)}
    BY <2>1, <1>5, <1>6, <1>12
  <2>4. mRadioContext' \in Contexts
    <3>1. PICK c : c = mRadioContext'
      OBVIOUS
    <3>2. DOMAIN c = DOMAIN given \ {t} /\ c = [s \in DOMAIN c |-> c[s]]
      BY <3>1, <2>1
    <3>3. \A s \in DOMAIN c : c[s] = given[s]
      BY <3>1, <2>1
    <3> QED
      BY <3>1, <3>2, <3>3, <1>10, ContextType
  <2>5. indications' \subseteq Indications
    BY <2>1, <2>2, <1>10 DEF Indications
  <2>6. TypeOK'
    BY <2>1, <2>4, <2>5, <1>1, <1>4 DEF vehicleVars, routerVars, transmissionVars
  <2>7. InAirUntilEnd'
    <3>1. DOMAIN mRadioContext' = DOMAIN given \ {t}
      BY <2>1
    <3>2. \A s \in Transmissions : End(s) \in Outstanding' <=> End(s) \in Outstanding /\ s # t
      BY <2>3, <1>7
    <3> QED
      BY <3>1, <3>2, <1>10 DEF InAirUntilEnd
  <2>8. InOrder'
    BY <2>3, <1>1 DEF InOrder, transmissionVars
  <2>9. OnePlace'
    <3>1. \A s \in Transmissions : ~ (Start(s) \in Outstanding' /\ End(s) \in Outstanding')
      BY <2>3 DEF OnePlace
    <3>2. scheduled' \cap ToSet(mDelayedQueue) = {}
      BY <2>1, <1>6
    <3>3. mActiveAction' \notin scheduled'
      BY <3>2, <2>1, <1>4, <1>7
    <3> QED
      BY <3>1, <3>2, <3>3, <1>4 DEF OnePlace
  <2> QED
    BY <2>6, <2>7, <2>8, <2>9, <1>3
<1> QED
  BY <1>2, <1>11, <1>12

\* Every step of the radio and of the routers preserves the invariant.
LEMMA NextRadioInv == RadioInv /\ [Next]_vars => RadioInv'
<1> SUFFICES ASSUME RadioInv, [Next]_vars PROVE RadioInv'
  OBVIOUS
<1>1. CASE UNCHANGED vars
  <2>1. OnePlace' /\ GivenIsContext' /\ InAirUntilEnd' /\ Outstanding' = Outstanding
    BY <1>1, RadioStays DEF vars
  <2>2. RequestIsOfFiber' /\ HandOver'
    BY <1>1, RoutersStay DEF vars
  <2>3. TypeOK' /\ InOrder'
    BY <1>1, <2>1 DEF vars, RadioInv, TypeOK, InOrder, vehicleVars, routerVars, transmissionVars,
       radioVars
  <2> QED
    BY <2>1, <2>2, <2>3 DEF RadioInv
<1>2. ASSUME NEW v \in Vehicles, AddVehicle(v) \/ RemoveVehicle(v) PROVE RadioInv'
  BY <1>2, VehicleStep
<1>3. ASSUME NEW v \in Vehicles, LaunchInit(v) \/ LaunchAction(v) PROVE RadioInv'
  BY <1>3, LaunchStep
<1>4. ASSUME NEW v \in Vehicles, RouterStep(v) PROVE RadioInv'
  BY <1>4, RequestStep, InitFiberStep, ActionFinishesStep DEF RouterStep
<1>5. ASSUME NEW v \in Vehicles, RouterEnds(v) PROVE RadioInv'
  BY <1>5, RouterEndsStep
<1>6. ASSUME NEW v \in Vehicles, RouterIgnored(v) PROVE RadioInv'
  BY <1>6, RouterIgnoredStep
<1>7. CASE RadioStep
  BY <1>7, ActionArrivesStep, RadioComputesStep, RadioEndsStep DEF RadioStep
<1>8. ASSUME NEW i \in Indications, IndicationArrives(i) PROVE RadioInv'
  BY <1>8, IndicationArrivesStep
<1>9. CASE Stopped
  BY <1>9, <1>1 DEF Stopped
<1> QED
  BY <1>1, <1>2, <1>3, <1>4, <1>5, <1>6, <1>7, <1>8, <1>9 DEF Next

-----------------------------------------------------------------------------
(* The theorems.                                                           *)

\* The invariant holds in every reachable state.
THEOREM RadioInvariant == Spec => []RadioInv
<1>1. Init => RadioInv
  BY InitRadioInv
<1>2. RadioInv /\ [Next]_vars => RadioInv'
  BY NextRadioInv
<1> QED
  BY <1>1, <1>2, PTL DEF Spec

\* Every variable has its type, and no transmission has its sender among its
\* receivers (CacheQueryExclude).
THEOREM RadioTypeCorrect == Spec => []TypeOK
<1>1. RadioInv => TypeOK
  BY DEF RadioInv
<1> QED
  BY <1>1, RadioInvariant, PTL

\* The radio's context holds exactly the transmissions whose end is still to
\* come, so the decider's find() is never end() and nothing stays in the air.
THEOREM ContextHoldsWhatIsInAir == Spec => []InAirUntilEnd
<1>1. RadioInv => InAirUntilEnd
  BY DEF RadioInv
<1> QED
  BY <1>1, RadioInvariant, PTL

\* The enforce of AccessInterface::request never fails.
THEOREM RequestFindsInterfaceFree == Spec => []InterfaceIsFree
<1>1. RadioInv => InterfaceIsFree
  BY DEF RadioInv, RequestIsOfFiber, InterfaceIsFree
<1> QED
  BY <1>1, RadioInvariant, PTL

=============================================================================
