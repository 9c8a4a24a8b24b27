--------------------------- MODULE SimulationTimer --------------------------
(***************************************************************************)
(* The core's loop over the list of future actions (ActionList) and its    *)
(* clock (SteadyClock): arm a timer for the first time point, wait for it, *)
(* take the handlers of that time point and run them, which inserts other  *)
(* handlers, and begin again.                                              *)
(***************************************************************************)
EXTENDS ActionList, SteadyClock

CONSTANTS
    MaxReal,   \* BOUND: real time
    Lag        \* BOUND: a timer is late, and handlers take, at most this

ASSUME TimerAssumption == MaxReal \in Nat /\ Lag \in Nat

\* The range of floats is much larger than that of times, which have 64 bits.
ASSUME RangeAssumption ==
    \A t \in {MaxReal, MaxTime} : 2 * (t * Num) < Significands * PowerOfTwo[MaxExponent]

vars == <<listVars, clockVars>>

-----------------------------------------------------------------------------
Insert(t) ==
    /\ InsertHandler(t)
    /\ UNCHANGED clockVars

\* runSimulationLoop.
Arm(t) ==
    /\ ArmTimer(t)
    /\ StartTimer(t)

Finish ==
    /\ FinishSimulation
    /\ UNCHANGED clockVars

\* executeActionOnFinishedTimer.
Fire(t) ==
    /\ PopNextHandlers(t)
    /\ TimerFires

TimePasses ==
    /\ now < MaxReal
    /\ core = "timer" => now < expiry + Lag
    /\ core = "handlers" => now < changed + Lag
    /\ now' = now + 1
    /\ UNCHANGED <<debug, mSimTime, expiry, changed, listVars>>

\* The simulation is over, or the bound on real time is reached.
Stopped ==
    /\ core = "finished" \/ now = MaxReal
    /\ UNCHANGED vars

Init ==
    /\ ListInit
    /\ ClockInit

Next ==
    \/ \E t \in Times : Insert(t) \/ Arm(t) \/ Fire(t)
    \/ Finish
    \/ TimePasses
    \/ Stopped

Spec == Init /\ [][Next]_vars
-----------------------------------------------------------------------------
\* Every variable has its type.
TypeOK ==
    /\ ListTypeOK
    /\ ClockTypeOK

\* The map of lists is a set of future actions: nothing is lost or taken
\* twice, time only advances, all actions of a time point are taken
\* together and in the order they were inserted (ActionList.cpp), and they
\* are those of the time point the timer was armed for.
IsFutureActionSet == Set!Spec

\* Updates of the clock only advance it (the enforce of updateSimTime),
\* whatever the rounding of floats does.
SimTimeMonotone == [][mSimTime <= mSimTime']_vars

\* The timer fires when the time point is reached in real time, or at once
\* if it is past, up to the rounding of the two products
\* (SteadyClock::getDurationUntil: "returns how many (real) nanoseconds have
\* to be waited until the passed time is reached").  With a DebugClock the
\* simulation falls behind real time but never overtakes it.
TimerIsAccurate ==
    core = "timer" =>
        LET due == Max2((mCurrentActionTime * Den) \div Num, changed)
            tolerance == Ulp(changed) + Ulp(Max2(expiry - changed, 0)) + 1
        IN  IF debug THEN expiry >= mCurrentActionTime
                     ELSE expiry \in (due - tolerance)..(due + tolerance)
=============================================================================
