---------------------------- MODULE SteadyClock ----------------------------
(***************************************************************************)
(* The two clocks main.cpp makes.  SteadyClock couples simulated to real   *)
(* time: before every time point the core asks it how long to wait.        *)
(* DebugClock, for --debug, takes simulated time to be that of the core    *)
(* and waits for the whole step.  Times are whole nanoseconds, counted     *)
(* from mStartTime.                                                        *)
(*                                                                         *)
(* A duration times the speed factor, a float, is computed in floats: the  *)
(* count is rounded, to even, to the bits of a float's significand.  The   *)
(* conversion back to nanoseconds drops the fraction.  The speed is the    *)
(* option --sim-speed, 1 unless it is given.                               *)
(***************************************************************************)
EXTENDS Integers

CONSTANTS
    Num, Den,     \* mSimSpeed = Num / Den, a power of two: the product is exact
    Mantissa,     \* bits of the significand (24 in the code)
    MaxExponent   \* BOUND: of the floats

ASSUME ClockAssumption ==
    /\ {Num, Den, Mantissa} \subseteq Nat \ {0}
    /\ MaxExponent \in Nat

VARIABLES
    debug,      \* debug_mode: the clock is a DebugClock
    now,        \* std::chrono::steady_clock::now() - mStartTime
    mSimTime,   \* simulated time of the last update
    expiry,     \* when the timer fires
    changed     \* when the timer was last armed or fired

clockVars == <<debug, now, mSimTime, expiry, changed>>

-----------------------------------------------------------------------------
(* Floats.                                                                 *)

PowerOfTwo[k \in 0..(Mantissa + MaxExponent)] == IF k = 0 THEN 1 ELSE 2 * PowerOfTwo[k - 1]

\* Significands are below this.
Significands == PowerOfTwo[Mantissa]

\* The distance between neighbouring floats below n.
Ulp(n) ==
    CHOOSE u \in { PowerOfTwo[k] : k \in 0..MaxExponent } :
        /\ n < Significands * u
        /\ u = 1 \/ Significands * u <= 2 * n

Nearest(n) ==
    LET u == Ulp(n)
        up == \/ 2 * (n % u) > u
              \/ 2 * (n % u) = u /\ (n \div u) % 2 = 1
    IN  u * ((n \div u) + (IF up THEN 1 ELSE 0))

\* duration_cast<nanoseconds>(d * mSimSpeed)
TimesSpeed(d) ==
    IF d >= 0 THEN (Nearest(d) * Num) \div Den ELSE -((Nearest(-d) * Num) \div Den)

-----------------------------------------------------------------------------
(* SteadyClock.                                                            *)

\* Faulty variant: the clock is restarted whenever the timer is armed.
SinceArmed == TimesSpeed(now - changed)

\* getSimTimeNow.
ElapsedSimTime == TimesSpeed(now)

\* Faulty variant: the whole time since the start is waited for.
WholeDuration(until) == TimesSpeed(until)

\* getDurationUntil of SteadyClock, which has updated mSimTime first.
DurationUntil(until) == TimesSpeed(until - ElapsedSimTime)

\* getDurationUntil of DebugClock, which updates mSimTime to the time point.
DebugDurationUntil(until) == until - mSimTime

-----------------------------------------------------------------------------
(* The timer of the core.                                                  *)

\* expires_after of a negative duration: a timer that fires at once.
NotNegative(d) == IF d < 0 THEN 0 ELSE d

StartTimer(until) ==
    /\ mSimTime' = IF debug THEN until ELSE ElapsedSimTime
    /\ expiry' = now + NotNegative(IF debug THEN DebugDurationUntil(until) ELSE DurationUntil(until))
    /\ changed' = now
    /\ UNCHANGED <<debug, now>>

TimerFires ==
    /\ expiry <= now
    /\ changed' = now
    /\ UNCHANGED <<debug, now, mSimTime, expiry>>

ClockInit ==
    /\ debug \in BOOLEAN
    /\ now = 0
    /\ mSimTime = 0
    /\ expiry = 0
    /\ changed = 0
-----------------------------------------------------------------------------
ClockTypeOK ==
    /\ debug \in BOOLEAN
    /\ {now, mSimTime, expiry, changed} \subseteq Nat

Max2(a, b) == IF a < b THEN b ELSE a
=============================================================================
