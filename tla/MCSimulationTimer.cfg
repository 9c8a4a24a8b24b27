SPECIFICATION Spec
CONSTANTS
    MaxTime = 8
    MaxInserts = 4
    Num = 1
    Den = 1
    Mantissa = 2
    MaxExponent = 10
    MaxReal = 13
    Lag = 2
INVARIANTS TimerIsAccurate
PROPERTIES IsFutureActionSet SimTimeMonotone
