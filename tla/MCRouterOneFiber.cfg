SPECIFICATION Spec
CONSTANTS
    Indications = {i1}
    CaPeriod = 7
    SelfDuration = 2
    Gaps = {2, 3, 8}
    MaxActions = 7
    MaxTime = 24
    None = None
CHECK_DEADLOCK FALSE
INVARIANTS OneFiber
