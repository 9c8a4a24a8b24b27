SPECIFICATION Spec
CONSTANTS
    Ids = {1, 248, 249}
    SubscribedIds = {1}
    Vehicles = {1, 2}
    SubscribedDomains = {"MULTIENTRYEXIT", "PERSON"}
    SubscribedVariables = {64}
    SubscribedTypes = {12}
    MaxSubscriptions = 2
INVARIANTS  OnlyRefusalsThrow
PROPERTIES StepBringsResults IsRemoteCall CallsEnd
CHECK_DEADLOCK FALSE
