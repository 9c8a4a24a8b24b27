SPECIFICATION Spec
CONSTANTS
    SumoIds = {a, b, c}
    StartUpTimes = {0, 2, 511, 512}
INVARIANTS IdsAreOwn NothingThrows StopsEmpty
PROPERTIES UpdatesAreCurrent EveryVehicleUpdated ArrivedRemoved
