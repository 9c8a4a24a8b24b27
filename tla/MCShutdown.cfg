SPECIFICATION Spec
CONSTANTS
    Cores = 5
    Producers = {0, 1, 2, 3}
    Reserve = 4
    MaxRecords = 9
INVARIANTS EveryRecordOnce
PROPERTIES FullQueueIsTaken StopReachesConsumer WorkersJoined
