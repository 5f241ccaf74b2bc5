SPECIFICATION Spec
CONSTANTS
    Partitions = {"p", "q"}
    HashUUID <- OnePartition
    UUIDs = {1, 2}
    NumReadRequestToBunch = 2
    MaxRequestsToYield = 3
    MaxIterations = 2
    Callers = {c, d}
    MaxReinits = 2
    MaxWrites = 1
    MaxQueue = 3
CHECK_DEADLOCK FALSE
SYMMETRY Symmetry
INVARIANTS
    SyncState
PROPERTIES
    BulkSyncOnce
    DestroyedIdle
