SPECIFICATION FairSpec
CONSTANTS
    Clients = {c1}
    Tasks = {k1, k2, k3}
    NULL = NULL
    MaxStarts = 3
CHECK_DEADLOCK FALSE
INVARIANTS
    TimerState
    CancelledNotServed
PROPERTIES
    RunningEnds
    DeletedFreed
