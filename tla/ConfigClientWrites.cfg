SPECIFICATION FairSpec
CONSTANTS
    Partitions = {"p"}
    HashUUID <- OnePartition
    UUIDs = {1}
    NumReadRequestToBunch = 2
    MaxRequestsToYield = 3
    MaxIterations = 2
    Callers = {c}
    MaxReinits = 1
    MaxWrites = 3
    MaxQueue = 3
CHECK_DEADLOCK FALSE
INVARIANTS
    Converged
PROPERTIES
    EventuallyConverged
