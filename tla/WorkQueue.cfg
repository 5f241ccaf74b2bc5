SPECIFICATION FairSpec
CONSTANTS
    Producers = {p1, p2}
    Runners = {r1, r2}
    ctl = ctl
    NULL = NULL
    size_ = 3
    bounded_ = TRUE
    max_iterations_ = 2
    HighWater <- High
    LowWater <- Low
    OnEntryResults <- MayDefer
    SIZE_MAX = 7
    MaxEnqueues = 2
    MaxEntries = 3
    MaxDisables = 2
    WithShutdown = TRUE
CHECK_DEADLOCK FALSE
INVARIANTS
    QueueState
    NoStrandedEntry
    FifoOnce
    ShutdownQuiet
PROPERTIES
    FlowControl
    EveryEntryHandled
