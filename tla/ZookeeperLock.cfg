SPECIFICATION LockFairSpec
CONSTANTS
    Hosts = {a, b, c}
    NoNode = NoNode
    MaxCrashes = 2
INVARIANTS
    ExclusiveUnlessOverrun
    LockInv
PROPERTIES
    LockProgress
