SPECIFICATION LockSpec
CONSTANTS
    Hosts = {a, b}
    NoNode = NoNode
    MaxCrashes = 0
INVARIANTS
    Exclusive
