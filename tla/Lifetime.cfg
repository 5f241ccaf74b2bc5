SPECIFICATION LifeFairSpec
CONSTANTS
    Actors = {"r", "a", "b"}
    Parents <- Triangle
    NoActor = NoActor
    MaxExtra = 1
CHECK_DEADLOCK FALSE
INVARIANTS
    BottomUp
    LifeInv
PROPERTIES
    DeletedDestroyed
