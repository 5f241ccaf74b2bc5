\* A client with two faults and one new collector list, at any time.
SPECIFICATION FairSpec
CONSTANTS
    c1 = c1
    c2 = c2
    NoCollector = NoCollector
    CollectorLists <- Lists
    MaxUpdates = 1
    MaxFaults = 2
INVARIANT SessionsAccounted
INVARIANT TimerCovers
PROPERTY ActsOnOwnSession
PROPERTY StaysEstablished
CHECK_DEADLOCK FALSE
