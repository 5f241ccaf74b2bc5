SPECIFICATION TriggerFairSpec
CONSTANTS
    Callers = {c1, c2, c3}
    ctl = ctl
    Workers = {w1, w2}
    MaxSets = 2
    MaxSwitches = 4
CHECK_DEADLOCK FALSE
INVARIANTS
    OneWorker
PROPERTIES
    SetAnswered
