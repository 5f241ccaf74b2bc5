SPECIFICATION FairSpec
CONSTANTS
    Groups = {0, 1, 2}
    Instances = {0}
    t1 = t1
    t2 = t2
    t3 = t3
    t4 = t4
    Tasks = {t1, t2, t3, t4}
    EntryOf <- MCEntryOf
    Rules <- MCRules
    MaxSeqno = 3
    NULL = NULL
INVARIANTS
    MutualExclusion
    NoLostWakeup
    IInv
PROPERTIES
    Implements
    WaitingTaskLeavesWaitQ
