SPECIFICATION FairSpec
CONSTANTS
    Procs = {p1, p2}
    MaxWrites = 3
INVARIANTS LeaseIsALock SlowWorkerKeepsNode
PROPERTIES AbandonedNodeIsReclaimed
CHECK_DEADLOCK FALSE
