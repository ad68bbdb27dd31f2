SPECIFICATION FairSpec
CONSTANTS
    Procs = {p1, p2, p3}
    Ops <- AllOps
    Origin = Origin
    NoOne = NoOne
CHECK_DEADLOCK FALSE
INVARIANTS
    RebuildsSerialized
    RebuildIsComplete
    NoOrphanAudit
    SeededOnce
PROPERTY EveryOperationEnds
