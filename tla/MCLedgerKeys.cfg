SPECIFICATION Spec
CONSTANTS
    Users = {u1, u2}
    Keys = {k1}
    NoKey = NoKey
    NoOne = NoOne
    Requests = {r1, r2, r3}
    Legacy = {old}
    Commands <- KeyedCommands
SYMMETRY RequestSymmetry
CHECK_DEADLOCK FALSE
INVARIANTS
    ExactlyOnce
    AcknowledgedIsDurable
    RefusedLeavesNothing
    ConflictIsReplayable
    RowHasItsRecord
PROPERTY ImplementsPromise
