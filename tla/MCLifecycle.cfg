SPECIFICATION FairSpec
CONSTANTS
    Users = {u1}
    Keys = {k1}
    NoKey = NoKey
    NoOne = NoOne
    Requests = {r1, r2, r3}
    Legacy = {}
    Commands <- LifecycleCommands
CHECK_DEADLOCK FALSE
INVARIANT SerialCallsAreValid
PROPERTY EveryCallEnds
