SPECIFICATION Spec
CONSTANTS
    Users = {u1}
    Keys = {k1}
    NoKey = NoKey
    NoOne = NoOne
    Requests = {r1, r2}
    Legacy = {}
    Commands <- RetryCommands
SYMMETRY RequestSymmetry
CHECK_DEADLOCK FALSE
INVARIANT RetryIsReplayed
