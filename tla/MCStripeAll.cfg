SPECIFICATION Spec
CONSTANTS
    Users = {u1, u2}
    Keys = {k1}
    NoKey = NoKey
    None = None
    Calls = {c1, c2}
    Hooks = {h1, h2}
    Existing = {x1}
    Commands <- EveryCommand
    MaxEvents = 2
SYMMETRY ActorSymmetry
CHECK_DEADLOCK FALSE
INVARIANTS
    EventBookedOnce
    AnswerNamesItsCharge
    OneRowPerCharge
    InOrderInSync
PROPERTY EventsFindTheirUser
