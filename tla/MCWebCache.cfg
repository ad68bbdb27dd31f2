SPECIFICATION Spec
CONSTANTS
    Watched = {"estimates", "estimate", "proposal", "billing-ledger"}
    Visited = {"list", "detail", "billing"}
    Slots = {1, 2}
    NoData = NoData
    MaxWrites = 2
INVARIANT ValidDataAreCurrent
PROPERTY AcknowledgedIsShown
