SPECIFICATION Spec
CONSTANTS
    Sessions = {s1, s2, s3}
    Lines0 = {a}
    Prices = {1, 2}
    Markups = {0, 1}
    Groups = {g, h}
    Commands <- EveryCommand
    MaxOpen = 2
    Priced <- SumPriced
    NoOne = NoOne
    NoRow = NoRow
SYMMETRY SessionSymmetry
CHECK_DEADLOCK FALSE
INVARIANTS
    NoOrphanLines
    AcknowledgedLines
PROPERTIES
    UndisturbedTotalIsRight
    LockHoldsUndisturbed
    ReorderRestoresPositions
