SPECIFICATION Spec
CONSTANTS
    Sessions = {s1, s2}
    Lines0 = {a}
    Prices = {1, 2}
    Markups = {0, 1}
    Groups = {g}
    Commands <- RepricingCommands
    MaxOpen = 2
    Priced <- SumPriced
    NoOne = NoOne
    NoRow = NoRow
SYMMETRY SessionSymmetry
CHECK_DEADLOCK FALSE
INVARIANT TotalsMatch
