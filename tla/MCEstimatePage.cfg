SPECIFICATION Spec
CONSTANTS
    Groups = {g, h}
    Values <- SomeValues
    Shown <- Rounded
    Blank = Blank
    None = None
    Slots = {r1, r2, r3}
    Given = 2
    MaxLines = 3
    MaxRequests = 3
    MaxChanged = 1
SYMMETRY Renaming
INVARIANTS TypeOK SubmittedTakesEffect ViewCatchesUp
CHECK_DEADLOCK FALSE
