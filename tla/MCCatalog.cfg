SPECIFICATION Spec
CONSTANTS
    Calls = {c1, c2, c3}
    Payloads <- SomePayloads
    Seeded <- NewCatalog
    None = None
SYMMETRY CallSymmetry
INVARIANTS NamesAreUnique AmbiguityStays LastWriteStays
CHECK_DEADLOCK FALSE
