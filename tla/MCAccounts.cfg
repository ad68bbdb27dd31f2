SPECIFICATION Spec
CONSTANTS
    Calls = {c1, c2, c3, c4}
    Passwords = {p, q}
    None = None
SYMMETRY Renaming
INVARIANTS OneRegistration LoginFollowsReset SupersededIsRefused
CHECK_DEADLOCK FALSE
