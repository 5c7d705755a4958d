CONSTANTS
    u1 = u1
    u2 = u2
    s1 = s1
    s2 = s2
    k1 = k1
    c1 = c1
    c2 = c2
    Users = {u1, u2}
    Sids = {s1, s2}
    Keys = {k1}
    Calls = {c1, c2}
    Merchants = {u1}
    None = None
    Bad = Bad
SPECIFICATION Spec
SYMMETRY Symmetry
INVARIANTS
    RevocationIsFinal
    SessionKeepsItsUser
    SessionEndsForGoodUnlessRaced
CHECK_DEADLOCK FALSE
