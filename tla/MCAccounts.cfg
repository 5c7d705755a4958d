CONSTANTS
    u1 = u1
    u2 = u2
    a1 = a1
    a2 = a2
    c1 = c1
    c2 = c2
    w1 = w1
    w2 = w2
    m1 = m1
    m2 = m2
    Users = {u1, u2}
    Addresses = {a1, a2}
    Calls = {c1, c2}
    Wallets = {w1, w2}
    Applications = {m1, m2}
    Admins = {u2}
    None = None
    NilId = NilId
SPECIFICATION Spec
SYMMETRY Symmetry
INVARIANTS
    OnePerUser
    AddressHasOneOwner
CHECK_DEADLOCK FALSE
