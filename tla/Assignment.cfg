SPECIFICATION Spec
CONSTANTS
    u1 = u1
    u2 = u2
    v1 = v1
    v2 = v2
    a1 = a1
    a2 = a2
    i1 = i1
    i2 = i2
    c1 = c1
    c2 = c2
    Users = {u1, u2}
    Vaults = {v1}
    Contracts = {a1, a2}
    Invites = {i1, i2}
    Calls = {c1, c2}
    Arbiter = Arbiter
    None = None
SYMMETRY Symmetric
INVARIANTS
    TypeOK
    PaysLinked
    DepositsArePaid
