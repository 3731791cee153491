SPECIFICATION Spec
CONSTANTS
    d1 = d1
    d2 = d2
    e1 = e1
    e2 = e2
    l1 = l1
    l2 = l2
    None = None
    Dids = {d1, d2}
    Emails = {e1, e2}
    Logins = {l1, l2}
SYMMETRY Symmetric
INVARIANTS
    TypeOK
    LoginHasWallet
