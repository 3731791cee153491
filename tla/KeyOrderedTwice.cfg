SPECIFICATION Spec
CONSTANTS
    c1 = c1
    c2 = c2
    k1 = k1
    k2 = k2
    k3 = k3
    Calls = {c1, c2}
    Keys = {k1, k2, k3}
    Locals = {400}
    Rates = {2}
    MaxTries = 3
    MaxEarned = 800
SYMMETRY Symmetric
INVARIANT KeyOrdersOnce
