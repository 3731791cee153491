SPECIFICATION Spec
CONSTANTS
    r1 = r1
    r2 = r2
    c1 = c1
    c2 = c2
    p1 = p1
    p2 = p2
    Requests = {r1}
    PaycrestOrders = {c1, c2}
    PartnaRamps = {p1, p2}
    Faults = {"db"}
    MaxAttempts = 3
    MaxStalls = 1
INVARIANT OneProviderPays
CHECK_DEADLOCK FALSE
