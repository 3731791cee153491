SPECIFICATION Spec
CONSTANTS
    r1 = r1
    r2 = r2
    r3 = r3
    r4 = r4
    q1 = q1
    q2 = q2
    f1 = f1
    f2 = f2
    Requests = {r1, r2, r3, r4}
    Ramps = {q1, q2}
    Freelancers = {f1, f2}
    Faults = {"rpc", "db", "crash"}
SYMMETRY Symmetric
INVARIANTS
    TypeOK
    PaidFirst
    LockOnce
    AwaitingIsPayable
PROPERTY ImplementsOrder
CHECK_DEADLOCK FALSE
