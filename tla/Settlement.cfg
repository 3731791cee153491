SPECIFICATION Spec
CONSTANTS
    r1 = r1
    r2 = r2
    Requests = {r1, r2}
    Ops = {"release", "refund", "requestRelease", "submit"}
    Faults = {"crash", "db", "enqueue", "rpc", "receipt"}
    MaxAttempts = 3
    MaxStalls = 1
    BullEnabled = TRUE
SYMMETRY RequestSymmetry
INVARIANTS
    TypeOK
    PayoutBooked
    StatusBooked
    SingleSuccess
    CreditsBounded
    ListenerAddsNothing
PROPERTIES
    ImplementsEscrow
    WorkRunsOut
CHECK_DEADLOCK FALSE
