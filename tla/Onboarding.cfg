SPECIFICATION Spec
CONSTANTS
    c1 = c1
    c2 = c2
    Calls = {c1, c2}
    NewName = "other"
    Faults = {"partna", "db"}
SYMMETRY Symmetric
INVARIANTS
    TypeOK
    VerifiedIsVouched
    ReadyIsVerified
    AccountsAreVerified
CHECK_DEADLOCK FALSE
