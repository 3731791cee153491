SPECIFICATION Spec
CONSTANTS
    r1 = r1
    r2 = r2
    r3 = r3
    d1 = d1
    d2 = d2
    Requests = {r1, r2, r3}
    Disputes = {d1, d2}
    Opened = {d1}
    Amounts = {0, 899, 900}
    Total = 999
    Window = 2
    Cap = 4
    MaxTime = 4
    Faults = {"rpc", "timeout", "revert"}
SYMMETRY RequestSymmetry
INVARIANTS
    TypeOK
    MediationConsented
    
    SplitConserves
    
PROPERTY WindowOnlyExtends
CHECK_DEADLOCK FALSE
