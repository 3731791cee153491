SPECIFICATION FairSpec
CONSTANTS
    r1 = r1
    r2 = r2
    Requests = {r1, r2}
    Ops = {"release", "refund", "requestRelease", "submit"}
    Faults = {"rpc", "receipt"}
    MaxAttempts = 3
    MaxStalls = 1
    BullEnabled = TRUE
INVARIANT InProgressIsDriven
PROPERTIES
    JobsFinish
    SettlementLeavesProgress
CHECK_DEADLOCK FALSE
