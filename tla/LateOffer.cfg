SPECIFICATION Spec
CONSTANTS
    r1 = r1
    d1 = d1
    Requests = {r1}
    Disputes = {d1}
    Opened = {d1}
    Amounts = {500}
    Total = 999
    Window = 2
    Cap = 4
    MaxTime = 4
    Faults = {}
INVARIANT NoticeIsTrue
CHECK_DEADLOCK FALSE
