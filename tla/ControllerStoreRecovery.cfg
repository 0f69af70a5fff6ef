SPECIFICATION RetrySpec
CONSTANTS
    Process = {p1, p2}
    Op = {a, b}
    None = None
    EndPoints <- EndAnywhere
    MaxClock = 2
PROPERTIES
    StaleLockReclaimed
    RetirementFinishes
CHECK_DEADLOCK FALSE
