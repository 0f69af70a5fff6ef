CONSTANTS
    Process = {p1, p2}
    Run = {r1}
    None = None
    Deadline <- SameDeadline
    MaxClock = 2
    MaxFailures = 1
    EndPoints <- EndBeforeBind
    FailPoints = {}
    Discipline = {"initializer", "oneCall", "fresh", "oneKind"}
SPECIFICATION Spec
INVARIANT ClosedRunsVerify
CHECK_DEADLOCK FALSE
