CONSTANTS
    Process = {p1, p2}
    Run = {r1}
    None = None
    Deadline <- SameDeadline
    MaxClock = 2
    MaxFailures = 0
    EndPoints = {}
    FailPoints = {}
    Discipline = {"initializer", "fresh", "oneKind"}
SPECIFICATION Spec
PROPERTY RecordsImmutable
CHECK_DEADLOCK FALSE
