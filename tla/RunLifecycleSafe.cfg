CONSTANTS
    Process = {p1, p2}
    Run = {r1, r2}
    None = None
    Deadline <- Deadlines
    MaxClock = 2
    MaxFailures = 0
    EndPoints <- EndSafe
    FailPoints = {}
    Discipline = {}
SPECIFICATION Spec
SYMMETRY Symmetry
INVARIANTS
    TypeOK
    OneActiveRun
    BoundHasRun
PROPERTY RecordsKept
CHECK_DEADLOCK FALSE
