CONSTANTS
    Process = {p1, p2}
    Run = {r1, r2}
    None = None
    Deadline <- Deadlines
    MaxClock = 2
    MaxFailures = 1
    EndPoints <- AllPoints
    FailPoints <- AllPoints
    Discipline = {"initializer", "oneCall", "fresh", "oneKind"}
SPECIFICATION RetrySpec
INVARIANTS
    ClaimTracked
    ArchivesCoherent
    BoundRunsVerify
PROPERTIES
    ImplementsClaim
    AdmissionRecovers
    CloseFinishes
CHECK_DEADLOCK FALSE
