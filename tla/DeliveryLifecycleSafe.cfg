CONSTANTS
    Process = {p1, p2}
    Worktree = {w}
    Branch = {b}
    CheckedOut <- AllCheckedOut
    Entries = 2
    LastPhase = 2
    Evidence = {e1}
    None = None
    Disciplines <- OneOrMany
    EndPoints <- Removing
    MaxChanges = 1
    MaxFailures = 1
SPECIFICATION RetrySpec
INVARIANTS
    TypeOK
    ReceiptsTruthful
PROPERTIES
    RemovesOnlyDelivered
    ImplementsQueue
    CleanupFinishes
CHECK_DEADLOCK FALSE
