SPECIFICATION QuietSpec
CONSTANTS
    Process = {p1, p2, p3}
    Op = {a, b}
    None = None
    EndPoints <- EndAnywhere
    MaxClock = 2
INVARIANTS
    TypeOK
    OneHolder
    RetiredMadeNoProgress
PROPERTIES
    NoLostUpdate
    ImplementsRecord
SYMMETRY Symmetry
CHECK_DEADLOCK FALSE
