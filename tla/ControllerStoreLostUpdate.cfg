SPECIFICATION Spec
CONSTANTS
    Process = {p1, p2, p3}
    Op = {a, b}
    None = None
    EndPoints <- EndLocked
    MaxClock = 1
PROPERTIES
    NoLostUpdate
CHECK_DEADLOCK FALSE
