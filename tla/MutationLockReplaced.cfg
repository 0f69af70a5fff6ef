SPECIFICATION Spec
CONSTANTS
    Process = {p1, p2, p3}
    None = None
PROPERTY LiveLockKept
CHECK_DEADLOCK FALSE
