CONSTANTS
    Procs = {p1, p2}
    Escape = TRUE
    MaxRecords = 3
SPECIFICATION FairSpec
INVARIANTS AnchorsAPrefix NoFalseTrust NoFalseAlarm
PROPERTY EventuallyAnchored
CHECK_DEADLOCK FALSE
