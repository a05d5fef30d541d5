SPECIFICATION Spec
CONSTANTS
    List = {"students"}
    Millisecond = 2
    Limit = 1
    Chosen = {1, 2}
    MaxRows = 3
    MaxClock = 3
INVARIANTS
    WalksEveryRow
CHECK_DEADLOCK FALSE
