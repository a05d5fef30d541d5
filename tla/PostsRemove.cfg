SPECIFICATION Spec
CONSTANTS
    Worker = {w1, w2}
    Post = {p1, p2, p3}
    Title <- MCTitle
    MaxTime = 2
    MaxVersion = 3
PROPERTIES
    DraftersLeavePublishedAlone
CHECK_DEADLOCK FALSE
