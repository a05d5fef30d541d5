SPECIFICATION FairSpec
CONSTANTS
    Attempt = {a1, a2, a3}
    Key = {k1, k2}
    Request = {r1, r2}
    MaxExpiries = 1
    None = None
INVARIANTS
    WorkedOnce
    StoredIffDone
    AnswersAgree
PROPERTIES
    EveryAttemptEnds
CHECK_DEADLOCK FALSE
