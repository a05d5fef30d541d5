SPECIFICATION Spec
CONSTANTS
    Event = {1, 2}
    HandlerCount = 1
    Relay = {r1, r2}
    Consumer = {c1, c2}
    BatchSize = 1
    Attempts = 2
    MaxStalled = 1
    MaxFaults = 3
    MaxLosses = 1
    None = None
SYMMETRY MCSymmetry
INVARIANTS
    LostOnlyByTheQueue
    RepeatsNeedACut
CHECK_DEADLOCK FALSE
